SPECIFICATION FairSpec
CONSTANTS
    a = a
    b = b
    c = c
    Old = Old
    Nobody = Nobody
    Requests = {a, b, c}
    Kinds <- Everything
    Starts <- Comings
    MaxAttempts = 2
CHECK_DEADLOCK FALSE
INVARIANTS PurgedMeansNoProfile CompleteMeansErased
PROPERTIES ProgressIsKept TombstoneDenies DeletionEnds
