SPECIFICATION FairSpec
CONSTANTS
    a1 = a1
    a2 = a2
    q1 = q1
    q2 = q2
    r1 = r1
    r2 = r2
    w1 = w1
    w2 = w2
    w3 = w3
    Asks = {a1, a2}
    Questions = {q1, q2}
    Scripts <- TheScripts
    Rows = {r1, r2}
    Held = {r1}
    Writes = {w1, w2, w3}
    Imports = {w3}
    Target <- Targets
    Nothing = Nothing
CHECK_DEADLOCK FALSE
INVARIANTS ReplayCurrent CacheNamesAnswers
PROPERTY EveryAskEnds
