SPECIFICATION Spec
CONSTANTS
    None = None
    MinTableRows = 2
    MaxOmissions = 1
    OmissionPercent = 5
    NearDays = 3
    CategoryDays = 90
    UnusualSamples = 3
    FamiliarSamples = 2
    LargeSamples = 2
    UnusualFloor = 5
    NewFloor = 10
    LargeFloor = 5
    MaxCandidates = 2
    FirstYear = 2008
    Years = 18
    FirstWeekday = 1
    NoPeriod = NoPeriod
    BaseCurrency = "USD"
    Unset = Unset
    Threshold = 3
    Cooldown = 5
    MaxAttempts = 2
    MaxNamed = 2
    MaxSupporting = 10
INVARIANTS ReadingHolds DetectingHolds AnsweringHolds
