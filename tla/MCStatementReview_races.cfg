SPECIFICATION ReviewFairSpec
CONSTANTS
    l1 = l1
    coffee = coffee
    c1 = c1
    c2 = c2
    p1 = p1
    p2 = p2
    d1 = d1
    Rows = {l1}
    Charge <- OneCharge
    Line <- FirstLine
    Confirms = {c1, c2}
    Patches = {p1, p2}
    Discards = {d1}
    Casts <- Gatherings
    Sweep = Sweep
    NoOne = NoOne
    MaxRuns = 2
CHECK_DEADLOCK FALSE
INVARIANT ImportedOnce
PROPERTIES PurgedAutomatically RequestsAnswered
