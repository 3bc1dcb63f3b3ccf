SPECIFICATION VisitsFairSpec
CONSTANTS
    r1 = r1
    r2 = r2
    r3 = r3
    k1 = k1
    k2 = k2
    e1 = e1
    e2 = e2
    Requests = {r1, r2, r3}
    Owner = Owner
    Keys = {k1, k2}
    Addresses = {e1, e2}
    Owned = e1
    Guests <- TheScripts
    Life = 2
    TokenLife = 1
    Window = 2
    Times = 1
    Batch = 2
    Production = TRUE
    Faults = 2
    Absent = Absent
CHECK_DEADLOCK FALSE
INVARIANTS OneAccountEach DeadlineHolds BudgetKept
PROPERTY VisitsEnd
