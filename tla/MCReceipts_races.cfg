SPECIFICATION Spec
CONSTANTS
    r1 = r1
    r2 = r2
    t1 = t1
    e1 = e1
    e2 = e2
    k1 = k1
    k2 = k2
    p1 = p1
    x1 = x1
    Receipts = {r1, r2}
    Legible = {r1}
    Imported = {t1}
    Creates = {e1, e2}
    Links = {k1, k2}
    Patches = {p1}
    Deletes = {x1}
    Casts <- Everyone
    Nothing = Nothing
    MaxRuns = 2
CHECK_DEADLOCK FALSE
INVARIANTS TypeOK CreatedOnce LinkedOnce LinkModeTrue ReviewedIsOpen
PROPERTY SweepSparesConfirmed
