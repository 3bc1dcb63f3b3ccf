SPECIFICATION Spec
CONSTANTS
    u1 = u1
    u2 = u2
    a1 = a1
    a2 = a2
    l1 = l1
    l2 = l2
    m1 = m1
    m2 = m2
    k0 = k0
    k1 = k1
    k2 = k2
    one = one
    all = all
    Uploads = {u1, u2}
    Lines = {l1, l2}
    RowsOf <- OverlappingFiles
    MerchantOf <- OneMerchant
    Merchants = {m1, m2}
    Categories = {k0, k1, k2}
    Ruled = k0
    Unusual = {l2}
    Accounts = {a1, a2}
    Held <- OneAccount
    Hinted <- NoHints
    Edits = {one, all}
    Wanted <- Recategorise
    Matching = {all}
    Erases = TRUE
    Nothing = Nothing
    MaxRuns = 2
CHECK_DEADLOCK FALSE
INVARIANTS FilesWhole DecisionStands
PROPERTY KeepsBook
