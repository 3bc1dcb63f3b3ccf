SPECIFICATION Spec
CONSTANTS
    q1 = q1
    q2 = q2
    q3 = q3
    Requests = {q1, q2, q3}
    NoRequest = NoRequest
    MaxTime = 2
    DayLength = 2
    TTL = 1
    ConcurrentJobs = 2
    UploadsPerDay = 2
    BytesPerDay = 3
    StoredBytes = 3
    PagesPerDay = 2
    OpenImports = 2
    LedgerRows = 2
    SizeOf <- MCSizes
    PagesOf <- MCPages
    RowsOf <- MCRows
CHECK_DEADLOCK FALSE
INVARIANTS TypeOK UsageCountsConversions DailyUploadsBounded LimitsKept
