SPECIFICATION Spec
CONSTANTS
    r1 = r1
    r2 = r2
    r3 = r3
    r4 = r4
    r5 = r5
    march = march
    april = april
    may = may
    june = june
    july = july
    Requests = {r1, r2}
    Contents = {march, april, may, june, july}
    Content <- SameContent
    Kind <- KindOfFile
    Sound = {april, june, july}
    Arrivals = 2
    ConcurrentJobs = 2
    MaxAttempts = 2
    Workers = 1
    ReservationAge = 1
    StuckAge = 1
    ReviewAge = 2
    FileAge = 2
    ReceiptAge = 2
CHECK_DEADLOCK FALSE
INVARIANTS OneUploadPerContent ObjectsReachable
