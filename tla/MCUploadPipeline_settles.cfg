SPECIFICATION FairSpec
CONSTANTS
    r1 = r1
    r2 = r2
    r3 = r3
    r4 = r4
    r5 = r5
    march = march
    april = april
    may = may
    june = june
    july = july
    Requests = {r1, r2, r3, r4, r5}
    Contents = {march, april, may, june, july}
    Content <- OneOfEach
    Kind <- KindOfFile
    Sound = {april, june, july}
    Arrivals = 1
    ConcurrentJobs = 1
    MaxAttempts = 3
    Workers = 1
    ReservationAge = 1
    StuckAge = 2
    ReviewAge = 2
    FileAge = 2
    ReceiptAge = 3
CHECK_DEADLOCK FALSE
PROPERTIES EveryUploadSettles EveryClaimReturns
INVARIANTS CompleteIsCharged StoryAgrees
