SPECIFICATION ScheduleFairSpec
CONSTANTS
    Workers = {w1, w2, w3}
    NoOne = NoOne
    Ghost = Ghost
    Never = Never
    Interval = 4
    LockTTL = 3
    RunLimit = 2
INVARIANT OneRunner
PROPERTIES CompletionsSpaced SweepsRecur
