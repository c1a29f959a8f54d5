SPECIFICATION Spec
CONSTANTS
    Expire = 12
    RetryAfter = 2
    RefreshAfter = 5
    Tenth = 2
    Margin = 1
    Slack = 1
    TimerF = 1
    LoopGuard = 1
    MaxRetry = 1
    MaxFailover = 1
    NonceLife = 4
    Grants = {8, 12}
    MinExpires = 13
    MaxMapping = 1
    MaxLate = 1
INVARIANTS
    NoIdleLapse
    PeriodHonest
PROPERTIES
    RetriesSpaced
    StaysRegistered
CHECK_DEADLOCK FALSE
