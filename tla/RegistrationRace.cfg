SPECIFICATION Safety
CONSTANTS
    Expire = 3600
    RetryAfter = 120
    RefreshAfter = 900
    Tenth = 10
    Margin = 6
    Slack = 15
    TimerF = 32
    LoopGuard = 60
    MaxRetry = 3
    MaxFailover = 60
    NonceLife = 300
    Grants = {3600}
    MinExpires = 60
    MaxMapping = 1
    MaxLate = 0
INVARIANT DeletedFirst
CHECK_DEADLOCK FALSE
