SPECIFICATION Spec
CONSTANTS
    MaxCrash = 1
    MaxInt = 2
    MaxFail = 1
INVARIANTS
    OneWorker
PROPERTIES
    OnlySigintEndsSupervisor
    Restarted
    InterruptWhileWaitingStopsBoth
CHECK_DEADLOCK FALSE
