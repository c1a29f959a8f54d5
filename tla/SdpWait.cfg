SPECIFICATION WaitSpec
CONSTANTS
    Deadline = 3
    MaxSource = 2
INVARIANTS
    NoRunAfterReturn
    CompleteOrLate
PROPERTIES
    EventThreadGoesOn
CHECK_DEADLOCK FALSE
