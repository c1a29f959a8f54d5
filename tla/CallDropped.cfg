SPECIFICATION Spec
CONSTANTS
    c1 = c1
    c2 = c2
    Call = {c1}
    MaxCount = 1
    MaxAck = 1
PROPERTIES
    DroppedWithoutAck
CHECK_DEADLOCK FALSE
