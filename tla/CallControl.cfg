SPECIFICATION SpecWithOther
CONSTANTS
    c1 = c1
    c2 = c2
    Call = {c1, c2}
    MaxCount = 1
    MaxAck = 1
INVARIANTS
    SessionsHaveEnd
    AnsweredHasSession
    MediaHasSession
    TwoFinalsOnlyOnCancel
PROPERTIES
    InviteIsAnswered
    AnswerConfirmedOrDropped
    EndedCallsCleared
CHECK_DEADLOCK FALSE
