SPECIFICATION Spec
CONSTANTS
    MaxReq = 3
    MaxTr = 3
    Method = {"INVITE", "BYE", "OPTIONS"}
INVARIANTS
    ReportedOnceInOrder
    SessionLastsAsDialog
PROPERTIES
    AnsweredOnce
    MessagesAnswered
    ByeReleases
CHECK_DEADLOCK FALSE
