SPECIFICATION Spec
CONSTANTS
    Session = {s1, s2}
    Phone = {n1, n2}
    Port = {1, 2}
    HasUrl = {n1}
    None = None
INVARIANTS
    EveryPullWatched
    SendersOwned
PROPERTIES
    MediaLostOnlyWithCause
    IdleStreamReaped
CHECK_DEADLOCK FALSE
