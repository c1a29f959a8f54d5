SPECIFICATION Spec
CONSTANTS
    Answer = {"ok", "no"}
    T1 = 2
    T2 = 8
    T4 = 10
    Life = 32
    Delay = 1
INVARIANTS
    ServerOutlivesCopies
PROPERTIES
    OneCopyOnTheWay
    ImplementsExchange
CHECK_DEADLOCK FALSE
