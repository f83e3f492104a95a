SPECIFICATION FairSpec
CONSTANTS
    k1 = k1
    k2 = k2
    a = a
    b = b
    c = c
    l1 = l1
    l2 = l2
    None = None
    Keys = {k1, k2}
    Callers = {a, b, c}
    Loads = {l1, l2}
    MaxEntries = 1
    MaxVersion = 1
INVARIANTS
    TypeOK
    AnswersFresh
    SingleFlight
    CancelledByLastWaiter
    MapsAgree
    Bounded
PROPERTY
    EveryGetEnds
CHECK_DEADLOCK FALSE
