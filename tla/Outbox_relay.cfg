SPECIFICATION FairSpec
CONSTANTS
    Events = {e1, e2, e3}
    Workers = {w1, w2}
    Oversized = {e2}
    BatchSize = 2
    BufferLimit = 1
    MaxNow = 1
    MaxFaults = 1
    NoEvent = NoEvent
INVARIANTS
    TypeOK
    OncePerMark
    OrderAcrossSeconds
    MissedOnlyInOutage
PROPERTIES
    ImplementsDelivery
    SentUnlessBlocked
CHECK_DEADLOCK FALSE
