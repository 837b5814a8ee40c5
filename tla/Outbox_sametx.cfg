SPECIFICATION Spec
CONSTANTS
    Events = {e1, e2}
    Workers = {w1, w2}
    Oversized = {}
    BatchSize = 2
    BufferLimit = 1
    MaxNow = 1
    MaxFaults = 1
    NoEvent = NoEvent
SYMMETRY Symmetry
INVARIANT BusinessRowHasOutboxRow
CHECK_DEADLOCK FALSE
