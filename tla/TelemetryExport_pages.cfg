SPECIFICATION Spec
CONSTANTS
    Series <- MCSeries
    Limit = 2
    Day = 2
    MaxWindow = 3
    MaxTime = 4
    MaxRows = 4
    MaxSteps = 1
    MaxLost = 1
    NoRow = NoRow
    NoCursor = NoCursor
    Default = Default
INVARIANTS
    TypeOK
    PagesInOrder
    SkippedOnlyIfExcused
    OnlyFaultsExcuse
CHECK_DEADLOCK FALSE
