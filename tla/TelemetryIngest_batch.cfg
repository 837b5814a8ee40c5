SPECIFICATION Spec
CONSTANTS
    Tags <- MCTags
    Series <- MCSeries
    SeriesOf <- MCSeriesOf
    MaxReadings = 3
    MaxRuns = 2
INVARIANTS
    LostOnlyByFault
    WindowsInOrder
PROPERTY
    ReadingsLeaveMemory
CHECK_DEADLOCK FALSE
