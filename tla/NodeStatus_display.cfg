SPECIFICATION StatusSpec
CONSTANTS
    Nodes = {n1}
    StatusTTL = 3
    DisplayAge = 3
    MaxNow = 8
    MaxFaults = 1
    MaxRestarts = 1
    NoNode = NoNode
INVARIANTS
    StatusTypeOK
    SilenceIsDisplayed
    ReportingIsDisplayed
