SPECIFICATION StatusSpec
CONSTANTS
    Nodes = {n1}
    StatusTTL = 3
    DisplayAge = 3
    MaxNow = 3
    MaxFaults = 0
    MaxRestarts = 0
    NoNode = NoNode
INVARIANT LastWillLasts
