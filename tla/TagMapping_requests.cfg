SPECIFICATION Spec
CONSTANTS
    Ids = {i1, i2, i3}
    Keys = {k1, k2}
    Names = {x1, x2}
    Handlers = {h1, h2}
    Mappings <- SmallMappings
    NoId = NoId
    NoKey = NoKey
    NoName = NoName
SYMMETRY Symmetry
INVARIANTS
    TypeOK
    ReplacementHolds
PROPERTIES
    ActuatorsSpared
    OrphansAreLeftOver
CHECK_DEADLOCK FALSE
