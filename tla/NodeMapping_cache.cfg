SPECIFICATION MFairSpec
CONSTANTS
    Modules = {m1, m2}
    Nodes = {n1}
    Handlers = {h1, h2}
    MaxFaults = 1
    NoModule = NoModule
    NoNode = NoNode
    MaxEdits = 2
INVARIANTS
    MTypeOK
    StaleOnlyIfExcused
    DanglingOnlyByRace
    InsertNeverCollides
PROPERTIES
    SettledMappingIsServed
    DiscoveryKeepsPairing
