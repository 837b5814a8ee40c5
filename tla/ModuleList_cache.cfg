SPECIFICATION FairSpec
CONSTANTS
    Modules = {m1, m2}
    Names = {x1, x2}
    Texts = {y1}
    Handlers = {h1, h2}
    MaxFaults = 1
    NoModule = NoModule
    NoName = NoName
    NoText = NoText
INVARIANTS
    TypeOK
    StaleListOnlyIfExcused
    KeepsWhatItWasNotAsked
PROPERTY SettledListIsServed
