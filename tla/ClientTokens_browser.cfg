SPECIFICATION Spec
CONSTANTS
    Tabs <- MCTabs
    Calls <- MCCalls
    TabOf <- MCTabOf
    MaxPairs = 2
INVARIANTS
    StoredPairIsCurrent
    NothingUsableThrownAway
    LogoutLasts
