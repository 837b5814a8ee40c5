SPECIFICATION Spec
CONSTANTS
    Users = {a, b}
    Admins = {a}
    Tokens = {t1, t2}
    h1 = h1
    h2 = h2
    Handlers = {h1, h2}
    Calls <- SessionsAndRemovals
    Rejected = {}
    MayFail = {h1}
    MaxChanges = 1
    NoUser = NoUser
    NoToken = NoToken
SYMMETRY Symmetry
INVARIANTS
    TypeOK
    PasswordEndsSessions
    DeactivationEndsSessions
    DeletionEndsSessions
    
    SpentBuysNothingUnlessShared
CHECK_DEADLOCK FALSE
