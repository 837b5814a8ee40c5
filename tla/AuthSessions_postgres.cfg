SPECIFICATION Spec
CONSTANTS
    Users = {a}
    Admins = {a}
    Tokens = {t1}
    h1 = h1
    h2 = h2
    Handlers = {h1}
    Calls <- LoginAndDelete
    Rejected = {"CreateUser", "CountAdmins", "SoftDeleteUser", "SoftDeleteInactiveUsers"}
    MayFail = {}
    MaxChanges = 0
    NoUser = NoUser
    NoToken = NoToken
PROPERTY DeletionDeletes
CHECK_DEADLOCK FALSE
