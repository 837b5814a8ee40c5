---------------------------- MODULE AuthSessions ----------------------------
(***************************************************************************)
(* Accounts and sessions of auth-svc: the handlers of auth_service.go as   *)
(* sequences of SQL statements (user_repository.go), run concurrently and  *)
(* outside transactions, the retention job, and the access tokens that     *)
(* outlive what they were issued on.                                       *)
(***************************************************************************)
EXTENDS Naturals, FiniteSets

CONSTANTS
    Users,      \* identities: an email and a username
    Admins,     \* the users that are administrators initially
    Tokens,     \* refresh tokens that can be issued
    Handlers,   \* requests running concurrently
    Calls,      \* what is asked of each handler
    Rejected,   \* statements the database refuses to execute
    MayFail,    \* handlers whose statements can fail though the database accepts them
    MaxChanges, \* bound on password changes of one user
    NoUser, NoToken

AdminCalls == {"setRoles", "setActive", "setBoth", "adminDelete"}

AllCalls == {"register", "login", "refresh", "logout", "password", "deleteAccount"}
            \cup AdminCalls

ASSUME AuthAssumption ==
    /\ Admins \subseteq Users /\ Admins # {}
    /\ NoUser \notin Users /\ NoToken \notin Tokens
    /\ Calls \in [Handlers -> SUBSET AllCalls]
    /\ Rejected \subseteq {"CreateUser", "CountAdmins", "SoftDeleteUser",
                           "SoftDeleteInactiveUsers"}
    /\ MayFail \subseteq Handlers
    /\ MaxChanges \in Nat

VARIABLES
    user,     \* the users and user_roles tables
    token,    \* the refresh_tokens table
    claims,   \* access tokens handed out: whose, and whether they say admin
    request,  \* what each handler is doing
    spent,    \* history: refresh tokens that must not buy a pair any more
    shared,   \* history: tokens held by a refresh, and by another one before it ended
    overlap   \* history: removals of two administrators have been under way together

vars == <<user, token, claims, request, spent, shared, overlap>>

Unregistered == [state |-> "none", active |-> FALSE, admin |-> FALSE, password |-> 0]

Unissued == [state |-> "unused", owner |-> NoUser, password |-> 0, excuse |-> "none"]

\* Revoked or expired, which IsValid does not tell apart.
Ended(row) == [Unissued EXCEPT !.state = "ended", !.owner = row.owner]

\* todo: the statements the handler has yet to execute; a handler's early returns
\* drop the rest of them.  admin and active: what it read or is going to write.
Idle == [op |-> "none", todo |-> {}, user |-> NoUser, token |-> NoToken,
         password |-> 0, admin |-> FALSE, active |-> FALSE]

Init ==
    /\ user = [u \in Users |->
                  IF u \in Admins
                  THEN [state |-> "present", active |-> TRUE, admin |-> TRUE, password |-> 0]
                  ELSE Unregistered]
    /\ token = [t \in Tokens |-> Unissued]
    /\ claims = {}
    /\ request = [h \in Handlers |-> Idle]
    /\ spent = {}
    /\ shared = {}
    /\ overlap = FALSE

Present(u) == user[u].state = "present"

ActiveAdmins == {u \in Users : Present(u) /\ user[u].active /\ user[u].admin}

Asked(op, todo, u) == [Idle EXCEPT !.op = op, !.todo = todo, !.user = u]

\* A request that goes on with the row of u it has read.
AskedWithRow(op, todo, u) ==
    [Asked(op, todo, u) EXCEPT !.admin = user[u].admin, !.password = user[u].password]

Accept(h, r) ==
    /\ request[h] = Idle
    /\ r.op \in Calls[h]
    /\ request' = [request EXCEPT ![h] = r]

\* What comes before each statement, in the requests that have both.
Earlier ==
    [create |-> {}, rotate |-> {}, owner |-> {"rotate"},
     issue |-> {"create", "rotate", "owner"},
     guardActive |-> {}, guardRoles |-> {"guardActive"},
     roles |-> {"guardActive", "guardRoles"},
     active |-> {"guardActive", "guardRoles", "roles"}, hash |-> {},
     revoke |-> {"guardActive", "guardRoles", "roles", "active", "hash"},
     delete |-> {"guardActive", "revoke"}]

Statements == DOMAIN Earlier

At(h, step) == step \in request[h].todo /\ request[h].todo \cap Earlier[step] = {}

After(r, step) == IF r.todo = {step} THEN Idle ELSE [r EXCEPT !.todo = @ \ {step}]

Proceed(h, step) == request' = [request EXCEPT ![h] = After(@, step)]

Finish(h) == request' = [request EXCEPT ![h] = Idle]

\* A user with an access token, which nobody checks against the users table: one
\* that has expired buys nothing more than one that has not.
Authenticated(u) == \E c \in claims : c.user = u

AsAdmin(u) == \E c \in claims : c.user = u /\ c.admin

-----------------------------------------------------------------------------
(* Register, Login, Refresh *)

\* EmailExists and UsernameExists count deleted users too.
RegisterChecks(h, u) ==
    /\ user[u].state = "none"
    /\ Accept(h, AskedWithRow("register", {"create", "issue"}, u))
    /\ UNCHANGED <<user, token, claims>>

\* The unique indexes refuse a second row.  The viewer role that follows
\* changes nothing here: a user without a role is no administrator either.
CreateUser(h) ==
    LET u == request[h].user IN
    /\ At(h, "create")
    /\ IF user[u].state = "none" /\ "CreateUser" \notin Rejected
       THEN /\ user' = [user EXCEPT ![u].state = "present", ![u].active = TRUE]
            /\ Proceed(h, "create")
       ELSE Finish(h) /\ UNCHANGED user
    /\ UNCHANGED <<token, claims>>

\* GetUserByIdentifier, IsActive and the password, all from one row.
LoginChecks(h, u) ==
    /\ Present(u) /\ user[u].active
    /\ Accept(h, AskedWithRow("login", {"issue"}, u))
    /\ UNCHANGED <<user, token, claims>>

\* GetRefreshToken and IsValid.  A session descends from the password its login
\* was made with.
RefreshChecks(h, t) ==
    /\ token[t].state = "valid"
    /\ Accept(h, [Idle EXCEPT !.op = "refresh", !.todo = {"rotate", "owner", "issue"},
                              !.token = t, !.user = token[t].owner,
                              !.password = token[t].password])
    /\ UNCHANGED <<user, token, claims>>

\* Mutant: the token stays valid until the new pair is issued, and after.
RevokeNothing(h) ==
    /\ At(h, "rotate")
    /\ Proceed(h, "rotate")
    /\ UNCHANGED <<user, token, claims>>

\* The UPDATE does not ask whether the token is still valid.
RevokeRefreshToken(h) ==
    /\ At(h, "rotate")
    /\ token' = [token EXCEPT ![request[h].token] = Ended(@)]
    /\ Proceed(h, "rotate")
    /\ UNCHANGED <<user, claims>>

\* GetUserByID: deleted users are not found; whether the user is active is not
\* asked.
RefreshOwner(h) ==
    LET u == request[h].user IN
    /\ At(h, "owner")
    /\ request' = [request EXCEPT ![h] =
                      IF Present(u) THEN [After(@, "owner") EXCEPT !.admin = user[u].admin]
                      ELSE Idle]
    /\ UNCHANGED <<user, token, claims>>

\* The user was deactivated, deleted or given another password since the request
\* read his row, or is about to be deleted by one that has revoked his tokens.
Outrun(h) ==
    LET u == request[h].user IN
    \/ ~user[u].active \/ ~Present(u)
    \/ user[u].password # request[h].password
    \/ \E g \in Handlers : At(g, "delete") /\ request[g].user = u

IssueTokenPair(h, t) ==
    LET r == request[h] IN
    /\ At(h, "issue")
    /\ token[t].state = "unused"
    /\ token' = [token EXCEPT ![t] =
                    [state |-> "valid", owner |-> r.user, password |-> r.password,
                     excuse |-> IF Outrun(h) THEN "raced" ELSE "none"]]
    /\ claims' = claims \cup {[user |-> r.user, admin |-> r.admin]}
    /\ Finish(h)
    /\ UNCHANGED user

-----------------------------------------------------------------------------
(* What ends sessions *)

Logout(h, u) ==
    /\ Authenticated(u)
    /\ Accept(h, Asked("logout", {"revoke"}, u))
    /\ UNCHANGED <<user, token, claims>>

\* GetUserByID and the current password.
ChangePassword(h, u) ==
    /\ Authenticated(u) /\ Present(u)
    /\ Accept(h, Asked("password", {"hash", "revoke"}, u))
    /\ UNCHANGED <<user, token, claims>>

\* The UPDATE does not ask which password was checked: another change in the
\* meantime is overwritten.
NewPassword(u) ==
    /\ user[u].password < MaxChanges
    /\ user' = [user EXCEPT ![u].password = IF Present(u) THEN @ + 1 ELSE @]

\* Mutant: the sessions opened with the old password are left alone.
UpdatePasswordHashOnly(h) ==
    /\ At(h, "hash")
    /\ NewPassword(request[h].user)
    /\ Finish(h)
    /\ UNCHANGED <<token, claims>>

UpdatePasswordHash(h) ==
    /\ At(h, "hash")
    /\ NewPassword(request[h].user)
    /\ Proceed(h, "hash")
    /\ UNCHANGED <<token, claims>>

ValidOf(u) == {t \in Tokens : token[t].owner = u /\ token[t].state = "valid"}

\* Mutant: the rows are marked as the users table marks its own.
RevokeAllAsDeleted(h) ==
    /\ At(h, "revoke")
    /\ token' = [t \in Tokens |-> IF t \in ValidOf(request[h].user)
                                  THEN [token[t] EXCEPT !.state = "deleted"] ELSE token[t]]
    /\ Proceed(h, "revoke")
    /\ UNCHANGED <<user, claims>>

RevokeAllUserTokens(h) ==
    /\ At(h, "revoke")
    /\ token' = [t \in Tokens |-> IF t \in ValidOf(request[h].user)
                                  THEN Ended(token[t]) ELSE token[t]]
    /\ Proceed(h, "revoke")
    /\ UNCHANGED <<user, claims>>

\* Every caller but Logout ignores the error, and Logout does nothing after it.
RevokeAllFails(h) ==
    /\ h \in MayFail
    /\ At(h, "revoke")
    /\ token' = [t \in Tokens |-> IF t \in ValidOf(request[h].user)
                                  THEN [token[t] EXCEPT !.excuse = "spared"] ELSE token[t]]
    /\ Proceed(h, "revoke")
    /\ UNCHANGED <<user, claims>>

\* Mutant: the account goes, its sessions stay.
DeleteAccountOnly(h, u) ==
    /\ Authenticated(u) /\ Present(u)
    /\ Accept(h, Asked("deleteAccount", {"delete"}, u))
    /\ UNCHANGED <<user, token, claims>>

DeleteAccount(h, u) ==
    /\ Authenticated(u) /\ Present(u)
    /\ Accept(h, Asked("deleteAccount", {"revoke", "delete"}, u))
    /\ UNCHANGED <<user, token, claims>>

\* The row is the same for a user who left and for one an administrator removed;
\* the model remembers which.
SoftDeleteUser(h) ==
    LET u == request[h].user IN
    /\ At(h, "delete")
    /\ IF Present(u) /\ "SoftDeleteUser" \notin Rejected
       THEN user' = [user EXCEPT
                        ![u].state = IF request[h].op = "deleteAccount" THEN "left" ELSE "removed",
                        ![u].active = FALSE]
       ELSE UNCHANGED user
    /\ Finish(h)
    /\ UNCHANGED <<token, claims>>

-----------------------------------------------------------------------------
(* User management by administrators *)

\* GetUserByID of the target, then what AdminUpdateUser does for a request that
\* sets the roles, the active status, or both: a guard for either, the roles, the
\* status, the sessions.  Nobody deactivates himself, and no administrator takes the
\* role from himself: the guard refuses him after its count, whatever that said.
AdminUpdateUser(h, a, u, op, makeAdmin, makeActive) ==
    LET fields == [setRoles |-> {"roles"}, setActive |-> {"active"},
                   setBoth |-> {"roles", "active"}][op]
        off == "active" \in fields /\ ~makeActive
        demotion == "roles" \in fields /\ ~makeAdmin
        guards == {step \in {"guardActive", "guardRoles"} :
                      user[u].admin /\ IF step = "guardActive" THEN off ELSE demotion}
    IN
    /\ Accept(h, [Asked(op, guards \cup fields \cup (IF off THEN {"revoke"} ELSE {}), u)
                  EXCEPT !.admin = "roles" \in fields /\ makeAdmin,
                         !.active = "active" \in fields /\ makeActive])
    /\ AsAdmin(a) /\ Present(u)
    /\ off \/ (demotion /\ user[u].admin) => a # u
    /\ UNCHANGED <<user, token, claims>>

\* Nobody deletes himself here, and removing an administrator takes a count first.
AdminDeleteUser(h, a, u) ==
    /\ AsAdmin(a) /\ Present(u) /\ a # u
    /\ Accept(h, Asked("adminDelete",
                       {"revoke", "delete"}
                           \cup (IF user[u].admin THEN {"guardActive"} ELSE {}),
                       u))
    /\ UNCHANGED <<user, token, claims>>

\* Mutant: the guards let the last administrator go.
CountSome(h) ==
    /\ \E guard \in {"guardActive", "guardRoles"} :
        /\ At(h, guard)
        /\ IF Cardinality(ActiveAdmins) >= 1 THEN Proceed(h, guard) ELSE Finish(h)
    /\ UNCHANGED <<user, token, claims>>

\* At most one left: ErrLastAdmin.
CountAdmins(h) ==
    /\ \E guard \in {"guardActive", "guardRoles"} :
        /\ At(h, guard)
        /\ IF "CountAdmins" \notin Rejected /\ Cardinality(ActiveAdmins) > 1
           THEN Proceed(h, guard) ELSE Finish(h)
    /\ UNCHANGED <<user, token, claims>>

\* SetUserRoles in a transaction of its own; a deleted target does not matter.
SetUserRoles(h) ==
    /\ At(h, "roles")
    /\ user' = [user EXCEPT ![request[h].user].admin = request[h].admin]
    /\ Proceed(h, "roles")
    /\ UNCHANGED <<token, claims>>

\* Mutant: deactivation leaves the sessions alone.
SetUserActiveOnly(h) ==
    LET u == request[h].user IN
    /\ At(h, "active")
    /\ user' = [user EXCEPT ![u].active = IF Present(u) THEN request[h].active ELSE @]
    /\ Finish(h)
    /\ UNCHANGED <<token, claims>>

\* A deleted target is ErrNotFound.
SetUserActive(h) ==
    LET u == request[h].user IN
    /\ At(h, "active")
    /\ user' = [user EXCEPT ![u].active = IF Present(u) THEN request[h].active ELSE @]
    /\ IF Present(u) THEN Proceed(h, "active") ELSE Finish(h)
    /\ UNCHANGED <<token, claims>>

-----------------------------------------------------------------------------
(* Errors, time, retention *)

\* Any other statement that fails ends the request; what was done stays done.
RequestFails(h) ==
    /\ h \in MayFail
    /\ request[h] # Idle /\ ~At(h, "revoke")
    /\ Finish(h)
    /\ UNCHANGED <<user, token, claims>>

RefreshTokenExpires(t) ==
    /\ token[t].state = "valid"
    /\ token' = [token EXCEPT ![t] = Ended(@)]
    /\ UNCHANGED <<user, claims, request>>

\* SoftDeleteInactiveUsers sets deleted_at of those whose last login was a year
\* ago.  It asks nothing about roles, and sessions that were kept up by refreshing
\* do not count.
Retention(dormant) ==
    /\ "SoftDeleteInactiveUsers" \notin Rejected
    /\ dormant # {}
    /\ \A u \in dormant : Present(u) /\ \E t \in Tokens : token[t].owner = u
    /\ user' = [u \in Users |-> IF u \in dormant THEN [user[u] EXCEPT !.state = "retired"]
                                ELSE user[u]]
    /\ UNCHANGED <<token, claims, request>>

-----------------------------------------------------------------------------
SessionRequest(h) ==
    \/ \E u \in Users : RegisterChecks(h, u) \/ LoginChecks(h, u)
    \/ CreateUser(h)
    \/ \E t \in Tokens : RefreshChecks(h, t) \/ IssueTokenPair(h, t)
    \/ RevokeRefreshToken(h)
    \/ RefreshOwner(h)

AccountRequest(h) ==
    \/ \E u \in Users : Logout(h, u) \/ ChangePassword(h, u) \/ DeleteAccount(h, u)
    \/ UpdatePasswordHash(h)
    \/ RevokeAllUserTokens(h)
    \/ RevokeAllFails(h)
    \/ SoftDeleteUser(h)

AdminRequest(h) ==
    \/ \E op \in Calls[h] \cap (AdminCalls \ {"adminDelete"}), a, u \in Users, x, y \in BOOLEAN :
           AdminUpdateUser(h, a, u, op, x, y)
    \/ \E a, u \in Users : AdminDeleteUser(h, a, u)
    \/ CountAdmins(h)
    \/ SetUserRoles(h)
    \/ SetUserActive(h)

Step ==
    \/ \E h \in Handlers : SessionRequest(h) \/ AccountRequest(h)
                           \/ AdminRequest(h) \/ RequestFails(h)
    \/ \E t \in Tokens : RefreshTokenExpires(t)
    \/ \E dormant \in SUBSET Users : Retention(dormant)

\* The refreshes that have checked t and are not done.
Holding(t) == {h \in Handlers : request[h].token = t}

\* An administrator's request that is past its count, or had none to make, and
\* may take the role, the status or the account of an administrator.
Removing(h) ==
    LET r == request[h] IN
    /\ r.op \in AdminCalls
    /\ \/ "delete" \in r.todo
       \/ "active" \in r.todo /\ ~r.active
       \/ "roles" \in r.todo /\ ~r.admin
    /\ r.todo \cap {"guardActive", "guardRoles"} = {}
    /\ user[r.user].admin

Overlapping ==
    \E g, h \in Handlers :
        request[g].user # request[h].user /\ Removing(g) /\ Removing(h)

\* What the history variables remember.  A token is spent when a refresh has got
\* past its revocation, or when it ended with no refresh holding it.  It is shared
\* until the refreshes that hold it are done.  Removals overlap until they are done
\* and have left an administrator.
Remember ==
    /\ spent' = spent \cup {t \in Tokens :
                   \/ \E h \in Holding(t) : At(h, "rotate") /\ At(h, "owner")'
                   \/ Holding(t)' = {} /\ token'[t].state = "ended"}
    /\ shared' = {t \in Tokens :
                     /\ Holding(t)' # {}
                     /\ t \in shared \/ \E g, h \in Holding(t)' : g # h}
    /\ overlap' = (\/ Overlapping'
                   \/ overlap /\ (ActiveAdmins' = {} \/ \E h \in Handlers : Removing(h)'))

Next == Step /\ Remember

Spec == Init /\ [][Next]_vars

-----------------------------------------------------------------------------
(* Properties *)

TypeOK ==
    /\ user \in [Users -> [state : {"none", "present", "left", "removed", "retired"},
                           active : BOOLEAN, admin : BOOLEAN, password : 0 .. MaxChanges]]
    /\ token \in [Tokens -> [state : {"unused", "valid", "ended"},
                             owner : Users \cup {NoUser}, password : 0 .. MaxChanges,
                             excuse : {"none", "raced", "spared"}]]
    /\ claims \subseteq [user : Users, admin : BOOLEAN]
    /\ request \in [Handlers ->
           [op : AllCalls \cup {"none"}, todo : SUBSET Statements, user : Users \cup {NoUser},
            token : Tokens \cup {NoToken}, password : 0 .. MaxChanges, admin : BOOLEAN,
            active : BOOLEAN]]
    /\ spent \subseteq Tokens
    /\ shared \subseteq Tokens
    /\ overlap \in BOOLEAN

Valid(t) == token[t].state = "valid"

RevokePending(u) == \E h \in Handlers : At(h, "revoke") /\ request[h].user = u

\* ChangePassword updates the hash first and revokes the sessions second
\* (auth_service.go:319-326): no session made with the old password outlives it,
\* not even one whose login came between the two statements.  The exceptions are a
\* login or a refresh that had passed its checks before and inserts its token
\* afterwards, and a revocation that failed, whose error the code ignores.
PasswordEndsSessions ==
    \A t \in Tokens : Valid(t) /\ token[t].password # user[token[t].owner].password
        => token[t].excuse # "none" \/ RevokePending(token[t].owner)

\* The same of deactivation (auth_service.go:501-509), alone or together with a
\* change of roles.
DeactivationEndsSessions ==
    \A t \in Tokens : LET u == token[t].owner IN
        Valid(t) /\ Present(u) /\ ~user[u].active
            => token[t].excuse # "none" \/ RevokePending(u)

\* DeleteAccount and AdminDeleteUser revoke first and delete second
\* (auth_service.go:347-351, 551-554): who left or was removed has no session but
\* one that such a failure spared, or that was opened or inserted between the two
\* statements or later by a request that had read the row before.
DeletionEndsSessions ==
    \A t \in Tokens :
        Valid(t) /\ user[token[t].owner].state \in {"left", "removed"}
            => token[t].excuse # "none"

\* auth_service.go:29, "cannot remove the last active admin": whatever
\* administrators do to each other at the same time, in one field or two, with
\* whatever stale access tokens and failing statements (auth_service.go:431-563),
\* somebody can administer the system.  Nothing prevents these exceptions: an
\* administrator deleted his own account or did not log in for a year, or two
\* requests each removed an administrator after both had been counted.  Requests
\* that overlap in any other way are no exception: two that remove the same user,
\* one that was not counted because its target became an administrator later, one
\* that restores the role or the status.
AdminRemains ==
    \/ ActiveAdmins # {}
    \/ \E u \in Users : user[u].state \in {"left", "retired"} /\ user[u].admin
    \/ overlap

\* auth_service.go:174, Refresh "revokes the old one and issues a new pair": a
\* token that was exchanged for a pair, or that a logout, a revocation or time
\* ended while no refresh held it, buys no pair any more, whatever fails and
\* however often it is sent.  The exception is a refresh that had checked it
\* together with another one, before either revoked it (auth_service.go:178-188).
SpentBuysNothingUnlessShared ==
    \A t \in spent :
        ~Valid(t) /\ \A h \in Holding(t) : At(h, "rotate") => t \in shared

(* What a comment of the code says and the code does not do *)

\* auth_service.go:335, DeleteAccount "soft-deletes the user and revokes all
\* their sessions": where no statement fails, the user is deleted in the end.
DeletionDeletes ==
    [][\A h \in Handlers :
        At(h, "delete") /\ request'[h] = Idle
            => user'[request[h].user].state # "present"]_vars
=============================================================================
