------------------------- MODULE AuthSessionsProofs -------------------------
(***************************************************************************)
(* Proofs about AuthSessions for every set of users, tokens and handlers,  *)
(* whatever is asked of the handlers and whatever statements the database  *)
(* refuses or fails to execute.  SessionsInv is the inductive invariant:   *)
(* the types, how far a request can be with its statements, and what each  *)
(* of the promises about sessions says before the revocation or the        *)
(* deletion it speaks of.  It says nothing of the history variables, so    *)
(* that it is kept by Step alone.                                          *)
(*                                                                         *)
(* SpentInv adds what the history knows of tokens, and AdminsInv what it   *)
(* knows of removals that overlap.                                         *)
(***************************************************************************)
EXTENDS AuthSessions, FiniteSetTheorems, TLAPS

-----------------------------------------------------------------------------
(* The inductive invariant *)

\* The tables, the access tokens and the requests, by name.
Accounts == [state : {"none", "present", "left", "removed", "retired"},
             active : BOOLEAN, admin : BOOLEAN, password : 0 .. MaxChanges]

Sessions == [state : {"unused", "valid", "ended"}, owner : Users \cup {NoUser},
             password : 0 .. MaxChanges, excuse : {"none", "raced", "spared"}]

Claims == [user : Users, admin : BOOLEAN]

Requests == [op : AllCalls \cup {"none"}, todo : SUBSET Statements, user : Users \cup {NoUser},
             token : Tokens \cup {NoToken}, password : 0 .. MaxChanges, admin : BOOLEAN,
             active : BOOLEAN]

Typed ==
    /\ user \in [Users -> Accounts]
    /\ token \in [Tokens -> Sessions]
    /\ claims \subseteq Claims
    /\ request \in [Handlers -> Requests]

UpdateSteps == {"guardActive", "guardRoles", "roles", "active", "revoke"}

\* What a request of each kind can have left to do.
PlanKept(r) ==
    /\ r.op = "none" => r.todo = {}
    /\ r.op = "register" => r.todo \in {{"create", "issue"}, {"issue"}}
    /\ r.op = "login" => r.todo = {"issue"}
    /\ r.op = "refresh" =>
           r.todo \in {{"rotate", "owner", "issue"}, {"owner", "issue"}, {"issue"}}
    /\ r.op = "logout" => r.todo = {"revoke"}
    /\ r.op = "password" => r.todo \in {{"hash", "revoke"}, {"revoke"}}
    /\ r.op = "deleteAccount" => r.todo \in {{"revoke", "delete"}, {"delete"}}
    /\ r.op = "adminDelete" =>
           r.todo \in {{"guardActive", "revoke", "delete"}, {"revoke", "delete"}, {"delete"}}
    /\ r.op \in {"setRoles", "setActive", "setBoth"} =>
           /\ r.todo \subseteq UpdateSteps
           /\ "active" \in r.todo /\ ~r.active => "revoke" \in r.todo

\* A request under way is one that was asked for, of somebody; only a refresh has a
\* token.
RequestKept(h, r) ==
    /\ PlanKept(r)
    /\ r.op # "none" => r.op \in Calls[h] /\ r.user \in Users
    /\ r.token \in Tokens => r.op = "refresh"

RequestsKept == \A h \in Handlers : RequestKept(h, request[h])

\* A token that was issued belongs to somebody.
IssuedHasOwner == \A t \in Tokens : token[t].state # "unused" => token[t].owner \in Users

\* A request about to delete a user has left him no session but an excused one.
DeletesRevoked ==
    \A h \in Handlers : At(h, "delete") =>
        \A t \in Tokens :
            Valid(t) /\ token[t].owner = request[h].user => token[t].excuse # "none"

\* The token a refresh holds was issued, and once it is rotated it is ended.
HeldIsKept ==
    \A h \in Handlers : request[h].token \in Tokens =>
        /\ token[request[h].token].state # "unused"
        /\ "rotate" \notin request[h].todo => token[request[h].token].state = "ended"

SessionsInv ==
    /\ Typed
    /\ RequestsKept
    /\ IssuedHasOwner
    /\ PasswordEndsSessions
    /\ DeactivationEndsSessions
    /\ DeletesRevoked
    /\ DeletionEndsSessions
    /\ HeldIsKept

\* An administrator's request that may take an administrator away.
Removes(r) ==
    /\ r.op \in AdminCalls
    /\ \/ "delete" \in r.todo
       \/ "active" \in r.todo /\ ~r.active
       \/ "roles" \in r.todo /\ ~r.admin

-----------------------------------------------------------------------------
(* Requests *)

\* The statements, spelled out.
LEMMA StatementsAre ==
    Statements = {"create", "rotate", "owner", "issue", "guardActive", "guardRoles",
                  "roles", "active", "hash", "revoke", "delete"}
BY DEF Statements, Earlier

\* The password every user has at first is within the bound.
LEMMA ZeroIsPassword == 0 \in 0 .. MaxChanges
BY AuthAssumption

\* A handler without a request.
LEMMA IdleTyped ==
    /\ Idle \in Requests
    /\ Idle.op = "none" /\ Idle.todo = {} /\ Idle.token = NoToken /\ Idle.user = NoUser
BY AuthAssumption, ZeroIsPassword DEF Idle, Requests

\* What a handler starts with.
LEMMA AskedTyped ==
    ASSUME NEW op \in AllCalls, NEW todo \in SUBSET Statements, NEW u \in Users,
           NEW q, q = Asked(op, todo, u)
    PROVE  /\ q \in Requests
           /\ q.op = op /\ q.todo = todo /\ q.user = u /\ q.token = NoToken
<1>1. q = [op |-> op, todo |-> todo, user |-> u, token |-> NoToken, password |-> 0,
           admin |-> FALSE, active |-> FALSE]
  BY DEF Asked, Idle
<1> QED
  BY <1>1, ZeroIsPassword DEF Requests

\* The same of one that goes on with the row it read.
LEMMA AskedWithRowTyped ==
    ASSUME NEW op \in AllCalls, NEW todo \in SUBSET Statements, NEW u \in Users,
           user[u] \in Accounts,
           NEW q, q = AskedWithRow(op, todo, u)
    PROVE  /\ q \in Requests
           /\ q.op = op /\ q.todo = todo /\ q.user = u /\ q.token = NoToken
           /\ q.password = user[u].password
<1>1. user[u].admin \in BOOLEAN /\ user[u].password \in 0 .. MaxChanges
  BY DEF Accounts
<1>2. q = [op |-> op, todo |-> todo, user |-> u, token |-> NoToken,
           password |-> user[u].password, admin |-> user[u].admin, active |-> FALSE]
  BY DEF AskedWithRow, Asked, Idle
<1> QED
  BY <1>1, <1>2 DEF Requests

\* What a statement leaves of a request.
LEMMA AfterTyped ==
    ASSUME NEW r \in Requests, NEW step, NEW q, q = After(r, step)
    PROVE  /\ q \in Requests
           /\ q.todo = r.todo \ {step}
           /\ r.todo = {step} => q = Idle
           /\ r.todo # {step} =>
                  /\ q.op = r.op /\ q.user = r.user /\ q.token = r.token
                  /\ q.password = r.password /\ q.admin = r.admin /\ q.active = r.active
BY IdleTyped DEF After, Requests

\* What revoking or expiring leaves of a session.
LEMMA EndedTyped ==
    ASSUME NEW row \in Sessions
    PROVE  /\ Ended(row) \in Sessions
           /\ Ended(row).state = "ended" /\ Ended(row).owner = row.owner
<1>1. Unissued \in Sessions
  BY ZeroIsPassword DEF Unissued, Sessions
<1> QED
  BY <1>1 DEF Ended, Sessions

\* A request is at a statement: At, of a request instead of a handler.
Reached(r, step) == step \in r.todo /\ r.todo \cap Earlier[step] = {}

\* Which statement a request is at, by what it has left to do.
LEMMA ReachedIs ==
    ASSUME NEW r
    PROVE  /\ Reached(r, "create") <=> "create" \in r.todo
           /\ Reached(r, "rotate") <=> "rotate" \in r.todo
           /\ Reached(r, "owner") <=> "owner" \in r.todo /\ "rotate" \notin r.todo
           /\ Reached(r, "issue") <=>
                  "issue" \in r.todo /\ r.todo \cap {"create", "rotate", "owner"} = {}
           /\ Reached(r, "guardActive") <=> "guardActive" \in r.todo
           /\ Reached(r, "guardRoles") <=>
                  "guardRoles" \in r.todo /\ "guardActive" \notin r.todo
           /\ Reached(r, "roles") <=>
                  "roles" \in r.todo /\ r.todo \cap {"guardActive", "guardRoles"} = {}
           /\ Reached(r, "active") <=>
                  "active" \in r.todo /\ r.todo \cap {"guardActive", "guardRoles", "roles"} = {}
           /\ Reached(r, "hash") <=> "hash" \in r.todo
           /\ Reached(r, "revoke") <=>
                  /\ "revoke" \in r.todo
                  /\ r.todo \cap {"guardActive", "guardRoles", "roles", "active", "hash"} = {}
           /\ Reached(r, "delete") <=>
                  "delete" \in r.todo /\ r.todo \cap {"guardActive", "revoke"} = {}
BY DEF Reached, Earlier

\* A request with something left to do is under way, and which statements it has left
\* tells what it is.
LEMMA PlanTells ==
    ASSUME NEW r \in Requests, PlanKept(r)
    PROVE  /\ r.todo # {} => r.op # "none"
           /\ "create" \in r.todo => r.op = "register" /\ r.todo = {"create", "issue"}
           /\ "rotate" \in r.todo =>
                  r.op = "refresh" /\ r.todo = {"rotate", "owner", "issue"}
           /\ "owner" \in r.todo /\ "rotate" \notin r.todo =>
                  r.op = "refresh" /\ r.todo = {"owner", "issue"}
           /\ "issue" \in r.todo => r.op \in {"register", "login", "refresh"}
           /\ "hash" \in r.todo => r.op = "password" /\ r.todo = {"hash", "revoke"}
           /\ "delete" \in r.todo => r.op \in {"deleteAccount", "adminDelete"}
           /\ r.todo \cap {"roles", "active", "guardRoles"} # {} =>
                  r.op \in {"setRoles", "setActive", "setBoth"}
           /\ "guardActive" \in r.todo =>
                  r.op \in {"setRoles", "setActive", "setBoth", "adminDelete"}
           /\ r.op = "none" => r.todo = {}
BY DEF PlanKept, Requests, AllCalls, AdminCalls, UpdateSteps

\* No request is at two statements.
LEMMA OneAtATime ==
    ASSUME NEW r \in Requests, PlanKept(r), NEW s1 \in Statements, NEW s2 \in Statements,
           Reached(r, s1), Reached(r, s2)
    PROVE  s1 = s2
BY ReachedIs, PlanTells, StatementsAre DEF PlanKept, UpdateSteps, Requests, AllCalls, AdminCalls

\* A statement executed in its turn leaves a request of the same kind.
LEMMA PlanGoesOn ==
    ASSUME NEW r \in Requests, PlanKept(r), NEW step \in Statements, Reached(r, step),
           NEW q, q = After(r, step)
    PROVE  /\ PlanKept(q)
           /\ "delete" \in q.todo /\ q.todo \cap {"guardActive", "revoke"} = {} =>
                  step = "revoke"
BY AfterTyped, ReachedIs, PlanTells, StatementsAre, IdleTyped
DEF PlanKept, UpdateSteps, Requests, AllCalls, AdminCalls

-----------------------------------------------------------------------------
(* What a step does to the requests *)

\* The handler's request becomes q, the others stay.
Moves(h, q) ==
    /\ q \in Requests /\ RequestKept(h, q)
    /\ request' = [request EXCEPT ![h] = q]

\* Requests stay requests, of the kind they were asked to be.
LEMMA MovesKeep ==
    ASSUME Typed, RequestsKept, NEW h \in Handlers, NEW q, Moves(h, q)
    PROVE  /\ request' \in [Handlers -> Requests]
           /\ RequestsKept'
           /\ request'[h] = q
           /\ \A g \in Handlers \ {h} : request'[g] = request[g]
<1>1. request \in [Handlers -> Requests]
  BY DEF Typed
<1>2. /\ request' \in [Handlers -> Requests]
      /\ request'[h] = q
      /\ \A g \in Handlers \ {h} : request'[g] = request[g]
  BY <1>1 DEF Moves
<1>3. \A g \in Handlers : RequestKept(g, request'[g])
  BY <1>2 DEF Moves, RequestsKept
<1> QED
  BY <1>2, <1>3 DEF RequestsKept, RequestKept, PlanKept, UpdateSteps

\* The request of a handler, as the invariant knows it.
LEMMA RequestOf ==
    ASSUME Typed, RequestsKept, NEW h \in Handlers
    PROVE  request[h] \in Requests /\ RequestKept(h, request[h]) /\ PlanKept(request[h])
BY DEF Typed, RequestsKept, RequestKept

\* Accept, Finish and Proceed are such moves.
LEMMA AcceptMoves ==
    ASSUME NEW h \in Handlers, NEW q \in Requests, Accept(h, q),
           PlanKept(q), q.user \in Users, q.token \in Tokens => q.op = "refresh"
    PROVE  Moves(h, q) /\ request[h] = Idle
BY DEF Accept, Moves, RequestKept

LEMMA FinishMoves ==
    ASSUME NEW h \in Handlers, Finish(h)
    PROVE  Moves(h, Idle)
BY IdleTyped, AuthAssumption DEF Finish, Moves, RequestKept, PlanKept

LEMMA ProceedMoves ==
    ASSUME Typed, RequestsKept, NEW h \in Handlers, NEW step \in Statements,
           At(h, step), Proceed(h, step),
           NEW q, q = After(request[h], step)
    PROVE  /\ Moves(h, q)
           /\ q.todo = request[h].todo \ {step}
           /\ q.todo # {} =>
                  /\ q.op = request[h].op /\ q.user = request[h].user
                  /\ q.token = request[h].token /\ q.password = request[h].password
                  /\ q.admin = request[h].admin /\ q.active = request[h].active
           /\ q.todo = {} => q = Idle
           /\ "delete" \in q.todo /\ q.todo \cap {"guardActive", "revoke"} = {} =>
                  step = "revoke"
<1> DEFINE r == request[h]
<1>1. r \in Requests /\ RequestKept(h, r) /\ PlanKept(r)
  BY RequestOf
<1>2. Reached(r, step)
  BY DEF At, Reached
<1>3. /\ PlanKept(q)
      /\ "delete" \in q.todo /\ q.todo \cap {"guardActive", "revoke"} = {} => step = "revoke"
  BY <1>1, <1>2, PlanGoesOn
<1>4. /\ q \in Requests
      /\ q.todo = r.todo \ {step}
      /\ r.todo = {step} => q = Idle
      /\ r.todo # {step} =>
             /\ q.op = r.op /\ q.user = r.user /\ q.token = r.token
             /\ q.password = r.password /\ q.admin = r.admin /\ q.active = r.active
  BY <1>1, AfterTyped
<1>5. r.todo = {step} <=> q.todo = {}
  BY <1>2, <1>4, IdleTyped DEF Reached
<1>6. RequestKept(h, q)
  BY <1>1, <1>3, <1>4, IdleTyped, AuthAssumption DEF RequestKept
<1>7. Moves(h, q)
  BY <1>1, <1>4, <1>6 DEF Proceed, Moves
<1> QED
  BY <1>3, <1>4, <1>5, <1>7

\* A handler at one of these statements is not about to revoke sessions.
LEMMA NotRevoking ==
    ASSUME Typed, RequestsKept, NEW h \in Handlers, NEW step \in Statements \ {"revoke"},
           At(h, step)
    PROVE  ~At(h, "revoke")
BY RequestOf, OneAtATime, StatementsAre DEF At, Reached

\* A move that neither revokes sessions nor comes to a deletion, of a request whose
\* token is what HeldIsKept says of it.
Quiet(h, q) ==
    /\ Moves(h, q)
    /\ ~At(h, "revoke")
    /\ ~Reached(q, "delete")
    /\ q.token \in Tokens =>
           /\ token[q.token].state # "unused"
           /\ "rotate" \notin q.todo => token[q.token].state = "ended"

\* So are most uses of Accept, Finish and Proceed.
LEMMA AcceptQuiet ==
    ASSUME NEW h \in Handlers, NEW q \in Requests, Accept(h, q),
           PlanKept(q), q.user \in Users, q.token = NoToken, ~Reached(q, "delete")
    PROVE  Quiet(h, q)
BY AcceptMoves, IdleTyped, AuthAssumption DEF Quiet, At

LEMMA FinishQuiet ==
    ASSUME NEW h \in Handlers, Finish(h), ~At(h, "revoke")
    PROVE  Quiet(h, Idle)
BY FinishMoves, IdleTyped, AuthAssumption DEF Quiet, Reached

LEMMA ProceedQuiet ==
    ASSUME SessionsInv, NEW h \in Handlers, NEW step \in Statements \ {"revoke", "rotate"},
           At(h, step), Proceed(h, step),
           NEW q, q = After(request[h], step)
    PROVE  Quiet(h, q)
<1> USE DEF SessionsInv
<1>1. ~At(h, "revoke")
  BY NotRevoking
<1>2. ~Reached(q, "delete")
  BY ProceedMoves, ReachedIs
<1>3. ASSUME q.token \in Tokens
      PROVE  /\ token[q.token].state # "unused"
             /\ "rotate" \notin q.todo => token[q.token].state = "ended"
  <2>1. q # Idle
    BY <1>3, IdleTyped, AuthAssumption
  <2>2. q.token = request[h].token /\ q.todo = request[h].todo \ {step}
    BY <2>1, ProceedMoves
  <2> QED
    BY <1>3, <2>2 DEF HeldIsKept
<1> QED
  BY <1>1, <1>2, <1>3, ProceedMoves DEF Quiet

\* A user whose sessions are about to be revoked stays so, unless that happens.
LEMMA PendingStays ==
    ASSUME SessionsInv, NEW h \in Handlers, NEW q, Moves(h, q), ~At(h, "revoke"),
           NEW u, RevokePending(u)
    PROVE  RevokePending(u)'
<1>1. PICK g \in Handlers : At(g, "revoke") /\ request[g].user = u
  BY DEF RevokePending
<1>2. request'[g] = request[g]
  BY <1>1, MovesKeep DEF SessionsInv
<1> QED
  BY <1>1, <1>2 DEF RevokePending, At

\* The part of the invariant that says nothing of the users table, after a step that
\* touches no session.
LEMMA TokensStay ==
    ASSUME SessionsInv, NEW h \in Handlers, NEW q, Quiet(h, q), UNCHANGED <<token>>
    PROVE  /\ IssuedHasOwner' /\ DeletesRevoked' /\ HeldIsKept'
           /\ RequestsKept' /\ request' \in [Handlers -> Requests]
           /\ token' \in [Tokens -> Sessions]
<1> USE DEF SessionsInv
<1>1. /\ request'[h] = q
      /\ \A g \in Handlers \ {h} : request'[g] = request[g]
      /\ RequestsKept' /\ request' \in [Handlers -> Requests]
  BY MovesKeep DEF Quiet
<1>2. IssuedHasOwner'
  BY DEF IssuedHasOwner
<1>3. DeletesRevoked'
  BY <1>1 DEF Quiet, DeletesRevoked, At, Reached, Valid
<1>4. HeldIsKept'
  BY <1>1 DEF Quiet, HeldIsKept
<1> QED
  BY <1>1, <1>2, <1>3, <1>4 DEF Typed

\* What the steps that only read have in common.
LEMMA QuietStep ==
    ASSUME SessionsInv, NEW h \in Handlers, NEW q, Quiet(h, q),
           UNCHANGED <<user, token, claims>>
    PROVE  SessionsInv'
<1> USE DEF SessionsInv
<1>1. /\ IssuedHasOwner' /\ DeletesRevoked' /\ HeldIsKept'
      /\ RequestsKept' /\ request' \in [Handlers -> Requests]
  BY TokensStay
<1>2. Typed'
  BY <1>1 DEF Typed, Requests
<1>3. \A u : RevokePending(u) => RevokePending(u)'
  BY PendingStays DEF Quiet
<1>4. PasswordEndsSessions'
  BY <1>3 DEF PasswordEndsSessions, Valid
<1>5. DeactivationEndsSessions'
  BY <1>3 DEF DeactivationEndsSessions, Valid, Present
<1>6. DeletionEndsSessions'
  BY DEF DeletionEndsSessions, Valid
<1> QED
  BY <1>1, <1>2, <1>4, <1>5, <1>6

-----------------------------------------------------------------------------
(* The steps that read, check and count *)

\* The checks of Register, Login and Refresh.
LEMMA RegisterChecksKeeps ==
    ASSUME SessionsInv, NEW h \in Handlers, NEW u \in Users, RegisterChecks(h, u)
    PROVE  SessionsInv'
<1> DEFINE q == AskedWithRow("register", {"create", "issue"}, u)
<1>1. user[u] \in Accounts
  BY DEF Typed, SessionsInv
<1>2. /\ q \in Requests
      /\ q.op = "register" /\ q.todo = {"create", "issue"} /\ q.user = u /\ q.token = NoToken
  BY <1>1, AskedWithRowTyped, StatementsAre DEF AllCalls
<1>3. PlanKept(q) /\ ~Reached(q, "delete")
  BY <1>2 DEF PlanKept, Reached
<1>4. Quiet(h, q)
  <2> HIDE DEF q
  <2> QED BY <1>2, <1>3, AcceptQuiet DEF RegisterChecks, q
<1> QED
  BY <1>4, QuietStep DEF RegisterChecks

LEMMA LoginChecksKeeps ==
    ASSUME SessionsInv, NEW h \in Handlers, NEW u \in Users, LoginChecks(h, u)
    PROVE  SessionsInv'
<1> DEFINE q == AskedWithRow("login", {"issue"}, u)
<1>1. user[u] \in Accounts
  BY DEF Typed, SessionsInv
<1>2. /\ q \in Requests
      /\ q.op = "login" /\ q.todo = {"issue"} /\ q.user = u /\ q.token = NoToken
  BY <1>1, AskedWithRowTyped, StatementsAre DEF AllCalls
<1>3. PlanKept(q) /\ ~Reached(q, "delete")
  BY <1>2 DEF PlanKept, Reached
<1>4. Quiet(h, q)
  <2> HIDE DEF q
  <2> QED BY <1>2, <1>3, AcceptQuiet DEF LoginChecks, q
<1> QED
  BY <1>4, QuietStep DEF LoginChecks

LEMMA RefreshChecksKeeps ==
    ASSUME SessionsInv, NEW h \in Handlers, NEW t \in Tokens, RefreshChecks(h, t)
    PROVE  SessionsInv'
<1> DEFINE q == [Idle EXCEPT !.op = "refresh", !.todo = {"rotate", "owner", "issue"},
                             !.token = t, !.user = token[t].owner,
                             !.password = token[t].password]
<1> USE DEF SessionsInv
<1>1. token[t] \in Sessions /\ token[t].state = "valid"
  BY DEF Typed, RefreshChecks
<1>2. token[t].owner \in Users /\ token[t].password \in 0 .. MaxChanges
  BY <1>1 DEF IssuedHasOwner, Sessions
<1>3. /\ q \in Requests
      /\ q.op = "refresh" /\ q.todo = {"rotate", "owner", "issue"} /\ q.token = t
      /\ q.user = token[t].owner
  BY <1>2, IdleTyped, StatementsAre DEF Requests, AllCalls
<1>4. PlanKept(q) /\ ~Reached(q, "delete")
  BY <1>3 DEF PlanKept, Reached
<1>5. Accept(h, q)
  BY DEF RefreshChecks
<1> HIDE DEF q
<1>6. Moves(h, q) /\ request[h] = Idle
  BY <1>2, <1>3, <1>4, <1>5, AcceptMoves
<1>7. Quiet(h, q)
  BY <1>1, <1>3, <1>4, <1>6, IdleTyped DEF Quiet, At
<1> QED
  BY <1>7, QuietStep DEF RefreshChecks

\* Refresh goes on with the role it has just read, or not at all.
LEMMA RefreshOwnerKeeps ==
    ASSUME SessionsInv, NEW h \in Handlers, RefreshOwner(h)
    PROVE  SessionsInv'
<1> DEFINE r == request[h]
           next == After(r, "owner")
           q == [next EXCEPT !.admin = user[r.user].admin]
<1> USE DEF SessionsInv
<1>1. r \in Requests /\ RequestKept(h, r) /\ PlanKept(r) /\ Reached(r, "owner")
  BY RequestOf DEF RefreshOwner, At, Reached
<1>2. r.op = "refresh" /\ r.todo = {"owner", "issue"}
  BY <1>1, ReachedIs, PlanTells
<1>3. ~At(h, "revoke")
  BY <1>2 DEF At
<1>4. CASE Finish(h)
  BY <1>3, <1>4, FinishQuiet, QuietStep DEF RefreshOwner
<1>5. CASE request' = [request EXCEPT ![h] = q]
  <2>1. r.user \in Users /\ user[r.user] \in Accounts
    BY <1>1, <1>2 DEF Typed, RequestKept
  <2>2. user[r.user].admin \in BOOLEAN
    BY <2>1 DEF Accounts
  <2>3. /\ next \in Requests
        /\ next.op = "refresh" /\ next.todo = {"issue"} /\ next.user = r.user
        /\ next.token = r.token
    BY <1>1, <1>2, AfterTyped
  <2>4. /\ q \in Requests
        /\ q.op = "refresh" /\ q.todo = {"issue"} /\ q.user = r.user /\ q.token = r.token
    BY <2>2, <2>3 DEF Requests
  <2> HIDE DEF q
  <2>5. RequestKept(h, q) /\ ~Reached(q, "delete")
    BY <1>1, <1>2, <2>4 DEF RequestKept, PlanKept, Reached
  <2>6. q.token \in Tokens => token[q.token].state = "ended"
    BY <1>2, <2>4 DEF HeldIsKept
  <2>7. Quiet(h, q)
    BY <1>3, <1>5, <2>4, <2>5, <2>6 DEF Quiet, Moves
  <2> QED
    BY <2>7, QuietStep DEF RefreshOwner
<1> QED
  BY <1>4, <1>5 DEF RefreshOwner, Finish

\* What users ask about their own account.
LEMMA LogoutKeeps ==
    ASSUME SessionsInv, NEW h \in Handlers, NEW u \in Users, Logout(h, u)
    PROVE  SessionsInv'
<1> DEFINE q == Asked("logout", {"revoke"}, u)
<1>1. /\ q \in Requests
      /\ q.op = "logout" /\ q.todo = {"revoke"} /\ q.user = u /\ q.token = NoToken
  BY AskedTyped, StatementsAre DEF AllCalls
<1>2. PlanKept(q) /\ ~Reached(q, "delete")
  BY <1>1 DEF PlanKept, Reached
<1>3. Quiet(h, q)
  <2> HIDE DEF q
  <2> QED BY <1>1, <1>2, AcceptQuiet DEF Logout, q
<1> QED
  BY <1>3, QuietStep DEF Logout

LEMMA ChangePasswordKeeps ==
    ASSUME SessionsInv, NEW h \in Handlers, NEW u \in Users, ChangePassword(h, u)
    PROVE  SessionsInv'
<1> DEFINE q == Asked("password", {"hash", "revoke"}, u)
<1>1. /\ q \in Requests
      /\ q.op = "password" /\ q.todo = {"hash", "revoke"} /\ q.user = u /\ q.token = NoToken
  BY AskedTyped, StatementsAre DEF AllCalls
<1>2. PlanKept(q) /\ ~Reached(q, "delete")
  BY <1>1 DEF PlanKept, Reached
<1>3. Quiet(h, q)
  <2> HIDE DEF q
  <2> QED BY <1>1, <1>2, AcceptQuiet DEF ChangePassword, q
<1> QED
  BY <1>3, QuietStep DEF ChangePassword

LEMMA DeleteAccountKeeps ==
    ASSUME SessionsInv, NEW h \in Handlers, NEW u \in Users, DeleteAccount(h, u)
    PROVE  SessionsInv'
<1> DEFINE q == Asked("deleteAccount", {"revoke", "delete"}, u)
<1>1. /\ q \in Requests
      /\ q.op = "deleteAccount" /\ q.todo = {"revoke", "delete"} /\ q.user = u
      /\ q.token = NoToken
  BY AskedTyped, StatementsAre DEF AllCalls
<1>2. PlanKept(q) /\ ~Reached(q, "delete")
  BY <1>1, ReachedIs DEF PlanKept
<1>3. Quiet(h, q)
  <2> HIDE DEF q
  <2> QED BY <1>1, <1>2, AcceptQuiet DEF DeleteAccount, q
<1> QED
  BY <1>3, QuietStep DEF DeleteAccount

\* What AdminUpdateUser asks for: PlanKept, and no guard is missing.
LEMMA UpdateAsked ==
    ASSUME SessionsInv, NEW h \in Handlers, NEW a \in Users, NEW u \in Users,
           NEW op \in AdminCalls \ {"adminDelete"}, NEW x \in BOOLEAN, NEW y \in BOOLEAN,
           AdminUpdateUser(h, a, u, op, x, y)
    PROVE  \E q \in Requests :
               /\ Accept(h, q)
               /\ PlanKept(q) /\ ~Reached(q, "delete")
               /\ q.op = op /\ q.user = u /\ q.token = NoToken
               /\ user[u].admin /\ Removes(q) =>
                      q.todo \cap {"guardActive", "guardRoles"} # {}
<1> DEFINE fields == [setRoles |-> {"roles"}, setActive |-> {"active"},
                      setBoth |-> {"roles", "active"}][op]
           off == "active" \in fields /\ ~y
           demotion == "roles" \in fields /\ ~x
           guards == {step \in {"guardActive", "guardRoles"} :
                         user[u].admin /\ IF step = "guardActive" THEN off ELSE demotion}
           todo == guards \cup fields \cup (IF off THEN {"revoke"} ELSE {})
           q == [Asked(op, todo, u) EXCEPT !.admin = "roles" \in fields /\ x,
                                           !.active = "active" \in fields /\ y]
<1>1. Accept(h, q)
  BY DEF AdminUpdateUser
<1>2. op \in {"setRoles", "setActive", "setBoth"} /\ op \in AllCalls
  BY DEF AdminCalls, AllCalls
<1>3. fields \subseteq {"roles", "active"}
  BY <1>2
<1> HIDE DEF fields
<1>4. todo \in SUBSET Statements /\ todo \subseteq UpdateSteps
  BY <1>3, StatementsAre DEF UpdateSteps
<1>5. "active" \in todo => "active" \in fields
  OBVIOUS
<1>6. "roles" \in todo => "roles" \in fields
  OBVIOUS
<1>7. off => "revoke" \in todo
  OBVIOUS
<1>8. user[u].admin /\ (off \/ demotion) => todo \cap {"guardActive", "guardRoles"} # {}
  OBVIOUS
<1> HIDE DEF todo
<1>9. /\ q \in Requests
      /\ q.op = op /\ q.todo = todo /\ q.user = u /\ q.token = NoToken
      /\ q.admin = ("roles" \in fields /\ x) /\ q.active = ("active" \in fields /\ y)
  <2> DEFINE asked == Asked(op, todo, u)
             admin == "roles" \in fields /\ x
             active == "active" \in fields /\ y
  <2>1. /\ asked \in Requests
        /\ asked.op = op /\ asked.todo = todo /\ asked.user = u /\ asked.token = NoToken
    BY <1>2, <1>4, AskedTyped
  <2>2. admin \in BOOLEAN /\ active \in BOOLEAN
    OBVIOUS
  <2>3. q = [asked EXCEPT !.admin = admin, !.active = active]
    OBVIOUS
  <2> HIDE DEF asked, admin, active, q
  <2>4. /\ q \in Requests
        /\ q.op = op /\ q.todo = todo /\ q.user = u /\ q.token = NoToken
        /\ q.admin = admin /\ q.active = active
    BY <2>1, <2>2, <2>3 DEF Requests
  <2> QED
    BY <2>4 DEF admin, active
<1> HIDE DEF q
<1>10. PlanKept(q)
  BY <1>2, <1>4, <1>5, <1>7, <1>9 DEF PlanKept
<1>11. ~Reached(q, "delete")
  BY <1>4, <1>9 DEF Reached, UpdateSteps
<1>12. user[u].admin /\ Removes(q) => q.todo \cap {"guardActive", "guardRoles"} # {}
  BY <1>4, <1>5, <1>6, <1>8, <1>9 DEF Removes, UpdateSteps
<1> QED
  BY <1>1, <1>9, <1>10, <1>11, <1>12

\* What administrators ask about others.
LEMMA AdminUpdateUserKeeps ==
    ASSUME SessionsInv, NEW h \in Handlers, NEW a \in Users, NEW u \in Users,
           NEW op \in AdminCalls \ {"adminDelete"}, NEW x \in BOOLEAN, NEW y \in BOOLEAN,
           AdminUpdateUser(h, a, u, op, x, y)
    PROVE  SessionsInv'
<1>1. PICK q \in Requests : /\ Accept(h, q) /\ PlanKept(q) /\ ~Reached(q, "delete")
                            /\ q.user = u /\ q.token = NoToken
  BY UpdateAsked
<1>2. Quiet(h, q)
  BY <1>1, AcceptQuiet
<1> QED
  BY <1>2, QuietStep DEF AdminUpdateUser

\* The same of AdminDeleteUser.
LEMMA DeleteAsked ==
    ASSUME NEW h \in Handlers, NEW a \in Users, NEW u \in Users, AdminDeleteUser(h, a, u)
    PROVE  \E q \in Requests :
               /\ Accept(h, q)
               /\ PlanKept(q) /\ ~Reached(q, "delete")
               /\ q.op = "adminDelete" /\ q.user = u /\ q.token = NoToken
               /\ user[u].admin => "guardActive" \in q.todo
<1> DEFINE todo == {"revoke", "delete"} \cup (IF user[u].admin THEN {"guardActive"} ELSE {})
           q == Asked("adminDelete", todo, u)
<1>1. Accept(h, q)
  BY DEF AdminDeleteUser
<1>2. /\ todo \in {{"guardActive", "revoke", "delete"}, {"revoke", "delete"}}
      /\ user[u].admin => "guardActive" \in todo
  OBVIOUS
<1> HIDE DEF todo
<1>3. todo \in SUBSET Statements
  BY <1>2, StatementsAre
<1>4. /\ q \in Requests
      /\ q.op = "adminDelete" /\ q.todo = todo /\ q.user = u /\ q.token = NoToken
  BY <1>3, AskedTyped DEF AllCalls, AdminCalls
<1> HIDE DEF q
<1>5. PlanKept(q) /\ ~Reached(q, "delete")
  BY <1>2, <1>4, ReachedIs DEF PlanKept
<1> QED
  BY <1>1, <1>2, <1>4, <1>5

LEMMA AdminDeleteUserKeeps ==
    ASSUME SessionsInv, NEW h \in Handlers, NEW a \in Users, NEW u \in Users,
           AdminDeleteUser(h, a, u)
    PROVE  SessionsInv'
<1>1. PICK q \in Requests : /\ Accept(h, q) /\ PlanKept(q) /\ ~Reached(q, "delete")
                            /\ q.user = u /\ q.token = NoToken
  BY DeleteAsked
<1>2. Quiet(h, q)
  BY <1>1, AcceptQuiet
<1> QED
  BY <1>2, QuietStep DEF AdminDeleteUser

\* The guards, and a request that fails.
LEMMA CountAdminsKeeps ==
    ASSUME SessionsInv, NEW h \in Handlers, CountAdmins(h)
    PROVE  SessionsInv'
<1>1. PICK guard \in {"guardActive", "guardRoles"} :
          At(h, guard) /\ (Proceed(h, guard) \/ Finish(h))
  BY DEF CountAdmins
<1>2. guard \in Statements \ {"revoke", "rotate"}
  BY StatementsAre
<1>3. ~At(h, "revoke")
  BY <1>1, <1>2, NotRevoking DEF SessionsInv
<1>4. CASE Proceed(h, guard)
  BY <1>1, <1>2, <1>4, ProceedQuiet, QuietStep DEF CountAdmins
<1>5. CASE Finish(h)
  BY <1>3, <1>5, FinishQuiet, QuietStep DEF CountAdmins
<1> QED
  BY <1>1, <1>4, <1>5

LEMMA RequestFailsKeeps ==
    ASSUME SessionsInv, NEW h \in Handlers, RequestFails(h)
    PROVE  SessionsInv'
BY FinishQuiet, QuietStep DEF RequestFails

-----------------------------------------------------------------------------
(* The steps that change the users table *)

\* What a change of the users table must not do behind the back of a session: change
\* a password or deactivate a user unless a revocation follows, delete a user unless
\* one came before.
LEMMA UserStep ==
    ASSUME SessionsInv, NEW h \in Handlers, NEW q, Quiet(h, q),
           UNCHANGED <<token, claims>>,
           user' \in [Users -> Accounts],
           \A u \in Users : user'[u].password = user[u].password \/ RevokePending(u)',
           \A u \in Users :
               user'[u].state = "present" /\ ~user'[u].active =>
                   (Present(u) /\ ~user[u].active) \/ RevokePending(u)',
           \A u \in Users :
               user'[u].state \in {"left", "removed"} =>
                   \/ user[u].state \in {"left", "removed"}
                   \/ \A t \in Tokens :
                          Valid(t) /\ token[t].owner = u => token[t].excuse # "none"
    PROVE  SessionsInv'
<1> USE DEF SessionsInv
<1>1. /\ IssuedHasOwner' /\ DeletesRevoked' /\ HeldIsKept'
      /\ RequestsKept' /\ request' \in [Handlers -> Requests]
      /\ token' \in [Tokens -> Sessions]
  BY TokensStay
<1>2. Typed'
  BY <1>1 DEF Typed, Requests, Accounts
<1>3. \A u : RevokePending(u) => RevokePending(u)'
  BY PendingStays DEF Quiet
<1>4. \A t \in Tokens : Valid(t) => token[t].owner \in Users
  BY DEF IssuedHasOwner, Valid
<1>5. PasswordEndsSessions'
  BY <1>3, <1>4 DEF PasswordEndsSessions, Valid
<1>6. DeactivationEndsSessions'
  BY <1>3, <1>4 DEF DeactivationEndsSessions, Valid, Present
<1>7. DeletionEndsSessions'
  BY <1>4 DEF DeletionEndsSessions, Valid
<1> QED
  BY <1>1, <1>2, <1>5, <1>6, <1>7

\* The request of a handler that has something left to do is about somebody.
LEMMA AboutSomebody ==
    ASSUME SessionsInv, NEW h \in Handlers, request[h].todo # {}
    PROVE  request[h].user \in Users /\ user[request[h].user] \in Accounts
BY RequestOf, PlanTells DEF Typed, SessionsInv, RequestKept

\* A new row is active and has the password it had.
LEMMA CreateUserKeeps ==
    ASSUME SessionsInv, NEW h \in Handlers, CreateUser(h)
    PROVE  SessionsInv'
<1> DEFINE u == request[h].user
<1>1. At(h, "create") /\ "create" \in Statements \ {"revoke", "rotate"}
  BY StatementsAre DEF CreateUser
<1>2. ~At(h, "revoke")
  BY <1>1, NotRevoking DEF SessionsInv
<1>3. u \in Users /\ user[u] \in Accounts /\ user \in [Users -> Accounts]
  BY <1>1, AboutSomebody DEF Typed, At, SessionsInv
<1>4. CASE UNCHANGED user /\ Finish(h)
  BY <1>2, <1>4, FinishQuiet, QuietStep DEF CreateUser
<1>5. CASE /\ user' = [user EXCEPT ![u].state = "present", ![u].active = TRUE]
           /\ Proceed(h, "create")
  <2>1. PICK q : Quiet(h, q)
    BY <1>1, <1>5, ProceedQuiet
  <2>2. /\ user' \in [Users -> Accounts]
        /\ user'[u].active /\ user'[u].state = "present"
        /\ user'[u].password = user[u].password
        /\ \A v \in Users \ {u} : user'[v] = user[v]
    BY <1>3, <1>5 DEF Accounts
  <2> QED
    BY <1>3, <2>1, <2>2, UserStep DEF CreateUser, Present
<1> QED
  BY <1>4, <1>5 DEF CreateUser

\* The revocation that follows the new hash is RevokePending from then on.
LEMMA UpdatePasswordHashKeeps ==
    ASSUME SessionsInv, NEW h \in Handlers, UpdatePasswordHash(h)
    PROVE  SessionsInv'
<1> DEFINE q == After(request[h], "hash")
<1>1. At(h, "hash") /\ Proceed(h, "hash") /\ "hash" \in Statements \ {"revoke", "rotate"}
  BY StatementsAre DEF UpdatePasswordHash
<1>2. PICK u \in Users :
          u = request[h].user /\ user[u] \in Accounts /\ user \in [Users -> Accounts]
  BY <1>1, AboutSomebody DEF Typed, At, SessionsInv
<1>3. request[h].todo = {"hash", "revoke"}
  BY <1>1, RequestOf, PlanTells DEF At, SessionsInv
<1>4. /\ Quiet(h, q) /\ request'[h] = q
      /\ q.todo = {"revoke"} /\ q.user = u
  BY <1>1, <1>2, <1>3, ProceedQuiet, ProceedMoves, MovesKeep DEF Quiet, SessionsInv
<1>5. RevokePending(u)'
  BY <1>4, ReachedIs DEF RevokePending, At, Reached
<1>6. user[u].password < MaxChanges /\ user[u].password \in 0 .. MaxChanges
  BY <1>2 DEF UpdatePasswordHash, NewPassword, Accounts
<1>7. user[u].password + 1 \in 0 .. MaxChanges
  BY <1>6, AuthAssumption
<1>8. /\ user' \in [Users -> Accounts]
      /\ \A v \in Users : user'[v].state = user[v].state /\ user'[v].active = user[v].active
      /\ \A v \in Users \ {u} : user'[v] = user[v]
  BY <1>2, <1>7 DEF UpdatePasswordHash, NewPassword, Accounts
<1> QED
  BY <1>4, <1>5, <1>8, UserStep DEF UpdatePasswordHash, Present

\* Who is deleted has had his sessions revoked.
LEMMA SoftDeleteUserKeeps ==
    ASSUME SessionsInv, NEW h \in Handlers, SoftDeleteUser(h)
    PROVE  SessionsInv'
<1> DEFINE u == request[h].user
<1>1. At(h, "delete") /\ "delete" \in Statements \ {"revoke", "rotate"}
  BY StatementsAre DEF SoftDeleteUser
<1>2. Quiet(h, Idle)
  BY <1>1, NotRevoking, FinishQuiet DEF SessionsInv, SoftDeleteUser
<1>3. u \in Users /\ user[u] \in Accounts /\ user \in [Users -> Accounts]
  BY <1>1, AboutSomebody DEF Typed, At, SessionsInv
<1>4. CASE UNCHANGED user
  BY <1>2, <1>4, QuietStep DEF SoftDeleteUser
<1>5. CASE user' = [user EXCEPT
                       ![u].state = IF request[h].op = "deleteAccount" THEN "left" ELSE "removed",
                       ![u].active = FALSE]
  <2>1. /\ user' \in [Users -> Accounts]
        /\ user'[u].state \in {"left", "removed"}
        /\ user'[u].password = user[u].password
        /\ \A v \in Users \ {u} : user'[v] = user[v]
    BY <1>3, <1>5 DEF Accounts
  <2>2. \A t \in Tokens : Valid(t) /\ token[t].owner = u => token[t].excuse # "none"
    BY <1>1 DEF SessionsInv, DeletesRevoked
  <2> QED
    BY <1>2, <2>1, <2>2, UserStep DEF SoftDeleteUser, Present
<1> QED
  BY <1>4, <1>5 DEF SoftDeleteUser

\* Roles do not matter to sessions.
LEMMA SetUserRolesKeeps ==
    ASSUME SessionsInv, NEW h \in Handlers, SetUserRoles(h)
    PROVE  SessionsInv'
<1> DEFINE u == request[h].user
<1>1. At(h, "roles") /\ Proceed(h, "roles") /\ "roles" \in Statements \ {"revoke", "rotate"}
  BY StatementsAre DEF SetUserRoles
<1>2. PICK q : Quiet(h, q)
  BY <1>1, ProceedQuiet
<1>3. /\ u \in Users /\ user[u] \in Accounts /\ user \in [Users -> Accounts]
      /\ request[h].admin \in BOOLEAN
  BY <1>1, AboutSomebody, RequestOf DEF Typed, At, SessionsInv, Requests
<1>4. /\ user' \in [Users -> Accounts]
      /\ \A v \in Users :
             /\ user'[v].state = user[v].state /\ user'[v].active = user[v].active
             /\ user'[v].password = user[v].password
  BY <1>3 DEF SetUserRoles, Accounts
<1> QED
  BY <1>2, <1>4, UserStep DEF SetUserRoles, Present

\* A deactivation has its revocation left to do.
LEMMA SetUserActiveKeeps ==
    ASSUME SessionsInv, NEW h \in Handlers, SetUserActive(h)
    PROVE  SessionsInv'
<1> DEFINE q == After(request[h], "active")
<1>1. At(h, "active") /\ "active" \in Statements \ {"revoke", "rotate"}
  BY StatementsAre DEF SetUserActive
<1>2. PICK u \in Users :
          /\ u = request[h].user /\ user[u] \in Accounts /\ user \in [Users -> Accounts]
          /\ request[h].active \in BOOLEAN
  BY <1>1, AboutSomebody, RequestOf DEF Typed, At, SessionsInv, Requests
<1>3. CASE ~Present(u) /\ Finish(h)
  <2>1. UNCHANGED user
    BY <1>2, <1>3 DEF SetUserActive, Accounts
  <2> QED
    BY <1>1, <1>3, <2>1, NotRevoking, FinishQuiet, QuietStep DEF SessionsInv, SetUserActive
<1>4. CASE Present(u) /\ Proceed(h, "active")
  <2>1. Quiet(h, q) /\ request'[h] = q
    BY <1>1, <1>4, ProceedQuiet, MovesKeep DEF Quiet, SessionsInv
  <2>2. /\ user' \in [Users -> Accounts]
        /\ user'[u].active = request[h].active
        /\ \A v \in Users :
               user'[v].state = user[v].state /\ user'[v].password = user[v].password
        /\ \A v \in Users \ {u} : user'[v] = user[v]
    BY <1>2, <1>4 DEF SetUserActive, Accounts
  <2>3. ASSUME ~request[h].active
        PROVE  RevokePending(u)'
    <3>1. /\ request[h] \in Requests /\ PlanKept(request[h])
          /\ "active" \in request[h].todo
          /\ request[h].todo \cap {"guardActive", "guardRoles", "roles"} = {}
      BY <1>1, RequestOf, ReachedIs DEF At, Reached, SessionsInv
    <3>2. /\ request[h].op \in {"setRoles", "setActive", "setBoth"}
          /\ "revoke" \in request[h].todo /\ "hash" \notin request[h].todo
      BY <2>3, <3>1, PlanTells DEF PlanKept
    <3>3. q.todo = request[h].todo \ {"active"} /\ q.user = u
      BY <1>1, <1>2, <1>4, <3>2, ProceedMoves DEF SessionsInv
    <3>4. Reached(q, "revoke")
      BY <3>1, <3>2, <3>3, ReachedIs
    <3> QED
      BY <2>1, <3>3, <3>4 DEF RevokePending, At, Reached
  <2>4. \A v \in Users :
            user'[v].state = "present" /\ ~user'[v].active =>
                (Present(v) /\ ~user[v].active) \/ RevokePending(v)'
    <3> SUFFICES ASSUME NEW v \in Users, user'[v].state = "present", ~user'[v].active
                 PROVE  (Present(v) /\ ~user[v].active) \/ RevokePending(v)'
      OBVIOUS
    <3>1. CASE v = u
      BY <2>2, <2>3, <3>1
    <3>2. CASE v # u
      BY <2>2, <3>2 DEF Present
    <3> QED
      BY <3>1, <3>2
  <2> QED
    BY <2>1, <2>2, <2>4, UserStep DEF SetUserActive
<1> QED
  BY <1>2, <1>3, <1>4 DEF SetUserActive

\* Retention is no request: it deletes users without ending their sessions, of which
\* no promise is made.
LEMMA RetentionKeeps ==
    ASSUME SessionsInv, NEW dormant \in SUBSET Users, Retention(dormant)
    PROVE  SessionsInv'
<1> USE DEF SessionsInv
<1>1. /\ user' \in [Users -> Accounts]
      /\ \A u \in Users :
             /\ user'[u].password = user[u].password
             /\ user'[u].active = user[u].active
             /\ user'[u].state = user[u].state \/ user'[u].state = "retired"
  <2>1. user \in [Users -> Accounts]
    BY DEF Typed
  <2> QED
    BY <2>1 DEF Retention, Accounts
<1>2. Typed'
  BY <1>1 DEF Typed, Retention, Accounts
<1>3. RequestsKept' /\ IssuedHasOwner' /\ DeletesRevoked' /\ HeldIsKept'
  BY DEF Retention, RequestsKept, RequestKept, PlanKept, UpdateSteps, IssuedHasOwner,
         DeletesRevoked, HeldIsKept, At, Valid
<1>4. \A u : RevokePending(u) => RevokePending(u)'
  BY DEF Retention, RevokePending, At
<1>5. \A t \in Tokens : Valid(t) => token[t].owner \in Users
  BY DEF IssuedHasOwner, Valid
<1>6. PasswordEndsSessions'
  BY <1>1, <1>4, <1>5 DEF PasswordEndsSessions, Valid, Retention
<1>7. DeactivationEndsSessions'
  BY <1>1, <1>4, <1>5 DEF DeactivationEndsSessions, Valid, Present, Retention
<1>8. DeletionEndsSessions'
  BY <1>1, <1>5 DEF DeletionEndsSessions, Valid, Retention
<1> QED
  BY <1>2, <1>3, <1>6, <1>7, <1>8

-----------------------------------------------------------------------------
(* The steps that change the sessions *)

\* No session begins: one that was not there is not there afterwards, and one that is
\* changed is ended or excused.
SessionsOnlyEnd ==
    /\ token' \in [Tokens -> Sessions]
    /\ \A t \in Tokens :
           \/ token'[t] = token[t]
           \/ /\ token[t].state # "unused"
              /\ token'[t].owner = token[t].owner
              /\ token'[t].state = "ended"
           \/ /\ token[t].state = "valid"
              /\ token'[t].owner = token[t].owner
              /\ token'[t].state = "valid" /\ token'[t].excuse # "none"

\* Every session of u that is still valid is excused.
OnlyExcused(u) ==
    \A t \in Tokens : Valid(t) /\ token[t].owner = u => token[t].excuse # "none"

\* What the promises about single sessions need of such a step.
LEMMA PromisesStay ==
    ASSUME SessionsInv, SessionsOnlyEnd, UNCHANGED user,
           \A u \in Users : RevokePending(u) => RevokePending(u)' \/ OnlyExcused(u)'
    PROVE  /\ IssuedHasOwner' /\ PasswordEndsSessions' /\ DeactivationEndsSessions'
           /\ DeletionEndsSessions'
<1> USE DEF SessionsInv
<1>1. \A t \in Tokens : Valid(t)' /\ token'[t].excuse = "none" =>
          token'[t] = token[t] /\ Valid(t) /\ token[t].owner \in Users
  BY DEF SessionsOnlyEnd, Valid, IssuedHasOwner
<1>2. IssuedHasOwner'
  BY DEF SessionsOnlyEnd, IssuedHasOwner
<1>3. PasswordEndsSessions'
  BY <1>1 DEF PasswordEndsSessions, OnlyExcused, Valid
<1>4. DeactivationEndsSessions'
  BY <1>1 DEF DeactivationEndsSessions, OnlyExcused, Valid, Present
<1>5. DeletionEndsSessions'
  BY <1>1 DEF DeletionEndsSessions, Valid
<1> QED
  BY <1>2, <1>3, <1>4, <1>5

\* What the rest of the invariant needs of it.
LEMMA TokenStep ==
    ASSUME SessionsInv, NEW h \in Handlers, NEW q, Moves(h, q), SessionsOnlyEnd,
           UNCHANGED <<user, claims>>,
           \A u \in Users : RevokePending(u) => RevokePending(u)' \/ OnlyExcused(u)',
           Reached(q, "delete") =>
               \A t \in Tokens : token'[t].state = "valid" /\ token'[t].owner = q.user =>
                   token'[t].excuse # "none",
           q.token \in Tokens =>
               /\ token'[q.token].state # "unused"
               /\ "rotate" \notin q.todo => token'[q.token].state = "ended"
    PROVE  SessionsInv'
<1> USE DEF SessionsInv
<1>1. /\ request'[h] = q
      /\ \A g \in Handlers \ {h} : request'[g] = request[g]
      /\ RequestsKept' /\ request' \in [Handlers -> Requests]
  BY MovesKeep
<1>2. Typed'
  BY <1>1 DEF Typed, Requests, Sessions, SessionsOnlyEnd
<1>3. /\ IssuedHasOwner' /\ PasswordEndsSessions' /\ DeactivationEndsSessions'
      /\ DeletionEndsSessions'
  BY PromisesStay
<1>4. DeletesRevoked'
  <2> SUFFICES ASSUME NEW g \in Handlers, At(g, "delete")', NEW t \in Tokens,
                      Valid(t)', token'[t].owner = request'[g].user,
                      token'[t].excuse = "none"
               PROVE  FALSE
    BY DEF DeletesRevoked
  <2>1. CASE g = h
    BY <1>1, <2>1 DEF At, Reached, Valid
  <2>2. CASE g # h
    BY <1>1, <2>2 DEF At, Valid, SessionsOnlyEnd, DeletesRevoked
  <2> QED
    BY <2>1, <2>2
<1>5. \A t \in Tokens : /\ token[t].state # "unused" => token'[t].state # "unused"
                        /\ token[t].state = "ended" => token'[t].state = "ended"
  BY DEF SessionsOnlyEnd
<1>6. HeldIsKept'
  BY <1>1, <1>5 DEF Typed, HeldIsKept
<1> QED
  BY <1>1, <1>2, <1>3, <1>4, <1>6

\* A rotated token is ended.
LEMMA RevokeRefreshTokenKeeps ==
    ASSUME SessionsInv, NEW h \in Handlers, RevokeRefreshToken(h)
    PROVE  SessionsInv'
<1> DEFINE x == request[h].token
           q == After(request[h], "rotate")
<1> USE DEF SessionsInv
<1>1. At(h, "rotate") /\ Proceed(h, "rotate") /\ "rotate" \in Statements \ {"revoke"}
  BY StatementsAre DEF RevokeRefreshToken
<1>2. request[h].todo = {"rotate", "owner", "issue"}
  BY <1>1, RequestOf, PlanTells DEF At
<1>3. Moves(h, q) /\ q.todo = {"owner", "issue"} /\ q.token = x
  BY <1>1, <1>2, ProceedMoves
<1>4. token \in [Tokens -> Sessions] /\ (x \in Tokens => token[x].state # "unused")
  BY DEF Typed, HeldIsKept
<1>5. /\ token' \in [Tokens -> Sessions]
      /\ x \in Tokens => token'[x].state = "ended" /\ token'[x].owner = token[x].owner
      /\ \A t \in Tokens \ {x} : token'[t] = token[t]
  BY <1>4, EndedTyped DEF RevokeRefreshToken
<1>6. SessionsOnlyEnd
  BY <1>4, <1>5 DEF SessionsOnlyEnd
<1>7. \A u \in Users : RevokePending(u) => RevokePending(u)'
  BY <1>1, <1>3, NotRevoking, PendingStays
<1>8. ~Reached(q, "delete")
  BY <1>3 DEF Reached
<1> QED
  BY <1>3, <1>5, <1>6, <1>7, <1>8, TokenStep DEF RevokeRefreshToken

\* After a revocation, whether it was executed or not: what it was about is excused.
LEMMA RevocationKeeps ==
    ASSUME SessionsInv, NEW h \in Handlers, At(h, "revoke"), Proceed(h, "revoke"),
           UNCHANGED <<user, claims>>,
           SessionsOnlyEnd,
           \A t \in Tokens :
               token'[t].state = "valid" /\ token'[t].owner = request[h].user =>
                   token'[t].excuse # "none"
    PROVE  SessionsInv'
<1> DEFINE q == After(request[h], "revoke")
<1> USE DEF SessionsInv
<1>1. PICK x : x = request[h].user
  OBVIOUS
<1>2. /\ Moves(h, q)
      /\ q.todo = request[h].todo \ {"revoke"}
      /\ q.todo # {} => q.user = x /\ q.token = request[h].token
      /\ q.todo = {} => q = Idle
  BY <1>1, StatementsAre, ProceedMoves
<1>3. request'[h] = q /\ \A g \in Handlers \ {h} : request'[g] = request[g]
  BY <1>2, MovesKeep
<1>4. \A u \in Users : RevokePending(u) => RevokePending(u)' \/ OnlyExcused(u)'
  <2> SUFFICES ASSUME NEW u \in Users, RevokePending(u), ~OnlyExcused(u)'
               PROVE  RevokePending(u)'
    OBVIOUS
  <2>1. u # x
    BY <1>1 DEF OnlyExcused, Valid
  <2>2. PICK g \in Handlers : At(g, "revoke") /\ request[g].user = u
    BY DEF RevokePending
  <2>3. request'[g] = request[g]
    BY <1>1, <1>3, <2>1, <2>2
  <2> QED
    BY <2>2, <2>3 DEF RevokePending, At
<1>5. Reached(q, "delete") => q.user = x
  BY <1>2 DEF Reached
<1>6. q.token \in Tokens =>
          /\ token'[q.token].state # "unused"
          /\ "rotate" \notin q.todo => token'[q.token].state = "ended"
  <2> SUFFICES ASSUME q.token \in Tokens
               PROVE  /\ token'[q.token].state # "unused"
                      /\ "rotate" \notin q.todo => token'[q.token].state = "ended"
    OBVIOUS
  <2>1. q.token = request[h].token
    BY <1>2, IdleTyped, AuthAssumption
  <2> QED
    BY <1>2, <2>1 DEF HeldIsKept, SessionsOnlyEnd
<1> HIDE DEF q
<1> QED
  BY <1>1, <1>2, <1>4, <1>5, <1>6, TokenStep

\* The revocation ends what it is about, and one that fails leaves it excused.
LEMMA RevokeAllUserTokensKeeps ==
    ASSUME SessionsInv, NEW h \in Handlers, RevokeAllUserTokens(h)
    PROVE  SessionsInv'
<1> USE DEF SessionsInv
<1>1. token \in [Tokens -> Sessions]
  BY DEF Typed
<1>2. \A t \in Tokens :
          token'[t] = IF token[t].owner = request[h].user /\ token[t].state = "valid"
                      THEN Ended(token[t]) ELSE token[t]
  BY DEF RevokeAllUserTokens, ValidOf
<1>3. token' \in [Tokens -> Sessions]
  BY <1>1, EndedTyped DEF RevokeAllUserTokens
<1>4. SessionsOnlyEnd
  BY <1>1, <1>2, <1>3, EndedTyped DEF SessionsOnlyEnd
<1>5. \A t \in Tokens :
          token'[t].state = "valid" /\ token'[t].owner = request[h].user =>
              token'[t].excuse # "none"
  BY <1>1, <1>2, EndedTyped
<1> QED
  BY <1>4, <1>5, RevocationKeeps DEF RevokeAllUserTokens

LEMMA RevokeAllFailsKeeps ==
    ASSUME SessionsInv, NEW h \in Handlers, RevokeAllFails(h)
    PROVE  SessionsInv'
<1> USE DEF SessionsInv
<1>1. token \in [Tokens -> Sessions]
  BY DEF Typed
<1>2. \A t \in Tokens :
          token'[t] = IF token[t].owner = request[h].user /\ token[t].state = "valid"
                      THEN [token[t] EXCEPT !.excuse = "spared"] ELSE token[t]
  BY DEF RevokeAllFails, ValidOf
<1>3. ASSUME NEW row \in Sessions, NEW next, next = [row EXCEPT !.excuse = "spared"]
      PROVE  /\ next \in Sessions
             /\ next.state = row.state /\ next.owner = row.owner /\ next.excuse = "spared"
  BY <1>3 DEF Sessions
<1>4. token' \in [Tokens -> Sessions]
  BY <1>1, <1>3 DEF RevokeAllFails
<1>5. SessionsOnlyEnd
  BY <1>1, <1>2, <1>3, <1>4 DEF SessionsOnlyEnd
<1>6. \A t \in Tokens :
          token'[t].state = "valid" /\ token'[t].owner = request[h].user =>
              token'[t].excuse # "none"
  BY <1>1, <1>2, <1>3
<1> QED
  BY <1>5, <1>6, RevocationKeeps DEF RevokeAllFails

\* Time ends a session as a revocation does.
LEMMA RefreshTokenExpiresKeeps ==
    ASSUME SessionsInv, NEW t \in Tokens, RefreshTokenExpires(t)
    PROVE  SessionsInv'
<1> USE DEF SessionsInv
<1>1. token \in [Tokens -> Sessions] /\ token[t].state = "valid"
  BY DEF Typed, RefreshTokenExpires
<1>2. /\ token' \in [Tokens -> Sessions]
      /\ token'[t].state = "ended" /\ token'[t].owner = token[t].owner
      /\ \A x \in Tokens \ {t} : token'[x] = token[x]
  BY <1>1, EndedTyped DEF RefreshTokenExpires
<1>3. SessionsOnlyEnd
  BY <1>1, <1>2 DEF SessionsOnlyEnd
<1>4. \A u \in Users : RevokePending(u) => RevokePending(u)'
  BY DEF RefreshTokenExpires, RevokePending, At
<1>5. /\ IssuedHasOwner' /\ PasswordEndsSessions' /\ DeactivationEndsSessions'
      /\ DeletionEndsSessions'
  BY <1>3, <1>4, PromisesStay DEF RefreshTokenExpires
<1>6. Typed'
  BY <1>2 DEF Typed, RefreshTokenExpires, Sessions
<1>7. RequestsKept'
  BY DEF RefreshTokenExpires, RequestsKept, RequestKept, PlanKept, UpdateSteps
<1>8. DeletesRevoked'
  BY <1>3 DEF RefreshTokenExpires, DeletesRevoked, At, Valid, SessionsOnlyEnd
<1>9. HeldIsKept'
  <2>1. \A x \in Tokens : /\ token[x].state # "unused" => token'[x].state # "unused"
                          /\ token[x].state = "ended" => token'[x].state = "ended"
    BY <1>3 DEF SessionsOnlyEnd
  <2> QED
    BY <2>1 DEF Typed, RefreshTokenExpires, HeldIsKept
<1> QED
  BY <1>5, <1>6, <1>7, <1>8, <1>9

\* A session that begins keeps every promise: it is excused if its request was outrun,
\* and it is not the token it was bought with.
LEMMA IssueTokenPairKeeps ==
    ASSUME SessionsInv, NEW h \in Handlers, NEW t \in Tokens, IssueTokenPair(h, t)
    PROVE  SessionsInv'
<1> USE DEF SessionsInv
<1>1. PICK r : r = request[h]
  OBVIOUS
<1>2. At(h, "issue") /\ "issue" \in Statements \ {"revoke"} /\ Finish(h)
  BY StatementsAre DEF IssueTokenPair
<1>3. /\ Moves(h, Idle) /\ ~At(h, "revoke")
      /\ request'[h] = Idle
      /\ \A g \in Handlers \ {h} : request'[g] = request[g]
      /\ RequestsKept' /\ request' \in [Handlers -> Requests]
  BY <1>2, FinishMoves, NotRevoking, MovesKeep
<1>4. /\ r \in Requests /\ r.user \in Users /\ r.admin \in BOOLEAN
      /\ r.password \in 0 .. MaxChanges
      /\ "rotate" \notin r.todo
  BY <1>1, <1>2, RequestOf, AboutSomebody, ReachedIs DEF At, Reached, Requests
<1>5. token \in [Tokens -> Sessions] /\ token[t].state = "unused"
  BY DEF Typed, IssueTokenPair
<1>6. /\ token' \in [Tokens -> Sessions]
      /\ token'[t] = [state |-> "valid", owner |-> r.user, password |-> r.password,
                      excuse |-> IF Outrun(h) THEN "raced" ELSE "none"]
      /\ \A x \in Tokens \ {t} : token'[x] = token[x]
  BY <1>1, <1>4, <1>5 DEF IssueTokenPair, Sessions
<1>7. /\ token'[t].state = "valid" /\ token'[t].owner = r.user
      /\ token'[t].password = r.password
      /\ token'[t].excuse = "none" => ~Outrun(h)
  BY <1>6
<1>8. Typed'
  <2>1. claims' \subseteq Claims
    BY <1>1, <1>4 DEF Typed, IssueTokenPair, Claims
  <2>2. user' = user
    BY DEF Typed, IssueTokenPair
  <2> QED
    BY <1>3, <1>6, <2>1, <2>2 DEF Typed, Claims, Requests, Sessions
<1>9. \A u : RevokePending(u) => RevokePending(u)'
  BY <1>3, PendingStays
<1>10. user' = user
  BY DEF IssueTokenPair
<1>11. \A x \in Tokens : token'[x] = token[x] \/ x = t
  BY <1>6
<1>12. IssuedHasOwner'
  BY <1>4, <1>7, <1>11 DEF IssuedHasOwner
<1>13. PasswordEndsSessions'
  BY <1>1, <1>4, <1>7, <1>9, <1>10, <1>11 DEF PasswordEndsSessions, Valid, Outrun
<1>14. DeactivationEndsSessions'
  BY <1>1, <1>4, <1>7, <1>9, <1>10, <1>11 DEF DeactivationEndsSessions, Valid, Present, Outrun
<1>15. DeletionEndsSessions'
  BY <1>1, <1>4, <1>7, <1>10, <1>11 DEF DeletionEndsSessions, Valid, Present, Outrun
<1>16. DeletesRevoked'
  <2> SUFFICES ASSUME NEW g \in Handlers, At(g, "delete")', NEW x \in Tokens,
                      Valid(x)', token'[x].owner = request'[g].user,
                      token'[x].excuse = "none"
               PROVE  FALSE
    BY DEF DeletesRevoked
  <2>1. g # h
    BY <1>3, IdleTyped DEF At
  <2>2. request'[g] = request[g] /\ At(g, "delete")
    BY <1>3, <2>1 DEF At
  <2>3. CASE x = t
    BY <1>1, <1>7, <2>2, <2>3 DEF Outrun
  <2>4. CASE x # t
    BY <1>6, <2>2, <2>4 DEF DeletesRevoked, Valid
  <2> QED
    BY <2>3, <2>4
<1>17. HeldIsKept'
  <2> SUFFICES ASSUME NEW g \in Handlers, request'[g].token \in Tokens
               PROVE  /\ token'[request'[g].token].state # "unused"
                      /\ "rotate" \notin request'[g].todo =>
                             token'[request'[g].token].state = "ended"
    BY DEF HeldIsKept
  <2>1. g # h
    BY <1>3, IdleTyped, AuthAssumption
  <2>2. request'[g] = request[g]
    BY <1>3, <2>1
  <2>3. token[request[g].token].state # "unused"
    BY <2>2 DEF HeldIsKept
  <2>4. token'[request[g].token] = token[request[g].token]
    BY <1>5, <1>11, <2>2, <2>3
  <2> QED
    BY <2>2, <2>3, <2>4 DEF HeldIsKept
<1> QED
  BY <1>3, <1>8, <1>12, <1>13, <1>14, <1>15, <1>16, <1>17

-----------------------------------------------------------------------------
(* The invariant *)

\* No session and no request to begin with.
LEMMA InitSessionsInv == Init => SessionsInv
<1> SUFFICES ASSUME Init PROVE SessionsInv
  OBVIOUS
<1>1. /\ \A h \in Handlers : request[h] = Idle
      /\ request \in [Handlers -> Requests]
  BY IdleTyped DEF Init
<1>2. \A h \in Handlers : \A step : ~At(h, step)
  BY <1>1, IdleTyped DEF At
<1>3. \A t \in Tokens : token[t].state = "unused"
  BY DEF Init, Unissued
<1>4. Typed
  BY <1>1, ZeroIsPassword, AuthAssumption
  DEF Typed, Init, Unissued, Unregistered, Accounts, Sessions
<1>5. RequestsKept
  BY <1>1, IdleTyped, AuthAssumption DEF RequestsKept, RequestKept, PlanKept
<1>6. IssuedHasOwner /\ PasswordEndsSessions /\ DeactivationEndsSessions /\ DeletionEndsSessions
  BY <1>3 DEF IssuedHasOwner, PasswordEndsSessions, DeactivationEndsSessions,
              DeletionEndsSessions, Valid
<1>7. DeletesRevoked
  BY <1>2 DEF DeletesRevoked
<1>8. HeldIsKept
  BY <1>1, IdleTyped, AuthAssumption DEF Init, HeldIsKept
<1> QED
  BY <1>4, <1>5, <1>6, <1>7, <1>8 DEF SessionsInv

\* Each step keeps the invariant.
LEMMA StepSessionsInv ==
    ASSUME SessionsInv, Step
    PROVE  SessionsInv'
<1>1. ASSUME NEW h \in Handlers, SessionRequest(h)
      PROVE  SessionsInv'
  BY <1>1, RegisterChecksKeeps, LoginChecksKeeps, CreateUserKeeps, RefreshChecksKeeps,
     IssueTokenPairKeeps, RevokeRefreshTokenKeeps, RefreshOwnerKeeps
  DEF SessionRequest
<1>2. ASSUME NEW h \in Handlers, AccountRequest(h)
      PROVE  SessionsInv'
  BY <1>2, LogoutKeeps, ChangePasswordKeeps, DeleteAccountKeeps, UpdatePasswordHashKeeps,
     RevokeAllUserTokensKeeps, RevokeAllFailsKeeps, SoftDeleteUserKeeps
  DEF AccountRequest
<1>3. ASSUME NEW h \in Handlers, AdminRequest(h)
      PROVE  SessionsInv'
  BY <1>3, AdminUpdateUserKeeps, AdminDeleteUserKeeps, CountAdminsKeeps, SetUserRolesKeeps,
     SetUserActiveKeeps
  DEF AdminRequest
<1> QED
  BY <1>1, <1>2, <1>3, RequestFailsKeeps, RefreshTokenExpiresKeeps, RetentionKeeps DEF Step

LEMMA StutterSessionsInv ==
    ASSUME SessionsInv, UNCHANGED <<user, token, claims, request>>
    PROVE  SessionsInv'
<1> USE DEF SessionsInv
<1>1. Typed' /\ RequestsKept' /\ IssuedHasOwner' /\ HeldIsKept'
  BY DEF Typed, RequestsKept, RequestKept, PlanKept, UpdateSteps, IssuedHasOwner, HeldIsKept
<1>2. PasswordEndsSessions' /\ DeactivationEndsSessions'
  BY DEF PasswordEndsSessions, DeactivationEndsSessions, Valid, Present, RevokePending, At
<1>3. DeletesRevoked' /\ DeletionEndsSessions'
  BY DEF DeletesRevoked, DeletionEndsSessions, Valid, At
<1> QED
  BY <1>1, <1>2, <1>3

LEMMA NextSessionsInv == SessionsInv /\ [Next]_vars => SessionsInv'
BY StepSessionsInv, StutterSessionsInv DEF Next, vars

\* SessionsInv holds in every reachable state.
LEMMA SessionsAlways == Spec => []SessionsInv
BY InitSessionsInv, NextSessionsInv, PTL DEF Spec

\* UpdatePasswordHash then RevokeAllUserTokens (auth_service.go:319-326): no session of
\* an old password survives but one that a request under way inserted late or a failed
\* revocation spared.
THEOREM PasswordChangesEndSessions == Spec => []PasswordEndsSessions
<1>1. SessionsInv => PasswordEndsSessions
  BY DEF SessionsInv
<1> QED
  BY <1>1, SessionsAlways, PTL

\* The same of SetUserActive and its revocation (auth_service.go:501-509).
THEOREM DeactivationsEndSessions == Spec => []DeactivationEndsSessions
<1>1. SessionsInv => DeactivationEndsSessions
  BY DEF SessionsInv
<1> QED
  BY <1>1, SessionsAlways, PTL

\* The same of the deletions, which revoke first (auth_service.go:347-351, 551-554).
THEOREM DeletionsEndSessions == Spec => []DeletionEndsSessions
<1>1. SessionsInv => DeletionEndsSessions
  BY DEF SessionsInv
<1> QED
  BY <1>1, SessionsAlways, PTL

-----------------------------------------------------------------------------
(* Spent tokens *)

\* The history variables' part of TypeOK.
HistoryTyped ==
    /\ spent \subseteq Tokens
    /\ shared \subseteq Tokens
    /\ overlap \in BOOLEAN

\* A token held twice is shared, and one that is spent is ended and waits to be rotated
\* by no refresh that did not share it.
SpentInv ==
    /\ SessionsInv
    /\ HistoryTyped
    /\ \A g, h \in Handlers :
           g # h /\ request[g].token \in Tokens /\ request[g].token = request[h].token
               => request[g].token \in shared
    /\ \A t \in spent : token[t].state = "ended"
    /\ \A t \in spent : \A h \in Holding(t) : "rotate" \in request[h].todo => t \in shared

\* A handler keeps the token it holds until its request ends, and takes only a valid one.
Follows(h) ==
    \/ /\ request'[h].token = request[h].token
       /\ request'[h].todo \subseteq request[h].todo
    \/ request'[h] = Idle
    \/ /\ request[h] = Idle
       /\ request'[h].token \in Tokens => Valid(request'[h].token)

\* Accept, Finish and Proceed do so.
LEMMA AcceptFollows ==
    ASSUME Typed, NEW h \in Handlers, NEW q, Accept(h, q), q.token \in Tokens => Valid(q.token)
    PROVE  \A g \in Handlers : Follows(g)
BY DEF Typed, Accept, Follows

LEMMA FinishFollows ==
    ASSUME Typed, NEW h \in Handlers, Finish(h)
    PROVE  \A g \in Handlers : Follows(g)
BY DEF Typed, Finish, Follows

LEMMA ProceedFollows ==
    ASSUME Typed, NEW h \in Handlers, NEW step, Proceed(h, step)
    PROVE  \A g \in Handlers : Follows(g)
<1>1. PICK q : q = After(request[h], step)
  OBVIOUS
<1>2. request[h] \in Requests
  BY DEF Typed
<1>3. \/ q = Idle
      \/ q.token = request[h].token /\ q.todo \subseteq request[h].todo
  BY <1>1, <1>2, AfterTyped
<1>4. /\ request'[h] = q
      /\ \A g \in Handlers \ {h} : request'[g] = request[g]
  BY <1>1 DEF Typed, Proceed
<1> QED
  BY <1>3, <1>4 DEF Follows

\* A request that does not refresh holds no token.
LEMMA AskedHoldsNothing ==
    \A op, todo, u : /\ Asked(op, todo, u).token \notin Tokens
                     /\ AskedWithRow(op, todo, u).token \notin Tokens
BY AuthAssumption DEF AskedWithRow, Asked, Idle

\* So does every request.
LEMMA SessionRequestFollows ==
    ASSUME SessionsInv, NEW h \in Handlers, SessionRequest(h)
    PROVE  \A g \in Handlers : Follows(g)
<1> USE DEF SessionsInv
<1>1. ASSUME NEW u \in Users, RegisterChecks(h, u) \/ LoginChecks(h, u)
      PROVE  \A g \in Handlers : Follows(g)
  BY <1>1, AskedHoldsNothing, AcceptFollows DEF RegisterChecks, LoginChecks
<1>2. ASSUME NEW t \in Tokens, RefreshChecks(h, t)
      PROVE  \A g \in Handlers : Follows(g)
  <2> DEFINE q == [Idle EXCEPT !.op = "refresh", !.todo = {"rotate", "owner", "issue"},
                               !.token = t, !.user = token[t].owner,
                               !.password = token[t].password]
  <2>1. q.token = t /\ Accept(h, q) /\ Valid(t)
    BY <1>2 DEF RefreshChecks, Valid, Idle
  <2> HIDE DEF q
  <2> QED
    BY <2>1, AcceptFollows
<1>3. ASSUME RefreshOwner(h)
      PROVE  \A g \in Handlers : Follows(g)
  <2> DEFINE next == After(request[h], "owner")
             q == [next EXCEPT !.admin = user[request[h].user].admin]
  <2>1. request[h] \in Requests
    BY DEF Typed
  <2>2. /\ next \in Requests
        /\ next = Idle \/ (next.token = request[h].token /\ next.todo \subseteq request[h].todo)
    BY <2>1, AfterTyped
  <2>3. q.token = next.token /\ q.todo = next.todo
    BY <2>2 DEF Requests
  <2>4. next.todo = request[h].todo \ {"owner"} /\ "issue" \in request[h].todo
    BY <1>3, <2>1, AfterTyped, RequestOf, PlanTells, ReachedIs
    DEF RefreshOwner, At, Reached
  <2>5. next # Idle
    BY <2>4, IdleTyped
  <2>6. \/ request' = [request EXCEPT ![h] = q]
        \/ request' = [request EXCEPT ![h] = Idle]
    BY <1>3 DEF RefreshOwner
  <2> HIDE DEF next, q
  <2> QED
    BY <2>2, <2>3, <2>5, <2>6 DEF Typed, Follows
<1> QED
  BY <1>1, <1>2, <1>3, FinishFollows, ProceedFollows
  DEF SessionRequest, CreateUser, IssueTokenPair, RevokeRefreshToken

LEMMA OtherRequestsFollow ==
    ASSUME SessionsInv, NEW h \in Handlers,
           AccountRequest(h) \/ AdminRequest(h) \/ RequestFails(h)
    PROVE  \A g \in Handlers : Follows(g)
<1> USE DEF SessionsInv
<1>1. ASSUME NEW u \in Users, Logout(h, u) \/ ChangePassword(h, u) \/ DeleteAccount(h, u)
      PROVE  \A g \in Handlers : Follows(g)
  BY <1>1, AskedHoldsNothing, AcceptFollows DEF Logout, ChangePassword, DeleteAccount
<1>2. ASSUME NEW a \in Users, NEW u \in Users, NEW op \in AdminCalls \ {"adminDelete"},
             NEW x \in BOOLEAN, NEW y \in BOOLEAN, AdminUpdateUser(h, a, u, op, x, y)
      PROVE  \A g \in Handlers : Follows(g)
  BY <1>2, UpdateAsked, AuthAssumption, AcceptFollows
<1>3. ASSUME NEW a \in Users, NEW u \in Users, AdminDeleteUser(h, a, u)
      PROVE  \A g \in Handlers : Follows(g)
  BY <1>3, DeleteAsked, AuthAssumption, AcceptFollows
<1>4. ASSUME CountAdmins(h) \/ SetUserRoles(h) \/ SetUserActive(h)
      PROVE  \A g \in Handlers : Follows(g)
  BY <1>4, FinishFollows, ProceedFollows DEF CountAdmins, SetUserRoles, SetUserActive
<1>5. CASE AccountRequest(h)
  BY <1>1, <1>5, FinishFollows, ProceedFollows
  DEF AccountRequest, UpdatePasswordHash, RevokeAllUserTokens, RevokeAllFails, SoftDeleteUser
<1>6. CASE AdminRequest(h)
  BY <1>2, <1>3, <1>4, <1>6 DEF AdminRequest
<1> QED
  BY <1>5, <1>6, FinishFollows DEF RequestFails

\* A token that has ended stays so: the only one that becomes valid was never issued.
LEMMA EndedStays ==
    ASSUME SessionsInv, Step, NEW t \in Tokens, token[t].state = "ended"
    PROVE  token'[t].state = "ended"
<1>1. token \in [Tokens -> Sessions]
  BY DEF SessionsInv, Typed
<1>2. Ended(token[t]).state = "ended"
  BY <1>1, EndedTyped
<1>3. ASSUME NEW h \in Handlers, SessionRequest(h)
      PROVE  token'[t].state = "ended"
  BY <1>1, <1>2, <1>3
  DEF SessionRequest, RegisterChecks, LoginChecks, CreateUser, RefreshChecks, IssueTokenPair,
      RevokeRefreshToken, RefreshOwner
<1>4. ASSUME NEW h \in Handlers, AccountRequest(h)
      PROVE  token'[t].state = "ended"
  BY <1>1, <1>2, <1>4
  DEF AccountRequest, Logout, ChangePassword, DeleteAccount, UpdatePasswordHash,
      RevokeAllUserTokens, RevokeAllFails, ValidOf, SoftDeleteUser
<1>5. ASSUME NEW h \in Handlers, AdminRequest(h) \/ RequestFails(h)
      PROVE  token'[t].state = "ended"
  <2>1. ASSUME NEW a \in Users, NEW u \in Users, NEW op \in AdminCalls \ {"adminDelete"},
               NEW y \in BOOLEAN, NEW z \in BOOLEAN, AdminUpdateUser(h, a, u, op, y, z)
        PROVE  token'[t].state = "ended"
    BY <2>1 DEF AdminUpdateUser
  <2>2. ASSUME NEW a \in Users, NEW u \in Users, AdminDeleteUser(h, a, u)
        PROVE  token'[t].state = "ended"
    BY <2>2 DEF AdminDeleteUser
  <2>3. ASSUME CountAdmins(h) \/ SetUserRoles(h) \/ SetUserActive(h)
        PROVE  token'[t].state = "ended"
    BY <2>3 DEF CountAdmins, SetUserRoles, SetUserActive
  <2>4. CASE AdminRequest(h)
    BY <2>1, <2>2, <2>3, <2>4 DEF AdminRequest
  <2> QED
    BY <1>5, <2>4 DEF RequestFails
<1>6. ASSUME NEW x \in Tokens, RefreshTokenExpires(x)
      PROVE  token'[t].state = "ended"
  BY <1>1, <1>2, <1>6 DEF RefreshTokenExpires
<1> QED
  BY <1>3, <1>4, <1>5, <1>6 DEF Step, Retention

\* What a step does to tokens and to those who hold them.
LEMMA StepFollows ==
    ASSUME SessionsInv, Step
    PROVE  \A h \in Handlers : Follows(h)
<1>1. ASSUME UNCHANGED request
      PROVE  \A h \in Handlers : Follows(h)
  BY <1>1 DEF Follows
<1> QED
  BY <1>1, SessionRequestFollows, OtherRequestsFollow DEF Step, RefreshTokenExpires, Retention

\* What a step leaves of SpentInv, once Remember has taken note of it.
LEMMA NextSpentInv == SpentInv /\ [Next]_vars => SpentInv'
<1> SUFFICES ASSUME SpentInv, [Next]_vars PROVE SpentInv'
  OBVIOUS
<1> USE DEF SpentInv, HistoryTyped
<1>1. SessionsInv'
  BY NextSessionsInv
<1>2. CASE UNCHANGED vars
  <2>1. \A t : Holding(t)' = Holding(t)
    BY <1>2 DEF vars, Holding
  <2> QED
    BY <1>1, <1>2, <2>1 DEF vars
<1>3. CASE Step /\ Remember
  <2>1. HistoryTyped'
    <3>1. spent' \subseteq Tokens /\ shared' \subseteq Tokens
      BY <1>3 DEF Remember
    <3>2. overlap' \in BOOLEAN
      BY <1>3 DEF Remember
    <3> QED
      BY <3>1, <3>2
  <2>2. ASSUME NEW g \in Handlers, NEW h \in Handlers, g # h,
               request'[g].token \in Tokens, request'[g].token = request'[h].token
        PROVE  request'[g].token \in shared'
    <3>1. PICK t \in Tokens : t = request'[g].token
      BY <2>2
    <3>2. g \in Holding(t)' /\ h \in Holding(t)'
      BY <2>2, <3>1 DEF Holding
    <3> QED
      BY <1>3, <2>2, <3>1, <3>2 DEF Remember
  <2>3. ASSUME NEW t \in spent', t \notin spent
        PROVE  \/ Holding(t)' = {} /\ token'[t].state = "ended"
               \/ \E h \in Holding(t) : At(h, "rotate") /\ At(h, "owner")'
    BY <1>3, <2>3 DEF Remember
  <2>4. ASSUME NEW t \in spent', t \notin spent, NEW h \in Holding(t),
               At(h, "rotate"), At(h, "owner")'
        PROVE  /\ request'[h].token = t
               /\ "rotate" \notin request'[h].todo
               /\ token'[t].state = "ended"
    <3>1. h \in Handlers /\ request[h].token = t /\ t \in Tokens
      BY <2>1, <2>4 DEF Holding
    <3>2. request[h] # Idle /\ request'[h] # Idle
      BY <2>4, IdleTyped DEF At
    <3>3. request'[h].token = t
      BY <1>3, <3>1, <3>2, StepFollows DEF Follows
    <3>4. "rotate" \notin request'[h].todo
      BY <2>4 DEF At, Earlier
    <3> QED
      BY <1>1, <3>1, <3>3, <3>4 DEF SessionsInv, HeldIsKept
  <2>5. ASSUME NEW t \in spent'
        PROVE  token'[t].state = "ended"
    <3>1. CASE t \in spent
      BY <1>3, <3>1, EndedStays
    <3> QED
      BY <2>3, <2>4, <2>5, <3>1
  <2>6. ASSUME NEW t \in spent', NEW h \in Holding(t)', "rotate" \in request'[h].todo
        PROVE  t \in shared'
    <3>1. h \in Handlers /\ request'[h].token = t /\ t \in Tokens
      BY <2>1, <2>6 DEF Holding
    <3>2. CASE t \in spent
      <4>1. token[t].state = "ended"
        BY <3>2
      <4>2. request'[h] # Idle
        BY <2>6, IdleTyped
      <4>3. request[h].token = t /\ "rotate" \in request[h].todo
        BY <1>3, <2>6, <3>1, <4>1, <4>2, StepFollows DEF Follows, Valid
      <4>4. t \in shared
        BY <3>1, <3>2, <4>3 DEF Holding
      <4> QED
        BY <1>3, <2>6, <3>1, <4>4 DEF Remember
    <3>3. CASE t \notin spent
      <4>1. PICK g \in Holding(t) : At(g, "rotate") /\ At(g, "owner")'
        BY <2>3, <2>6, <3>3
      <4>2. g \in Handlers /\ request'[g].token = t /\ "rotate" \notin request'[g].todo
        BY <2>4, <3>3, <4>1 DEF Holding
      <4> QED
        BY <2>2, <2>6, <3>1, <4>2
    <3> QED
      BY <3>2, <3>3
  <2> QED
    BY <1>1, <2>1, <2>2, <2>5, <2>6
<1> QED
  BY <1>2, <1>3 DEF Next

LEMMA SpentAlways == Spec => []SpentInv
<1>1. Init => SpentInv
  <2> SUFFICES ASSUME Init PROVE SpentInv
    OBVIOUS
  <2>1. \A h \in Handlers : request[h].token \notin Tokens
    BY IdleTyped, AuthAssumption DEF Init
  <2> QED
    BY <2>1, InitSessionsInv DEF Init, SpentInv, HistoryTyped
<1> QED
  BY <1>1, NextSpentInv, PTL DEF Spec

\* The tables, the requests, the tokens handed out and the history stay what TypeOK
\* says.
THEOREM TypeCorrect == Spec => []TypeOK
<1>1. SpentInv => TypeOK
  BY DEF SpentInv, SessionsInv, HistoryTyped, Typed, Accounts, Sessions, Claims, Requests,
         TypeOK
<1> QED
  BY <1>1, SpentAlways, PTL

\* Refresh checks, revokes and issues in statements of their own (auth_service.go:174-202):
\* a spent token buys nothing but what refreshes that checked it together buy, however
\* many run, whatever fails and whatever else ends it in between.
THEOREM SpentTokensBuyNothing == Spec => []SpentBuysNothingUnlessShared
<1>1. SpentInv => SpentBuysNothingUnlessShared
  <2> SUFFICES ASSUME SpentInv, NEW t \in spent, NEW h \in Holding(t), At(h, "rotate")
               PROVE  t \in shared
    BY DEF SpentBuysNothingUnlessShared, SpentInv, Valid
  <2> QED
    BY DEF SpentInv, At
<1> QED
  BY <1>1, SpentAlways, PTL

-----------------------------------------------------------------------------
(* Somebody can administer the system *)

\* The statements that count the administrators.
Guards == {"guardActive", "guardRoles"}

\* Somebody who can administer the system, or could if he had not gone of himself.
Counts(u) ==
    /\ user[u].admin
    /\ (Present(u) /\ user[u].active) \/ user[u].state \in {"left", "retired"}

\* Somebody counts, and whoever is being removed, somebody else does.
AdminsLeft ==
    /\ \E u \in Users : Counts(u)
    /\ \A h \in Handlers : Removing(h) => \E v \in Users \ {request[h].user} : Counts(v)

\* The inductive invariant of AdminRemains: so it is unless removals overlap.
AdminsInv ==
    /\ SessionsInv
    /\ overlap \in BOOLEAN
    /\ Overlapping => overlap
    /\ overlap \/ AdminsLeft

\* Where they do not.
Counted == SessionsInv /\ AdminsLeft /\ ~Overlapping

\* Removing, in the words of Removes.
LEMMA RemovingIs ==
    \A h : Removing(h) <=> /\ Removes(request[h]) /\ request[h].todo \cap Guards = {}
                           /\ user[request[h].user].admin
BY DEF Removing, Removes, Guards

\* What becomes of the request h of a step that takes nobody away.  Whoever becomes an
\* administrator did not count, so that somebody else does.
LEMMA NobodyLost ==
    ASSUME Counted, NEW h \in Handlers, NEW q, request' = [request EXCEPT ![h] = q],
           Removes(q) /\ q.todo \cap Guards = {} /\ user[q.user].admin =>
               \E v \in Users \ {q.user} : Counts(v),
           \A v \in Users : Counts(v) => Counts(v)'
    PROVE  AdminsLeft'
<1>1. /\ request'[h] = q
      /\ \A g \in Handlers \ {h} : request'[g] = request[g]
  BY DEF Counted, SessionsInv, Typed
<1>2. ASSUME NEW g \in Handlers, Removing(g)'
      PROVE  \E v \in Users \ {request'[g].user} : Counts(v)
  <2>1. Removes(request'[g]) /\ request'[g].todo \cap Guards = {}
    BY <1>2 DEF Removing, Removes, Guards
  <2>2. CASE ~user[request'[g].user].admin
    BY <2>2 DEF Counts, Counted, AdminsLeft
  <2>3. CASE user[request'[g].user].admin /\ g = h
    BY <1>1, <2>1, <2>3
  <2>4. CASE user[request'[g].user].admin /\ g # h
    BY <1>1, <2>1, <2>4, RemovingIs DEF Counted, AdminsLeft
  <2> QED
    BY <2>2, <2>3, <2>4
<1> QED
  BY <1>2 DEF Counted, AdminsLeft

\* A request past its guards takes its own user away: somebody else is left, and every
\* other removal is one of the same user.
LEMMA OneLost ==
    ASSUME Counted, NEW h \in Handlers, NEW x, x = request[h].user,
           Removes(request[h]), request[h].todo \cap Guards = {},
           NEW q, request' = [request EXCEPT ![h] = q], Removes(q) => q.user = x,
           \A v \in Users \ {x} : Counts(v) => Counts(v)'
    PROVE  AdminsLeft'
<1>1. /\ request'[h] = q
      /\ \A g \in Handlers \ {h} : request'[g] = request[g]
  BY DEF Counted, SessionsInv, Typed
<1>2. PICK v \in Users \ {x} : Counts(v)
  <2>1. CASE user[x].admin
    BY <2>1, RemovingIs DEF Counted, AdminsLeft
  <2>2. CASE ~user[x].admin
    BY <2>2 DEF Counted, AdminsLeft, Counts
  <2> QED
    BY <2>1, <2>2
<1>3. ASSUME NEW g \in Handlers, Removing(g)'
      PROVE  \E w \in Users \ {request'[g].user} : w # x /\ Counts(w)
  <2>1. Removes(request'[g]) /\ request'[g].todo \cap Guards = {}
    BY <1>3 DEF Removing, Removes, Guards
  <2>2. CASE g = h
    BY <1>1, <1>2, <2>1, <2>2
  <2>3. CASE ~user[request'[g].user].admin
    BY <1>2, <2>3 DEF Counts
  <2>4. CASE g # h /\ user[request'[g].user].admin
    <3>1. request'[g] = request[g] /\ Removing(g)
      BY <1>1, <2>1, <2>4, RemovingIs
    <3>2. CASE user[x].admin
      <4>1. Removing(h)
        BY <3>2, RemovingIs
      <4>2. request[g].user = x
        BY <3>1, <4>1 DEF Counted, Overlapping
      <4> QED
        BY <1>2, <3>1, <4>2
    <3>3. CASE ~user[x].admin
      BY <3>1, <3>3 DEF Counted, AdminsLeft, Counts
    <3> QED
      BY <3>2, <3>3
  <2> QED
    BY <2>2, <2>3, <2>4
<1>4. \E u \in Users : Counts(u)'
  BY <1>2
<1>5. \A g \in Handlers : Removing(g)' => \E w \in Users \ {request'[g].user} : Counts(w)'
  BY <1>3
<1> QED
  BY <1>4, <1>5 DEF AdminsLeft

\* What Accept, Proceed and Finish leave of a request that removes.
LEMMA AcceptRemovesNobody ==
    ASSUME Counted, NEW h \in Handlers, NEW q, Accept(h, q), q.op \notin AdminCalls,
           UNCHANGED user
    PROVE  AdminsLeft'
BY NobodyLost DEF Accept, Removes, Counts, Present

LEMMA FinishRemovesNobody ==
    ASSUME Counted, NEW h \in Handlers, Finish(h),
           \A v \in Users : Counts(v) => Counts(v)'
    PROVE  AdminsLeft'
<1>1. ~Removes(Idle)
  BY IdleTyped DEF Removes
<1> QED
  BY <1>1, NobodyLost DEF Finish

LEMMA ProceedRemoves ==
    ASSUME Counted, NEW h \in Handlers, NEW step \in Statements,
           At(h, step), Proceed(h, step),
           NEW q, q = After(request[h], step), Removes(q)
    PROVE  /\ Removes(request[h]) /\ q.user = request[h].user
           /\ q.todo = request[h].todo \ {step}
<1>1. q # Idle
  BY IdleTyped DEF Removes, AdminCalls
<1> QED
  BY <1>1, ProceedMoves DEF Counted, SessionsInv, Removes

LEMMA ProceedRemovesNobody ==
    ASSUME Counted, NEW h \in Handlers, NEW step \in Statements \ Guards,
           At(h, step), Proceed(h, step),
           \A v \in Users : Counts(v) => Counts(v)'
    PROVE  AdminsLeft'
<1> DEFINE q == After(request[h], step)
<1>1. ASSUME Removes(q), q.todo \cap Guards = {}, user[q.user].admin
      PROVE  \E v \in Users \ {q.user} : Counts(v)
  <2>1. /\ Removes(request[h]) /\ q.user = request[h].user
        /\ q.todo = request[h].todo \ {step}
    BY <1>1, ProceedRemoves
  <2> HIDE DEF q
  <2> QED
    BY <1>1, <2>1, RemovingIs DEF Counted, AdminsLeft, Guards
<1>2. request' = [request EXCEPT ![h] = q]
  BY DEF Typed, Proceed, Counted, SessionsInv
<1> HIDE DEF q
<1> QED
  BY <1>1, <1>2, NobodyLost

\* A count that lets a request go on leaves another administrator.
LEMMA CountLeavesOne ==
    ASSUME Cardinality(ActiveAdmins) > 1, NEW x
    PROVE  \E v \in Users \ {x} : Counts(v)
<1>1. ~(ActiveAdmins \subseteq {x})
  <2> SUFFICES ASSUME ActiveAdmins \subseteq {x} PROVE FALSE
    OBVIOUS
  <2>1. IsFiniteSet({x}) /\ Cardinality({x}) = 1
    BY FS_Singleton
  <2>2. Cardinality(ActiveAdmins) <= 1 /\ Cardinality(ActiveAdmins) \in Nat
    BY <2>1, FS_Subset, FS_CardinalityType
  <2> QED
    BY <2>2
<1> QED
  BY <1>1 DEF ActiveAdmins, Counts

\* The requests that begin sessions and go on with them.
LEMMA SessionRequestsLeaveOne ==
    ASSUME Counted, NEW h \in Handlers, SessionRequest(h)
    PROVE  AdminsLeft'
<1>1. ASSUME NEW u \in Users, RegisterChecks(h, u)
      PROVE  AdminsLeft'
  <2> DEFINE q == AskedWithRow("register", {"create", "issue"}, u)
  <2>1. q.op = "register"
    BY DEF AskedWithRow, Asked, Idle
  <2> HIDE DEF q
  <2> QED
    BY <1>1, <2>1, AcceptRemovesNobody DEF RegisterChecks, AdminCalls, q
<1>2. ASSUME NEW u \in Users, LoginChecks(h, u)
      PROVE  AdminsLeft'
  <2> DEFINE q == AskedWithRow("login", {"issue"}, u)
  <2>1. q.op = "login"
    BY DEF AskedWithRow, Asked, Idle
  <2> HIDE DEF q
  <2> QED
    BY <1>2, <2>1, AcceptRemovesNobody DEF LoginChecks, AdminCalls, q
<1>3. ASSUME CreateUser(h)
      PROVE  AdminsLeft'
  <2>1. /\ At(h, "create") /\ "create" \in Statements \ Guards
        /\ Finish(h) \/ Proceed(h, "create")
    BY <1>3, StatementsAre DEF CreateUser, Guards
  <2>2. user \in [Users -> Accounts]
    BY DEF Typed, Counted, SessionsInv
  <2>3. \A v \in Users : Counts(v) => Counts(v)'
    BY <1>3, <2>2 DEF CreateUser, Counts, Present, Accounts
  <2> QED
    BY <2>1, <2>3, FinishRemovesNobody, ProceedRemovesNobody
<1>4. ASSUME NEW t \in Tokens, RefreshChecks(h, t)
      PROVE  AdminsLeft'
  <2> DEFINE q == [Idle EXCEPT !.op = "refresh", !.todo = {"rotate", "owner", "issue"},
                               !.token = t, !.user = token[t].owner,
                               !.password = token[t].password]
  <2>1. q.op = "refresh"
    BY DEF Idle
  <2>2. Accept(h, q) /\ UNCHANGED user
    BY <1>4 DEF RefreshChecks
  <2> HIDE DEF q
  <2> QED
    BY <2>1, <2>2, AcceptRemovesNobody DEF AdminCalls
<1>5. ASSUME NEW t \in Tokens, IssueTokenPair(h, t)
      PROVE  AdminsLeft'
  BY <1>5, FinishRemovesNobody DEF IssueTokenPair, Counts, Present
<1>6. ASSUME RevokeRefreshToken(h)
      PROVE  AdminsLeft'
  <2>1. "rotate" \in Statements \ Guards
    BY StatementsAre DEF Guards
  <2> QED
    BY <1>6, <2>1, ProceedRemovesNobody DEF RevokeRefreshToken, Counts, Present
<1>7. ASSUME RefreshOwner(h)
      PROVE  AdminsLeft'
  <2>1. request[h] \in Requests /\ request[h].op = "refresh"
    BY <1>7, RequestOf, PlanTells, ReachedIs
    DEF RefreshOwner, At, Reached, Counted, SessionsInv
  <2>2. PICK q : request' = [request EXCEPT ![h] = q] /\ q.op \in {"refresh", "none"}
    <3> DEFINE next == After(request[h], "owner")
               goesOn == [next EXCEPT !.admin = user[request[h].user].admin]
    <3>1. next \in Requests /\ next.op \in {"refresh", "none"}
      BY <2>1, AfterTyped, IdleTyped
    <3>2. goesOn.op = next.op
      BY <3>1 DEF Requests
    <3>3. \/ request' = [request EXCEPT ![h] = Idle]
          \/ request' = [request EXCEPT ![h] = goesOn]
      BY <1>7 DEF RefreshOwner
    <3> HIDE DEF goesOn, next
    <3> QED
      BY <3>1, <3>2, <3>3, IdleTyped
  <2> QED
    BY <1>7, <2>2, NobodyLost DEF RefreshOwner, Removes, AdminCalls, Counts, Present
<1> QED
  BY <1>1, <1>2, <1>3, <1>4, <1>5, <1>6, <1>7 DEF SessionRequest

\* What users ask of their own accounts, and the deletions.
LEMMA AccountRequestsLeaveOne ==
    ASSUME Counted, NEW h \in Handlers, AccountRequest(h)
    PROVE  AdminsLeft'
<1>1. ASSUME NEW u \in Users, Logout(h, u) \/ ChangePassword(h, u) \/ DeleteAccount(h, u)
      PROVE  AdminsLeft'
  <2>1. PICK q : Accept(h, q) /\ q.op \in {"logout", "password", "deleteAccount"}
    <3>1. \A op, todo : Asked(op, todo, u).op = op
      BY DEF Asked, Idle
    <3> QED
      BY <1>1, <3>1 DEF Logout, ChangePassword, DeleteAccount
  <2> QED
    BY <1>1, <2>1, AcceptRemovesNobody DEF Logout, ChangePassword, DeleteAccount, AdminCalls
<1>2. ASSUME UpdatePasswordHash(h)
      PROVE  AdminsLeft'
  <2>1. "hash" \in Statements \ Guards
    BY StatementsAre DEF Guards
  <2>2. user \in [Users -> Accounts]
    BY DEF Typed, Counted, SessionsInv
  <2>3. \A v \in Users : Counts(v) => Counts(v)'
    BY <1>2, <2>2 DEF UpdatePasswordHash, NewPassword, Counts, Present, Accounts
  <2> QED
    BY <1>2, <2>1, <2>3, ProceedRemovesNobody DEF UpdatePasswordHash
<1>3. ASSUME RevokeAllUserTokens(h) \/ RevokeAllFails(h)
      PROVE  AdminsLeft'
  <2>1. "revoke" \in Statements \ Guards
    BY StatementsAre DEF Guards
  <2> QED
    BY <1>3, <2>1, ProceedRemovesNobody
    DEF RevokeAllUserTokens, RevokeAllFails, Counts, Present
<1>4. ASSUME SoftDeleteUser(h)
      PROVE  AdminsLeft'
  <2>1. PICK x : x = request[h].user
    OBVIOUS
  <2>2. user \in [Users -> Accounts]
    BY DEF Typed, Counted, SessionsInv
  <2>3. /\ request[h].op \in {"deleteAccount", "adminDelete"}
        /\ "delete" \in request[h].todo /\ "guardActive" \notin request[h].todo
    BY <1>4, RequestOf, PlanTells, ReachedIs
    DEF SoftDeleteUser, At, Reached, Counted, SessionsInv
  <2>4. CASE request[h].op = "deleteAccount"
    <3>1. \A v \in Users : Counts(v) => Counts(v)'
      BY <1>4, <2>2, <2>4 DEF SoftDeleteUser, Counts, Present, Accounts
    <3> QED
      BY <1>4, <3>1, FinishRemovesNobody DEF SoftDeleteUser
  <2>5. CASE request[h].op = "adminDelete"
    <3>1. Removes(request[h]) /\ request[h].todo \cap Guards = {}
      BY <2>3, <2>5, RequestOf DEF Removes, AdminCalls, Guards, PlanKept, Counted, SessionsInv
    <3>2. \A v \in Users \ {x} : Counts(v) => Counts(v)'
      BY <1>4, <2>1, <2>2 DEF SoftDeleteUser, Counts, Present, Accounts
    <3>3. request' = [request EXCEPT ![h] = Idle] /\ ~Removes(Idle)
      BY <1>4, IdleTyped DEF SoftDeleteUser, Finish, Removes
    <3> QED
      BY <2>1, <3>1, <3>2, <3>3, OneLost
  <2> QED
    BY <2>3, <2>4, <2>5
<1> QED
  BY <1>1, <1>2, <1>3, <1>4 DEF AccountRequest

\* The guards, the roles, the status and the deletion of administrators' requests.
LEMMA AdminRequestsLeaveOne ==
    ASSUME Counted, NEW h \in Handlers, AdminRequest(h)
    PROVE  AdminsLeft'
<1> USE DEF Counted, SessionsInv
<1>1. user \in [Users -> Accounts] /\ request[h] \in Requests /\ PlanKept(request[h])
  BY RequestOf DEF Typed
<1>2. PICK x : x = request[h].user
  OBVIOUS
<1>3. ASSUME NEW a \in Users, NEW u \in Users, NEW op \in AdminCalls \ {"adminDelete"},
             NEW y \in BOOLEAN, NEW z \in BOOLEAN, AdminUpdateUser(h, a, u, op, y, z)
      PROVE  AdminsLeft'
  <2>1. PICK q \in Requests :
            /\ Accept(h, q) /\ q.user = u
            /\ user[u].admin /\ Removes(q) => q.todo \cap Guards # {}
    BY <1>3, UpdateAsked DEF Guards
  <2>2. Removes(q) /\ q.todo \cap Guards = {} /\ user[q.user].admin => FALSE
    BY <2>1
  <2>3. request' = [request EXCEPT ![h] = q] /\ UNCHANGED user
    BY <1>3, <2>1 DEF AdminUpdateUser, Accept
  <2>4. \A v \in Users : Counts(v) => Counts(v)'
    BY <2>3 DEF Counts, Present
  <2> QED
    BY <2>2, <2>3, <2>4, NobodyLost
<1>4. ASSUME NEW a \in Users, NEW u \in Users, AdminDeleteUser(h, a, u)
      PROVE  AdminsLeft'
  <2>1. PICK q \in Requests :
            /\ Accept(h, q) /\ q.user = u
            /\ user[u].admin => "guardActive" \in q.todo
    BY <1>4, DeleteAsked
  <2>2. q.todo \cap Guards = {} => ~user[q.user].admin
    BY <2>1 DEF Guards
  <2>3. request' = [request EXCEPT ![h] = q] /\ UNCHANGED user
    BY <1>4, <2>1 DEF AdminDeleteUser, Accept
  <2>4. \A v \in Users : Counts(v) => Counts(v)'
    BY <2>3 DEF Counts, Present
  <2> QED
    BY <2>2, <2>3, <2>4, NobodyLost
<1>5. ASSUME CountAdmins(h)
      PROVE  AdminsLeft'
  <2>1. PICK guard \in Guards :
            /\ At(h, guard)
            /\ Finish(h) \/ (Cardinality(ActiveAdmins) > 1 /\ Proceed(h, guard))
    BY <1>5 DEF CountAdmins, Guards
  <2>2. \A v \in Users : Counts(v) => Counts(v)'
    BY <1>5 DEF CountAdmins, Counts, Present
  <2>3. CASE Finish(h)
    BY <2>2, <2>3, FinishRemovesNobody
  <2>4. CASE Cardinality(ActiveAdmins) > 1 /\ Proceed(h, guard)
    <3>1. PICK q : q = After(request[h], guard)
      OBVIOUS
    <3>2. \E v \in Users \ {q.user} : Counts(v)
      BY <2>4, CountLeavesOne
    <3> QED
      BY <2>2, <2>4, <3>1, <3>2, NobodyLost DEF Typed, Proceed
  <2> QED
    BY <2>1, <2>3, <2>4
<1>6. ASSUME SetUserRoles(h)
      PROVE  AdminsLeft'
  <2>1. /\ At(h, "roles") /\ Proceed(h, "roles") /\ "roles" \in Statements \ Guards
        /\ user' = [user EXCEPT ![x].admin = request[h].admin]
        /\ request[h].admin \in BOOLEAN
    BY <1>1, <1>2, <1>6, StatementsAre DEF SetUserRoles, Guards, Requests
  <2>2. CASE request[h].admin
    <3>1. \A v \in Users : Counts(v) => Counts(v)'
      BY <1>1, <2>1, <2>2 DEF Counts, Present, Accounts
    <3> QED
      BY <2>1, <3>1, ProceedRemovesNobody
  <2>3. CASE ~request[h].admin
    <3>1. /\ "roles" \in request[h].todo /\ request[h].todo \cap Guards = {}
          /\ request[h].op \in {"setRoles", "setActive", "setBoth"}
      BY <1>1, <2>1, ReachedIs, PlanTells DEF At, Reached, Guards
    <3>2. Removes(request[h])
      BY <2>3, <3>1 DEF Removes, AdminCalls
    <3>3. \A v \in Users \ {x} : Counts(v) => Counts(v)'
      BY <1>1, <2>1 DEF Counts, Present, Accounts
    <3>4. PICK q : q = After(request[h], "roles")
      OBVIOUS
    <3>5. request' = [request EXCEPT ![h] = q] /\ (Removes(q) => q.user = x)
      BY <1>2, <2>1, <3>4, ProceedRemoves DEF Typed, Proceed
    <3> QED
      BY <1>2, <3>1, <3>2, <3>3, <3>5, OneLost
  <2> QED
    BY <2>1, <2>2, <2>3
<1>7. ASSUME SetUserActive(h)
      PROVE  AdminsLeft'
  <2>1. /\ At(h, "active") /\ "active" \in Statements \ Guards
        /\ user' = [user EXCEPT ![x].active = IF Present(x) THEN request[h].active ELSE @]
        /\ IF Present(x) THEN Proceed(h, "active") ELSE Finish(h)
        /\ request[h].active \in BOOLEAN
    BY <1>1, <1>2, <1>7, StatementsAre DEF SetUserActive, Guards, Requests
  <2>2. CASE ~Present(x)
    <3>1. \A v \in Users : Counts(v) => Counts(v)'
      BY <1>1, <2>1, <2>2 DEF Counts, Present, Accounts
    <3> QED
      BY <2>1, <2>2, <3>1, FinishRemovesNobody
  <2>3. CASE Present(x) /\ request[h].active
    <3>1. \A v \in Users : Counts(v) => Counts(v)'
      BY <1>1, <2>1, <2>3 DEF Counts, Present, Accounts
    <3> QED
      BY <2>1, <2>3, <3>1, ProceedRemovesNobody
  <2>4. CASE Present(x) /\ ~request[h].active
    <3>1. /\ "active" \in request[h].todo /\ request[h].todo \cap Guards = {}
          /\ request[h].op \in {"setRoles", "setActive", "setBoth"}
      BY <1>1, <2>1, ReachedIs, PlanTells DEF At, Reached, Guards
    <3>2. Removes(request[h])
      BY <2>4, <3>1 DEF Removes, AdminCalls
    <3>3. \A v \in Users \ {x} : Counts(v) => Counts(v)'
      BY <1>1, <2>1 DEF Counts, Present, Accounts
    <3>4. PICK q : q = After(request[h], "active")
      OBVIOUS
    <3>5. request' = [request EXCEPT ![h] = q] /\ (Removes(q) => q.user = x)
      BY <1>2, <2>1, <2>4, <3>4, ProceedRemoves DEF Typed, Proceed
    <3> QED
      BY <1>2, <3>1, <3>2, <3>3, <3>5, OneLost
  <2> QED
    BY <2>1, <2>2, <2>3, <2>4
<1> QED
  BY <1>3, <1>4, <1>5, <1>6, <1>7 DEF AdminRequest

\* So does every step.
LEMMA StepLeavesOne ==
    ASSUME Counted, Step
    PROVE  AdminsLeft'
<1>1. ASSUME NEW h \in Handlers, RequestFails(h)
      PROVE  AdminsLeft'
  BY <1>1, FinishRemovesNobody DEF RequestFails, Counts, Present
<1>2. ASSUME UNCHANGED request, \A u \in Users : Counts(u) => Counts(u)'
      PROVE  AdminsLeft'
  <2>1. ASSUME NEW g \in Handlers, Removing(g)'
        PROVE  \E v \in Users \ {request[g].user} : Counts(v)
    <3>1. CASE user[request[g].user].admin
      BY <1>2, <2>1, <3>1 DEF Removing, Counted, AdminsLeft
    <3>2. CASE ~user[request[g].user].admin
      BY <3>2 DEF Counted, AdminsLeft, Counts
    <3> QED
      BY <3>1, <3>2
  <2> QED
    BY <1>2, <2>1 DEF Counted, AdminsLeft
<1>3. ASSUME NEW t \in Tokens, RefreshTokenExpires(t)
      PROVE  AdminsLeft'
  BY <1>2, <1>3 DEF RefreshTokenExpires, Counts, Present
<1>4. ASSUME NEW dormant \in SUBSET Users, Retention(dormant)
      PROVE  AdminsLeft'
  <2>1. user \in [Users -> Accounts]
    BY DEF Counted, SessionsInv, Typed
  <2>2. \A u \in Users : Counts(u) => Counts(u)'
    BY <1>4, <2>1 DEF Retention, Counts, Present, Accounts
  <2> QED
    BY <1>2, <1>4, <2>2 DEF Retention
<1> QED
  BY <1>1, <1>3, <1>4, SessionRequestsLeaveOne, AccountRequestsLeaveOne,
     AdminRequestsLeaveOne
  DEF Step

\* There is an administrator to begin with.
LEMMA InitAdminsInv == Init => AdminsInv
<1> SUFFICES ASSUME Init PROVE AdminsInv
  OBVIOUS
<1>1. \A h \in Handlers : ~Removing(h)
  BY IdleTyped DEF Init, Removing, AdminCalls
<1>2. PICK u \in Admins : u \in Users
  BY AuthAssumption
<1>3. Counts(u)
  BY <1>2 DEF Init, Counts, Present
<1> QED
  BY <1>1, <1>2, <1>3, InitSessionsInv DEF Init, AdminsInv, AdminsLeft, Overlapping

\* Once overlapping removals are done and have left an administrator, all is as before
\* they began.
LEMMA NextAdminsInv == AdminsInv /\ [Next]_vars => AdminsInv'
<1> SUFFICES ASSUME AdminsInv, [Next]_vars PROVE AdminsInv'
  OBVIOUS
<1> USE DEF AdminsInv
<1>1. SessionsInv'
  BY NextSessionsInv
<1>2. CASE UNCHANGED vars
  BY <1>1, <1>2
  DEF vars, AdminsLeft, Overlapping, Removing, Counts, Present
<1>3. CASE Step /\ Remember
  <2>1. /\ overlap' \in BOOLEAN
        /\ Overlapping' => overlap'
        /\ overlap /\ ~overlap' => ActiveAdmins' # {} /\ \A h \in Handlers : ~Removing(h)'
    BY <1>3 DEF Remember
  <2>2. CASE overlap
    <3>1. ASSUME ~overlap'
          PROVE  AdminsLeft'
      <4>1. ActiveAdmins' # {} /\ \A h \in Handlers : ~Removing(h)'
        BY <2>1, <2>2, <3>1
      <4>2. \E u \in Users : Counts(u)'
        BY <4>1 DEF ActiveAdmins, Counts, Present
      <4> QED
        BY <4>1, <4>2 DEF AdminsLeft
    <3> QED
      BY <1>1, <2>1, <3>1
  <2>3. CASE ~overlap
    BY <1>1, <1>3, <2>1, <2>3, StepLeavesOne DEF Counted
  <2> QED
    BY <2>2, <2>3
<1> QED
  BY <1>2, <1>3 DEF Next

\* ErrLastAdmin (auth_service.go:29, 431-563): however many administrators act at the same
\* time, somebody can administer the system, unless removals of two administrators
\* overlapped, or one deleted his own account or was retired.
THEOREM AnAdministratorRemains == Spec => []AdminRemains
<1>1. AdminsInv => AdminRemains
  BY DEF AdminsInv, AdminsLeft, Counts, AdminRemains, ActiveAdmins, Present
<1> QED
  BY <1>1, InitAdminsInv, NextAdminsInv, PTL DEF Spec
=============================================================================
