---------------------------- MODULE ClientTokens ----------------------------
(***************************************************************************)
(* The token pair in a browser: one localStorage shared by the tabs of the *)
(* dashboard, scripts that read and replace the pair between their awaits  *)
(* (research.js), the login page, and the rotation of auth-svc at the      *)
(* other end.  AuthSessions follows the accounts behind the tokens.        *)
(*                                                                         *)
(* A script runs without interruption up to its next await.  A pair is its *)
(* number; a call is one execution of fetchJSON, apiCall, the timer of     *)
(* init, or the submit handler of the login page.                          *)
(***************************************************************************)
EXTENDS Naturals

CONSTANTS
    Tabs,      \* tabs of one browser
    Calls,     \* calls that can be under way at once
    TabOf,     \* the tab a call belongs to
    MaxPairs   \* bound: pairs auth-svc issues

ASSUME ClientAssumption ==
    /\ TabOf \in [Calls -> Tabs]
    /\ MaxPairs \in Nat \ {0}

VARIABLES
    refresh,    \* auth-svc: the state of each pair's refresh token
    access,     \* how far each pair's access token is from its expiry
    store,      \* localStorage
    page,       \* what each tab shows
    call,       \* what each call is doing
    disturbed,  \* history: something has interfered with a refresh
    last,       \* history: a login, a logout, or a logout that fell into a refresh
    thrownAway  \* history: a pair that could still be refreshed was removed, with
                \* nothing having interfered

cvars == <<refresh, access, store, page, call, disturbed, last, thrownAway>>

Pairs == 1..MaxPairs
Empty == [access |-> 0, refresh |-> 0]
Idle  == [kind |-> "none", at |-> "idle", token |-> 0, new |-> 0, life |-> "none"]

Init ==
    /\ refresh = [p \in Pairs |-> "unissued"]
    /\ access = [p \in Pairs |-> "fresh"]
    /\ store = Empty
    /\ page = [t \in Tabs |-> "login"]
    /\ call = [c \in Calls |-> Idle]
    /\ disturbed = FALSE
    /\ last = "logout"
    /\ thrownAway = FALSE

\* POST /auth/refresh is out: sent, between its two statements, or answered.
Exchanging(c) ==
    call[c].kind /= "login" /\ call[c].at \in {"asking", "rotating", "answered", "refused"}

\* The pair in store can be refreshed.
Usable == store.refresh /= 0 /\ refresh[store.refresh] = "valid"

Set(c, change) == call' = [call EXCEPT ![c] = change]
Become(c, step) == Set(c, [call[c] EXCEPT !.at = step])
Disturb(holds) == disturbed' = IF holds THEN TRUE ELSE disturbed

-----------------------------------------------------------------------------
(* research.js *)

\* The request itself, with the access token the headers take from store.
Sending(kind, p) ==
    [Idle EXCEPT !.kind = kind, !.at = "sent", !.token = p,
                 !.life = IF p = 0 THEN "none" ELSE access[p]]

\* refreshAccessToken up to its await.  Nothing keeps two calls from asking with
\* the same token.
AskForPair(c, kind) ==
    /\ Set(c, [Idle EXCEPT !.kind = kind, !.at = "asking", !.token = store.refresh])
    /\ Disturb(\E d \in Calls : Exchanging(d) /\ call[d].token = store.refresh)

\* Mutant: the token is refreshed when it has expired, not five minutes before.
StartCallLate(c, kind) ==
    /\ call[c] = Idle /\ page[TabOf[c]] /= "login"
    /\ IF store.access = 0 \/ access[store.access] /= "expired"
       THEN Set(c, Sending(kind, store.access)) /\ UNCHANGED disturbed
       ELSE AskForPair(c, kind)
    /\ UNCHANGED <<refresh, access, store, page, last, thrownAway>>

\* fetchJSON or apiCall: ensureValidToken decides.  Without a token the request
\* goes out without one.
StartCall(c, kind) ==
    /\ call[c] = Idle /\ page[TabOf[c]] /= "login"
    /\ IF store.access = 0 \/ access[store.access] = "fresh"
       THEN Set(c, Sending(kind, store.access)) /\ UNCHANGED disturbed
       ELSE AskForPair(c, kind)
    /\ UNCHANGED <<refresh, access, store, page, last, thrownAway>>

\* The interval of init, every minute.
Timer(c) ==
    /\ call[c] = Idle /\ page[TabOf[c]] /= "login"
    /\ store.access /= 0 /\ access[store.access] /= "fresh"
    /\ AskForPair(c, "timer")
    /\ UNCHANGED <<refresh, access, store, page, last, thrownAway>>

\* What a call does once it holds a good pair.
Continue(kind, p) == IF kind = "timer" THEN Idle ELSE Sending(kind, p)

\* Mutant: the timer does not store what it asked for.
ReceiveUnlessTimer(c) ==
    /\ Exchanging(c) /\ call[c].at = "answered"
    /\ store' = IF call[c].kind = "timer" THEN store
                ELSE [access |-> call[c].new, refresh |-> call[c].new]
    /\ Set(c, Continue(call[c].kind, call[c].new))
    /\ UNCHANGED <<refresh, access, page, disturbed, last, thrownAway>>

\* The answer of /auth/refresh: both tokens are stored and the call goes on.
ReceivePair(c) ==
    /\ Exchanging(c) /\ call[c].at = "answered"
    /\ store' = [access |-> call[c].new, refresh |-> call[c].new]
    /\ Set(c, Continue(call[c].kind, call[c].new))
    /\ UNCHANGED <<refresh, access, page, disturbed, last, thrownAway>>

\* refreshAccessToken returned false.  The timer ignores it; ensureValidToken
\* removes whatever pair is stored now, heads for the login page, and the request
\* still goes out, without a token.
GiveUp(c) ==
    /\ Exchanging(c) /\ call[c].at = "refused"
    /\ IF call[c].kind = "timer"
       THEN Set(c, Idle) /\ UNCHANGED <<store, page, thrownAway>>
       ELSE /\ store' = Empty
            /\ page' = [page EXCEPT ![TabOf[c]] = "leaving"]
            /\ thrownAway' = IF Usable /\ ~disturbed THEN TRUE ELSE thrownAway
            /\ Set(c, Sending(call[c].kind, 0))
    /\ UNCHANGED <<refresh, access, disturbed, last>>

\* The access token every service asks for: there, signed and not expired.
Verified(p) == p /= 0 /\ access[p] /= "expired"

\* The request is answered with anything but 401, fails, or is aborted.
End(c) ==
    /\ call[c].at = "sent"
    /\ Set(c, Idle)
    /\ UNCHANGED <<refresh, access, store, page, disturbed, last, thrownAway>>

\* 401 to fetchJSON: the stored pair is removed, whichever it is by now.
FetchUnauthorized(c) ==
    /\ call[c].at = "sent" /\ call[c].kind = "fetch" /\ ~Verified(call[c].token)
    /\ store' = Empty
    /\ page' = [page EXCEPT ![TabOf[c]] = "leaving"]
    /\ thrownAway' = IF Usable /\ ~disturbed THEN TRUE ELSE thrownAway
    /\ Set(c, Idle)
    /\ UNCHANGED <<refresh, access, disturbed, last>>

\* 401 to apiCall: only the page changes.
ApiUnauthorized(c) ==
    /\ call[c].at = "sent" /\ call[c].kind = "api" /\ ~Verified(call[c].token)
    /\ page' = [page EXCEPT ![TabOf[c]] = "leaving"]
    /\ Set(c, Idle)
    /\ UNCHANGED <<refresh, access, store, disturbed, last, thrownAway>>

-----------------------------------------------------------------------------
(* Pages *)

\* Mutant: the submit handler removes nothing.
LogoutKeepsPair(t) ==
    /\ page[t] = "open"
    /\ page' = [page EXCEPT ![t] = "leaving"]
    /\ Disturb(\E c \in Calls : Exchanging(c))
    /\ last' = IF \E c \in Calls : Exchanging(c) THEN "overtaken" ELSE "logout"
    /\ UNCHANGED <<refresh, access, store, call, thrownAway>>

\* The logout form: the pair is forgotten here; auth-svc is not told.
Logout(t) ==
    /\ page[t] = "open"
    /\ store' = Empty
    /\ page' = [page EXCEPT ![t] = "leaving"]
    /\ Disturb(\E c \in Calls : Exchanging(c))
    /\ last' = IF \E c \in Calls : Exchanging(c) THEN "overtaken" ELSE "logout"
    /\ UNCHANGED <<refresh, access, call, thrownAway>>

\* The user opens a dashboard page; the server renders it without a token.
Open(t) ==
    /\ page[t] = "login"
    /\ \A c \in Calls : TabOf[c] = t => call[c] = Idle
    /\ page' = [page EXCEPT ![t] = "open"]
    /\ UNCHANGED <<refresh, access, store, call, disturbed, last, thrownAway>>

\* The page is left, by a redirect or because the user closes or reloads it: its
\* scripts end.  What they asked auth-svc may happen all the same.
Unload(t) ==
    LET left == {c \in Calls : TabOf[c] = t}
        asked == {call[c].token : c \in {d \in left :
                      Exchanging(d) /\ call[d].at \in {"asking", "rotating"}}}
    IN
    /\ page[t] \in {"open", "leaving"}
    /\ page' = [page EXCEPT ![t] = "login"]
    /\ call' = [c \in Calls |-> IF c \in left THEN Idle ELSE call[c]]
    /\ \E spent \in SUBSET asked :
           refresh' = [p \in Pairs |-> IF p \in spent /\ refresh[p] = "valid"
                                       THEN "spent" ELSE refresh[p]]
    /\ Disturb(\E c \in left : Exchanging(c))
    /\ UNCHANGED <<access, store, last, thrownAway>>

\* The form of the login page, submitted.
SubmitLogin(c) ==
    /\ page[TabOf[c]] = "login"
    /\ \A d \in Calls : TabOf[d] = TabOf[c] => call[d] = Idle
    /\ Set(c, [Idle EXCEPT !.kind = "login", !.at = "asking"])
    /\ UNCHANGED <<refresh, access, store, page, disturbed, last, thrownAway>>

\* Its answer; a failed login changes nothing.
ReceiveLogin(c) ==
    /\ call[c].kind = "login" /\ call[c].at = "answered"
    /\ store' = [access |-> call[c].new, refresh |-> call[c].new]
    /\ page' = [page EXCEPT ![TabOf[c]] = "open"]
    /\ last' = "login"
    /\ Set(c, Idle)
    /\ Disturb(\E d \in Calls :
                   \/ Exchanging(d)
                   \/ call[d].at = "sent" /\ call[d].token = 0)
    /\ UNCHANGED <<refresh, access, thrownAway>>

LoginFails(c) ==
    /\ call[c].kind = "login"
    /\ Set(c, Idle)
    /\ UNCHANGED <<refresh, access, store, page, disturbed, last, thrownAway>>

-----------------------------------------------------------------------------
(* auth-svc *)

\* GetRefreshToken and IsValid.
CheckToken(c) ==
    /\ call[c].kind /= "login" /\ call[c].at = "asking"
    /\ Become(c, IF call[c].token /= 0 /\ refresh[call[c].token] = "valid"
                 THEN "rotating" ELSE "refused")
    /\ UNCHANGED <<refresh, access, store, page, disturbed, last, thrownAway>>

\* Pairs are numbered in the order they are issued.
NextToIssue(p) ==
    refresh[p] = "unissued" /\ \A q \in Pairs : refresh[q] = "unissued" => p <= q

\* RevokeRefreshToken, which does not ask again, and issueTokenPair.
Rotate(c, p) ==
    /\ call[c].kind /= "login" /\ call[c].at = "rotating"
    /\ NextToIssue(p)
    /\ refresh' = [refresh EXCEPT ![call[c].token] = "spent", ![p] = "valid"]
    /\ Set(c, [call[c] EXCEPT !.at = "answered", !.new = p])
    /\ UNCHANGED <<access, store, page, disturbed, last, thrownAway>>

\* Login.
IssuePair(c, p) ==
    /\ call[c].kind = "login" /\ call[c].at = "asking"
    /\ NextToIssue(p)
    /\ refresh' = [refresh EXCEPT ![p] = "valid"]
    /\ Set(c, [call[c] EXCEPT !.at = "answered", !.new = p])
    /\ UNCHANGED <<access, store, page, disturbed, last, thrownAway>>

\* The network or auth-svc fails, before or after the token was revoked.
LoseAnswer(c) ==
    /\ Exchanging(c) /\ call[c].at /= "refused"
    /\ \/ UNCHANGED refresh
       \/ /\ call[c].at = "rotating"
          /\ refresh' = [refresh EXCEPT ![call[c].token] = "spent"]
    /\ Become(c, "refused")
    /\ disturbed' = TRUE
    /\ UNCHANGED <<access, store, page, last, thrownAway>>

\* A changed password, a deactivation, a deletion or a week ends the session.
EndSession ==
    /\ \E p \in Pairs : refresh[p] = "valid"
    /\ refresh' = [p \in Pairs |-> IF refresh[p] = "valid" THEN "ended" ELSE refresh[p]]
    /\ UNCHANGED <<access, store, page, call, disturbed, last, thrownAway>>

-----------------------------------------------------------------------------
(* Time.  An access token lives 15 minutes; "soon" is the last five of them. *)

\* The pair whose access token the browser keeps, or one on its way to a service:
\* the age of any other is never looked at.
Looked(p) ==
    p = store.access \/ \E c \in Calls : call[c].at = "sent" /\ call[c].token = p

\* An answer takes less than ten minutes to arrive.
ComesSoon(p) ==
    /\ Looked(p) /\ access[p] = "fresh"
    /\ access' = [access EXCEPT ![p] = "soon"]
    /\ UNCHANGED <<refresh, store, page, call, disturbed, last, thrownAway>>

\* A request takes less than five: a token that had more left is verified first.
Expires(p) ==
    /\ Looked(p) /\ access[p] = "soon"
    /\ \A c \in Calls : ~(call[c].at = "sent" /\ call[c].token = p /\ call[c].life = "fresh")
    /\ access' = [access EXCEPT ![p] = "expired"]
    /\ UNCHANGED <<refresh, store, page, call, disturbed, last, thrownAway>>

Script(c) ==
    \/ StartCall(c, "fetch") \/ StartCall(c, "api") \/ Timer(c)
    \/ ReceivePair(c) \/ GiveUp(c)
    \/ End(c) \/ FetchUnauthorized(c) \/ ApiUnauthorized(c)
    \/ SubmitLogin(c) \/ ReceiveLogin(c) \/ LoginFails(c)

Server(c) ==
    \/ CheckToken(c) \/ LoseAnswer(c)
    \/ \E p \in Pairs : Rotate(c, p) \/ IssuePair(c, p)

Next ==
    \/ \E c \in Calls : Script(c) \/ Server(c)
    \/ \E t \in Tabs : Logout(t) \/ Open(t) \/ Unload(t)
    \/ EndSession
    \/ \E p \in Pairs : ComesSoon(p) \/ Expires(p)

Spec == Init /\ [][Next]_cvars

-----------------------------------------------------------------------------
(* Properties *)

CallStates ==
    [kind : {"none", "fetch", "api", "timer", "login"},
     at : {"idle", "asking", "rotating", "answered", "refused", "sent"},
     token : {0} \cup Pairs, new : {0} \cup Pairs,
     life : {"none", "fresh", "soon", "expired"}]

\* Both tokens of the store are of one pair, and calls name pairs that exist.
TypeOK ==
    /\ refresh \in [Pairs -> {"unissued", "valid", "spent", "ended"}]
    /\ access \in [Pairs -> {"fresh", "soon", "expired"}]
    /\ store \in [access : {0} \cup Pairs, refresh : {0} \cup Pairs]
    /\ store.access = store.refresh
    /\ page \in [Tabs -> {"login", "open", "leaving"}]
    /\ call \in [Calls -> CallStates]
    /\ \A c \in Calls :
           /\ call[c].kind = "none" <=> call[c].at = "idle"
           /\ Exchanging(c) => call[c].token /= 0
           /\ call[c].at = "answered" => call[c].new /= 0
    /\ disturbed \in BOOLEAN
    /\ last \in {"login", "logout", "overtaken"}
    /\ thrownAway \in BOOLEAN

\* As long as no two refreshes of one token overlap, no logout, login or unload
\* falls into one and no answer is lost, the stored refresh token is good, ended
\* by auth-svc, or being exchanged by a call that will store its successor.
StoredPairIsCurrent ==
    ~disturbed /\ store.refresh /= 0 =>
        \/ refresh[store.refresh] \in {"valid", "ended"}
        \/ \E c \in Calls : Exchanging(c) /\ call[c].token = store.refresh

\* Under the same conditions no tab sends the user back to the login page while
\* his session could have gone on: no refused refresh and no 401 removes a pair
\* that auth-svc would still exchange.
NothingUsableThrownAway == ~thrownAway

\* After a logout the browser stays without tokens until the next login, unless
\* a refresh was under way in some tab.
LogoutLasts == last = "logout" => store = Empty
=============================================================================
