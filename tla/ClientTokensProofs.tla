------------------------- MODULE ClientTokensProofs -------------------------
(***************************************************************************)
(* Proofs about ClientTokens for every number of tabs, calls and pairs.    *)
(* IInv is the inductive invariant: where the pairs a call works with come *)
(* from, and what holds of the store as long as nothing has interfered.    *)
(***************************************************************************)
EXTENDS ClientTokens, TLAPS

-----------------------------------------------------------------------------
(* The inductive invariant *)

\* The pairs the browser knows of have been issued.
KnownPairsAreIssued ==
    /\ store.refresh /= 0 => refresh[store.refresh] /= "unissued"
    /\ \A c \in Calls :
           call[c].token /= 0 => refresh[call[c].token] /= "unissued"

\* A pair in an answer is new: nobody has stored it or sent any of it.
AnswersAreNew ==
    \A c \in Calls :
        call[c].at = "answered" =>
            /\ refresh[call[c].new] \in {"valid", "ended"}
            /\ access[call[c].new] = "fresh"
            /\ store.refresh /= call[c].new
            /\ \A d \in Calls :
                   /\ call[d].token /= call[c].new
                   /\ call[d].at = "answered" /\ d /= c => call[d].new /= call[c].new

\* Pairs still to be issued are fresh.
UnissuedAreFresh == \A p \in Pairs : refresh[p] = "unissued" => access[p] = "fresh"

\* What ensureValidToken lets out is verified before it expires.
SentInTime ==
    \A c \in Calls :
        call[c].at = "sent" /\ call[c].token /= 0 =>
            call[c].life = "fresh" /\ access[call[c].token] /= "expired"

\* Undisturbed, one call at a time exchanges the stored pair, and none other.
ExchangesStoredPair ==
    ~disturbed =>
        \A c \in Calls :
            Exchanging(c) =>
                /\ store.refresh = call[c].token
                /\ \A d \in Calls : Exchanging(d) => d = c

\* Undisturbed, a token is not used up before its exchange, and auth-svc refuses
\* it only when the session has ended.
RefusedIsOver ==
    ~disturbed =>
        \A c \in Calls :
            Exchanging(c) =>
                /\ call[c].at \in {"asking", "rotating"} =>
                       refresh[call[c].token] \in {"valid", "ended"}
                /\ call[c].at = "refused" => refresh[call[c].token] = "ended"

\* Undisturbed, a request without a token means that there is none.
SentWithoutTokenIsEmpty ==
    ~disturbed =>
        \A c \in Calls : call[c].at = "sent" /\ call[c].token = 0 => store = Empty

\* Nothing that was under way at a logout can bring the tokens back.
NothingUnderWay == last = "logout" => \A c \in Calls : ~Exchanging(c)

IInv ==
    /\ TypeOK
    /\ KnownPairsAreIssued
    /\ AnswersAreNew
    /\ UnissuedAreFresh
    /\ SentInTime
    /\ ExchangesStoredPair
    /\ RefusedIsOver
    /\ SentWithoutTokenIsEmpty
    /\ NothingUnderWay
    /\ StoredPairIsCurrent
    /\ NothingUsableThrownAway
    /\ LogoutLasts

-----------------------------------------------------------------------------
(* The parts of the invariant, one by one *)

\* What TypeOK says of a single call.
SoundCall(r) ==
    /\ r \in CallStates
    /\ r.kind = "none" <=> r.at = "idle"
    /\ r.kind /= "login" /\ r.at \in {"asking", "rotating", "answered", "refused"} =>
           r.token /= 0
    /\ r.at = "answered" => r.new /= 0

\* It is enough to look at the call that changes.
LEMMA SetKeepsCalls ==
  ASSUME TypeOK, NEW c \in Calls, NEW r, SoundCall(r), Set(c, r)
  PROVE  /\ call' \in [Calls -> CallStates]
         /\ \A d \in Calls :
                /\ call'[d].kind = "none" <=> call'[d].at = "idle"
                /\ Exchanging(d)' => call'[d].token /= 0
                /\ call'[d].at = "answered" => call'[d].new /= 0
<1>1. r \in CallStates /\ call \in [Calls -> CallStates]
  BY DEF TypeOK, SoundCall
<1>2. call'[c] = r /\ \A d \in Calls \ {c} : call'[d] = call[d]
  BY <1>1 DEF Set
<1>3. call' \in [Calls -> CallStates]
  BY <1>1 DEF Set
<1> QED
  BY <1>2, <1>3 DEF TypeOK, SoundCall, Exchanging

\* Calls that come up often.
LEMMA SoundCalls ==
  SoundCall(Idle) /\ SoundCall([Idle EXCEPT !.kind = "login", !.at = "asking"])
  BY DEF SoundCall, CallStates, Idle

\* A store without tokens is a store.
LEMMA EmptyStore ==
  Empty \in [access : {0} \cup Pairs, refresh : {0} \cup Pairs] /\ Empty.access = Empty.refresh
  BY DEF Empty

\* No step breaks the types.
LEMMA NextTypeOK ==
  TypeOK /\ [Next]_cvars => TypeOK'
<1> SUFFICES ASSUME TypeOK, [Next]_cvars PROVE TypeOK'
  OBVIOUS
<1> USE ClientAssumption DEF TypeOK, Pairs, Exchanging
<1>1. ASSUME NEW c \in Calls, NEW kind \in {"fetch", "api"}, StartCall(c, kind)
      PROVE  TypeOK'
  <2>1. SoundCall(Sending(kind, store.access))
    BY DEF SoundCall, CallStates, Sending, Idle
  <2>2. store.access /= 0 => SoundCall([Idle EXCEPT !.kind = kind, !.at = "asking", !.token = store.refresh])
    BY DEF SoundCall, CallStates, Idle
  <2> QED
    BY <1>1, <2>1, <2>2, SetKeepsCalls DEF StartCall, AskForPair, Disturb
<1>2. ASSUME NEW c \in Calls, Timer(c) PROVE TypeOK'
  <2>1. SoundCall([Idle EXCEPT !.kind = "timer", !.at = "asking", !.token = store.refresh])
    BY <1>2 DEF Timer, SoundCall, CallStates, Idle, Sending, Continue
  <2> QED
    BY <1>2, <2>1, SetKeepsCalls DEF Timer, Set, AskForPair, Disturb
<1>3. ASSUME NEW c \in Calls, ReceivePair(c) PROVE TypeOK'
  <2>1. call[c].new \in Pairs /\ SoundCall(Continue(call[c].kind, call[c].new))
    BY <1>3 DEF ReceivePair, CallStates, SoundCall, Continue, Sending, Idle
  <2>2. store' \in [access : {0} \cup Pairs, refresh : {0} \cup Pairs] /\ store'.access = store'.refresh
    BY <1>3, <2>1 DEF ReceivePair
  <2> QED
    BY <1>3, <2>1, <2>2, SetKeepsCalls DEF ReceivePair
<1>4. ASSUME NEW c \in Calls, GiveUp(c) PROVE TypeOK'
  <2>1. SoundCall(Idle) /\ (call[c].kind \in {"fetch", "api"} => SoundCall(Sending(call[c].kind, 0)))
    BY DEF SoundCall, CallStates, Sending, Idle
  <2>2. call[c].kind = "timer" \/ call[c].kind \in {"fetch", "api"}
    BY <1>4 DEF GiveUp, Exchanging, CallStates
  <2> QED
    BY <1>4, <2>1, <2>2, SetKeepsCalls, EmptyStore DEF GiveUp
<1>5. ASSUME NEW c \in Calls, End(c) PROVE TypeOK'
  BY <1>5, SoundCalls, SetKeepsCalls DEF End
<1>6. ASSUME NEW c \in Calls, FetchUnauthorized(c) PROVE TypeOK'
  BY <1>6, SoundCalls, EmptyStore, SetKeepsCalls DEF FetchUnauthorized
<1>7. ASSUME NEW c \in Calls, ApiUnauthorized(c) PROVE TypeOK'
  BY <1>7, SoundCalls, SetKeepsCalls DEF ApiUnauthorized
<1>8. ASSUME NEW c \in Calls, SubmitLogin(c) PROVE TypeOK'
  BY <1>8, SoundCalls, SetKeepsCalls DEF SubmitLogin
<1>9. ASSUME NEW c \in Calls, ReceiveLogin(c) PROVE TypeOK'
  <2>1. call[c].new \in Pairs
    BY <1>9 DEF ReceiveLogin, CallStates
  <2>2. store' \in [access : {0} \cup Pairs, refresh : {0} \cup Pairs] /\ store'.access = store'.refresh
    BY <1>9, <2>1 DEF ReceiveLogin
  <2> QED
    BY <1>9, <2>2, SoundCalls, SetKeepsCalls DEF ReceiveLogin, Disturb
<1>10. ASSUME NEW c \in Calls, LoginFails(c) PROVE TypeOK'
  BY <1>10, SoundCalls, SetKeepsCalls DEF LoginFails
<1>11. ASSUME NEW c \in Calls, CheckToken(c) PROVE TypeOK'
  <2>1. SoundCall([call[c] EXCEPT !.at = IF call[c].token /= 0 /\ refresh[call[c].token] = "valid" THEN "rotating" ELSE "refused"])
    BY <1>11 DEF CheckToken, SoundCall, CallStates, Idle, Sending, Continue
  <2> QED
    BY <1>11, <2>1, SetKeepsCalls DEF CheckToken, Become, Set
<1>12. ASSUME NEW c \in Calls, LoseAnswer(c) PROVE TypeOK'
  <2>1. SoundCall([call[c] EXCEPT !.at = "refused"])
    BY <1>12 DEF LoseAnswer, Exchanging, SoundCall, CallStates, Idle, Sending, Continue
  <2> QED
    BY <1>12, <2>1, SetKeepsCalls DEF LoseAnswer, Become, Set, Exchanging
<1>13. ASSUME NEW c \in Calls, NEW p \in Pairs, Rotate(c, p) PROVE TypeOK'
  <2>1. call[c] \in CallStates /\ call[c].token /= 0 /\ call[c].at /= "idle" /\ p /= 0
    BY <1>13 DEF Rotate
  <2>2. SoundCall([call[c] EXCEPT !.at = "answered", !.new = p])
    BY <1>13, <2>1 DEF Rotate, SoundCall, CallStates
  <2> QED
    BY <1>13, <2>2, SetKeepsCalls DEF Rotate
<1>14. ASSUME NEW c \in Calls, NEW p \in Pairs, IssuePair(c, p) PROVE TypeOK'
  <2>1. call[c] \in CallStates /\ call[c].kind = "login" /\ call[c].at /= "idle" /\ p /= 0
    BY <1>14 DEF IssuePair
  <2>2. SoundCall([call[c] EXCEPT !.at = "answered", !.new = p])
    BY <1>14, <2>1 DEF IssuePair, SoundCall, CallStates
  <2> QED
    BY <1>14, <2>2, SetKeepsCalls DEF IssuePair
<1>15. ASSUME NEW t \in Tabs, Logout(t) PROVE TypeOK'
  BY <1>15 DEF Logout, Disturb, Empty
<1>16. ASSUME NEW t \in Tabs, Open(t) PROVE TypeOK'
  BY <1>16 DEF Open
<1>17. ASSUME NEW t \in Tabs, Unload(t) PROVE TypeOK'
  <2>1. Idle \in CallStates
    BY DEF CallStates, Idle
  <2>2. call' \in [Calls -> CallStates] /\ \A d \in Calls : call'[d] = Idle \/ call'[d] = call[d]
    BY <1>17, <2>1 DEF Unload
  <2>3. refresh' \in [Pairs -> {"unissued", "valid", "spent", "ended"}]
    BY <1>17 DEF Unload
  <2>4. page' \in [Tabs -> {"login", "open", "leaving"}]
    BY <1>17 DEF Unload
  <2>5. disturbed' \in BOOLEAN
    BY <1>17 DEF Unload, Disturb
  <2> QED
    BY <1>17, <2>2, <2>3, <2>4, <2>5 DEF Unload, Idle
<1>18. CASE EndSession
  BY <1>18 DEF EndSession
<1>19. ASSUME NEW p \in Pairs, ComesSoon(p) PROVE TypeOK'
  BY <1>19 DEF ComesSoon, Looked
<1>20. ASSUME NEW p \in Pairs, Expires(p) PROVE TypeOK'
  BY <1>20 DEF Expires, Looked
<1>21. CASE UNCHANGED cvars
  BY <1>21 DEF cvars
<1> QED
  BY <1>1, <1>2, <1>3, <1>4, <1>5, <1>6, <1>7,
     <1>8, <1>9, <1>10, <1>11, <1>12, <1>13, <1>14,
     <1>15, <1>16, <1>17, <1>18, <1>19, <1>20, <1>21
     DEF Next, Script, Server

-----------------------------------------------------------------------------
(* What a step does, field by field *)

\* The types the proofs below use.
LEMMA Types ==
  ASSUME TypeOK
  PROVE  /\ store.access = store.refresh
         /\ store.refresh /= 0 => store.refresh \in Pairs
         /\ (store = Empty) <=> (store.refresh = 0)
         /\ Empty.refresh = 0
         /\ \A c \in Calls :
                /\ call[c].token /= 0 => call[c].token \in Pairs
                /\ Exchanging(c) => call[c].token /= 0
                /\ call[c].at = "answered" => call[c].new /= 0 /\ call[c].new \in Pairs
                /\ call[c].kind = "none" <=> call[c].at = "idle"
         /\ 0 \notin Pairs
  BY DEF TypeOK, CallStates, Empty, Pairs

\* A step of one call leaves the others as they are.
LEMMA SetChangesOne ==
  ASSUME TypeOK, NEW c \in Calls, NEW r, Set(c, r)
  PROVE  call'[c] = r /\ \A d \in Calls \ {c} : call'[d] = call[d]
  BY DEF TypeOK, Set

\* A call starts: its request goes out, or it asks for a pair first.
LEMMA StartCallEffect ==
  ASSUME TypeOK, NEW c \in Calls, NEW kind \in {"fetch", "api"}, StartCall(c, kind)
  PROVE  /\ \A d \in Calls \ {c} : call'[d] = call[d]
         /\ call[c].at = "idle" /\ call'[c].kind = kind
         /\ \/ /\ call'[c].at = "sent" /\ call'[c].token = store.access
               /\ store.access /= 0 => call'[c].life = "fresh" /\ access[store.access] = "fresh"
               /\ UNCHANGED disturbed
            \/ /\ call'[c].at = "asking" /\ call'[c].token = store.refresh /\ store.refresh /= 0
               /\ disturbed => disturbed'
               /\ (\E d \in Calls : Exchanging(d) /\ call[d].token = store.refresh) => disturbed'
         /\ UNCHANGED <<refresh, access, store, last, thrownAway>>
<1> DEFINE sent == Sending(kind, store.access)
           asking == [Idle EXCEPT !.kind = kind, !.at = "asking", !.token = store.refresh]
<1>1. /\ sent.kind = kind /\ sent.at = "sent" /\ sent.token = store.access
      /\ store.access /= 0 => sent.life = access[store.access]
      /\ asking.kind = kind /\ asking.at = "asking" /\ asking.token = store.refresh
      /\ Idle.at = "idle"
  BY DEF Sending, Idle
<1>2. CASE store.access = 0 \/ access[store.access] = "fresh"
  <2>1. call'[c] = sent /\ \A d \in Calls \ {c} : call'[d] = call[d]
    BY <1>2, SetChangesOne DEF StartCall
  <2> HIDE DEF sent, asking
  <2> QED
    BY <1>1, <1>2, <2>1 DEF StartCall
<1>3. CASE ~(store.access = 0 \/ access[store.access] = "fresh")
  <2>1. call'[c] = asking /\ \A d \in Calls \ {c} : call'[d] = call[d]
    BY <1>3, SetChangesOne DEF StartCall, AskForPair
  <2> HIDE DEF sent, asking
  <2> QED
    BY <1>1, <1>3, <2>1 DEF StartCall, AskForPair, Disturb, TypeOK
<1> QED
  BY <1>2, <1>3

\* The timer asks for a pair.
LEMMA TimerEffect ==
  ASSUME TypeOK, NEW c \in Calls, Timer(c)
  PROVE  /\ \A d \in Calls \ {c} : call'[d] = call[d]
         /\ call[c].at = "idle" /\ call'[c].kind = "timer" /\ call'[c].at = "asking"
         /\ call'[c].token = store.refresh /\ store.refresh /= 0
         /\ disturbed => disturbed'
         /\ (\E d \in Calls : Exchanging(d) /\ call[d].token = store.refresh) => disturbed'
         /\ UNCHANGED <<refresh, access, store, last, thrownAway>>
<1> DEFINE r == [Idle EXCEPT !.kind = "timer", !.at = "asking", !.token = store.refresh]
<1>1. r.kind = "timer" /\ r.at = "asking" /\ r.token = store.refresh
  BY DEF Idle
<1>2. call'[c] = r /\ \A d \in Calls \ {c} : call'[d] = call[d]
  BY SetChangesOne DEF Timer, AskForPair
<1> HIDE DEF r
<1> QED
  BY <1>1, <1>2 DEF Timer, AskForPair, Disturb, Idle, TypeOK

\* A pair arrives and replaces the stored one.
LEMMA ReceivePairEffect ==
  ASSUME TypeOK, NEW c \in Calls, ReceivePair(c)
  PROVE  /\ \A d \in Calls \ {c} : call'[d] = call[d]
         /\ Exchanging(c) /\ call[c].at = "answered" /\ call[c].new \in Pairs /\ call[c].new /= 0
         /\ \/ call'[c].kind = "none" /\ call'[c].at = "idle" /\ call'[c].token = 0
            \/ /\ call'[c].at = "sent" /\ call'[c].token = call[c].new
               /\ call'[c].life = access[call[c].new]
         /\ store'.refresh = call[c].new
         /\ UNCHANGED <<refresh, access, disturbed, last, thrownAway>>
<1> DEFINE r == Continue(call[c].kind, call[c].new)
<1>1. call[c].new \in Pairs /\ call[c].new /= 0
  BY DEF ReceivePair, TypeOK, CallStates, Pairs
<1>2. \/ r.kind = "none" /\ r.at = "idle" /\ r.token = 0
      \/ r.at = "sent" /\ r.token = call[c].new /\ r.life = access[call[c].new]
  BY <1>1 DEF Continue, Sending, Idle
<1>3. call'[c] = r /\ \A d \in Calls \ {c} : call'[d] = call[d]
  BY SetChangesOne DEF ReceivePair
<1> HIDE DEF r
<1> QED
  BY <1>1, <1>2, <1>3 DEF ReceivePair

\* A refused call removes the stored pair, unless it is the timer.
LEMMA GiveUpEffect ==
  ASSUME TypeOK, NEW c \in Calls, GiveUp(c)
  PROVE  /\ \A d \in Calls \ {c} : call'[d] = call[d]
         /\ Exchanging(c) /\ call[c].at = "refused"
         /\ \/ call'[c].kind = "none" /\ call'[c].at = "idle" /\ call'[c].token = 0 /\ UNCHANGED <<store, thrownAway>>
            \/ /\ call'[c].at = "sent" /\ call'[c].token = 0 /\ store' = Empty
               /\ thrownAway' => thrownAway \/ (Usable /\ ~disturbed)
         /\ UNCHANGED <<refresh, access, disturbed, last>>
<1> DEFINE r == Sending(call[c].kind, 0)
<1>1. r.at = "sent" /\ r.token = 0 /\ Idle.kind = "none" /\ Idle.at = "idle" /\ Idle.token = 0
  BY DEF Sending, Idle
<1>2. call'[c] \in {r, Idle} /\ \A d \in Calls \ {c} : call'[d] = call[d]
  BY SetChangesOne DEF GiveUp
<1>3. call[c].kind = "timer" => call'[c] = Idle
  BY SetChangesOne DEF GiveUp
<1>4. call[c].kind /= "timer" => call'[c] = r
  BY SetChangesOne DEF GiveUp
<1> HIDE DEF r
<1> QED
  BY <1>1, <1>2, <1>3, <1>4 DEF GiveUp

\* A request is over.
LEMMA EndEffect ==
  ASSUME TypeOK, NEW c \in Calls, End(c)
  PROVE  /\ \A d \in Calls \ {c} : call'[d] = call[d]
         /\ call[c].at = "sent"
         /\ call'[c].kind = "none" /\ call'[c].at = "idle" /\ call'[c].token = 0
         /\ UNCHANGED <<refresh, access, store, disturbed, last, thrownAway>>
  BY SetChangesOne DEF End, Idle, TypeOK, CallStates, Exchanging, Pairs

\* A 401 removes the stored pair.
LEMMA FetchUnauthorizedEffect ==
  ASSUME TypeOK, NEW c \in Calls, FetchUnauthorized(c)
  PROVE  /\ \A d \in Calls \ {c} : call'[d] = call[d]
         /\ call[c].at = "sent" /\ ~Verified(call[c].token)
         /\ call'[c].kind = "none" /\ call'[c].at = "idle" /\ call'[c].token = 0
         /\ store' = Empty /\ (thrownAway' => thrownAway \/ (Usable /\ ~disturbed))
         /\ UNCHANGED <<refresh, access, disturbed, last>>
  BY SetChangesOne DEF FetchUnauthorized, Idle, TypeOK, CallStates, Exchanging, Pairs

\* A 401 leaves the store alone.
LEMMA ApiUnauthorizedEffect ==
  ASSUME TypeOK, NEW c \in Calls, ApiUnauthorized(c)
  PROVE  /\ \A d \in Calls \ {c} : call'[d] = call[d]
         /\ call[c].at = "sent"
         /\ call'[c].kind = "none" /\ call'[c].at = "idle" /\ call'[c].token = 0
         /\ UNCHANGED <<refresh, access, store, disturbed, last, thrownAway>>
  BY SetChangesOne DEF ApiUnauthorized, Idle, TypeOK, CallStates, Exchanging, Pairs

\* A login is asked for.
LEMMA SubmitLoginEffect ==
  ASSUME TypeOK, NEW c \in Calls, SubmitLogin(c)
  PROVE  /\ \A d \in Calls \ {c} : call'[d] = call[d]
         /\ call[c].at = "idle"
         /\ call'[c].kind = "login" /\ call'[c].at = "asking" /\ call'[c].token = 0
         /\ UNCHANGED <<refresh, access, store, disturbed, last, thrownAway>>
<1> DEFINE r == [Idle EXCEPT !.kind = "login", !.at = "asking"]
<1>1. r.kind = "login" /\ r.at = "asking" /\ r.token = 0
  BY DEF Idle
<1>2. call'[c] = r /\ \A d \in Calls \ {c} : call'[d] = call[d]
  BY SetChangesOne DEF SubmitLogin
<1> HIDE DEF r
<1> QED
  BY <1>1, <1>2 DEF SubmitLogin, Idle

\* A login stores its pair.
LEMMA ReceiveLoginEffect ==
  ASSUME TypeOK, NEW c \in Calls, ReceiveLogin(c)
  PROVE  /\ \A d \in Calls \ {c} : call'[d] = call[d]
         /\ call[c].kind = "login" /\ call[c].at = "answered" /\ call[c].new \in Pairs /\ call[c].new /= 0
         /\ call'[c].kind = "none" /\ call'[c].at = "idle" /\ call'[c].token = 0
         /\ store'.refresh = call[c].new /\ last' = "login"
         /\ disturbed => disturbed'
         /\ \A d \in Calls : (Exchanging(d) \/ (call[d].at = "sent" /\ call[d].token = 0)) => disturbed'
         /\ UNCHANGED <<refresh, access, thrownAway>>
  BY SetChangesOne DEF ReceiveLogin, Idle, Disturb, TypeOK, CallStates, Exchanging, Pairs

\* A failed login only ends its call.
LEMMA LoginFailsEffect ==
  ASSUME TypeOK, NEW c \in Calls, LoginFails(c)
  PROVE  /\ \A d \in Calls \ {c} : call'[d] = call[d]
         /\ call[c].kind = "login"
         /\ call'[c].kind = "none" /\ call'[c].at = "idle" /\ call'[c].token = 0
         /\ UNCHANGED <<refresh, access, store, disturbed, last, thrownAway>>
  BY SetChangesOne DEF LoginFails, Idle, TypeOK, CallStates, Exchanging, Pairs

\* auth-svc looks the token up.
LEMMA CheckTokenEffect ==
  ASSUME TypeOK, NEW c \in Calls, CheckToken(c)
  PROVE  /\ \A d \in Calls \ {c} : call'[d] = call[d]
         /\ call[c].kind /= "login" /\ call[c].at = "asking" /\ call'[c].kind = call[c].kind
         /\ call'[c].token = call[c].token /\ call'[c].new = call[c].new /\ call[c].token \in Pairs /\ call[c].token /= 0
         /\ \/ call'[c].at = "rotating" /\ refresh[call[c].token] = "valid"
            \/ call'[c].at = "refused" /\ refresh[call[c].token] /= "valid"
         /\ UNCHANGED <<refresh, access, store, disturbed, last, thrownAway>>
  BY SetChangesOne DEF CheckToken, Become, TypeOK, CallStates, Exchanging, Pairs

\* A lost answer may have used the token up.
LEMMA LoseAnswerEffect ==
  ASSUME TypeOK, NEW c \in Calls, LoseAnswer(c)
  PROVE  /\ \A d \in Calls \ {c} : call'[d] = call[d]
         /\ Exchanging(c) /\ call'[c].kind = call[c].kind /\ call'[c].at = "refused"
         /\ call'[c].token = call[c].token /\ call'[c].new = call[c].new /\ disturbed'
         /\ \A p \in Pairs : refresh'[p] = refresh[p] \/ (refresh'[p] = "spent" /\ p = call[c].token /\ call[c].at = "rotating")
         /\ UNCHANGED <<access, store, last, thrownAway>>
<1> DEFINE r == [call[c] EXCEPT !.at = "refused"]
<1>1. r.kind = call[c].kind /\ r.at = "refused" /\ r.token = call[c].token /\ r.new = call[c].new
  BY DEF TypeOK, CallStates
<1>2. call'[c] = r /\ \A d \in Calls \ {c} : call'[d] = call[d]
  BY SetChangesOne DEF LoseAnswer, Become
<1> HIDE DEF r
<1> QED
  BY <1>1, <1>2 DEF LoseAnswer, TypeOK

\* One token is used up and the next is valid.
LEMMA RotateEffect ==
  ASSUME TypeOK, NEW c \in Calls, NEW p \in Pairs, Rotate(c, p)
  PROVE  /\ \A d \in Calls \ {c} : call'[d] = call[d]
         /\ Exchanging(c) /\ call[c].at = "rotating" /\ call'[c].kind = call[c].kind
         /\ call'[c].at = "answered" /\ call'[c].token = call[c].token /\ call'[c].new = p
         /\ p /= 0 /\ call[c].token \in Pairs /\ call[c].token /= 0
         /\ refresh[p] = "unissued" /\ refresh'[p] = "valid"
         /\ p /= call[c].token => refresh'[call[c].token] = "spent"
         /\ \A q \in Pairs \ {p, call[c].token} : refresh'[q] = refresh[q]
         /\ UNCHANGED <<access, store, disturbed, last, thrownAway>>
<1> DEFINE r == [call[c] EXCEPT !.at = "answered", !.new = p]
<1>1. r.kind = call[c].kind /\ r.at = "answered" /\ r.token = call[c].token /\ r.new = p
  BY DEF TypeOK, CallStates
<1>2. call'[c] = r /\ \A d \in Calls \ {c} : call'[d] = call[d]
  BY SetChangesOne DEF Rotate
<1> HIDE DEF r
<1> QED
  BY <1>1, <1>2 DEF Rotate, NextToIssue, TypeOK, CallStates, Exchanging, Pairs

\* A login gets a pair of its own.
LEMMA IssuePairEffect ==
  ASSUME TypeOK, NEW c \in Calls, NEW p \in Pairs, IssuePair(c, p)
  PROVE  /\ \A d \in Calls \ {c} : call'[d] = call[d]
         /\ call[c].kind = "login" /\ call[c].at = "asking" /\ call'[c].kind = "login"
         /\ call'[c].at = "answered" /\ call'[c].token = call[c].token /\ call'[c].new = p
         /\ refresh[p] = "unissued" /\ refresh'[p] = "valid" /\ p /= 0
         /\ \A q \in Pairs \ {p} : refresh'[q] = refresh[q]
         /\ UNCHANGED <<access, store, disturbed, last, thrownAway>>
<1> DEFINE r == [call[c] EXCEPT !.at = "answered", !.new = p]
<1>1. r.kind = call[c].kind /\ r.at = "answered" /\ r.token = call[c].token /\ r.new = p
  BY DEF TypeOK, CallStates
<1>2. call'[c] = r /\ \A d \in Calls \ {c} : call'[d] = call[d]
  BY SetChangesOne DEF IssuePair
<1> HIDE DEF r
<1> QED
  BY <1>1, <1>2 DEF IssuePair, NextToIssue, TypeOK, Pairs

\* A logout empties the store.
LEMMA LogoutEffect ==
  ASSUME TypeOK, NEW t \in Tabs, Logout(t)
  PROVE  /\ store' = Empty /\ (disturbed => disturbed')
         /\ (\E c \in Calls : Exchanging(c)) => disturbed' /\ last' = "overtaken"
         /\ UNCHANGED <<refresh, access, call, thrownAway>>
  BY DEF Logout, Disturb, TypeOK, CallStates, Exchanging, Pairs

\* Opening a page changes no token.
LEMMA OpenEffect ==
  ASSUME TypeOK, NEW t \in Tabs, Open(t)
  PROVE  /\ UNCHANGED <<refresh, access, store, call, disturbed, last, thrownAway>>
  BY DEF Open, TypeOK, CallStates, Exchanging, Pairs

\* Leaving a page ends its calls; their tokens may be used up.
LEMMA UnloadEffect ==
  ASSUME TypeOK, NEW t \in Tabs, Unload(t)
  PROVE  /\ \A d \in Calls :
              \/ call'[d] = call[d]
              \/ /\ call'[d].kind = "none" /\ call'[d].at = "idle" /\ call'[d].token = 0
                 /\ Exchanging(d) => disturbed'
         /\ disturbed => disturbed'
         /\ \A p \in Pairs :
              \/ refresh'[p] = refresh[p]
              \/ /\ refresh'[p] = "spent" /\ refresh[p] = "valid" /\ disturbed'
                 /\ \E d \in Calls : call[d].token = p
         /\ UNCHANGED <<access, store, last, thrownAway>>
  BY DEF Unload, Disturb, Idle, TypeOK, CallStates, Exchanging, Pairs

\* Valid tokens end.
LEMMA EndSessionEffect ==
  ASSUME TypeOK, EndSession
  PROVE  /\ \A p \in Pairs : refresh'[p] = refresh[p] \/ (refresh'[p] = "ended" /\ refresh[p] = "valid")
         /\ UNCHANGED <<access, store, call, disturbed, last, thrownAway>>
  BY DEF EndSession, TypeOK, CallStates, Exchanging, Pairs

\* One access token gets older.
LEMMA ComesSoonEffect ==
  ASSUME TypeOK, NEW p \in Pairs, ComesSoon(p)
  PROVE  /\ access[p] = "fresh" /\ access'[p] = "soon" /\ \A q \in Pairs \ {p} : access'[q] = access[q]
         /\ Looked(p)
         /\ UNCHANGED <<refresh, store, call, disturbed, last, thrownAway>>
  BY DEF ComesSoon, TypeOK, CallStates, Exchanging, Pairs

\* One access token expires, and none on its way that was fresh when sent.
LEMMA ExpiresEffect ==
  ASSUME TypeOK, NEW p \in Pairs, Expires(p)
  PROVE  /\ access[p] = "soon" /\ access'[p] = "expired" /\ \A q \in Pairs \ {p} : access'[q] = access[q]
         /\ Looked(p)
         /\ \A d \in Calls : ~(call[d].at = "sent" /\ call[d].token = p /\ call[d].life = "fresh")
         /\ UNCHANGED <<refresh, store, call, disturbed, last, thrownAway>>
  BY DEF Expires, TypeOK, CallStates, Exchanging, Pairs


\* A pair reaches the store or a call only once it is issued.
LEMMA NextKnownPairsAreIssued ==
  IInv /\ [Next]_cvars => KnownPairsAreIssued'
<1> SUFFICES ASSUME IInv, [Next]_cvars PROVE KnownPairsAreIssued'
  OBVIOUS
<1> TypeOK
  BY DEF IInv
<1> USE Types DEF IInv, Exchanging, KnownPairsAreIssued, AnswersAreNew
<1>1. ASSUME NEW c \in Calls, NEW kind \in {"fetch", "api"}, StartCall(c, kind)
      PROVE  KnownPairsAreIssued'
  BY <1>1, StartCallEffect
<1>2. ASSUME NEW c \in Calls, Timer(c) PROVE KnownPairsAreIssued'
  BY <1>2, TimerEffect
<1>3. ASSUME NEW c \in Calls, ReceivePair(c) PROVE KnownPairsAreIssued'
  BY <1>3, ReceivePairEffect
<1>4. ASSUME NEW c \in Calls, GiveUp(c) PROVE KnownPairsAreIssued'
  BY <1>4, GiveUpEffect
<1>5. ASSUME NEW c \in Calls, End(c) PROVE KnownPairsAreIssued'
  BY <1>5, EndEffect
<1>6. ASSUME NEW c \in Calls, FetchUnauthorized(c) PROVE KnownPairsAreIssued'
  BY <1>6, FetchUnauthorizedEffect
<1>7. ASSUME NEW c \in Calls, ApiUnauthorized(c) PROVE KnownPairsAreIssued'
  BY <1>7, ApiUnauthorizedEffect
<1>8. ASSUME NEW c \in Calls, SubmitLogin(c) PROVE KnownPairsAreIssued'
  BY <1>8, SubmitLoginEffect
<1>9. ASSUME NEW c \in Calls, ReceiveLogin(c) PROVE KnownPairsAreIssued'
  BY <1>9, ReceiveLoginEffect
<1>10. ASSUME NEW c \in Calls, LoginFails(c) PROVE KnownPairsAreIssued'
  BY <1>10, LoginFailsEffect
<1>11. ASSUME NEW c \in Calls, CheckToken(c) PROVE KnownPairsAreIssued'
  BY <1>11, CheckTokenEffect
<1>12. ASSUME NEW c \in Calls, LoseAnswer(c) PROVE KnownPairsAreIssued'
  BY <1>12, LoseAnswerEffect
<1>13. ASSUME NEW c \in Calls, NEW p \in Pairs, Rotate(c, p) PROVE KnownPairsAreIssued'
  BY <1>13, RotateEffect
<1>14. ASSUME NEW c \in Calls, NEW p \in Pairs, IssuePair(c, p) PROVE KnownPairsAreIssued'
  BY <1>14, IssuePairEffect
<1>15. ASSUME NEW t \in Tabs, Logout(t) PROVE KnownPairsAreIssued'
  BY <1>15, LogoutEffect
<1>16. ASSUME NEW t \in Tabs, Open(t) PROVE KnownPairsAreIssued'
  BY <1>16, OpenEffect
<1>17. ASSUME NEW t \in Tabs, Unload(t) PROVE KnownPairsAreIssued'
  BY <1>17, UnloadEffect
<1>18. CASE EndSession
  BY <1>18, EndSessionEffect
<1>19. ASSUME NEW p \in Pairs, ComesSoon(p) PROVE KnownPairsAreIssued'
  BY <1>19, ComesSoonEffect
<1>20. ASSUME NEW p \in Pairs, Expires(p) PROVE KnownPairsAreIssued'
  BY <1>20, ExpiresEffect
<1>21. CASE UNCHANGED cvars
  BY <1>21 DEF cvars
<1> QED
  BY <1>1, <1>2, <1>3, <1>4, <1>5, <1>6, <1>7,
     <1>8, <1>9, <1>10, <1>11, <1>12, <1>13, <1>14,
     <1>15, <1>16, <1>17, <1>18, <1>19, <1>20, <1>21
     DEF Next, Script, Server

\* Issued pairs are handed out once.
LEMMA NextAnswersAreNew ==
  IInv /\ [Next]_cvars => AnswersAreNew'
<1> SUFFICES ASSUME IInv, [Next]_cvars PROVE AnswersAreNew'
  OBVIOUS
<1> TypeOK
  BY DEF IInv
<1> USE Types DEF IInv, Exchanging, AnswersAreNew, KnownPairsAreIssued,
          UnissuedAreFresh, Looked
<1>1. ASSUME NEW c \in Calls, NEW kind \in {"fetch", "api"}, StartCall(c, kind)
      PROVE  AnswersAreNew'
  BY <1>1, StartCallEffect
<1>2. ASSUME NEW c \in Calls, Timer(c) PROVE AnswersAreNew'
  BY <1>2, TimerEffect
<1>3. ASSUME NEW c \in Calls, ReceivePair(c) PROVE AnswersAreNew'
  BY <1>3, ReceivePairEffect
<1>4. ASSUME NEW c \in Calls, GiveUp(c) PROVE AnswersAreNew'
  BY <1>4, GiveUpEffect
<1>5. ASSUME NEW c \in Calls, End(c) PROVE AnswersAreNew'
  BY <1>5, EndEffect
<1>6. ASSUME NEW c \in Calls, FetchUnauthorized(c) PROVE AnswersAreNew'
  BY <1>6, FetchUnauthorizedEffect
<1>7. ASSUME NEW c \in Calls, ApiUnauthorized(c) PROVE AnswersAreNew'
  BY <1>7, ApiUnauthorizedEffect
<1>8. ASSUME NEW c \in Calls, SubmitLogin(c) PROVE AnswersAreNew'
  BY <1>8, SubmitLoginEffect
<1>9. ASSUME NEW c \in Calls, ReceiveLogin(c) PROVE AnswersAreNew'
  BY <1>9, ReceiveLoginEffect
<1>10. ASSUME NEW c \in Calls, LoginFails(c) PROVE AnswersAreNew'
  BY <1>10, LoginFailsEffect
<1>11. ASSUME NEW c \in Calls, CheckToken(c) PROVE AnswersAreNew'
  BY <1>11, CheckTokenEffect
<1>12. ASSUME NEW c \in Calls, LoseAnswer(c) PROVE AnswersAreNew'
  BY <1>12, LoseAnswerEffect
<1>13. ASSUME NEW c \in Calls, NEW p \in Pairs, Rotate(c, p) PROVE AnswersAreNew'
  BY <1>13, RotateEffect
<1>14. ASSUME NEW c \in Calls, NEW p \in Pairs, IssuePair(c, p) PROVE AnswersAreNew'
  BY <1>14, IssuePairEffect
<1>15. ASSUME NEW t \in Tabs, Logout(t) PROVE AnswersAreNew'
  BY <1>15, LogoutEffect
<1>16. ASSUME NEW t \in Tabs, Open(t) PROVE AnswersAreNew'
  BY <1>16, OpenEffect
<1>17. ASSUME NEW t \in Tabs, Unload(t) PROVE AnswersAreNew'
  BY <1>17, UnloadEffect
<1>18. CASE EndSession
  BY <1>18, EndSessionEffect
<1>19. ASSUME NEW p \in Pairs, ComesSoon(p) PROVE AnswersAreNew'
  BY <1>19, ComesSoonEffect
<1>20. ASSUME NEW p \in Pairs, Expires(p) PROVE AnswersAreNew'
  BY <1>20, ExpiresEffect
<1>21. CASE UNCHANGED cvars
  BY <1>21 DEF cvars
<1> QED
  BY <1>1, <1>2, <1>3, <1>4, <1>5, <1>6, <1>7,
     <1>8, <1>9, <1>10, <1>11, <1>12, <1>13, <1>14,
     <1>15, <1>16, <1>17, <1>18, <1>19, <1>20, <1>21
     DEF Next, Script, Server

\* Only a pair somebody looks at gets older, and that one is issued.
LEMMA NextUnissuedAreFresh ==
  IInv /\ [Next]_cvars => UnissuedAreFresh'
<1> SUFFICES ASSUME IInv, [Next]_cvars PROVE UnissuedAreFresh'
  OBVIOUS
<1> TypeOK
  BY DEF IInv
<1> USE Types DEF IInv, Exchanging, UnissuedAreFresh, KnownPairsAreIssued,
          Looked
<1>1. ASSUME NEW c \in Calls, NEW kind \in {"fetch", "api"}, StartCall(c, kind)
      PROVE  UnissuedAreFresh'
  BY <1>1, StartCallEffect
<1>2. ASSUME NEW c \in Calls, Timer(c) PROVE UnissuedAreFresh'
  BY <1>2, TimerEffect
<1>3. ASSUME NEW c \in Calls, ReceivePair(c) PROVE UnissuedAreFresh'
  BY <1>3, ReceivePairEffect
<1>4. ASSUME NEW c \in Calls, GiveUp(c) PROVE UnissuedAreFresh'
  BY <1>4, GiveUpEffect
<1>5. ASSUME NEW c \in Calls, End(c) PROVE UnissuedAreFresh'
  BY <1>5, EndEffect
<1>6. ASSUME NEW c \in Calls, FetchUnauthorized(c) PROVE UnissuedAreFresh'
  BY <1>6, FetchUnauthorizedEffect
<1>7. ASSUME NEW c \in Calls, ApiUnauthorized(c) PROVE UnissuedAreFresh'
  BY <1>7, ApiUnauthorizedEffect
<1>8. ASSUME NEW c \in Calls, SubmitLogin(c) PROVE UnissuedAreFresh'
  BY <1>8, SubmitLoginEffect
<1>9. ASSUME NEW c \in Calls, ReceiveLogin(c) PROVE UnissuedAreFresh'
  BY <1>9, ReceiveLoginEffect
<1>10. ASSUME NEW c \in Calls, LoginFails(c) PROVE UnissuedAreFresh'
  BY <1>10, LoginFailsEffect
<1>11. ASSUME NEW c \in Calls, CheckToken(c) PROVE UnissuedAreFresh'
  BY <1>11, CheckTokenEffect
<1>12. ASSUME NEW c \in Calls, LoseAnswer(c) PROVE UnissuedAreFresh'
  BY <1>12, LoseAnswerEffect
<1>13. ASSUME NEW c \in Calls, NEW p \in Pairs, Rotate(c, p) PROVE UnissuedAreFresh'
  BY <1>13, RotateEffect
<1>14. ASSUME NEW c \in Calls, NEW p \in Pairs, IssuePair(c, p) PROVE UnissuedAreFresh'
  BY <1>14, IssuePairEffect
<1>15. ASSUME NEW t \in Tabs, Logout(t) PROVE UnissuedAreFresh'
  BY <1>15, LogoutEffect
<1>16. ASSUME NEW t \in Tabs, Open(t) PROVE UnissuedAreFresh'
  BY <1>16, OpenEffect
<1>17. ASSUME NEW t \in Tabs, Unload(t) PROVE UnissuedAreFresh'
  BY <1>17, UnloadEffect
<1>18. CASE EndSession
  BY <1>18, EndSessionEffect
<1>19. ASSUME NEW p \in Pairs, ComesSoon(p) PROVE UnissuedAreFresh'
  BY <1>19, ComesSoonEffect
<1>20. ASSUME NEW p \in Pairs, Expires(p) PROVE UnissuedAreFresh'
  BY <1>20, ExpiresEffect
<1>21. CASE UNCHANGED cvars
  BY <1>21 DEF cvars
<1> QED
  BY <1>1, <1>2, <1>3, <1>4, <1>5, <1>6, <1>7,
     <1>8, <1>9, <1>10, <1>11, <1>12, <1>13, <1>14,
     <1>15, <1>16, <1>17, <1>18, <1>19, <1>20, <1>21
     DEF Next, Script, Server

\* A request goes out with a fresh token or with none.
LEMMA NextSentInTime ==
  IInv /\ [Next]_cvars => SentInTime'
<1> SUFFICES ASSUME IInv, [Next]_cvars PROVE SentInTime'
  OBVIOUS
<1> TypeOK
  BY DEF IInv
<1> USE Types DEF IInv, Exchanging, SentInTime, AnswersAreNew
<1>1. ASSUME NEW c \in Calls, NEW kind \in {"fetch", "api"}, StartCall(c, kind)
      PROVE  SentInTime'
  BY <1>1, StartCallEffect
<1>2. ASSUME NEW c \in Calls, Timer(c) PROVE SentInTime'
  BY <1>2, TimerEffect
<1>3. ASSUME NEW c \in Calls, ReceivePair(c) PROVE SentInTime'
  BY <1>3, ReceivePairEffect
<1>4. ASSUME NEW c \in Calls, GiveUp(c) PROVE SentInTime'
  BY <1>4, GiveUpEffect
<1>5. ASSUME NEW c \in Calls, End(c) PROVE SentInTime'
  BY <1>5, EndEffect
<1>6. ASSUME NEW c \in Calls, FetchUnauthorized(c) PROVE SentInTime'
  BY <1>6, FetchUnauthorizedEffect
<1>7. ASSUME NEW c \in Calls, ApiUnauthorized(c) PROVE SentInTime'
  BY <1>7, ApiUnauthorizedEffect
<1>8. ASSUME NEW c \in Calls, SubmitLogin(c) PROVE SentInTime'
  BY <1>8, SubmitLoginEffect
<1>9. ASSUME NEW c \in Calls, ReceiveLogin(c) PROVE SentInTime'
  BY <1>9, ReceiveLoginEffect
<1>10. ASSUME NEW c \in Calls, LoginFails(c) PROVE SentInTime'
  BY <1>10, LoginFailsEffect
<1>11. ASSUME NEW c \in Calls, CheckToken(c) PROVE SentInTime'
  BY <1>11, CheckTokenEffect
<1>12. ASSUME NEW c \in Calls, LoseAnswer(c) PROVE SentInTime'
  BY <1>12, LoseAnswerEffect
<1>13. ASSUME NEW c \in Calls, NEW p \in Pairs, Rotate(c, p) PROVE SentInTime'
  BY <1>13, RotateEffect
<1>14. ASSUME NEW c \in Calls, NEW p \in Pairs, IssuePair(c, p) PROVE SentInTime'
  BY <1>14, IssuePairEffect
<1>15. ASSUME NEW t \in Tabs, Logout(t) PROVE SentInTime'
  BY <1>15, LogoutEffect
<1>16. ASSUME NEW t \in Tabs, Open(t) PROVE SentInTime'
  BY <1>16, OpenEffect
<1>17. ASSUME NEW t \in Tabs, Unload(t) PROVE SentInTime'
  BY <1>17, UnloadEffect
<1>18. CASE EndSession
  BY <1>18, EndSessionEffect
<1>19. ASSUME NEW p \in Pairs, ComesSoon(p) PROVE SentInTime'
  BY <1>19, ComesSoonEffect
<1>20. ASSUME NEW p \in Pairs, Expires(p) PROVE SentInTime'
  BY <1>20, ExpiresEffect
<1>21. CASE UNCHANGED cvars
  BY <1>21 DEF cvars
<1> QED
  BY <1>1, <1>2, <1>3, <1>4, <1>5, <1>6, <1>7,
     <1>8, <1>9, <1>10, <1>11, <1>12, <1>13, <1>14,
     <1>15, <1>16, <1>17, <1>18, <1>19, <1>20, <1>21
     DEF Next, Script, Server

\* What changes the store or starts a second exchange disturbs.
LEMMA NextExchangesStoredPair ==
  IInv /\ [Next]_cvars => ExchangesStoredPair'
<1> SUFFICES ASSUME IInv, [Next]_cvars PROVE ExchangesStoredPair'
  OBVIOUS
<1> TypeOK
  BY DEF IInv
<1> USE Types DEF IInv, Exchanging, ExchangesStoredPair, AnswersAreNew,
          SentWithoutTokenIsEmpty, SentInTime, Verified
<1>1. ASSUME NEW c \in Calls, NEW kind \in {"fetch", "api"}, StartCall(c, kind)
      PROVE  ExchangesStoredPair'
  BY <1>1, StartCallEffect
<1>2. ASSUME NEW c \in Calls, Timer(c) PROVE ExchangesStoredPair'
  BY <1>2, TimerEffect
<1>3. ASSUME NEW c \in Calls, ReceivePair(c) PROVE ExchangesStoredPair'
  BY <1>3, ReceivePairEffect
<1>4. ASSUME NEW c \in Calls, GiveUp(c) PROVE ExchangesStoredPair'
  BY <1>4, GiveUpEffect
<1>5. ASSUME NEW c \in Calls, End(c) PROVE ExchangesStoredPair'
  BY <1>5, EndEffect
<1>6. ASSUME NEW c \in Calls, FetchUnauthorized(c) PROVE ExchangesStoredPair'
  BY <1>6, FetchUnauthorizedEffect
<1>7. ASSUME NEW c \in Calls, ApiUnauthorized(c) PROVE ExchangesStoredPair'
  BY <1>7, ApiUnauthorizedEffect
<1>8. ASSUME NEW c \in Calls, SubmitLogin(c) PROVE ExchangesStoredPair'
  BY <1>8, SubmitLoginEffect
<1>9. ASSUME NEW c \in Calls, ReceiveLogin(c) PROVE ExchangesStoredPair'
  BY <1>9, ReceiveLoginEffect
<1>10. ASSUME NEW c \in Calls, LoginFails(c) PROVE ExchangesStoredPair'
  BY <1>10, LoginFailsEffect
<1>11. ASSUME NEW c \in Calls, CheckToken(c) PROVE ExchangesStoredPair'
  BY <1>11, CheckTokenEffect
<1>12. ASSUME NEW c \in Calls, LoseAnswer(c) PROVE ExchangesStoredPair'
  BY <1>12, LoseAnswerEffect
<1>13. ASSUME NEW c \in Calls, NEW p \in Pairs, Rotate(c, p) PROVE ExchangesStoredPair'
  BY <1>13, RotateEffect
<1>14. ASSUME NEW c \in Calls, NEW p \in Pairs, IssuePair(c, p) PROVE ExchangesStoredPair'
  BY <1>14, IssuePairEffect
<1>15. ASSUME NEW t \in Tabs, Logout(t) PROVE ExchangesStoredPair'
  BY <1>15, LogoutEffect
<1>16. ASSUME NEW t \in Tabs, Open(t) PROVE ExchangesStoredPair'
  BY <1>16, OpenEffect
<1>17. ASSUME NEW t \in Tabs, Unload(t) PROVE ExchangesStoredPair'
  BY <1>17, UnloadEffect
<1>18. CASE EndSession
  BY <1>18, EndSessionEffect
<1>19. ASSUME NEW p \in Pairs, ComesSoon(p) PROVE ExchangesStoredPair'
  BY <1>19, ComesSoonEffect
<1>20. ASSUME NEW p \in Pairs, Expires(p) PROVE ExchangesStoredPair'
  BY <1>20, ExpiresEffect
<1>21. CASE UNCHANGED cvars
  BY <1>21 DEF cvars
<1> QED
  BY <1>1, <1>2, <1>3, <1>4, <1>5, <1>6, <1>7,
     <1>8, <1>9, <1>10, <1>11, <1>12, <1>13, <1>14,
     <1>15, <1>16, <1>17, <1>18, <1>19, <1>20, <1>21
     DEF Next, Script, Server

\* Only its own exchange uses a token up.
LEMMA NextRefusedIsOver ==
  IInv /\ [Next]_cvars => RefusedIsOver'
<1> SUFFICES ASSUME IInv, [Next]_cvars PROVE RefusedIsOver'
  OBVIOUS
<1> TypeOK
  BY DEF IInv
<1> USE Types DEF IInv, Exchanging, RefusedIsOver, ExchangesStoredPair,
          KnownPairsAreIssued, StoredPairIsCurrent
<1>1. ASSUME NEW c \in Calls, NEW kind \in {"fetch", "api"}, StartCall(c, kind)
      PROVE  RefusedIsOver'
  BY <1>1, StartCallEffect
<1>2. ASSUME NEW c \in Calls, Timer(c) PROVE RefusedIsOver'
  BY <1>2, TimerEffect
<1>3. ASSUME NEW c \in Calls, ReceivePair(c) PROVE RefusedIsOver'
  BY <1>3, ReceivePairEffect
<1>4. ASSUME NEW c \in Calls, GiveUp(c) PROVE RefusedIsOver'
  BY <1>4, GiveUpEffect
<1>5. ASSUME NEW c \in Calls, End(c) PROVE RefusedIsOver'
  BY <1>5, EndEffect
<1>6. ASSUME NEW c \in Calls, FetchUnauthorized(c) PROVE RefusedIsOver'
  BY <1>6, FetchUnauthorizedEffect
<1>7. ASSUME NEW c \in Calls, ApiUnauthorized(c) PROVE RefusedIsOver'
  BY <1>7, ApiUnauthorizedEffect
<1>8. ASSUME NEW c \in Calls, SubmitLogin(c) PROVE RefusedIsOver'
  BY <1>8, SubmitLoginEffect
<1>9. ASSUME NEW c \in Calls, ReceiveLogin(c) PROVE RefusedIsOver'
  BY <1>9, ReceiveLoginEffect
<1>10. ASSUME NEW c \in Calls, LoginFails(c) PROVE RefusedIsOver'
  BY <1>10, LoginFailsEffect
<1>11. ASSUME NEW c \in Calls, CheckToken(c) PROVE RefusedIsOver'
  BY <1>11, CheckTokenEffect
<1>12. ASSUME NEW c \in Calls, LoseAnswer(c) PROVE RefusedIsOver'
  BY <1>12, LoseAnswerEffect
<1>13. ASSUME NEW c \in Calls, NEW p \in Pairs, Rotate(c, p) PROVE RefusedIsOver'
  BY <1>13, RotateEffect
<1>14. ASSUME NEW c \in Calls, NEW p \in Pairs, IssuePair(c, p) PROVE RefusedIsOver'
  BY <1>14, IssuePairEffect
<1>15. ASSUME NEW t \in Tabs, Logout(t) PROVE RefusedIsOver'
  BY <1>15, LogoutEffect
<1>16. ASSUME NEW t \in Tabs, Open(t) PROVE RefusedIsOver'
  BY <1>16, OpenEffect
<1>17. ASSUME NEW t \in Tabs, Unload(t) PROVE RefusedIsOver'
  BY <1>17, UnloadEffect
<1>18. CASE EndSession
  BY <1>18, EndSessionEffect
<1>19. ASSUME NEW p \in Pairs, ComesSoon(p) PROVE RefusedIsOver'
  BY <1>19, ComesSoonEffect
<1>20. ASSUME NEW p \in Pairs, Expires(p) PROVE RefusedIsOver'
  BY <1>20, ExpiresEffect
<1>21. CASE UNCHANGED cvars
  BY <1>21 DEF cvars
<1> QED
  BY <1>1, <1>2, <1>3, <1>4, <1>5, <1>6, <1>7,
     <1>8, <1>9, <1>10, <1>11, <1>12, <1>13, <1>14,
     <1>15, <1>16, <1>17, <1>18, <1>19, <1>20, <1>21
     DEF Next, Script, Server

\* A request goes out without a token when none is stored.
LEMMA NextSentWithoutTokenIsEmpty ==
  IInv /\ [Next]_cvars => SentWithoutTokenIsEmpty'
<1> SUFFICES ASSUME IInv, [Next]_cvars PROVE SentWithoutTokenIsEmpty'
  OBVIOUS
<1> TypeOK
  BY DEF IInv
<1> USE Types DEF IInv, Exchanging, SentWithoutTokenIsEmpty,
          ExchangesStoredPair
<1>1. ASSUME NEW c \in Calls, NEW kind \in {"fetch", "api"}, StartCall(c, kind)
      PROVE  SentWithoutTokenIsEmpty'
  BY <1>1, StartCallEffect
<1>2. ASSUME NEW c \in Calls, Timer(c) PROVE SentWithoutTokenIsEmpty'
  BY <1>2, TimerEffect
<1>3. ASSUME NEW c \in Calls, ReceivePair(c) PROVE SentWithoutTokenIsEmpty'
  BY <1>3, ReceivePairEffect
<1>4. ASSUME NEW c \in Calls, GiveUp(c) PROVE SentWithoutTokenIsEmpty'
  BY <1>4, GiveUpEffect
<1>5. ASSUME NEW c \in Calls, End(c) PROVE SentWithoutTokenIsEmpty'
  BY <1>5, EndEffect
<1>6. ASSUME NEW c \in Calls, FetchUnauthorized(c) PROVE SentWithoutTokenIsEmpty'
  BY <1>6, FetchUnauthorizedEffect
<1>7. ASSUME NEW c \in Calls, ApiUnauthorized(c) PROVE SentWithoutTokenIsEmpty'
  BY <1>7, ApiUnauthorizedEffect
<1>8. ASSUME NEW c \in Calls, SubmitLogin(c) PROVE SentWithoutTokenIsEmpty'
  BY <1>8, SubmitLoginEffect
<1>9. ASSUME NEW c \in Calls, ReceiveLogin(c) PROVE SentWithoutTokenIsEmpty'
  BY <1>9, ReceiveLoginEffect
<1>10. ASSUME NEW c \in Calls, LoginFails(c) PROVE SentWithoutTokenIsEmpty'
  BY <1>10, LoginFailsEffect
<1>11. ASSUME NEW c \in Calls, CheckToken(c) PROVE SentWithoutTokenIsEmpty'
  BY <1>11, CheckTokenEffect
<1>12. ASSUME NEW c \in Calls, LoseAnswer(c) PROVE SentWithoutTokenIsEmpty'
  BY <1>12, LoseAnswerEffect
<1>13. ASSUME NEW c \in Calls, NEW p \in Pairs, Rotate(c, p) PROVE SentWithoutTokenIsEmpty'
  BY <1>13, RotateEffect
<1>14. ASSUME NEW c \in Calls, NEW p \in Pairs, IssuePair(c, p) PROVE SentWithoutTokenIsEmpty'
  BY <1>14, IssuePairEffect
<1>15. ASSUME NEW t \in Tabs, Logout(t) PROVE SentWithoutTokenIsEmpty'
  BY <1>15, LogoutEffect
<1>16. ASSUME NEW t \in Tabs, Open(t) PROVE SentWithoutTokenIsEmpty'
  BY <1>16, OpenEffect
<1>17. ASSUME NEW t \in Tabs, Unload(t) PROVE SentWithoutTokenIsEmpty'
  BY <1>17, UnloadEffect
<1>18. CASE EndSession
  BY <1>18, EndSessionEffect
<1>19. ASSUME NEW p \in Pairs, ComesSoon(p) PROVE SentWithoutTokenIsEmpty'
  BY <1>19, ComesSoonEffect
<1>20. ASSUME NEW p \in Pairs, Expires(p) PROVE SentWithoutTokenIsEmpty'
  BY <1>20, ExpiresEffect
<1>21. CASE UNCHANGED cvars
  BY <1>21 DEF cvars
<1> QED
  BY <1>1, <1>2, <1>3, <1>4, <1>5, <1>6, <1>7,
     <1>8, <1>9, <1>10, <1>11, <1>12, <1>13, <1>14,
     <1>15, <1>16, <1>17, <1>18, <1>19, <1>20, <1>21
     DEF Next, Script, Server

\* After a logout no call finds a token to exchange.
LEMMA NextNothingUnderWay ==
  IInv /\ [Next]_cvars => NothingUnderWay'
<1> SUFFICES ASSUME IInv, [Next]_cvars PROVE NothingUnderWay'
  OBVIOUS
<1> TypeOK
  BY DEF IInv
<1> USE Types DEF IInv, Exchanging, NothingUnderWay, LogoutLasts
<1>1. ASSUME NEW c \in Calls, NEW kind \in {"fetch", "api"}, StartCall(c, kind)
      PROVE  NothingUnderWay'
  BY <1>1, StartCallEffect
<1>2. ASSUME NEW c \in Calls, Timer(c) PROVE NothingUnderWay'
  BY <1>2, TimerEffect
<1>3. ASSUME NEW c \in Calls, ReceivePair(c) PROVE NothingUnderWay'
  BY <1>3, ReceivePairEffect
<1>4. ASSUME NEW c \in Calls, GiveUp(c) PROVE NothingUnderWay'
  BY <1>4, GiveUpEffect
<1>5. ASSUME NEW c \in Calls, End(c) PROVE NothingUnderWay'
  BY <1>5, EndEffect
<1>6. ASSUME NEW c \in Calls, FetchUnauthorized(c) PROVE NothingUnderWay'
  BY <1>6, FetchUnauthorizedEffect
<1>7. ASSUME NEW c \in Calls, ApiUnauthorized(c) PROVE NothingUnderWay'
  BY <1>7, ApiUnauthorizedEffect
<1>8. ASSUME NEW c \in Calls, SubmitLogin(c) PROVE NothingUnderWay'
  BY <1>8, SubmitLoginEffect
<1>9. ASSUME NEW c \in Calls, ReceiveLogin(c) PROVE NothingUnderWay'
  BY <1>9, ReceiveLoginEffect
<1>10. ASSUME NEW c \in Calls, LoginFails(c) PROVE NothingUnderWay'
  BY <1>10, LoginFailsEffect
<1>11. ASSUME NEW c \in Calls, CheckToken(c) PROVE NothingUnderWay'
  BY <1>11, CheckTokenEffect
<1>12. ASSUME NEW c \in Calls, LoseAnswer(c) PROVE NothingUnderWay'
  BY <1>12, LoseAnswerEffect
<1>13. ASSUME NEW c \in Calls, NEW p \in Pairs, Rotate(c, p) PROVE NothingUnderWay'
  BY <1>13, RotateEffect
<1>14. ASSUME NEW c \in Calls, NEW p \in Pairs, IssuePair(c, p) PROVE NothingUnderWay'
  BY <1>14, IssuePairEffect
<1>15. ASSUME NEW t \in Tabs, Logout(t) PROVE NothingUnderWay'
  BY <1>15, LogoutEffect
<1>16. ASSUME NEW t \in Tabs, Open(t) PROVE NothingUnderWay'
  BY <1>16, OpenEffect
<1>17. ASSUME NEW t \in Tabs, Unload(t) PROVE NothingUnderWay'
  BY <1>17, UnloadEffect
<1>18. CASE EndSession
  BY <1>18, EndSessionEffect
<1>19. ASSUME NEW p \in Pairs, ComesSoon(p) PROVE NothingUnderWay'
  BY <1>19, ComesSoonEffect
<1>20. ASSUME NEW p \in Pairs, Expires(p) PROVE NothingUnderWay'
  BY <1>20, ExpiresEffect
<1>21. CASE UNCHANGED cvars
  BY <1>21 DEF cvars
<1> QED
  BY <1>1, <1>2, <1>3, <1>4, <1>5, <1>6, <1>7,
     <1>8, <1>9, <1>10, <1>11, <1>12, <1>13, <1>14,
     <1>15, <1>16, <1>17, <1>18, <1>19, <1>20, <1>21
     DEF Next, Script, Server

\* A token is used up only by the call that will store its successor.
LEMMA NextStoredPairIsCurrent ==
  IInv /\ [Next]_cvars => StoredPairIsCurrent'
<1> SUFFICES ASSUME IInv, [Next]_cvars PROVE StoredPairIsCurrent'
  OBVIOUS
<1> TypeOK
  BY DEF IInv
<1> USE Types DEF IInv, Exchanging, StoredPairIsCurrent, ExchangesStoredPair,
          AnswersAreNew, KnownPairsAreIssued, RefusedIsOver
<1>1. ASSUME NEW c \in Calls, NEW kind \in {"fetch", "api"}, StartCall(c, kind)
      PROVE  StoredPairIsCurrent'
  BY <1>1, StartCallEffect
<1>2. ASSUME NEW c \in Calls, Timer(c) PROVE StoredPairIsCurrent'
  BY <1>2, TimerEffect
<1>3. ASSUME NEW c \in Calls, ReceivePair(c) PROVE StoredPairIsCurrent'
  BY <1>3, ReceivePairEffect
<1>4. ASSUME NEW c \in Calls, GiveUp(c) PROVE StoredPairIsCurrent'
  BY <1>4, GiveUpEffect
<1>5. ASSUME NEW c \in Calls, End(c) PROVE StoredPairIsCurrent'
  BY <1>5, EndEffect
<1>6. ASSUME NEW c \in Calls, FetchUnauthorized(c) PROVE StoredPairIsCurrent'
  BY <1>6, FetchUnauthorizedEffect
<1>7. ASSUME NEW c \in Calls, ApiUnauthorized(c) PROVE StoredPairIsCurrent'
  BY <1>7, ApiUnauthorizedEffect
<1>8. ASSUME NEW c \in Calls, SubmitLogin(c) PROVE StoredPairIsCurrent'
  BY <1>8, SubmitLoginEffect
<1>9. ASSUME NEW c \in Calls, ReceiveLogin(c) PROVE StoredPairIsCurrent'
  BY <1>9, ReceiveLoginEffect
<1>10. ASSUME NEW c \in Calls, LoginFails(c) PROVE StoredPairIsCurrent'
  BY <1>10, LoginFailsEffect
<1>11. ASSUME NEW c \in Calls, CheckToken(c) PROVE StoredPairIsCurrent'
  BY <1>11, CheckTokenEffect
<1>12. ASSUME NEW c \in Calls, LoseAnswer(c) PROVE StoredPairIsCurrent'
  BY <1>12, LoseAnswerEffect
<1>13. ASSUME NEW c \in Calls, NEW p \in Pairs, Rotate(c, p) PROVE StoredPairIsCurrent'
  BY <1>13, RotateEffect
<1>14. ASSUME NEW c \in Calls, NEW p \in Pairs, IssuePair(c, p) PROVE StoredPairIsCurrent'
  BY <1>14, IssuePairEffect
<1>15. ASSUME NEW t \in Tabs, Logout(t) PROVE StoredPairIsCurrent'
  BY <1>15, LogoutEffect
<1>16. ASSUME NEW t \in Tabs, Open(t) PROVE StoredPairIsCurrent'
  BY <1>16, OpenEffect
<1>17. ASSUME NEW t \in Tabs, Unload(t) PROVE StoredPairIsCurrent'
  BY <1>17, UnloadEffect
<1>18. CASE EndSession
  BY <1>18, EndSessionEffect
<1>19. ASSUME NEW p \in Pairs, ComesSoon(p) PROVE StoredPairIsCurrent'
  BY <1>19, ComesSoonEffect
<1>20. ASSUME NEW p \in Pairs, Expires(p) PROVE StoredPairIsCurrent'
  BY <1>20, ExpiresEffect
<1>21. CASE UNCHANGED cvars
  BY <1>21 DEF cvars
<1> QED
  BY <1>1, <1>2, <1>3, <1>4, <1>5, <1>6, <1>7,
     <1>8, <1>9, <1>10, <1>11, <1>12, <1>13, <1>14,
     <1>15, <1>16, <1>17, <1>18, <1>19, <1>20, <1>21
     DEF Next, Script, Server

\* A pair is removed only when its session has ended or none is stored.
LEMMA NextNothingUsableThrownAway ==
  IInv /\ [Next]_cvars => NothingUsableThrownAway'
<1> SUFFICES ASSUME IInv, [Next]_cvars PROVE NothingUsableThrownAway'
  OBVIOUS
<1> TypeOK
  BY DEF IInv
<1> USE Types DEF IInv, Exchanging, NothingUsableThrownAway, RefusedIsOver,
          ExchangesStoredPair, SentWithoutTokenIsEmpty, SentInTime, Usable,
          Verified
<1>1. ASSUME NEW c \in Calls, NEW kind \in {"fetch", "api"}, StartCall(c, kind)
      PROVE  NothingUsableThrownAway'
  BY <1>1, StartCallEffect
<1>2. ASSUME NEW c \in Calls, Timer(c) PROVE NothingUsableThrownAway'
  BY <1>2, TimerEffect
<1>3. ASSUME NEW c \in Calls, ReceivePair(c) PROVE NothingUsableThrownAway'
  BY <1>3, ReceivePairEffect
<1>4. ASSUME NEW c \in Calls, GiveUp(c) PROVE NothingUsableThrownAway'
  BY <1>4, GiveUpEffect
<1>5. ASSUME NEW c \in Calls, End(c) PROVE NothingUsableThrownAway'
  BY <1>5, EndEffect
<1>6. ASSUME NEW c \in Calls, FetchUnauthorized(c) PROVE NothingUsableThrownAway'
  BY <1>6, FetchUnauthorizedEffect
<1>7. ASSUME NEW c \in Calls, ApiUnauthorized(c) PROVE NothingUsableThrownAway'
  BY <1>7, ApiUnauthorizedEffect
<1>8. ASSUME NEW c \in Calls, SubmitLogin(c) PROVE NothingUsableThrownAway'
  BY <1>8, SubmitLoginEffect
<1>9. ASSUME NEW c \in Calls, ReceiveLogin(c) PROVE NothingUsableThrownAway'
  BY <1>9, ReceiveLoginEffect
<1>10. ASSUME NEW c \in Calls, LoginFails(c) PROVE NothingUsableThrownAway'
  BY <1>10, LoginFailsEffect
<1>11. ASSUME NEW c \in Calls, CheckToken(c) PROVE NothingUsableThrownAway'
  BY <1>11, CheckTokenEffect
<1>12. ASSUME NEW c \in Calls, LoseAnswer(c) PROVE NothingUsableThrownAway'
  BY <1>12, LoseAnswerEffect
<1>13. ASSUME NEW c \in Calls, NEW p \in Pairs, Rotate(c, p) PROVE NothingUsableThrownAway'
  BY <1>13, RotateEffect
<1>14. ASSUME NEW c \in Calls, NEW p \in Pairs, IssuePair(c, p) PROVE NothingUsableThrownAway'
  BY <1>14, IssuePairEffect
<1>15. ASSUME NEW t \in Tabs, Logout(t) PROVE NothingUsableThrownAway'
  BY <1>15, LogoutEffect
<1>16. ASSUME NEW t \in Tabs, Open(t) PROVE NothingUsableThrownAway'
  BY <1>16, OpenEffect
<1>17. ASSUME NEW t \in Tabs, Unload(t) PROVE NothingUsableThrownAway'
  BY <1>17, UnloadEffect
<1>18. CASE EndSession
  BY <1>18, EndSessionEffect
<1>19. ASSUME NEW p \in Pairs, ComesSoon(p) PROVE NothingUsableThrownAway'
  BY <1>19, ComesSoonEffect
<1>20. ASSUME NEW p \in Pairs, Expires(p) PROVE NothingUsableThrownAway'
  BY <1>20, ExpiresEffect
<1>21. CASE UNCHANGED cvars
  BY <1>21 DEF cvars
<1> QED
  BY <1>1, <1>2, <1>3, <1>4, <1>5, <1>6, <1>7,
     <1>8, <1>9, <1>10, <1>11, <1>12, <1>13, <1>14,
     <1>15, <1>16, <1>17, <1>18, <1>19, <1>20, <1>21
     DEF Next, Script, Server

\* Only a call that was under way, or a login, fills the store again.
LEMMA NextLogoutLasts ==
  IInv /\ [Next]_cvars => LogoutLasts'
<1> SUFFICES ASSUME IInv, [Next]_cvars PROVE LogoutLasts'
  OBVIOUS
<1> TypeOK
  BY DEF IInv
<1> USE Types DEF IInv, Exchanging, LogoutLasts, NothingUnderWay
<1>1. ASSUME NEW c \in Calls, NEW kind \in {"fetch", "api"}, StartCall(c, kind)
      PROVE  LogoutLasts'
  BY <1>1, StartCallEffect
<1>2. ASSUME NEW c \in Calls, Timer(c) PROVE LogoutLasts'
  BY <1>2, TimerEffect
<1>3. ASSUME NEW c \in Calls, ReceivePair(c) PROVE LogoutLasts'
  BY <1>3, ReceivePairEffect
<1>4. ASSUME NEW c \in Calls, GiveUp(c) PROVE LogoutLasts'
  BY <1>4, GiveUpEffect
<1>5. ASSUME NEW c \in Calls, End(c) PROVE LogoutLasts'
  BY <1>5, EndEffect
<1>6. ASSUME NEW c \in Calls, FetchUnauthorized(c) PROVE LogoutLasts'
  BY <1>6, FetchUnauthorizedEffect
<1>7. ASSUME NEW c \in Calls, ApiUnauthorized(c) PROVE LogoutLasts'
  BY <1>7, ApiUnauthorizedEffect
<1>8. ASSUME NEW c \in Calls, SubmitLogin(c) PROVE LogoutLasts'
  BY <1>8, SubmitLoginEffect
<1>9. ASSUME NEW c \in Calls, ReceiveLogin(c) PROVE LogoutLasts'
  BY <1>9, ReceiveLoginEffect
<1>10. ASSUME NEW c \in Calls, LoginFails(c) PROVE LogoutLasts'
  BY <1>10, LoginFailsEffect
<1>11. ASSUME NEW c \in Calls, CheckToken(c) PROVE LogoutLasts'
  BY <1>11, CheckTokenEffect
<1>12. ASSUME NEW c \in Calls, LoseAnswer(c) PROVE LogoutLasts'
  BY <1>12, LoseAnswerEffect
<1>13. ASSUME NEW c \in Calls, NEW p \in Pairs, Rotate(c, p) PROVE LogoutLasts'
  BY <1>13, RotateEffect
<1>14. ASSUME NEW c \in Calls, NEW p \in Pairs, IssuePair(c, p) PROVE LogoutLasts'
  BY <1>14, IssuePairEffect
<1>15. ASSUME NEW t \in Tabs, Logout(t) PROVE LogoutLasts'
  BY <1>15, LogoutEffect
<1>16. ASSUME NEW t \in Tabs, Open(t) PROVE LogoutLasts'
  BY <1>16, OpenEffect
<1>17. ASSUME NEW t \in Tabs, Unload(t) PROVE LogoutLasts'
  BY <1>17, UnloadEffect
<1>18. CASE EndSession
  BY <1>18, EndSessionEffect
<1>19. ASSUME NEW p \in Pairs, ComesSoon(p) PROVE LogoutLasts'
  BY <1>19, ComesSoonEffect
<1>20. ASSUME NEW p \in Pairs, Expires(p) PROVE LogoutLasts'
  BY <1>20, ExpiresEffect
<1>21. CASE UNCHANGED cvars
  BY <1>21 DEF cvars
<1> QED
  BY <1>1, <1>2, <1>3, <1>4, <1>5, <1>6, <1>7,
     <1>8, <1>9, <1>10, <1>11, <1>12, <1>13, <1>14,
     <1>15, <1>16, <1>17, <1>18, <1>19, <1>20, <1>21
     DEF Next, Script, Server

-----------------------------------------------------------------------------
(* The theorems *)

\* A browser without tokens, and no pair issued.
LEMMA InitIInv == Init => IInv
<1> SUFFICES ASSUME Init PROVE IInv
  OBVIOUS
<1> USE DEF Init
<1>1. TypeOK
  BY DEF TypeOK, CallStates, Idle, Empty, Exchanging, Pairs
<1>2. \A c \in Calls : call[c].at = "idle" /\ call[c].token = 0 /\ ~Exchanging(c)
  BY DEF Idle, Exchanging
<1>3. store = Empty /\ store.refresh = 0
  BY DEF Empty
<1> QED
  BY <1>1, <1>2, <1>3 DEF IInv, KnownPairsAreIssued,
     AnswersAreNew,
     UnissuedAreFresh,
     SentInTime,
     ExchangesStoredPair,
     RefusedIsOver,
     SentWithoutTokenIsEmpty,
     NothingUnderWay,
     StoredPairIsCurrent,
     NothingUsableThrownAway,
     LogoutLasts

\* IInv is inductive.
LEMMA Inductive == Spec => []IInv
<1>1. IInv /\ [Next]_cvars => IInv'
  BY NextTypeOK, NextKnownPairsAreIssued,
     NextAnswersAreNew,
     NextUnissuedAreFresh,
     NextSentInTime,
     NextExchangesStoredPair,
     NextRefusedIsOver,
     NextSentWithoutTokenIsEmpty,
     NextNothingUnderWay,
     NextStoredPairIsCurrent,
     NextNothingUsableThrownAway,
     NextLogoutLasts
     DEF IInv
<1> QED
  BY InitIInv, <1>1, PTL DEF Spec

\* The two tokens of the store are of one pair, and every call is in one of the
\* states research.js, the login page and auth-svc can leave it in.
THEOREM TypeCorrect == Spec => []TypeOK
<1>1. IInv => TypeOK
  BY DEF IInv
<1> QED
  BY <1>1, Inductive, PTL

\* However many tabs share the store: undisturbed, refreshAccessToken keeps its
\* refresh token one that auth-svc will exchange as long as the session lasts.
THEOREM StoredPairStaysCurrent == Spec => []StoredPairIsCurrent
<1>1. IInv => StoredPairIsCurrent
  BY DEF IInv
<1> QED
  BY <1>1, Inductive, PTL

\* Undisturbed, neither ensureValidToken nor the 401 branch of fetchJSON removes a
\* pair whose session could have gone on.
THEOREM NoUsablePairLost == Spec => []NothingUsableThrownAway
<1>1. IInv => NothingUsableThrownAway
  BY DEF IInv
<1> QED
  BY <1>1, Inductive, PTL

\* No script fills the store again after a logout that no refresh fell into.
THEOREM LogoutsLast == Spec => []LogoutLasts
<1>1. IInv => LogoutLasts
  BY DEF IInv
<1> QED
  BY <1>1, Inductive, PTL

=============================================================================
