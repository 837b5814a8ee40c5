---------------------------- MODULE OutboxProofs ----------------------------
(***************************************************************************)
(* Proofs about Outbox for every set of events and handlers and every      *)
(* bound.  IInv is the inductive invariant of the table and the relay:     *)
(* TypeOK, which row states a request and the relay may hold, the          *)
(* publication count, and the fact that the relay's batch leaves no older  *)
(* row behind.  Arrivals, inductive under it, follows the events through   *)
(* the client's buffer to the server.                                      *)
(***************************************************************************)
EXTENDS Outbox, SequenceTheorems, TLAPS

-----------------------------------------------------------------------------
(* The inductive invariant *)

\* A handler that is past its business write holds an event of its own whose
\* row no other transaction can see.
RequestsOwnTheirEvents ==
    /\ \A w \in Workers : request[w] # Idle =>
        /\ request[w].at \in {"written", "inserted"}
        /\ request[w].event \in committed
        /\ row[request[w].event] \in {"none", "inserted"}
    /\ \A v, w \in Workers :
        (request[v] # Idle /\ request[v].event = request[w].event) => v = w
    /\ \A e \in Events : row[e] # "none" => e \in committed

\* What the relay holds is unsent.
RelayHoldsUnsent ==
    /\ batch \subseteq Unsent
    /\ marking # NoEvent => marking \in batch

\* The rows visible when e was inserted stay visible, and each of them from an
\* earlier second is sent, or still in the relay's hands, when e is in its batch.
NoOlderRowLeftBehind ==
    \A e, f \in Events : f \in earlier[e] =>
        /\ f \in Visible
        /\ (e \in batch /\ created[f] < created[e])
                => f \in batch \/ row[f] = "sent"

\* Only rows that were visible are published.
PublishedWasVisible ==
    \A e \in Events : published[e] > 0 => e \in Visible

\* Before an event is published for the first time, every older one is marked.
SentBeforeNewer ==
    \A e \in Events, f \in Events :
        Older(f, e) /\ published[e] > 0 => row[f] = "sent"

IInv ==
    /\ TypeOK
    /\ RequestsOwnTheirEvents
    /\ RelayHoldsUnsent
    /\ OncePerMark
    /\ PublishedWasVisible
    /\ NoOlderRowLeftBehind
    /\ SentBeforeNewer

-----------------------------------------------------------------------------
\* The types hold initially.
LEMMA InitTypeOK == Init => TypeOK
<1> USE OutboxAssumption DEF TypeOK, Idle, Doing
<1> SUFFICES ASSUME Init PROVE TypeOK
  OBVIOUS
<1>1. rank \in [Events -> Nat]
  <2>1. 1 .. Cardinality(Events) \subseteq Nat
    OBVIOUS
  <2> QED BY <2>1 DEF Init
<1> QED BY <1>1 DEF Init

\* A disconnection or a restart loses events that were in the buffer, and leaves events.
LEMMA OutageTypes ==
    ASSUME TypeOK, Disconnect \/ Restart
    PROVE  buffer' \in Seq(Events) /\ lost' \in SUBSET Events
<1>1. buffer \in Seq(Events) /\ lost \in SUBSET Events
  BY DEF TypeOK
<1>2. PICK k \in 0 .. Len(buffer) :
         /\ buffer' = SubSeq(buffer, k + 1, Len(buffer)) \/ buffer' = <<>>
         /\ lost' = lost \cup {buffer[i] : i \in 1 .. k}
  <2>1. Len(buffer) \in 0 .. Len(buffer)
    BY <1>1
  <2> QED BY <2>1 DEF Disconnect, Restart
<1>3. \A i \in 1 .. k : buffer[i] \in Events
  BY <1>1
<1>4. lost' \in SUBSET Events
  BY <1>1, <1>2, <1>3
<1>5. SubSeq(buffer, k + 1, Len(buffer)) \in Seq(Events)
  <2>1. k + 1 \in Int /\ Len(buffer) \in Int
    BY <1>1
  <2>2. \A i \in k + 1 .. Len(buffer) : buffer[i] \in Events
    BY <1>1
  <2> QED BY <2>1, <2>2, SubSeqProperties
<1>6. <<>> \in Seq(Events)
  OBVIOUS
<1> QED BY <1>2, <1>4, <1>5, <1>6

\* No step of the outbox breaks them.
LEMMA NextTypeOK == TypeOK /\ [Next]_vars => TypeOK'
<1> USE OutboxAssumption DEF TypeOK, Idle, Doing, dbVars, relayVars, natsVars
<1> SUFFICES ASSUME TypeOK, [Next]_vars PROVE TypeOK'
  OBVIOUS
<1>1. ASSUME NEW w \in Workers, NEW e \in Events, BusinessWrite(w, e)
      PROVE  TypeOK'
  BY <1>1 DEF BusinessWrite
<1>2. ASSUME NEW w \in Workers, InsertOutboxTx(w) PROVE TypeOK'
  <2>1. Visible \in SUBSET Events
    BY DEF Visible
  <2>2. request' \in [Workers -> [at : {"idle", "written", "inserted"},
                                  event : Events \cup {NoEvent}]]
    BY <1>2 DEF InsertOutboxTx
  <2>3. /\ row' \in [Events -> {"none", "inserted", "unsent", "sent"}]
        /\ created' \in [Events -> 0 .. MaxNow]
        /\ earlier' \in [Events -> SUBSET Events]
    BY <1>2, <2>1 DEF InsertOutboxTx
  <2> QED BY <1>2, <2>2, <2>3 DEF InsertOutboxTx
<1>3. ASSUME NEW w \in Workers, CommitOutbox(w) PROVE TypeOK'
  BY <1>3 DEF CommitOutbox
<1>4. ASSUME NEW w \in Workers, EnqueueFails(w) PROVE TypeOK'
  <2>1. row' \in [Events -> {"none", "inserted", "unsent", "sent"}]
    BY <1>4 DEF EnqueueFails
  <2>2. request' \in [Workers -> [at : {"idle", "written", "inserted"},
                                  event : Events \cup {NoEvent}]]
    BY <1>4 DEF EnqueueFails
  <2>3. faults' \in 0 .. MaxFaults
    BY <1>4 DEF EnqueueFails, Fault
  <2> QED BY <1>4, <2>1, <2>2, <2>3 DEF EnqueueFails
<1>5. CASE ListUnsentOutbox
  BY <1>5 DEF ListUnsentOutbox, Unsent
<1>6. ASSUME NEW e \in Events, Publish(e) PROVE TypeOK'
  BY <1>6 DEF Publish
<1>7. ASSUME NEW e \in Events, PublishFails(e) PROVE TypeOK'
  BY <1>7 DEF PublishFails
<1>8. CASE MarkOutboxSent
  BY <1>8 DEF MarkOutboxSent
<1>9. CASE MarkFails
  BY <1>9 DEF MarkFails, Fault
<1>10. CASE Flush
  <2>1. Head(buffer) \in Events /\ Tail(buffer) \in Seq(Events)
    BY <1>10, HeadTailProperties DEF Flush
  <2> QED BY <1>10, <2>1 DEF Flush
<1>11. CASE Disconnect
  <2>1. buffer' \in Seq(Events) /\ lost' \in SUBSET Events
    BY <1>11, OutageTypes
  <2>2. faults' \in 0 .. MaxFaults /\ linkUp' = FALSE
    BY <1>11 DEF Disconnect, Fault
  <2>3. UNCHANGED <<bus, request>> /\ UNCHANGED <<dbVars, relayVars>>
    BY <1>11, Zenon DEF Disconnect
  <2> QED BY <2>1, <2>2, <2>3
<1>12. CASE Reconnect
  BY <1>12 DEF Reconnect
<1>13. CASE Restart
  <2>1. buffer' \in Seq(Events) /\ lost' \in SUBSET Events
    BY <1>13, OutageTypes
  <2>2. UNCHANGED <<now, rank, committed, created, earlier, published, bus>>
    BY <1>13 DEF Restart
  <2>3. /\ row' \in [Events -> {"none", "inserted", "unsent", "sent"}]
        /\ request' \in [Workers -> [at : {"idle", "written", "inserted"},
                                     event : Events \cup {NoEvent}]]
        /\ repeated' \in [Events -> Nat]
        /\ batch' \subseteq Events
        /\ marking' \in Events \cup {NoEvent}
        /\ linkUp' \in BOOLEAN
        /\ faults' \in 0 .. MaxFaults
    BY <1>13 DEF Restart, Fault
  <2> QED BY <2>1, <2>2, <2>3
<1>14. CASE Tick
  BY <1>14 DEF Tick
<1>15. CASE UNCHANGED vars
  BY <1>15 DEF vars
<1> QED
  BY <1>1, <1>2, <1>3, <1>4, <1>5, <1>6, <1>7, <1>8, <1>9, <1>10, <1>11,
     <1>12, <1>13, <1>14, <1>15 DEF Next, Handler, Drain

(* Every variable keeps its type in every step of module-svc and of NATS. *)
THEOREM TypeCorrect == Spec => []TypeOK
  BY InitTypeOK, NextTypeOK, PTL DEF Spec

-----------------------------------------------------------------------------
(* IInv is inductive *)

LEMMA InitIInv == Init => IInv
<1> SUFFICES ASSUME Init PROVE IInv
  OBVIOUS
<1> QED
  BY InitTypeOK, OutboxAssumption
  DEF Init, IInv, RequestsOwnTheirEvents, RelayHoldsUnsent, OncePerMark,
      PublishedWasVisible, NoOlderRowLeftBehind, SentBeforeNewer, Older, Unsent,
      Visible, Idle, Doing

\* A step that leaves the rows, the requests and the relay alone keeps the parts
\* of the invariant that are not types.
LEMMA Undisturbed ==
    ASSUME IInv, TypeOK',
           UNCHANGED <<row, committed, created, earlier, request>>,
           UNCHANGED relayVars
    PROVE  IInv'
BY DEF IInv, RequestsOwnTheirEvents, RelayHoldsUnsent, OncePerMark,
       PublishedWasVisible, NoOlderRowLeftBehind, SentBeforeNewer, Older, Before,
       Unsent, Visible, relayVars

\* Every step of a handler, the relay, NATS or the process keeps it.
LEMMA NextIInv == IInv /\ [Next]_vars => IInv'
<1> USE OutboxAssumption DEF Idle, Doing, dbVars, relayVars, natsVars
<1> SUFFICES ASSUME IInv, [Next]_vars PROVE IInv'
  OBVIOUS
<1> TypeOK'
  BY NextTypeOK DEF IInv
<1>s. created \in [Events -> Nat]
  <2>1. created \in [Events -> 0 .. MaxNow] /\ 0 .. MaxNow \subseteq Nat
    BY DEF IInv, TypeOK
  <2> QED BY <2>1
<1>t. /\ committed \subseteq Events
      /\ row \in [Events -> {"none", "inserted", "unsent", "sent"}]
      /\ created \in [Events -> Nat]
      /\ request \in [Workers -> [at : {"idle", "written", "inserted"},
                                  event : Events \cup {NoEvent}]]
      /\ marking \in Events \cup {NoEvent}
      /\ published \in [Events -> Nat]
      /\ repeated \in [Events -> Nat]
      /\ earlier \in [Events -> SUBSET Events]
  BY <1>s DEF IInv, TypeOK
<1>1. ASSUME NEW w \in Workers, NEW e \in Events, BusinessWrite(w, e)
      PROVE  IInv'
  <2> USE <1>t DEF IInv, BusinessWrite
  <2>1. RequestsOwnTheirEvents'
    BY <1>1 DEF RequestsOwnTheirEvents
  <2>2. /\ RelayHoldsUnsent'
        /\ OncePerMark'
        /\ PublishedWasVisible'
        /\ NoOlderRowLeftBehind'
        /\ SentBeforeNewer'
    BY <1>1 DEF RelayHoldsUnsent, OncePerMark, PublishedWasVisible,
                NoOlderRowLeftBehind, SentBeforeNewer, Older, Unsent, Visible
  <2> QED BY <2>1, <2>2
<1>2. ASSUME NEW w \in Workers, InsertOutboxTx(w) PROVE IInv'
  <2> DEFINE e == request[w].event
  <2> USE <1>t DEF IInv
  <2>1. /\ request[w] # Idle
        /\ e \in Events
        /\ row[e] \in {"none", "inserted"}
    BY <1>2 DEF InsertOutboxTx, RequestsOwnTheirEvents
  <2>2. /\ row' = [row EXCEPT ![e] = "inserted"]
        /\ request' = [request EXCEPT ![w] = Doing("inserted", e)]
        /\ UNCHANGED <<committed, batch, marking, published, repeated>>
    BY <1>2 DEF InsertOutboxTx
  <2>a. /\ created' = [created EXCEPT ![e] = now]
        /\ earlier' = [earlier EXCEPT ![e] = Visible]
    BY <1>2 DEF InsertOutboxTx
  <2>3. Visible' = Visible /\ Unsent' = Unsent /\ e \notin Visible
    BY <2>1, <2>2 DEF Visible, Unsent
  <2>4. RequestsOwnTheirEvents'
    BY <2>1, <2>2 DEF RequestsOwnTheirEvents
  <2>5. RelayHoldsUnsent' /\ PublishedWasVisible'
    BY <2>2, <2>3 DEF RelayHoldsUnsent, PublishedWasVisible
  <2>6. OncePerMark'
    BY <2>1, <2>2 DEF OncePerMark
  <2>7. e \notin batch /\ ~(published[e] > 0)
    BY <2>1, <2>3 DEF RelayHoldsUnsent, PublishedWasVisible, Unsent, Visible
  <2>8. NoOlderRowLeftBehind'
    BY <2>1, <2>2, <2>a, <2>3, <2>7 DEF NoOlderRowLeftBehind
  <2>9. SentBeforeNewer'
    BY <2>1, <2>2, <2>a, <2>3, <2>7 DEF SentBeforeNewer, Older, NoOlderRowLeftBehind
  <2> QED BY <2>4, <2>5, <2>6, <2>8, <2>9
<1>3. ASSUME NEW w \in Workers, CommitOutbox(w) PROVE IInv'
  <2> DEFINE e == request[w].event
  <2> USE <1>t DEF IInv
  <2>1. /\ request[w] # Idle
        /\ e \in Events
        /\ row[e] \in {"none", "inserted"}
    BY <1>3 DEF CommitOutbox, RequestsOwnTheirEvents
  <2>2. /\ row' = [row EXCEPT ![e] = "unsent"]
        /\ request' = [request EXCEPT ![w] = Idle]
        /\ UNCHANGED <<committed, created, earlier>>
        /\ UNCHANGED <<batch, marking, published, repeated>>
    BY <1>3 DEF CommitOutbox
  <2>3. Visible' = Visible \cup {e} /\ Unsent' = Unsent \cup {e}
    BY <2>1, <2>2 DEF Visible, Unsent
  <2>4. RequestsOwnTheirEvents'
    BY <1>3, <2>1, <2>2 DEF RequestsOwnTheirEvents
  <2>5. RelayHoldsUnsent' /\ PublishedWasVisible'
    BY <2>2, <2>3 DEF RelayHoldsUnsent, PublishedWasVisible
  <2>6. OncePerMark'
    BY <2>1, <2>2 DEF OncePerMark
  <2>7. NoOlderRowLeftBehind' /\ SentBeforeNewer'
    BY <2>1, <2>2, <2>3 DEF NoOlderRowLeftBehind, SentBeforeNewer, Older
  <2> QED BY <2>4, <2>5, <2>6, <2>7
<1>4. ASSUME NEW w \in Workers, EnqueueFails(w) PROVE IInv'
  <2> DEFINE e == request[w].event
  <2> USE <1>t DEF IInv
  <2>1. /\ request[w] # Idle
        /\ e \in Events
        /\ row[e] \in {"none", "inserted"}
    BY <1>4 DEF EnqueueFails, RequestsOwnTheirEvents
  <2>2. /\ row' = [row EXCEPT ![e] = "none"]
        /\ request' = [request EXCEPT ![w] = Idle]
        /\ UNCHANGED <<committed, created, earlier>>
        /\ UNCHANGED <<batch, marking, published, repeated>>
    BY <1>4 DEF EnqueueFails
  <2>3. Visible' = Visible /\ Unsent' = Unsent
    BY <2>1, <2>2 DEF Visible, Unsent
  <2>4. RequestsOwnTheirEvents'
    BY <2>1, <2>2 DEF RequestsOwnTheirEvents
  <2>5. RelayHoldsUnsent' /\ PublishedWasVisible'
    BY <2>2, <2>3 DEF RelayHoldsUnsent, PublishedWasVisible
  <2>6. OncePerMark'
    BY <2>1, <2>2 DEF OncePerMark
  <2>7. NoOlderRowLeftBehind' /\ SentBeforeNewer'
    BY <2>1, <2>2, <2>3 DEF NoOlderRowLeftBehind, SentBeforeNewer, Older
  <2> QED BY <2>4, <2>5, <2>6, <2>7
<1>5. CASE ListUnsentOutbox
  <2> USE <1>t DEF IInv
  <2>1. PICK S \in SUBSET Unsent :
            /\ \A e \in S, f \in Unsent \ S : Before(e, f)
            /\ batch' = S
    BY <1>5, Zenon DEF ListUnsentOutbox
  <2>2. /\ batch = {}
        /\ UNCHANGED <<row, committed, created, earlier, rank, request>>
        /\ UNCHANGED <<marking, published, repeated>>
    BY <1>5 DEF ListUnsentOutbox
  <2>3. RequestsOwnTheirEvents' /\ PublishedWasVisible' /\ SentBeforeNewer'
    BY <2>2 DEF RequestsOwnTheirEvents, PublishedWasVisible, Visible,
                SentBeforeNewer, Older
  <2>4. RelayHoldsUnsent'
    BY <2>1, <2>2 DEF RelayHoldsUnsent, Unsent
  <2>5. OncePerMark'
    BY <2>2 DEF OncePerMark
  <2>6. NoOlderRowLeftBehind'
    <3> SUFFICES ASSUME NEW e \in Events, NEW f \in Events, f \in earlier[e]
                 PROVE  /\ f \in Visible
                        /\ e \in S /\ created[f] < created[e]
                                => f \in S \/ row[f] = "sent"
      BY <2>1, <2>2 DEF NoOlderRowLeftBehind, Visible
    <3>1. f \in Visible
      BY DEF NoOlderRowLeftBehind
    <3>2. ASSUME e \in S, created[f] < created[e], f \notin S, row[f] # "sent"
          PROVE  FALSE
      <4>1. f \in Unsent \ S
        BY <3>1, <3>2 DEF Visible, Unsent
      <4>2. Before(e, f)
        BY <2>1, <3>2, <4>1
      <4>3. created[e] \in Int /\ created[f] \in Int
        OBVIOUS
      <4> QED BY <3>2, <4>2, <4>3 DEF Before
    <3> QED BY <3>1, <3>2
  <2> QED BY <2>3, <2>4, <2>5, <2>6
<1>6. ASSUME NEW e \in Events, Publish(e) PROVE IInv'
  <2> USE <1>t DEF IInv
  <2>1. /\ e \in batch /\ marking = NoEvent
        /\ \A f \in batch \ {e} : Before(e, f)
        /\ marking' = e
        /\ published' = [published EXCEPT ![e] = @ + 1]
        /\ UNCHANGED <<row, committed, created, earlier, request>>
        /\ UNCHANGED <<batch, repeated>>
    BY <1>6 DEF Publish, Turn
  <2>2. row[e] = "unsent"
    BY <2>1 DEF RelayHoldsUnsent, Unsent
  <2>3. RequestsOwnTheirEvents' /\ RelayHoldsUnsent' /\ NoOlderRowLeftBehind'
    BY <2>1 DEF RequestsOwnTheirEvents, RelayHoldsUnsent, Unsent,
                NoOlderRowLeftBehind, Visible
  <2>4. OncePerMark'
    BY <2>1, <2>2 DEF OncePerMark
  <2>5. PublishedWasVisible'
    BY <2>1, <2>2 DEF PublishedWasVisible, Visible
  <2>6. SentBeforeNewer'
    <3> SUFFICES ASSUME NEW g \in Events, NEW f \in Events,
                        Older(f, g), published'[g] > 0
                 PROVE  row[f] = "sent"
      BY <2>1 DEF SentBeforeNewer, Older
    <3>1. CASE published[g] > 0
      BY <2>1, <3>1 DEF SentBeforeNewer
    <3>2. CASE ~(published[g] > 0)
      <4>1. g = e
        BY <2>1, <3>2
      <4>a. created[e] \in Int /\ created[f] \in Int
        OBVIOUS
      <4>2. f \notin batch
        BY <2>1, <4>1, <4>a DEF Before, Older
      <4> QED BY <2>1, <4>1, <4>2 DEF NoOlderRowLeftBehind, Older
    <3> QED BY <3>1, <3>2
  <2> QED BY <2>3, <2>4, <2>5, <2>6
<1>7. ASSUME NEW e \in Events, PublishFails(e) PROVE IInv'
  BY <1>t, <1>7 DEF PublishFails, Turn, IInv, RequestsOwnTheirEvents,
      RelayHoldsUnsent, OncePerMark, PublishedWasVisible, Visible, Unsent,
      NoOlderRowLeftBehind, SentBeforeNewer, Older
<1>8. CASE MarkOutboxSent
  <2> USE <1>t DEF IInv
  <2>1. /\ marking \in batch /\ marking \in Events
        /\ row[marking] = "unsent"
        /\ row' = [row EXCEPT ![marking] = "sent"]
        /\ batch' = batch \ {marking}
        /\ marking' = NoEvent
        /\ UNCHANGED <<committed, created, earlier, request>>
        /\ UNCHANGED <<published, repeated>>
    BY <1>8 DEF MarkOutboxSent, RelayHoldsUnsent, Unsent
  <2>2. Visible' = Visible /\ Unsent' = Unsent \ {marking}
    BY <2>1 DEF Visible, Unsent
  <2>3. RequestsOwnTheirEvents'
    BY <2>1 DEF RequestsOwnTheirEvents
  <2>4. RelayHoldsUnsent' /\ PublishedWasVisible' /\ SentBeforeNewer'
    BY <2>1, <2>2 DEF RelayHoldsUnsent, PublishedWasVisible, SentBeforeNewer, Older
  <2>5. OncePerMark'
    BY <2>1 DEF OncePerMark
  <2>6. NoOlderRowLeftBehind'
    BY <2>1, <2>2 DEF NoOlderRowLeftBehind
  <2> QED BY <2>3, <2>4, <2>5, <2>6
<1>9. CASE MarkFails
  <2> USE <1>t DEF IInv
  <2>1. /\ marking \in Events
        /\ row[marking] = "unsent"
        /\ repeated' = [repeated EXCEPT ![marking] = @ + 1]
        /\ batch' = {}
        /\ marking' = NoEvent
        /\ UNCHANGED <<row, committed, created, earlier, request, published>>
    BY <1>9 DEF MarkFails, RelayHoldsUnsent, Unsent
  <2>2. OncePerMark'
    BY <2>1 DEF OncePerMark
  <2>3. /\ RequestsOwnTheirEvents'
        /\ RelayHoldsUnsent'
        /\ PublishedWasVisible'
        /\ NoOlderRowLeftBehind'
        /\ SentBeforeNewer'
    BY <2>1 DEF RequestsOwnTheirEvents, RelayHoldsUnsent, PublishedWasVisible,
                NoOlderRowLeftBehind, SentBeforeNewer, Older, Visible
  <2> QED BY <2>2, <2>3
<1>10. CASE Flush
  BY <1>10, Undisturbed DEF Flush
<1>11. CASE Disconnect
  <2>1. UNCHANGED <<dbVars, relayVars>> /\ UNCHANGED request
    BY <1>11, Zenon DEF Disconnect
  <2> QED BY <2>1, Undisturbed
<1>12. CASE Reconnect
  BY <1>12, Undisturbed DEF Reconnect
<1>13. CASE Restart
  <2> USE <1>t DEF IInv
  <2>1. /\ row' = [e \in Events |-> IF row[e] = "inserted" THEN "none"
                                     ELSE row[e]]
        /\ request' = [w \in Workers |-> Idle]
        /\ repeated' = IF marking = NoEvent THEN repeated
                        ELSE [repeated EXCEPT ![marking] = @ + 1]
        /\ batch' = {} /\ marking' = NoEvent
        /\ UNCHANGED <<committed, created, earlier, published>>
    BY <1>13 DEF Restart
  <2>2. Visible' = Visible /\ Unsent' = Unsent
    BY <2>1 DEF Visible, Unsent
  <2>3. RequestsOwnTheirEvents' /\ RelayHoldsUnsent'
    BY <2>1 DEF RequestsOwnTheirEvents, RelayHoldsUnsent
  <2>4. OncePerMark'
    <3>1. CASE marking = NoEvent
      BY <2>1, <3>1 DEF OncePerMark
    <3>2. CASE marking # NoEvent
      <4>1. marking \in Events /\ row[marking] = "unsent"
        BY <3>2 DEF RelayHoldsUnsent, Unsent
      <4> QED BY <2>1, <3>2, <4>1 DEF OncePerMark
    <3> QED BY <3>1, <3>2
  <2>5. PublishedWasVisible' /\ SentBeforeNewer'
    BY <2>1, <2>2 DEF PublishedWasVisible, SentBeforeNewer, Older
  <2>6. NoOlderRowLeftBehind'
    BY <2>1, <2>2 DEF NoOlderRowLeftBehind
  <2> QED BY <2>3, <2>4, <2>5, <2>6
<1>14. CASE Tick
  BY <1>14, Undisturbed DEF Tick
<1>15. CASE UNCHANGED vars
  BY <1>15, Undisturbed DEF vars
<1> QED
  BY <1>1, <1>2, <1>3, <1>4, <1>5, <1>6, <1>7, <1>8, <1>9, <1>10, <1>11,
     <1>12, <1>13, <1>14, <1>15 DEF Next, Handler, Drain

\* The inductive invariant holds throughout.
LEMMA Inductive == Spec => []IInv
  BY InitIInv, NextIInv, PTL DEF Spec

-----------------------------------------------------------------------------
(* What the invariant is for *)

(* The relay publishes an event once, plus once for each fault that struck   *)
(* between publication and mark: it neither loses track of a row nor         *)
(* publishes a marked one again (outbox.go, drain).                          *)
THEOREM PublishesOncePerMark == Spec => []OncePerMark
  BY Inductive, PTL DEF IInv

\* A sent row has been published.
LEMMA InOrder == IInv => OrderAcrossSeconds
<1> SUFFICES ASSUME IInv,
                    NEW e \in Events, NEW f \in Events,
                    Older(f, e), published[e] > 0
             PROVE  published[f] > 0
  BY DEF OrderAcrossSeconds
<1>1. row[f] = "sent"
  BY DEF IInv, SentBeforeNewer
<1>2. published[f] = repeated[f] + 1 /\ repeated[f] \in Nat
  BY <1>1 DEF IInv, OncePerMark, TypeOK
<1> QED BY <1>2

(* Rows leave in the order of their seconds, whatever batches, refusals and  *)
(* restarts come between (outbox.go, drain; repository.go,                   *)
(* ListUnsentOutbox).                                                        *)
THEOREM KeepsOrderAcrossSeconds == Spec => []OrderAcrossSeconds
  BY Inductive, InOrder, PTL

-----------------------------------------------------------------------------
(* What arrives *)

InBuffer(e) == \E i \in 1 .. Len(buffer) : buffer[i] = e

\* What PublishMsg accepted has arrived, is on its way, or was lost on it.
PublishedIsAccountedFor ==
    \A e \in Events : published[e] > 0 => e \in bus \cup lost \/ InBuffer(e)

\* Only published events travel.
TravellersArePublished ==
    /\ \A e \in bus : published[e] > 0
    /\ \A i \in 1 .. Len(buffer) : published[buffer[i]] > 0

\* In the buffer, older events stand before newer ones.
BufferKeepsOrder ==
    \A i \in 1 .. Len(buffer), f \in Events :
        Older(f, buffer[i]) =>
            f \in bus \cup lost \/ \E j \in 1 .. i - 1 : buffer[j] = f

Arrivals ==
    /\ PublishedIsAccountedFor
    /\ TravellersArePublished
    /\ BufferKeepsOrder
    /\ MissedOnlyInOutage

\* Which rows are older than a published one is settled.
LEMMA OlderIsSettled ==
    ASSUME IInv, [Next]_vars, NEW e \in Events, published[e] > 0,
           NEW f \in Events
    PROVE  /\ Older(f, e)' => Older(f, e)
           /\ row[f] = "sent" => row'[f] = "sent"
<1>1. e \in Visible
  BY DEF IInv, PublishedWasVisible
<1>2. ASSUME NEW w \in Workers, InsertOutboxTx(w)
      PROVE  /\ Older(f, e)' => Older(f, e)
             /\ row[f] = "sent" => row'[f] = "sent"
  <2> DEFINE g == request[w].event
  <2>1. row[g] \in {"none", "inserted"} /\ g \in Events
    BY <1>2 DEF InsertOutboxTx, IInv, RequestsOwnTheirEvents, Idle, Doing,
                TypeOK
  <2>2. /\ row' = [row EXCEPT ![g] = "inserted"]
        /\ created' = [created EXCEPT ![g] = now]
        /\ earlier' = [earlier EXCEPT ![g] = Visible]
    BY <1>2 DEF InsertOutboxTx
  <2>3. e # g /\ (f \in earlier[e] => f # g)
    BY <1>1, <2>1 DEF IInv, NoOlderRowLeftBehind, Visible
  <2> QED BY <2>1, <2>2, <2>3 DEF Older, IInv, TypeOK
<1>3. ASSUME NEW w \in Workers, CommitOutbox(w) \/ EnqueueFails(w)
      PROVE  /\ UNCHANGED <<created, earlier>>
             /\ row[f] = "sent" => row'[f] = "sent"
  <2>1. row[request[w].event] \in {"none", "inserted"}
    BY <1>3 DEF CommitOutbox, EnqueueFails, IInv, RequestsOwnTheirEvents,
                Idle, Doing
  <2> QED BY <1>3, <2>1 DEF CommitOutbox, EnqueueFails, IInv, TypeOK
<1>4. ASSUME MarkOutboxSent \/ Restart
      PROVE  /\ UNCHANGED <<created, earlier>>
             /\ row[f] = "sent" => row'[f] = "sent"
  BY <1>4 DEF MarkOutboxSent, Restart, IInv, TypeOK
<1>5. ASSUME (\E w \in Workers, g \in Events : BusinessWrite(w, g))
             \/ ListUnsentOutbox \/ MarkFails \/ Flush \/ Reconnect \/ Tick
             \/ (\E g \in Events : Publish(g) \/ PublishFails(g))
             \/ UNCHANGED vars
      PROVE  UNCHANGED <<row, created, earlier>>
  BY <1>5 DEF BusinessWrite, ListUnsentOutbox, MarkFails, Flush, Reconnect,
              Tick, Publish, PublishFails, dbVars, vars
<1>6. ASSUME Disconnect PROVE UNCHANGED <<row, created, earlier>>
  BY <1>6, Zenon DEF Disconnect, dbVars
<1> QED
  BY <1>2, <1>3, <1>4, <1>5, <1>6 DEF Older, Next, Handler, Drain

\* Arrivals is kept where nothing travels: what was accepted, what was lost and
\* what arrived stay as they are.
LEMMA NothingTravels ==
    ASSUME IInv, Arrivals, [Next]_vars,
           UNCHANGED <<published, lost, buffer, bus>>
    PROVE  Arrivals'
<1>t. bus \subseteq Events /\ buffer \in Seq(Events)
  BY DEF IInv, TypeOK
<1>1. PublishedIsAccountedFor' /\ TravellersArePublished'
  BY DEF Arrivals, PublishedIsAccountedFor, TravellersArePublished, InBuffer
<1>2. ASSUME NEW i \in 1 .. Len(buffer), NEW f \in Events,
             Older(f, buffer[i])'
      PROVE  f \in bus \cup lost \/ \E j \in 1 .. i - 1 : buffer[j] = f
  <2>1. buffer[i] \in Events /\ published[buffer[i]] > 0
    BY <1>t DEF Arrivals, TravellersArePublished
  <2>2. \A g \in Events : published[g] > 0 =>
            \A h \in Events : Older(h, g)' => Older(h, g)
    BY OlderIsSettled
  <2>3. Older(f, buffer[i])
    BY <1>2, <2>1, <2>2 DEF Older
  <2> QED BY <2>3 DEF Arrivals, BufferKeepsOrder
<1>3. ASSUME NEW e \in bus, NEW f \in Events, Older(f, e)'
      PROVE  row'[f] = "sent" /\ f \in bus \cup lost
  BY <1>t, <1>3, OlderIsSettled
  DEF Arrivals, MissedOnlyInOutage, TravellersArePublished
<1>4. BufferKeepsOrder'
  BY <1>2 DEF BufferKeepsOrder, Older
<1>5. MissedOnlyInOutage'
  BY <1>3 DEF MissedOnlyInOutage
<1> QED BY <1>1, <1>4, <1>5 DEF Arrivals

LEMMA NextArrivals == IInv /\ Arrivals /\ [Next]_vars => Arrivals'
<1> SUFFICES ASSUME IInv, Arrivals, [Next]_vars PROVE Arrivals'
  OBVIOUS
<1>i. IInv'
  BY NextIInv
<1>t. /\ bus \subseteq Events /\ buffer \in Seq(Events) /\ lost \subseteq Events
      /\ published \in [Events -> Nat]
      /\ Len(buffer) \in Nat
  BY DEF IInv, TypeOK
<1>1. ASSUME (\E w \in Workers : Handler(w))
             \/ ListUnsentOutbox \/ (\E e \in Events : PublishFails(e))
             \/ MarkOutboxSent \/ MarkFails \/ Reconnect \/ Tick
             \/ UNCHANGED vars
      PROVE  UNCHANGED <<published, lost, buffer, bus>>
  BY <1>1 DEF Handler, BusinessWrite, InsertOutboxTx, CommitOutbox,
              EnqueueFails, ListUnsentOutbox, PublishFails, MarkOutboxSent,
              MarkFails, Reconnect, Tick, vars, relayVars, natsVars
<1>2. ASSUME NEW e \in Events, Publish(e) PROVE Arrivals'
  <2>1. /\ e \in batch
        /\ buffer' = Append(buffer, e)
        /\ lost' = lost \ {e}
        /\ published' = [published EXCEPT ![e] = @ + 1]
        /\ UNCHANGED <<row, created, earlier, bus>>
    BY <1>2 DEF Publish, Turn, dbVars
  <2>2. /\ Len(buffer') = Len(buffer) + 1
        /\ \A i \in 1 .. Len(buffer) : buffer'[i] = buffer[i]
        /\ buffer'[Len(buffer) + 1] = e
    BY <1>t, <2>1
  <2>3. row[e] # "sent"
    BY <2>1 DEF IInv, RelayHoldsUnsent, Unsent
  <2>4. \A g \in Events : published'[g] > 0 =>
            \A f \in Events : Older(f, g) => row[f] = "sent" /\ f # e
    BY <1>i, <2>1, <2>3 DEF IInv, SentBeforeNewer, Older
  <2>5. PublishedIsAccountedFor'
    <3> SUFFICES ASSUME NEW g \in Events, published'[g] > 0
                 PROVE  g \in bus \cup lost' \/ InBuffer(g)'
      BY <2>1 DEF PublishedIsAccountedFor
    <3>1. CASE g = e
      BY <1>t, <2>2, <3>1 DEF InBuffer
    <3>2. CASE g # e
      <4>1. g \in bus \cup lost \/ InBuffer(g)
        BY <1>t, <2>1, <3>2 DEF Arrivals, PublishedIsAccountedFor
      <4> QED BY <1>t, <2>1, <2>2, <3>2, <4>1 DEF InBuffer
    <3> QED BY <3>1, <3>2
  <2>6. TravellersArePublished'
    <3>1. \A g \in Events : published[g] > 0 => published'[g] > 0
      BY <1>t, <2>1
    <3>2. published'[e] > 0
      BY <1>t, <2>1
    <3>3. \A g \in bus' : published'[g] > 0
      BY <1>t, <2>1, <3>1 DEF Arrivals, TravellersArePublished
    <3>4. ASSUME NEW i \in 1 .. Len(buffer') PROVE published'[buffer'[i]] > 0
      <4>1. CASE i \in 1 .. Len(buffer)
        BY <1>t, <2>2, <3>1, <4>1 DEF Arrivals, TravellersArePublished
      <4>2. CASE i = Len(buffer) + 1
        BY <2>2, <3>2, <4>2
      <4> QED BY <1>t, <2>2, <4>1, <4>2
    <3> QED BY <3>3, <3>4 DEF TravellersArePublished
  <2>7. BufferKeepsOrder'
    <3> SUFFICES ASSUME NEW i \in 1 .. Len(buffer'), NEW f \in Events,
                        Older(f, buffer'[i])
                 PROVE  f \in bus \cup lost'
                        \/ \E j \in 1 .. i - 1 : buffer'[j] = f
      BY <2>1 DEF BufferKeepsOrder, Older
    <3>1. CASE i \in 1 .. Len(buffer)
      <4>1. /\ buffer[i] \in Events /\ published'[buffer[i]] > 0
            /\ buffer'[i] = buffer[i]
        BY <1>t, <2>1, <2>2, <3>1 DEF Arrivals, TravellersArePublished
      <4>2. f # e
        BY <2>4, <4>1
      <4>3. f \in bus \cup lost \/ \E j \in 1 .. i - 1 : buffer[j] = f
        BY <3>1, <4>1 DEF Arrivals, BufferKeepsOrder
      <4> QED BY <1>t, <2>1, <2>2, <3>1, <4>2, <4>3
    <3>2. CASE i = Len(buffer) + 1
      <4>1. published'[e] > 0 /\ buffer'[i] = e
        BY <1>t, <2>1, <2>2, <3>2
      <4>2. row[f] = "sent" /\ f # e
        BY <2>4, <4>1
      <4>3. published[f] = repeated[f] + 1 /\ repeated[f] \in Nat
        BY <4>2 DEF IInv, OncePerMark, TypeOK
      <4>4. f \in bus \cup lost \/ InBuffer(f)
        BY <4>3 DEF Arrivals, PublishedIsAccountedFor
      <4> QED BY <1>t, <2>1, <2>2, <3>2, <4>2, <4>4 DEF InBuffer
    <3> QED BY <1>t, <2>2, <3>1, <3>2
  <2>8. MissedOnlyInOutage'
    <3> SUFFICES ASSUME NEW g \in bus, NEW f \in Events, Older(f, g)
                 PROVE  row[f] = "sent" /\ f \in bus \cup lost'
      BY <2>1 DEF MissedOnlyInOutage, Older
    <3>1. row[f] = "sent" /\ f \in bus \cup lost
      BY DEF Arrivals, MissedOnlyInOutage
    <3> QED BY <2>1, <2>3, <3>1
  <2> QED BY <2>5, <2>6, <2>7, <2>8 DEF Arrivals
<1>3. CASE Flush
  <2>1. /\ buffer # <<>>
        /\ bus' = bus \cup {Head(buffer)}
        /\ buffer' = Tail(buffer)
        /\ UNCHANGED <<published, lost, row, created, earlier>>
    BY <1>3 DEF Flush, relayVars, dbVars
  <2>2. /\ Head(buffer) = buffer[1]
        /\ Len(buffer') = Len(buffer) - 1
        /\ \A i \in 1 .. Len(buffer) - 1 : buffer'[i] = buffer[i + 1]
        /\ 1 \in 1 .. Len(buffer)
    BY <1>t, <2>1
  <2>3. PublishedIsAccountedFor'
    <3> SUFFICES ASSUME NEW g \in Events, published[g] > 0
                 PROVE  g \in bus' \cup lost \/ InBuffer(g)'
      BY <2>1 DEF PublishedIsAccountedFor
    <3>1. ASSUME NEW i \in 1 .. Len(buffer), buffer[i] = g, i # 1
          PROVE  InBuffer(g)'
      <4>1. i - 1 \in 1 .. Len(buffer') /\ buffer'[i - 1] = g
        BY <1>t, <2>2, <3>1
      <4> QED BY <4>1 DEF InBuffer
    <3> QED
      BY <2>1, <2>2, <3>1 DEF Arrivals, PublishedIsAccountedFor, InBuffer
  <2>4. TravellersArePublished'
    <3>1. (\A e \in bus : published[e] > 0) /\ \A i \in 1 .. Len(buffer) : published[buffer[i]] > 0
      BY DEF Arrivals, TravellersArePublished
    <3>2. \A i \in 1 .. Len(buffer') : \E j \in 1 .. Len(buffer) : buffer'[i] = buffer[j]
      <4> SUFFICES ASSUME NEW i \in 1 .. Len(buffer')
                   PROVE  \E j \in 1 .. Len(buffer) : buffer'[i] = buffer[j]
        OBVIOUS
      <4>1. i + 1 \in 1 .. Len(buffer) /\ buffer'[i] = buffer[i + 1]
        BY <1>t, <2>2
      <4> QED BY <4>1
    <3>3. (\A e \in bus' : published[e] > 0) /\ \A i \in 1 .. Len(buffer') : published[buffer'[i]] > 0
      BY <2>1, <2>2, <3>1, <3>2
    <3> QED BY <2>1, <3>3 DEF TravellersArePublished
  <2>5. BufferKeepsOrder'
    <3> SUFFICES ASSUME NEW i \in 1 .. Len(buffer'), NEW f \in Events,
                        Older(f, buffer'[i])
                 PROVE  f \in bus' \cup lost
                        \/ \E j \in 1 .. i - 1 : buffer'[j] = f
      BY <2>1 DEF BufferKeepsOrder, Older
    <3>1. i + 1 \in 1 .. Len(buffer) /\ buffer'[i] = buffer[i + 1]
      BY <1>t, <2>2
    <3>2. f \in bus \cup lost \/ \E j \in 1 .. (i + 1) - 1 : buffer[j] = f
      BY <3>1 DEF Arrivals, BufferKeepsOrder
    <3>3. ASSUME NEW j \in 1 .. (i + 1) - 1, buffer[j] = f, j # 1
          PROVE  j - 1 \in 1 .. i - 1 /\ buffer'[j - 1] = f
      <4>1. j - 1 \in 1 .. i - 1 /\ j - 1 \in 1 .. Len(buffer) - 1
            /\ (j - 1) + 1 = j
        BY <1>t, <3>1, <3>3
      <4> QED BY <2>2, <3>3, <4>1
    <3> QED BY <2>1, <2>2, <3>2, <3>3
  <2>6. MissedOnlyInOutage'
    <3> SUFFICES ASSUME NEW g \in bus', NEW f \in Events, Older(f, g)
                 PROVE  row[f] = "sent" /\ f \in bus' \cup lost
      BY <2>1 DEF MissedOnlyInOutage, Older
    <3>1. CASE g \in bus
      BY <2>1, <3>1 DEF Arrivals, MissedOnlyInOutage
    <3>2. CASE g = buffer[1]
      <4>1. g \in Events /\ published[g] > 0
        BY <1>t, <2>2, <3>2 DEF Arrivals, TravellersArePublished
      <4>2. row[f] = "sent"
        BY <4>1 DEF IInv, SentBeforeNewer
      <4>3. f \in bus \cup lost \/ \E j \in 1 .. 1 - 1 : buffer[j] = f
        BY <2>2, <3>2 DEF Arrivals, BufferKeepsOrder
      <4> QED BY <2>1, <4>2, <4>3
    <3> QED BY <2>1, <2>2, <3>1, <3>2
  <2> QED BY <2>3, <2>4, <2>5, <2>6 DEF Arrivals
<1>4. CASE Disconnect
  <2>1. PICK k \in 0 .. Len(buffer) :
           /\ buffer' = SubSeq(buffer, k + 1, Len(buffer))
           /\ lost' = lost \cup {buffer[i] : i \in 1 .. k}
    BY <1>4 DEF Disconnect
  <2>2. UNCHANGED <<published, bus, row, created, earlier>>
    BY <1>4, Zenon DEF Disconnect, relayVars, dbVars
  <2>3. /\ Len(buffer') = Len(buffer) - k
        /\ \A i \in 1 .. Len(buffer) - k : buffer'[i] = buffer[i + k]
    BY <1>t, <2>1
  <2>a. \A j \in 1 .. k : buffer[j] \in lost'
    BY <2>1, Zenon
  <2>b. lost \subseteq lost'
    BY <2>1, Zenon
  <2>4. PublishedIsAccountedFor'
    <3> SUFFICES ASSUME NEW g \in Events, published[g] > 0
                 PROVE  g \in bus \cup lost' \/ InBuffer(g)'
      BY <2>2 DEF PublishedIsAccountedFor
    <3>1. ASSUME NEW i \in 1 .. Len(buffer), buffer[i] = g, i > k
          PROVE  InBuffer(g)'
      <4>1. i - k \in 1 .. Len(buffer') /\ buffer'[i - k] = g
        BY <1>t, <2>3, <3>1
      <4> QED BY <4>1 DEF InBuffer
    <3>2. ASSUME NEW i \in 1 .. Len(buffer), buffer[i] = g, ~(i > k)
          PROVE  g \in lost'
      BY <1>t, <2>a, <3>2
    <3> QED
      BY <2>b, <3>1, <3>2 DEF Arrivals, PublishedIsAccountedFor, InBuffer
  <2>5. TravellersArePublished'
    <3>1. (\A e \in bus : published[e] > 0) /\ \A i \in 1 .. Len(buffer) : published[buffer[i]] > 0
      BY DEF Arrivals, TravellersArePublished
    <3>2. \A i \in 1 .. Len(buffer') : \E j \in 1 .. Len(buffer) : buffer'[i] = buffer[j]
      <4> SUFFICES ASSUME NEW i \in 1 .. Len(buffer')
                   PROVE  \E j \in 1 .. Len(buffer) : buffer'[i] = buffer[j]
        OBVIOUS
      <4>1. i + k \in 1 .. Len(buffer) /\ buffer'[i] = buffer[i + k]
        BY <1>t, <2>3
      <4> QED BY <4>1
    <3>3. \A i \in 1 .. Len(buffer') : published[buffer'[i]] > 0
      BY <3>1, <3>2
    <3> QED BY <2>2, <3>1, <3>3 DEF TravellersArePublished
  <2>6. BufferKeepsOrder'
    <3> SUFFICES ASSUME NEW i \in 1 .. Len(buffer'), NEW f \in Events,
                        Older(f, buffer'[i])
                 PROVE  f \in bus \cup lost'
                        \/ \E j \in 1 .. i - 1 : buffer'[j] = f
      BY <2>2 DEF BufferKeepsOrder, Older
    <3>1. i + k \in 1 .. Len(buffer) /\ buffer'[i] = buffer[i + k]
      BY <1>t, <2>3
    <3>2. f \in bus \cup lost \/ \E j \in 1 .. (i + k) - 1 : buffer[j] = f
      BY <3>1 DEF Arrivals, BufferKeepsOrder
    <3>3. ASSUME NEW j \in 1 .. (i + k) - 1, buffer[j] = f, j > k
          PROVE  j - k \in 1 .. i - 1 /\ buffer'[j - k] = f
      <4>1. j - k \in 1 .. i - 1 /\ j - k \in 1 .. Len(buffer) - k
            /\ (j - k) + k = j
        BY <1>t, <3>1, <3>3
      <4> QED BY <2>3, <3>3, <4>1
    <3>4. ASSUME NEW j \in 1 .. (i + k) - 1, buffer[j] = f, ~(j > k)
          PROVE  f \in lost'
      BY <1>t, <2>a, <3>4
    <3> QED BY <2>b, <3>2, <3>3, <3>4
  <2>7. MissedOnlyInOutage'
    BY <2>2, <2>b DEF Arrivals, MissedOnlyInOutage, Older
  <2> QED BY <2>4, <2>5, <2>6, <2>7 DEF Arrivals
<1>5. CASE Restart
  <2>1. /\ buffer' = <<>>
        /\ lost' = lost \cup {buffer[i] : i \in 1 .. Len(buffer)}
        /\ UNCHANGED <<published, bus, created, earlier>>
    BY <1>5 DEF Restart
  <2>2. \A i \in 1 .. Len(buffer) : buffer[i] \in lost'
    BY <2>1, Zenon
  <2>3. lost \subseteq lost' /\ Len(buffer') = 0
    BY <2>1
  <2>4. \A f \in Events : row[f] = "sent" => row'[f] = "sent"
    BY <1>5 DEF Restart, IInv, TypeOK
  <2>5. PublishedIsAccountedFor'
    BY <2>1, <2>2, <2>3 DEF Arrivals, PublishedIsAccountedFor, InBuffer
  <2>6. TravellersArePublished' /\ BufferKeepsOrder'
    BY <2>1, <2>3 DEF Arrivals, TravellersArePublished, BufferKeepsOrder
  <2>7. MissedOnlyInOutage'
    BY <2>1, <2>3, <2>4 DEF Arrivals, MissedOnlyInOutage, Older
  <2> QED BY <2>5, <2>6, <2>7 DEF Arrivals
<1> QED
  BY <1>1, <1>2, <1>3, <1>4, <1>5, NothingTravels DEF Next, Drain

(* What reaches NATS arrives in the order of the seconds, and an event is     *)
(* missed only if it was in the client's buffer when the connection or the    *)
(* process was lost (outbox.go, drain and publish; nats.go; main.go).         *)
THEOREM OnlyOutagesLoseEvents == Spec => []MissedOnlyInOutage
<1>1. Init => Arrivals
  BY DEF Init, Arrivals, PublishedIsAccountedFor, TravellersArePublished,
         BufferKeepsOrder, MissedOnlyInOutage
<1> QED
  BY <1>1, Inductive, NextArrivals, PTL DEF Spec, Arrivals

\* Each step of the outbox is a step of EventDelivery, or leaves it unchanged.
LEMMA StepSimulation ==
    IInv /\ [Next]_vars => [Delivery!Next]_(Delivery!dvars)
<1> USE DEF Doing, dbVars, relayVars, natsVars
<1> DEFINE handed == {e \in Events : published[e] > 0}
<1> SUFFICES ASSUME IInv, [Next]_vars
             PROVE  Delivery!Next \/ (Visible' = Visible /\ handed' = handed)
  BY DEF Delivery!dvars
<1>t. /\ committed \subseteq Events
      /\ row \in [Events -> {"none", "inserted", "unsent", "sent"}]
      /\ marking \in Events \cup {NoEvent}
      /\ published \in [Events -> Nat]
  BY DEF IInv, TypeOK
<1>1. ASSUME UNCHANGED <<row, published>>
      PROVE  Visible' = Visible /\ handed' = handed
  BY <1>1 DEF Visible
<1>2. ASSUME NEW w \in Workers, NEW e \in Events, BusinessWrite(w, e)
      PROVE  UNCHANGED <<row, published>>
  BY <1>2 DEF BusinessWrite
<1>3. ASSUME NEW w \in Workers,
             request[w] # Idle,
             \E s \in {"none", "inserted"} :
                 row' = [row EXCEPT ![request[w].event] = s],
             UNCHANGED published
      PROVE  Visible' = Visible /\ handed' = handed
  BY <1>3, <1>t DEF IInv, RequestsOwnTheirEvents, Visible
<1>4. ASSUME NEW w \in Workers, InsertOutboxTx(w)
      PROVE  Visible' = Visible /\ handed' = handed
  <2>1. request[w] # Idle
    BY <1>4 DEF InsertOutboxTx, Idle
  <2>2. /\ row' = [row EXCEPT ![request[w].event] = "inserted"]
        /\ UNCHANGED published
    BY <1>4 DEF InsertOutboxTx
  <2> QED BY <1>3, <2>1, <2>2
<1>5. ASSUME NEW w \in Workers, EnqueueFails(w)
      PROVE  Visible' = Visible /\ handed' = handed
  <2>1. /\ request[w] # Idle
        /\ row' = [row EXCEPT ![request[w].event] = "none"]
        /\ UNCHANGED published
    BY <1>5 DEF EnqueueFails
  <2> QED BY <1>3, <2>1
<1>6. ASSUME NEW w \in Workers, CommitOutbox(w)
      PROVE  Delivery!Next
  <2> DEFINE e == request[w].event
  <2>1. /\ e \in Events /\ row[e] \in {"none", "inserted"}
    BY <1>6, <1>t DEF CommitOutbox, Idle, IInv, RequestsOwnTheirEvents
  <2>2. row' = [row EXCEPT ![e] = "unsent"] /\ UNCHANGED published
    BY <1>6 DEF CommitOutbox
  <2>3. e \notin Visible /\ Visible' = Visible \cup {e} /\ handed' = handed
    BY <1>t, <2>1, <2>2 DEF Visible
  <2>4. Delivery!Record(e)
    BY <2>1, <2>3 DEF Delivery!Record
  <2> QED BY <2>1, <2>4 DEF Delivery!Next
<1>7. ASSUME NEW e \in Events, Publish(e)
      PROVE  Delivery!Next \/ (Visible' = Visible /\ handed' = handed)
  <2>1. /\ published' = [published EXCEPT ![e] = @ + 1]
        /\ UNCHANGED row
        /\ e \in Visible
    BY <1>7 DEF Publish, Turn, IInv, RelayHoldsUnsent, Unsent, Visible
  <2>2. Visible' = Visible /\ handed' = handed \cup {e}
    BY <1>t, <2>1 DEF Visible
  <2>3. CASE e \in handed
    BY <2>2, <2>3
  <2>4. CASE e \notin handed
    BY <2>1, <2>2, <2>4 DEF Delivery!HandOver, Delivery!Next
  <2> QED BY <2>3, <2>4
<1>8. CASE MarkOutboxSent
  <2>1. /\ marking \in Events /\ row[marking] = "unsent"
        /\ row' = [row EXCEPT ![marking] = "sent"]
        /\ UNCHANGED published
    BY <1>8, <1>t DEF MarkOutboxSent, IInv, RelayHoldsUnsent, Unsent
  <2> QED BY <1>t, <2>1 DEF Visible
<1>9. CASE Restart
  <2>1. row' = [e \in Events |-> IF row[e] = "inserted" THEN "none" ELSE row[e]]
        /\ UNCHANGED published
    BY <1>9 DEF Restart
  <2> QED BY <1>t, <2>1 DEF Visible
<1>10. ASSUME ListUnsentOutbox \/ (\E e \in Events : PublishFails(e))
              \/ MarkFails \/ Flush \/ Reconnect \/ Tick
       PROVE  UNCHANGED <<row, published>>
  BY <1>10 DEF ListUnsentOutbox, PublishFails, MarkFails, Flush, Reconnect, Tick
<1>11. ASSUME Disconnect
       PROVE  UNCHANGED <<row, published>>
  BY <1>11, Zenon DEF Disconnect
<1>12. CASE UNCHANGED vars
  BY <1>1, <1>12 DEF vars
<1> QED
  BY <1>1, <1>2, <1>4, <1>5, <1>6, <1>7, <1>8, <1>9, <1>10, <1>11, <1>12
  DEF Next, Handler, Drain

(* The outbox keeps the promise of EventDelivery: nothing is handed to NATS  *)
(* before its row is committed, and no committed or handed event is ever     *)
(* forgotten (ADR-007).                                                      *)
THEOREM OutboxKeepsDeliveryPromise == Spec => DeliverySafety
<1>1. Init => Delivery!Init
  BY DEF Init, Delivery!Init, Visible
<1> QED
  BY <1>1, Inductive, StepSimulation, PTL
  DEF Spec, DeliverySafety, Delivery!SafetySpec
=============================================================================
