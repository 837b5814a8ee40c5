--------------------------- MODULE EventDelivery ---------------------------
(***************************************************************************)
(* What module-svc promises about the events it writes to its outbox       *)
(* (ADR-007, src/services/module/internal/outbox/outbox.go:1-10): an event  *)
(* is handed to NATS only once its outbox row is committed, a committed     *)
(* event is never forgotten, and every committed event is handed over in    *)
(* the end, unless the carrier keeps refusing it.  Handing over the same    *)
(* event again is allowed: consumers recognise the repetition by its        *)
(* msg_id.                                                                  *)
(***************************************************************************)
CONSTANT Events

VARIABLES
    recorded,   \* events whose outbox row is committed
    handedOver, \* events given to NATS at least once
    blocked     \* events the carrier refuses, and those waiting for them

dvars == <<recorded, handedOver>>

Init == recorded = {} /\ handedOver = {}

Record(e) ==
    /\ e \in Events \ recorded
    /\ recorded' = recorded \cup {e}
    /\ UNCHANGED handedOver

HandOver(e) ==
    /\ e \in recorded \ handedOver
    /\ handedOver' = handedOver \cup {e}
    /\ UNCHANGED recorded

Next == \E e \in Events : Record(e) \/ HandOver(e)

SafetySpec == Init /\ [][Next]_dvars

Spec == SafetySpec /\ \A e \in Events : WF_dvars(e \notin blocked /\ HandOver(e))
=============================================================================
