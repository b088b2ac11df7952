---------------------------- MODULE EventDelivery ----------------------------
(***************************************************************************)
(* What the event coupling of the services promises, without saying how:   *)
(* an event whose business transaction committed takes effect at the       *)
(* consumer at least once, an event of a transaction that did not commit   *)
(* never does, and a committed event is never withdrawn.                   *)
(* (docs/ARCHITECTURE.md, principles P8 and P9 and section 7.5.)           *)
(***************************************************************************)
EXTENDS Naturals

CONSTANT Event          \* identities of outbox rows

VARIABLES recorded,     \* events whose business transaction has committed
          effects       \* how often the consumer's handler ran for an event

vars == <<recorded, effects>>

Init == /\ recorded = {}
        /\ effects = [e \in Event |-> 0]

(* A business transaction commits and records all its events together. *)
Record(S) == /\ S # {}
             /\ S \cap recorded = {}
             /\ recorded' = recorded \cup S
             /\ UNCHANGED effects

(* The consumer's handler completes for a recorded event, maybe again. *)
Apply(e) == /\ e \in recorded
            /\ effects' = [effects EXCEPT ![e] = @ + 1]
            /\ UNCHANGED recorded

Next == \/ \E S \in SUBSET Event : Record(S)
        \/ \E e \in Event : Apply(e)

Spec == Init /\ [][Next]_vars

(* At least once: a recorded event that had no effect yet is applied. *)
Delivery == \A e \in Event : WF_vars(effects[e] = 0 /\ Apply(e))
=============================================================================
