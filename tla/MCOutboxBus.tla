----------------------------- MODULE MCOutboxBus -----------------------------
(* Model checking of OutboxBus: the transactions, the workers and the      *)
(* consumers are interchangeable; the events are not, their ids are        *)
(* ordered.                                                                *)
EXTENDS OutboxBus, TLC

Symmetry == Permutations(Tx) \cup Permutations(Worker) \cup Permutations(Consumer)
=============================================================================
