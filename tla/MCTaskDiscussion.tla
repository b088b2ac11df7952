---------------------------- MODULE MCTaskDiscussion ----------------------------
(* Model checking of TaskDiscussion: one body mentions one user, another   *)
(* the other, the third nobody.                                            *)
EXTENDS TaskDiscussion, TLC

CONSTANTS u1, u2

MCMentions == ("a" :> {u1}) @@ ("b" :> {u2}) @@ ("c" :> {})

Symmetry == UNION {Permutations(S) : S \in {Comment, Attachment, Request}}
=============================================================================
