---------------------------- MODULE MCProjectMembers ---------------------------
(* Model checking of ProjectMembers: requests are interchangeable, and so  *)
(* are the users other than the creator whose accounts share a fate.       *)
EXTENDS ProjectMembers, TLC

Alike == {Deletable \ {Creator}, User \ (Deletable \cup {Creator})}
Symmetry == UNION {Permutations(U) : U \in Alike} \cup Permutations(Request)
=============================================================================
