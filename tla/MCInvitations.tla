---------------------------- MODULE MCInvitations ------------------------------
(* Model checking of Invitations.  Only the safety runs may use the        *)
(* symmetry: users, tokens and requests are interchangeable.               *)
EXTENDS Invitations, TLC

Symmetry == Permutations(User) \cup Permutations(Invitation) \cup Permutations(Request)
=============================================================================
