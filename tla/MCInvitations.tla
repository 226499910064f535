--------------------------- MODULE MCInvitations ---------------------------
(***************************************************************************)
(* Two users and two requests at a time; who they are does not matter.     *)
(***************************************************************************)
EXTENDS Invitations, TLC

Symmetry == Permutations(User) \cup Permutations(Worker)

=============================================================================
