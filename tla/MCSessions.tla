----------------------------- MODULE MCSessions -----------------------------
(***************************************************************************)
(* Instance of Sessions for TLC: tokens and workers are interchangeable.   *)
(***************************************************************************)
EXTENDS Sessions, TLC

Symmetry == Permutations(Token) \cup Permutations(Worker)

=============================================================================
