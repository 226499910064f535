---------------------------- MODULE MCCategories ----------------------------
(***************************************************************************)
(* Instance of Categories for TLC: three categories of one group and one of*)
(* another.                                                                *)
(***************************************************************************)
EXTENDS Categories, TLC

CONSTANTS a, b, c, other

Groups == [x \in Category |-> IF x = other THEN "other" ELSE "group"]

Symmetry == Permutations(Worker) \cup Permutations(Category \ {other})

=============================================================================
