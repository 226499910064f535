------------------------------ MODULE MCLedger ------------------------------
(***************************************************************************)
(* Two accounts that open empty and overflow at 3 cents, movements of one  *)
(* or two cents. Workers, accounts and rows are interchangeable.           *)
(***************************************************************************)
EXTENDS Ledger, FiniteSets, TLC

MCOpenings == {0}

Symmetry == Permutations(Worker) \cup Permutations(Account) \cup Permutations(Row)

(* Bound: movements of two cents, and deleted ones, while no more than two *)
(* rows are used.                                                          *)
Used == {e \in Row : ~Unused(e)}

Versions(e) == ({row[e]} \cup {draft[w][e] : w \in Worker}) \ {NoEntry, Untouched}

FewOrSmall ==
  Cardinality(Used) <= 2 \/ \A e \in Used : \A x \in Versions(e) : x.amount \in {-1, 1} /\ ~x.deleted

=============================================================================
