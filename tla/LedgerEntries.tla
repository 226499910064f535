--------------------------- MODULE LedgerEntries ---------------------------
(***************************************************************************)
(* The rows of the table transactions and what they do to balances.        *)
(* A transfer is two rows, one for each account, that know each other      *)
(* (transfer_group_id); a deleted row stays in the table, without effect.  *)
(***************************************************************************)
EXTENDS Integers, Functions

CONSTANTS
  Account,      (* accounts of one group                                   *)
  Row,          (* row ids of transactions                                 *)
  Magnitude,    (* amounts users give, in cents                            *)
  MaxBalance,   (* largest BIGINT                                          *)
  NoEntry,      (* a row id not used yet                                   *)
  NoRow         (* the pair of a row that is not part of a transfer        *)

Type == {"income", "expense", "transfer"}

Amount == Magnitude \cup {-m : m \in Magnitude}

Balance == (-MaxBalance - 1)..MaxBalance

Entry == [account : Account, type : Type, amount : Amount,
          pair : Row \cup {NoRow}, deleted : BOOLEAN]

ASSUME EntriesAssumption ==
  /\ Magnitude \subseteq Nat \ {0}
  /\ MaxBalance \in Nat
  /\ NoEntry \notin Entry
  /\ NoRow \notin Row

(* What a row contributes to the balance of its account. *)
Effect(x) == IF x = NoEntry \/ x.deleted THEN 0 ELSE x.amount

(* The rows of account a in table t, and what they contribute to it. *)
RowsOf(t, a) == {e \in Row : t[e] # NoEntry /\ t[e].account = a}

Total(t, a) == SumFunctionOnSet([e \in Row |-> Effect(t[e])], RowsOf(t, a))

(* The CHECK on the sign of amount: the amount of a transfer is never 0. *)
SignAllowed(x) ==
  /\ x.type = "income" => x.amount > 0
  /\ x.type = "expense" => x.amount < 0

(* The server gives a magnitude its sign. *)
Signed(type, m) == IF type = "income" THEN m ELSE -m

(* New rows: an income or expense, and the leg of a transfer. *)
SingleEntry(a, type, m) ==
  [account |-> a, type |-> type, amount |-> Signed(type, m), pair |-> NoRow,
   deleted |-> FALSE]

Leg(a, amount, other) ==
  [account |-> a, type |-> "transfer", amount |-> amount, pair |-> other,
   deleted |-> FALSE]

(* Faulty variant: the deletion stays with one leg. *)
MirroredAmount(leg, x) == [leg EXCEPT !.amount = -x.amount]

(* A leg brought into line with the other leg x of its transfer. *)
Mirrored(leg, x) == [leg EXCEPT !.amount = -x.amount, !.deleted = x.deleted]

=============================================================================
