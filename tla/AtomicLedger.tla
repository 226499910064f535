---------------------------- MODULE AtomicLedger ----------------------------
(***************************************************************************)
(* What the ledger promises: a movement is recorded, amended or deleted in *)
(* one step, a transfer both legs at once; a deleted one never comes back; *)
(* and the balance of every account is, at any time, its opening balance   *)
(* and the sum of its movements.                                           *)
(***************************************************************************)
EXTENDS LedgerEntries

CONSTANT Openings

VARIABLES opening, row, balance

Init ==
  /\ opening \in [Account -> Openings]
  /\ row = [e \in Row |-> NoEntry]
  /\ balance = opening

(* Balances always follow the rows. *)
Settle ==
  /\ balance' = [a \in Account |-> opening[a] + Total(row', a)]
  /\ UNCHANGED opening

RecordEntry(e) ==
  /\ row[e] = NoEntry
  /\ \E a \in Account, type \in {"income", "expense"}, m \in Magnitude :
       row' = [row EXCEPT ![e] = SingleEntry(a, type, m)]
  /\ Settle

RecordTransfer(o, d) ==
  /\ o # d /\ row[o] = NoEntry /\ row[d] = NoEntry
  /\ \E a, b \in Account, m \in Magnitude :
       /\ a # b
       /\ row' = [row EXCEPT ![o] = Leg(a, -m, d), ![d] = Leg(b, m, o)]
  /\ Settle

(* x takes the place of row e, and the other leg follows. *)
Replace(e, x) ==
  row' = [f \in Row |-> IF f = e THEN x
                        ELSE IF row[e].pair = f THEN Mirrored(row[f], x)
                        ELSE row[f]]

Amend(e) ==
  /\ row[e] # NoEntry
  /\ \E amount \in Amount, type \in Type :
       LET x == [row[e] EXCEPT !.amount = amount, !.type = type]
       IN  /\ SignAllowed(x)
           /\ (type = "transfer") = (row[e].type = "transfer")
           /\ Replace(e, x)
  /\ Settle

Delete(e) ==
  /\ row[e] # NoEntry
  /\ Replace(e, [row[e] EXCEPT !.deleted = TRUE])
  /\ Settle

Next ==
  \/ \E e \in Row : RecordEntry(e) \/ Amend(e) \/ Delete(e)
  \/ \E o, d \in Row : RecordTransfer(o, d)

Spec == Init /\ [][Next]_<<opening, row, balance>>

=============================================================================
