------------------------------- MODULE Ledger -------------------------------
(***************************************************************************)
(* Requests that record, amend and delete movements (transactions), as     *)
(* database transactions under READ COMMITTED: one step per statement,     *)
(* with the triggers that bring the other leg of a transfer into line      *)
(* (sync_transfer_pair) and keep the balances (trg_transactions_balance).  *)
(*                                                                         *)
(* row and balance hold what is committed. A request keeps what it has     *)
(* written to itself until it commits, and whatever it has written is      *)
(* locked: an UPDATE by another waits, and then goes by the committed row. *)
(* Plain SELECTs see what is committed and do not wait.                    *)
(***************************************************************************)
EXTENDS LedgerEntries, Sequences

CONSTANTS
  Worker,       (* threads that serve requests, one after another          *)
  Openings,     (* opening balances                                        *)
  Unset,        (* a field the body of a PATCH leaves out                  *)
  Untouched     (* a row or balance a request has not written              *)

(* What the UPDATE of a request sets. *)
Change == [amount : Amount \cup {Unset}, type : Type \cup {Unset},
           delete : BOOLEAN]

NoChange == [amount |-> Unset, type |-> Unset, delete |-> FALSE]

(* Statements and triggers a request still has to go through. *)
Task == [do : {"update", "sync", "apply"}, to : Row]

ASSUME LedgerAssumption ==
  /\ Openings \subseteq Balance
  /\ Unset \notin Amount /\ Unset \notin Type
  /\ Untouched \notin Entry \cup {NoEntry}
  /\ Untouched \notin Balance

VARIABLES
  opening,      (* opening_balance of the accounts                         *)
  row,          (* the table transactions                                  *)
  balance,      (* the column accounts.balance                             *)
  todo,         (* the tasks of each request                               *)
  change,       (* what its UPDATE sets                                    *)
  draft,        (* the rows it has written                                 *)
  funds         (* the balances it has written                             *)

vars == <<opening, row, balance, todo, change, draft, funds>>

NoRowWritten     == [e \in Row |-> Untouched]
NoBalanceWritten == [a \in Account |-> Untouched]

Init ==
  /\ opening \in [Account -> Openings]
  /\ row = [e \in Row |-> NoEntry]
  /\ balance = opening
  /\ todo = [w \in Worker |-> <<>>]
  /\ change = [w \in Worker |-> NoChange]
  /\ draft = [w \in Worker |-> NoRowWritten]
  /\ funds = [w \in Worker |-> NoBalanceWritten]

Wrote(w, e) == draft[w][e] # Untouched

Busy(w) == todo[w] # <<>> \/ \E e \in Row : Wrote(w, e)

(* The row as request w has it after its own writes. *)
Seen(w, e) == IF Wrote(w, e) THEN draft[w][e] ELSE row[e]

Unused(e) == row[e] = NoEntry /\ \A w \in Worker : ~Wrote(w, e)

-----------------------------------------------------------------------------
(* Requests *)

(* Rows inserted by a request are seen by nobody until it commits. *)
Insert(w, rows, tasks) ==
  /\ draft' = [draft EXCEPT ![w] = [e \in Row |-> IF e \in DOMAIN rows
                                                 THEN rows[e] ELSE Untouched]]
  /\ todo' = [todo EXCEPT ![w] = tasks]
  /\ UNCHANGED <<opening, row, balance, change, funds>>

DoUpdate(e) == [do |-> "update", to |-> e]
DoSync(e)   == [do |-> "sync", to |-> e]
DoApply(e)  == [do |-> "apply", to |-> e]

CreateEntry(w) ==
  /\ ~Busy(w)
  /\ \E e \in Row, a \in Account, type \in {"income", "expense"}, m \in Magnitude :
       /\ Unused(e)
       /\ Insert(w, [f \in {e} |-> SingleEntry(a, type, m)], <<DoApply(e)>>)

(* The origin first, then the destination, each followed by its trigger. *)
CreateTransfer(w) ==
  /\ ~Busy(w)
  /\ \E o, d \in Row, a, b \in Account, m \in Magnitude :
       /\ o # d /\ Unused(o) /\ Unused(d)
       /\ a # b
       /\ Insert(w, [f \in {o, d} |-> IF f = o THEN Leg(a, -m, d) ELSE Leg(b, m, o)],
                 <<DoApply(o), DoApply(d)>>)

(* Faulty variant: the trigger that keeps balances stops at depth 1 too. *)
TasksWithoutPairBalance(x, e) ==
  IF x.type = "transfer"
  THEN <<DoUpdate(e), DoSync(x.pair), DoApply(e)>>
  ELSE <<DoUpdate(e), DoApply(e)>>

(* An UPDATE of a leg first brings the other into line, whose balance      *)
(* trigger runs before its own.                                            *)
UpdateTasks(x, e) ==
  IF x.type = "transfer"
  THEN <<DoUpdate(e), DoSync(x.pair), DoApply(x.pair), DoApply(e)>>
  ELSE <<DoUpdate(e), DoApply(e)>>

(* The handler looks at the committed row, without a lock. *)
Begin(w, e, c) ==
  /\ ~Busy(w)
  /\ row[e] # NoEntry /\ ~row[e].deleted
  /\ change' = [change EXCEPT ![w] = c]
  /\ todo' = [todo EXCEPT ![w] = UpdateTasks(row[e], e)]
  /\ UNCHANGED <<opening, row, balance, draft, funds>>

Size(x) == IF x.amount > 0 THEN x.amount ELSE -x.amount

(* The amount to write: a leg keeps its sign, else the type decides. *)
AmountWritten(x, amount, type) ==
  LET m == IF amount = Unset THEN Size(x) ELSE amount
  IN  IF amount = Unset /\ type = Unset THEN Unset
      ELSE IF x.type = "transfer" THEN (IF x.amount > 0 THEN m ELSE -m)
      ELSE Signed(IF type = Unset THEN x.type ELSE type, m)

Patch(w) ==
  \E e \in Row, amount \in Magnitude \cup {Unset},
     type \in {"income", "expense", Unset} :
    /\ row[e] # NoEntry
    /\ row[e].type = "transfer" => type = Unset
    /\ Begin(w, e, [amount |-> AmountWritten(row[e], amount, type),
                    type |-> type, delete |-> FALSE])

Delete(w) ==
  \E e \in Row : Begin(w, e, [NoChange EXCEPT !.delete = TRUE])

-----------------------------------------------------------------------------
(* Statements and triggers *)

Doing(w, what) == todo[w] # <<>> /\ Head(todo[w]).do = what

Target(w) == Head(todo[w]).to

(* Free to be written by w: no other request in progress has written it. *)
RowFree(w, e) == \A v \in Worker \ {w} : ~Wrote(v, e)

(* Faulty variant: the balance is read first and written later. *)
AccountNotLocked(w, a) == TRUE

AccountFree(w, a) == \A v \in Worker \ {w} : funds[v][a] = Untouched

(* Faulty variant: the balances stay locked. *)
RollbackOfRows(w) ==
  /\ todo' = [todo EXCEPT ![w] = <<>>]
  /\ change' = [change EXCEPT ![w] = NoChange]
  /\ draft' = [draft EXCEPT ![w] = NoRowWritten]
  /\ UNCHANGED <<opening, row, balance, funds>>

Rollback(w) ==
  /\ todo' = [todo EXCEPT ![w] = <<>>]
  /\ change' = [change EXCEPT ![w] = NoChange]
  /\ draft' = [draft EXCEPT ![w] = NoRowWritten]
  /\ funds' = [funds EXCEPT ![w] = NoBalanceWritten]
  /\ UNCHANGED <<opening, row, balance>>

(* Faulty variant: the whole row is written, as it was when it was read. *)
WrittenOver(x, c) ==
  [x EXCEPT !.amount = IF c.amount = Unset THEN @ ELSE c.amount,
            !.type = IF c.type = Unset THEN @ ELSE c.type,
            !.deleted = c.delete]

(* Row x after the UPDATE: what the request leaves out stays as it is now. *)
Changed(x, c) ==
  [x EXCEPT !.amount = IF c.amount = Unset THEN @ ELSE c.amount,
            !.type = IF c.type = Unset THEN @ ELSE c.type,
            !.deleted = @ \/ c.delete]

WriteRow(w, e, x) ==
  /\ draft' = [draft EXCEPT ![w][e] = x]
  /\ todo' = [todo EXCEPT ![w] = Tail(@)]
  /\ UNCHANGED <<opening, row, balance, change, funds>>

(* The CHECK on the sign may refuse it: 409 and rollback. *)
Update(w) ==
  /\ Doing(w, "update")
  /\ RowFree(w, Target(w))
  /\ LET x == Changed(row[Target(w)], change[w])
     IN  IF SignAllowed(x) THEN WriteRow(w, Target(w), x) ELSE Rollback(w)

(* sync_transfer_pair *)
Sync(w) ==
  /\ Doing(w, "sync")
  /\ RowFree(w, Target(w))
  /\ LET leg == row[Target(w)]
     IN  WriteRow(w, Target(w), Mirrored(leg, draft[w][leg.pair]))

(* Faulty variant: arithmetic without bounds. *)
FitsAlways(b) == TRUE

Fits(b) == b \in Balance

(* trg_transactions_balance takes back what the old row did to the balance *)
(* and does what the new one does; BIGINT may overflow on the way.         *)
NoEffect(w, e) == (row[e] = NoEntry \/ row[e].deleted) /\ draft[w][e].deleted

Settle(w) ==
  /\ Doing(w, "apply")
  /\ LET e       == Target(w)
         a       == draft[w][e].account
         now     == IF funds[w][a] = Untouched THEN balance[a] ELSE funds[w][a]
         without == now - Effect(row[e])
         new     == without + Effect(draft[w][e])
     IN  IF NoEffect(w, e)
         THEN /\ todo' = [todo EXCEPT ![w] = Tail(@)]
              /\ UNCHANGED <<opening, row, balance, change, draft, funds>>
         ELSE /\ AccountFree(w, a)
              /\ IF Fits(without) /\ Fits(new)
                 THEN /\ funds' = [funds EXCEPT ![w][a] = new]
                      /\ todo' = [todo EXCEPT ![w] = Tail(@)]
                      /\ UNCHANGED <<opening, row, balance, change, draft>>
                 ELSE Rollback(w)

Commit(w) ==
  /\ todo[w] = <<>> /\ Busy(w)
  /\ row' = [e \in Row |-> Seen(w, e)]
  /\ balance' = [a \in Account |-> IF funds[w][a] = Untouched THEN balance[a]
                                                              ELSE funds[w][a]]
  /\ change' = [change EXCEPT ![w] = NoChange]
  /\ draft' = [draft EXCEPT ![w] = NoRowWritten]
  /\ funds' = [funds EXCEPT ![w] = NoBalanceWritten]
  /\ UNCHANGED <<opening, todo>>

(* Any error, at any time. *)
Fail(w) == Busy(w) /\ Rollback(w)

-----------------------------------------------------------------------------
(* Deadlocks: PostgreSQL ends one of the transactions in a cycle. *)

WaitsFor(w, v) ==
  /\ v # w /\ todo[w] # <<>>
  /\ LET e == Target(w)
     IN  IF Head(todo[w]).do = "apply"
         THEN ~NoEffect(w, e) /\ funds[v][draft[w][e].account] # Untouched
         ELSE Wrote(v, e)

(* Each waits for one of them and is waited for by one. *)
Deadlocked(S) ==
  /\ S # {}
  /\ \A w \in S : \E v \in S : WaitsFor(w, v)
  /\ \A w \in S : \E v \in S : WaitsFor(v, w)

Victim(w) == (\E S \in SUBSET Worker : w \in S /\ Deadlocked(S)) /\ Rollback(w)

-----------------------------------------------------------------------------
Request(w) == CreateEntry(w) \/ CreateTransfer(w) \/ Patch(w) \/ Delete(w)

Step(w) == Update(w) \/ Sync(w) \/ Settle(w) \/ Commit(w)

Next == \E w \in Worker : Request(w) \/ Step(w) \/ Fail(w) \/ Victim(w)

Spec == Init /\ [][Next]_vars

(* PostgreSQL queues those who wait for a lock, so that none waits while   *)
(* others take it again and again, and looks for deadlocks.                *)
FairSpec == Spec /\ \A w \in Worker : SF_vars(Step(w)) /\ WF_vars(Victim(w))

-----------------------------------------------------------------------------
(* Properties *)

(* Type invariant. *)
TypeOK ==
  /\ opening \in [Account -> Openings]
  /\ row \in [Row -> Entry \cup {NoEntry}]
  /\ balance \in [Account -> Balance]
  /\ todo \in [Worker -> Seq(Task)]
  /\ change \in [Worker -> Change]
  /\ draft \in [Worker -> [Row -> Entry \cup {Untouched}]]
  /\ funds \in [Worker -> [Account -> Balance \cup {Untouched}]]

(***************************************************************************)
(* The balance of an account is its opening balance and the sum of its     *)
(* movements, whatever requests overlap, wait, fail or deadlock.           *)
(***************************************************************************)
BalanceIsSum ==
  \A a \in Account : balance[a] = opening[a] + Total(row, a)

(***************************************************************************)
(* The two legs of a transfer never come apart: opposite amounts, deleted  *)
(* together, on different accounts, each the other's pair.                 *)
(***************************************************************************)
PairsMirrored ==
  \A e \in Row : row[e] # NoEntry /\ row[e].type = "transfer" =>
    LET p == row[e].pair
    IN  /\ p \in Row \ {e} /\ row[p] # NoEntry
        /\ row[p].type = "transfer" /\ row[p].pair = e
        /\ row[p].account # row[e].account
        /\ row[p].amount = -row[e].amount
        /\ row[p].deleted = row[e].deleted

(***************************************************************************)
(* Only requests about transfers can deadlock: an income or an expense     *)
(* waits, but never in a circle.                                           *)
(***************************************************************************)
OnlyTransfersDeadlock ==
  \A S \in SUBSET Worker : Deadlocked(S) =>
    \A w \in S : \E e \in Row : Wrote(w, e) /\ draft[w][e].type = "transfer"

(***************************************************************************)
(* Every commit moves every balance by exactly what the committed rows of  *)
(* that account, of which there is at most one, have changed.              *)
(***************************************************************************)
EachCommitBalances ==
  [][\A a \in Account :
       LET changed == {e \in Row : row'[e] # row[e] /\ row'[e].account = a}
       IN  IF changed = {} THEN balance'[a] = balance[a]
           ELSE \E e \in changed :
                  /\ changed = {e}
                  /\ balance'[a] = balance[a] + Effect(row'[e]) - Effect(row[e])]_vars

(***************************************************************************)
(* The statements of a request, whatever comes between them, amount to one *)
(* atomic step of the ledger: recorded, amended or deleted with its pair,  *)
(* all balances right, and nothing that was deleted brought back.          *)
(***************************************************************************)
Atomic == INSTANCE AtomicLedger WITH
            Account <- Account, Row <- Row, Magnitude <- Magnitude,
            MaxBalance <- MaxBalance, NoEntry <- NoEntry, NoRow <- NoRow,
            Openings <- Openings, opening <- opening, row <- row, balance <- balance

IsAtomic == Atomic!Spec

(* Every request ends, though others keep coming and deadlock with it. *)
RequestsEnd == \A w \in Worker : Busy(w) ~> ~Busy(w)

=============================================================================
