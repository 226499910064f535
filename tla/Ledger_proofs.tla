---------------------------- MODULE Ledger_proofs ----------------------------
(***************************************************************************)
(* Proofs about Ledger, for any accounts, rows, workers and amounts.       *)
(*                                                                         *)
(* The inductive invariant LInv says where a request can be: what it has   *)
(* written (nothing, one income or expense, one leg, both legs), that no   *)
(* other request has written the same, and that each balance it has        *)
(* written is the committed one moved by its row of that account.          *)
(***************************************************************************)
EXTENDS Ledger, Operators_proofs

-----------------------------------------------------------------------------
(* The inductive invariant *)

(* What a request has written no other one has. *)
LocksHold ==
  \A v, w \in Worker : v # w =>
    /\ \A e \in Row : ~Wrote(v, e) \/ ~Wrote(w, e)
    /\ \A a \in Account : funds[v][a] = Untouched \/ funds[w][a] = Untouched

WroteOnly(w, E) == \A e \in Row : Wrote(w, e) <=> e \in E

(* The balances request w has written are those of rows E, and right. *)
FundsOf(w, E) ==
  \A a \in Account :
    \/ /\ funds[w][a] = Untouched
       /\ \A e \in E : draft[w][e].account = a => NoEffect(w, e)
    \/ \E e \in E :
         /\ draft[w][e].account = a /\ ~NoEffect(w, e)
         /\ funds[w][a] # Untouched
         /\ funds[w][a] = balance[a] - Effect(row[e]) + Effect(draft[w][e])

IsTransfer(x) == x.type = "transfer"

(* Draft row x is new, or takes the place of a row of its account and pair. *)
Succeeds(w, e) ==
  row[e] # NoEntry =>
    /\ row[e].account = draft[w][e].account
    /\ row[e].pair = draft[w][e].pair
    /\ IsTransfer(row[e]) <=> IsTransfer(draft[w][e])

(* Request w has written an income or expense, or both legs of a transfer. *)
HasSingle(w, e) ==
  WroteOnly(w, {e}) /\ ~IsTransfer(draft[w][e]) /\ Succeeds(w, e)

HasPair(w, e, p) ==
  LET x == draft[w][e]
      y == draft[w][p]
  IN  /\ e # p /\ WroteOnly(w, {e, p})
      /\ Succeeds(w, e) /\ Succeeds(w, p)
      /\ row[e] = NoEntry <=> row[p] = NoEntry
      /\ IsTransfer(x) /\ IsTransfer(y)
      /\ x.pair = p /\ y.pair = e
      /\ x.account # y.account
      /\ x.amount = -y.amount /\ x.deleted = y.deleted

(* Where a request can be. *)
Waiting(w) == WroteOnly(w, {}) /\ FundsOf(w, {})

Idle(w) == todo[w] = <<>> /\ Waiting(w)

BeforeSingle(w, e) ==
  /\ todo[w] = <<DoUpdate(e), DoApply(e)>> /\ Waiting(w)
  /\ row[e] # NoEntry /\ ~IsTransfer(row[e]) /\ change[w].type # "transfer"

BeforePair(w, e, p) ==
  /\ todo[w] = <<DoUpdate(e), DoSync(p), DoApply(p), DoApply(e)>> /\ Waiting(w)
  /\ row[e] # NoEntry /\ IsTransfer(row[e]) /\ row[e].pair = p
  /\ change[w].type = Unset

HalfPair(w, e, p) ==
  /\ todo[w] = <<DoSync(p), DoApply(p), DoApply(e)>>
  /\ WroteOnly(w, {e}) /\ FundsOf(w, {})
  /\ row[e] # NoEntry /\ IsTransfer(row[e]) /\ row[e].pair = p
  /\ Succeeds(w, e)

SinglePhase(w, e) ==
  /\ HasSingle(w, e)
  /\ \/ todo[w] = <<DoApply(e)>> /\ FundsOf(w, {})
     \/ todo[w] = <<>> /\ FundsOf(w, {e})

PairPhase(w, e, p) ==
  /\ HasPair(w, e, p)
  /\ \/ todo[w] = <<DoApply(e), DoApply(p)>> /\ FundsOf(w, {})
     \/ todo[w] = <<DoApply(p)>> /\ FundsOf(w, {e})
     \/ todo[w] = <<>> /\ FundsOf(w, {e, p})

Phase(w) ==
  \/ Idle(w)
  \/ \E e \in Row : BeforeSingle(w, e) \/ SinglePhase(w, e)
  \/ \E e, p \in Row : BeforePair(w, e, p) \/ HalfPair(w, e, p) \/ PairPhase(w, e, p)

LInv == TypeOK /\ PairsMirrored /\ LocksHold /\ \A w \in Worker : Phase(w)

USE EntriesAssumption, LedgerAssumption

-----------------------------------------------------------------------------
(* Lemmas about data *)

(* Heads and tails of short sequences. *)
LEMMA Tuples ==
  ASSUME NEW a, NEW b, NEW c, NEW d
  PROVE  /\ <<a>> # <<>> /\ Head(<<a>>) = a /\ Tail(<<a>>) = <<>>
         /\ <<a, b>> # <<>> /\ Head(<<a, b>>) = a /\ Tail(<<a, b>>) = <<b>>
         /\ <<a, b, c>> # <<>> /\ Head(<<a, b, c>>) = a
         /\ Tail(<<a, b, c>>) = <<b, c>>
         /\ <<a, b, c, d>> # <<>> /\ Head(<<a, b, c, d>>) = a
         /\ Tail(<<a, b, c, d>>) = <<b, c, d>>
  OBVIOUS

(* Amounts and balances are integers; amounts can be negated. *)
LEMMA AmountsAreIntegers ==
  /\ Amount \subseteq Int
  /\ \A m \in Magnitude : m \in Amount /\ -m \in Amount
  /\ \A m \in Amount : -m \in Amount /\ m # 0
  /\ Balance \subseteq Int
<1>1. \A m \in Magnitude : m \in Int /\ m > 0
  OBVIOUS
<1>2. ASSUME NEW m \in Amount PROVE m \in Int
  <2>1. CASE m \in Magnitude
    BY <1>1, <2>1
  <2>2. CASE \E k \in Magnitude : m = -k
    BY <1>1, <2>2
  <2> QED
    BY <2>1, <2>2 DEF Amount
<1>5. ASSUME NEW m \in Magnitude PROVE m \in Amount /\ -m \in Amount
  BY DEF Amount
<1>3. ASSUME NEW m \in Amount PROVE -m \in Amount /\ m # 0
  <2>1. CASE m \in Magnitude
    BY <1>1, <2>1 DEF Amount
  <2>2. CASE m \notin Magnitude
    <3>1. PICK k \in Magnitude : m = -k
      BY <2>2 DEF Amount
    <3>2. -m = k
      BY <1>1, <3>1
    <3> QED
      BY <1>1, <3>1, <3>2 DEF Amount
  <2> QED
    BY <2>1, <2>2
<1>4. Balance \subseteq Int
  BY DEF Balance
<1> QED
  BY <1>2, <1>3, <1>4, <1>5

(* What a row does to a balance; a deleted row does nothing. *)
LEMMA EffectIsInteger ==
  /\ \A x \in Entry : Effect(x) \in Int
  /\ Effect(NoEntry) = 0
  /\ \A x \in Entry : x.deleted => Effect(x) = 0
<1>1. ASSUME NEW x \in Entry PROVE x # NoEntry /\ x.amount \in Int /\ x.deleted \in BOOLEAN
  <2>1. x.amount \in Amount /\ x.deleted \in BOOLEAN
    BY DEF Entry
  <2>2. x # NoEntry
    OBVIOUS
  <2> QED
    BY <2>1, <2>2, AmountsAreIntegers
<1>2. Effect(NoEntry) = 0
  BY DEF Effect
<1>3. ASSUME NEW x \in Entry PROVE Effect(x) \in Int /\ (x.deleted => Effect(x) = 0)
  BY <1>1, <1>3 DEF Effect
<1> QED
  BY <1>2, <1>3

(* What create_transaction inserts are rows of the table. *)
LEMMA NewEntries ==
  ASSUME NEW a \in Account, NEW m \in Magnitude, NEW p \in Row
  PROVE  /\ \A type \in {"income", "expense"} :
              /\ SingleEntry(a, type, m) \in Entry
              /\ ~IsTransfer(SingleEntry(a, type, m))
         /\ Leg(a, m, p) \in Entry /\ Leg(a, -m, p) \in Entry
  BY AmountsAreIntegers DEF SingleEntry, Signed, Leg, Entry, Type, IsTransfer

(* What a PATCH writes is an amount. *)
LEMMA WrittenIsAmount ==
  ASSUME NEW x \in Entry, NEW amount \in Magnitude \cup {Unset},
         NEW type \in {"income", "expense", Unset}
  PROVE  AmountWritten(x, amount, type) \in Amount \cup {Unset}
<1>1. Size(x) \in Magnitude
  <2>1. x.amount \in Amount /\ \A m \in Magnitude : m \in Int /\ m > 0
    BY DEF Entry
  <2>2. CASE x.amount \in Magnitude
    BY <2>1, <2>2 DEF Size
  <2>3. CASE x.amount \notin Magnitude
    <3>1. PICK k \in Magnitude : x.amount = -k
      BY <2>1, <2>3 DEF Amount
    <3> QED
      BY <2>1, <3>1 DEF Size
  <2> QED
    BY <2>2, <2>3
<1> DEFINE m == IF amount = Unset THEN Size(x) ELSE amount
<1>2. m \in Amount /\ -m \in Amount
  BY <1>1, AmountsAreIntegers
<1> HIDE DEF m
<1>3. AmountWritten(x, amount, type) =
        IF amount = Unset /\ type = Unset THEN Unset
        ELSE IF x.type = "transfer" THEN (IF x.amount > 0 THEN m ELSE -m)
        ELSE Signed(IF type = Unset THEN x.type ELSE type, m)
  BY DEF AmountWritten, m
<1> QED
  BY <1>2, <1>3 DEF Signed

(* A changed row is a row of the same account and pair. *)
LEMMA ChangedRow ==
  ASSUME NEW x \in Entry, NEW c \in Change
  PROVE  /\ Changed(x, c) \in Entry
         /\ Changed(x, c).account = x.account
         /\ Changed(x, c).pair = x.pair
         /\ IsTransfer(x) /\ c.type = Unset => IsTransfer(Changed(x, c))
         /\ ~IsTransfer(x) /\ c.type # "transfer" => ~IsTransfer(Changed(x, c))
<1>1. /\ x.amount \in Amount /\ x.type \in Type /\ x.deleted \in BOOLEAN
      /\ c.amount \in Amount \cup {Unset} /\ c.type \in Type \cup {Unset}
      /\ c.delete \in BOOLEAN
  BY DEF Entry, Change
<1> QED
  BY <1>1 DEF Changed, Entry, IsTransfer

(* What sync_transfer_pair writes into the other leg. *)
LEMMA MirroredRow ==
  ASSUME NEW x \in Entry, NEW y \in Entry
  PROVE  /\ Mirrored(x, y) \in Entry
         /\ Mirrored(x, y).account = x.account
         /\ Mirrored(x, y).pair = x.pair
         /\ Mirrored(x, y).type = x.type
         /\ Mirrored(x, y).amount = -y.amount
         /\ Mirrored(x, y).deleted = y.deleted
<1>1. -y.amount \in Amount /\ y.deleted \in BOOLEAN
  BY AmountsAreIntegers DEF Entry
<1> QED
  BY <1>1 DEF Mirrored, Entry

-----------------------------------------------------------------------------
(* Lemmas about requests *)

(* A request is where it was when others change rows it has not written,   *)
(* as long as these keep account and pair and remain (or not) a transfer.  *)
LEMMA PhaseStays ==
  ASSUME NEW v \in Worker, Phase(v),
         todo'[v] = todo[v], change'[v] = change[v],
         draft'[v] = draft[v], funds'[v] = funds[v],
         \A e \in Row : row[e] # NoEntry =>
           /\ row'[e] # NoEntry
           /\ row'[e].account = row[e].account
           /\ row'[e].pair = row[e].pair
           /\ IsTransfer(row'[e]) <=> IsTransfer(row[e]),
         \A e \in Row : Wrote(v, e) => row'[e] = row[e],
         \A a \in Account : funds[v][a] # Untouched => balance'[a] = balance[a]
  PROVE  Phase(v)'
<1>1. \A e \in Row : Wrote(v, e)' <=> Wrote(v, e)
  BY DEF Wrote
<1>2. ASSUME NEW E \in SUBSET Row, WroteOnly(v, E) PROVE WroteOnly(v, E)'
  BY <1>1, <1>2 DEF WroteOnly
<1>3. ASSUME NEW E \in SUBSET Row, WroteOnly(v, E), NEW F \in SUBSET E, FundsOf(v, F)
      PROVE  FundsOf(v, F)'
  <2>1. \A e \in F : e \in Row /\ row'[e] = row[e]
    BY <1>3 DEF WroteOnly
  <2>2. \A e \in F : NoEffect(v, e)' <=> NoEffect(v, e)
    BY <2>1 DEF NoEffect
  <2>3. SUFFICES ASSUME NEW a \in Account
                 PROVE  \/ /\ funds[v][a] = Untouched
                           /\ \A e \in F : draft[v][e].account = a => NoEffect(v, e)
                        \/ \E e \in F :
                             /\ draft[v][e].account = a /\ ~NoEffect(v, e)
                             /\ funds[v][a] # Untouched
                             /\ funds[v][a] = balance'[a] - Effect(row'[e])
                                              + Effect(draft[v][e])
    BY <2>2 DEF FundsOf
  <2>4. CASE funds[v][a] = Untouched
    BY <1>3, <2>4 DEF FundsOf
  <2>5. CASE funds[v][a] # Untouched
    <3>1. PICK e \in F : /\ draft[v][e].account = a /\ ~NoEffect(v, e)
                         /\ funds[v][a] = balance[a] - Effect(row[e])
                                          + Effect(draft[v][e])
      BY <1>3, <2>5 DEF FundsOf
    <3>2. balance'[a] = balance[a] /\ row'[e] = row[e]
      BY <2>1, <2>5
    <3> QED
      BY <2>5, <3>1, <3>2
  <2> QED
    BY <2>4, <2>5
<1>4. ASSUME NEW e \in Row, Wrote(v, e), Succeeds(v, e) PROVE Succeeds(v, e)'
  BY <1>4 DEF Succeeds
<1>5. Waiting(v) => Waiting(v)'
  BY <1>2, <1>3 DEF Waiting
<1>6. CASE Idle(v)
  BY <1>5, <1>6 DEF Idle, Phase
<1>7. ASSUME NEW e \in Row, BeforeSingle(v, e) PROVE BeforeSingle(v, e)'
  BY <1>5, <1>7 DEF BeforeSingle
<1>8. ASSUME NEW e \in Row, SinglePhase(v, e) PROVE SinglePhase(v, e)'
  <2>1. WroteOnly(v, {e}) /\ Wrote(v, e) /\ ~IsTransfer(draft[v][e]) /\ Succeeds(v, e)
    BY <1>8 DEF SinglePhase, HasSingle, WroteOnly
  <2>2. HasSingle(v, e)'
    BY <2>1, <1>2, <1>4 DEF HasSingle
  <2>3. FundsOf(v, {}) => FundsOf(v, {})'
    BY <2>1, <1>3
  <2>4. FundsOf(v, {e}) => FundsOf(v, {e})'
    BY <2>1, <1>3
  <2> QED
    BY <2>2, <2>3, <2>4, <1>8 DEF SinglePhase
<1>9. ASSUME NEW e \in Row, NEW p \in Row, BeforePair(v, e, p) PROVE BeforePair(v, e, p)'
  BY <1>5, <1>9 DEF BeforePair
<1>10. ASSUME NEW e \in Row, NEW p \in Row, HalfPair(v, e, p) PROVE HalfPair(v, e, p)'
  <2>1. WroteOnly(v, {e}) /\ Wrote(v, e) /\ FundsOf(v, {}) /\ Succeeds(v, e)
    BY <1>10 DEF HalfPair, WroteOnly
  <2>2. WroteOnly(v, {e})' /\ FundsOf(v, {})' /\ Succeeds(v, e)'
    BY <2>1, <1>2, <1>3, <1>4
  <2> QED
    BY <2>2, <1>10 DEF HalfPair
<1>11. ASSUME NEW e \in Row, NEW p \in Row, PairPhase(v, e, p) PROVE PairPhase(v, e, p)'
  <2>1. HasPair(v, e, p) /\ WroteOnly(v, {e, p})
    BY <1>11 DEF PairPhase, HasPair
  <2>2. Wrote(v, e) /\ Wrote(v, p) /\ Succeeds(v, e) /\ Succeeds(v, p)
    BY <2>1 DEF HasPair, WroteOnly
  <2>3. row'[e] = row[e] /\ row'[p] = row[p]
    BY <2>2
  <2>4. WroteOnly(v, {e, p})' /\ Succeeds(v, e)' /\ Succeeds(v, p)'
    BY <2>1, <2>2, <1>2, <1>4
  <2>5. HasPair(v, e, p)'
    BY <2>1, <2>3, <2>4 DEF HasPair
  <2>6. FundsOf(v, {}) => FundsOf(v, {})'
    BY <2>1, <1>3
  <2>7. FundsOf(v, {e}) => FundsOf(v, {e})'
    BY <2>1, <1>3
  <2>8. FundsOf(v, {e, p}) => FundsOf(v, {e, p})'
    BY <2>1, <1>3
  <2> QED
    BY <2>5, <2>6, <2>7, <2>8, <1>11 DEF PairPhase
<1> QED
  BY <1>6, <1>7, <1>8, <1>9, <1>10, <1>11 DEF Phase

(* A step that commits nothing only matters to the request that takes it. *)
LEMMA LocalStep ==
  ASSUME LInv, NEW w \in Worker,
         row' = row, balance' = balance, TypeOK', Phase(w)',
         \A v \in Worker \ {w} :
           /\ todo'[v] = todo[v] /\ change'[v] = change[v]
           /\ draft'[v] = draft[v] /\ funds'[v] = funds[v],
         \A e \in Row : Wrote(w, e)' => Wrote(w, e) \/ RowFree(w, e),
         \A a \in Account :
           funds'[w][a] # Untouched => funds[w][a] # Untouched \/ AccountFree(w, a)
  PROVE  LInv'
<1>1. PairsMirrored'
  BY DEF LInv, PairsMirrored
<1>2. ASSUME NEW v \in Worker \ {w} PROVE Phase(v)'
  <2>1. Phase(v)
    BY DEF LInv
  <2> QED
    BY <2>1, PhaseStays
<1>3. ASSUME NEW v \in Worker \ {w}
      PROVE  /\ \A e \in Row : ~Wrote(v, e)' \/ ~Wrote(w, e)'
             /\ \A a \in Account : funds'[v][a] = Untouched \/ funds'[w][a] = Untouched
  <2>1. \A e \in Row : Wrote(v, e)' <=> Wrote(v, e)
    BY DEF Wrote
  <2>2. \A e \in Row : ~Wrote(v, e) \/ ~Wrote(w, e)
    BY DEF LInv, LocksHold
  <2>3. \A a \in Account : funds[v][a] = Untouched \/ funds[w][a] = Untouched
    BY DEF LInv, LocksHold
  <2> QED
    BY <2>1, <2>2, <2>3 DEF RowFree, AccountFree
<1>4. ASSUME NEW u \in Worker \ {w}, NEW v \in Worker \ {w}, u # v
      PROVE  /\ \A e \in Row : ~Wrote(u, e)' \/ ~Wrote(v, e)'
             /\ \A a \in Account : funds'[u][a] = Untouched \/ funds'[v][a] = Untouched
  BY <1>4 DEF LInv, LocksHold, Wrote
<1>5. LocksHold'
  BY <1>3, <1>4 DEF LocksHold
<1> QED
  BY <1>1, <1>2, <1>5 DEF LInv

(* A request that is not busy has written nothing and waits for nothing. *)
LEMMA NotBusyIsIdle ==
  ASSUME NEW w \in Worker, Phase(w), ~Busy(w)
  PROVE  Idle(w) /\ \A a \in Account : funds[w][a] = Untouched
<1>1. todo[w] = <<>> /\ \A e \in Row : ~Wrote(w, e)
  BY DEF Busy
<1>2. Idle(w)
  <2>1. ASSUME NEW e \in Row PROVE ~BeforeSingle(w, e) /\ ~SinglePhase(w, e)
    BY <1>1, Tuples DEF BeforeSingle, SinglePhase, HasSingle, WroteOnly
  <2>2. ASSUME NEW e \in Row, NEW p \in Row
        PROVE  ~BeforePair(w, e, p) /\ ~HalfPair(w, e, p) /\ ~PairPhase(w, e, p)
    BY <1>1, Tuples DEF BeforePair, HalfPair, PairPhase, HasPair, WroteOnly
  <2> QED
    BY <2>1, <2>2 DEF Phase
<1> QED
  BY <1>2 DEF Idle, Waiting, FundsOf

(* A rollback leaves the request idle. *)
LEMMA RollbackLInv ==
  ASSUME LInv, NEW w \in Worker, Rollback(w)
  PROVE  LInv'
<1>1. /\ todo'[w] = <<>> /\ draft'[w] = NoRowWritten /\ funds'[w] = NoBalanceWritten
      /\ \A v \in Worker \ {w} :
           /\ todo'[v] = todo[v] /\ change'[v] = change[v]
           /\ draft'[v] = draft[v] /\ funds'[v] = funds[v]
      /\ row' = row /\ balance' = balance
  BY DEF Rollback, LInv, TypeOK
<1>2. TypeOK'
  <2>1. TypeOK
    BY DEF LInv
  <2>2. todo' \in [Worker -> Seq(Task)]
    BY <2>1 DEF TypeOK, Rollback
  <2>3. change' \in [Worker -> Change]
    BY <2>1 DEF TypeOK, Rollback, NoChange, Change
  <2>4. draft' \in [Worker -> [Row -> Entry \cup {Untouched}]]
    BY <2>1 DEF TypeOK, Rollback, NoRowWritten
  <2>5. funds' \in [Worker -> [Account -> Balance \cup {Untouched}]]
    BY <2>1 DEF TypeOK, Rollback, NoBalanceWritten
  <2> QED
    BY <2>1, <2>2, <2>3, <2>4, <2>5 DEF TypeOK, Rollback
<1>3. (\A e \in Row : ~Wrote(w, e)') /\ \A a \in Account : funds'[w][a] = Untouched
  BY <1>1 DEF Wrote, NoRowWritten, NoBalanceWritten
<1>4. Phase(w)'
  BY <1>1, <1>3 DEF Phase, Idle, Waiting, WroteOnly, FundsOf
<1> QED
  BY <1>1, <1>2, <1>3, <1>4, LocalStep

(* An income or expense starts with its row written. *)
LEMMA CreateEntryLInv ==
  ASSUME LInv, NEW w \in Worker, CreateEntry(w)
  PROVE  LInv'
<1>1. PICK e \in Row, a \in Account, type \in {"income", "expense"}, m \in Magnitude :
        /\ Unused(e)
        /\ Insert(w, [f \in {e} |-> SingleEntry(a, type, m)], <<DoApply(e)>>)
  BY DEF CreateEntry
<1> DEFINE x == SingleEntry(a, type, m)
<1>2. Phase(w) /\ ~Busy(w) /\ TypeOK
  BY DEF LInv, CreateEntry
<1>3. x \in Entry /\ ~IsTransfer(x)
  <2>1. \E p \in Row : TRUE
    OBVIOUS
  <2> QED
    BY <2>1, NewEntries
<1> HIDE DEF x
<1>4. /\ todo' = [todo EXCEPT ![w] = <<DoApply(e)>>]
      /\ draft' = [draft EXCEPT ![w] = [f \in Row |-> IF f = e THEN x ELSE Untouched]]
      /\ UNCHANGED <<opening, row, balance, change, funds>>
  BY <1>1 DEF Insert, x
<1>5. /\ todo'[w] = <<DoApply(e)>>
      /\ draft'[w] = [f \in Row |-> IF f = e THEN x ELSE Untouched]
      /\ \A v \in Worker \ {w} : todo'[v] = todo[v] /\ draft'[v] = draft[v]
  BY <1>2, <1>4 DEF TypeOK
<1>6. TypeOK'
  <2>1. DoApply(e) \in Task
    BY DEF DoApply, Task
  <2>2. todo' \in [Worker -> Seq(Task)]
    BY <1>2, <1>4, <2>1 DEF TypeOK
  <2>3. draft' \in [Worker -> [Row -> Entry \cup {Untouched}]]
    BY <1>2, <1>3, <1>4 DEF TypeOK
  <2> QED
    BY <1>2, <1>4, <2>2, <2>3 DEF TypeOK
<1>7. \A f \in Row : Wrote(w, f)' <=> f = e
  BY <1>3, <1>5 DEF Wrote
<1>8. Phase(w)'
  <2>1. HasSingle(w, e)'
    BY <1>1, <1>3, <1>4, <1>5, <1>7 DEF HasSingle, WroteOnly, Succeeds, Unused
  <2>2. FundsOf(w, {})'
    BY <1>2, <1>4, NotBusyIsIdle DEF FundsOf
  <2> QED
    BY <1>5, <2>1, <2>2 DEF Phase, SinglePhase
<1>9. \A f \in Row : Wrote(w, f)' => RowFree(w, f)
  BY <1>1, <1>7 DEF Unused, RowFree
<1> QED
  BY <1>4, <1>5, <1>6, <1>8, <1>9, LocalStep

(* A transfer starts with both legs written. *)
LEMMA CreateTransferLInv ==
  ASSUME LInv, NEW w \in Worker, CreateTransfer(w)
  PROVE  LInv'
<1>1. PICK o \in Row, d \in Row, a \in Account, b \in Account, m \in Magnitude :
        /\ o # d /\ Unused(o) /\ Unused(d)
        /\ a # b
        /\ Insert(w, [f \in {o, d} |-> IF f = o THEN Leg(a, -m, d) ELSE Leg(b, m, o)],
                  <<DoApply(o), DoApply(d)>>)
  BY DEF CreateTransfer
<1> DEFINE x == Leg(a, -m, d)
           y == Leg(b, m, o)
<1>2. Phase(w) /\ ~Busy(w) /\ TypeOK
  BY DEF LInv, CreateTransfer
<1>3. x \in Entry /\ y \in Entry
  BY NewEntries
<1>4. /\ IsTransfer(x) /\ IsTransfer(y)
      /\ x.pair = d /\ y.pair = o
      /\ x.account # y.account
      /\ x.amount = -y.amount /\ x.deleted = y.deleted
  BY <1>1 DEF Leg, IsTransfer
<1> HIDE DEF x, y
<1>5. /\ todo' = [todo EXCEPT ![w] = <<DoApply(o), DoApply(d)>>]
      /\ draft' = [draft EXCEPT ![w] = [f \in Row |->
                     IF f \in {o, d} THEN (IF f = o THEN x ELSE y) ELSE Untouched]]
      /\ UNCHANGED <<opening, row, balance, change, funds>>
  BY <1>1 DEF Insert, x, y
<1>6. /\ todo'[w] = <<DoApply(o), DoApply(d)>>
      /\ draft'[w][o] = x /\ draft'[w][d] = y
      /\ \A f \in Row \ {o, d} : draft'[w][f] = Untouched
      /\ \A v \in Worker \ {w} : todo'[v] = todo[v] /\ draft'[v] = draft[v]
  BY <1>1, <1>2, <1>5 DEF TypeOK
<1>7. TypeOK'
  <2>1. DoApply(o) \in Task /\ DoApply(d) \in Task
    BY DEF DoApply, Task
  <2>2. todo' \in [Worker -> Seq(Task)]
    BY <1>2, <1>5, <2>1 DEF TypeOK
  <2>3. draft' \in [Worker -> [Row -> Entry \cup {Untouched}]]
    BY <1>2, <1>3, <1>5 DEF TypeOK
  <2> QED
    BY <1>2, <1>5, <2>2, <2>3 DEF TypeOK
<1>8. \A f \in Row : Wrote(w, f)' <=> f \in {o, d}
  BY <1>3, <1>6 DEF Wrote
<1>9. Phase(w)'
  <2>1. row'[o] = NoEntry /\ row'[d] = NoEntry
    BY <1>1, <1>5 DEF Unused
  <2>2. HasPair(w, o, d)'
    BY <1>1, <1>4, <1>6, <1>8, <2>1 DEF HasPair, WroteOnly, Succeeds
  <2>3. FundsOf(w, {})'
    BY <1>2, <1>5, NotBusyIsIdle DEF FundsOf
  <2> QED
    BY <1>6, <2>2, <2>3 DEF Phase, PairPhase
<1>10. \A f \in Row : Wrote(w, f)' => RowFree(w, f)
  BY <1>1, <1>8 DEF Unused, RowFree
<1> QED
  BY <1>5, <1>6, <1>7, <1>9, <1>10, LocalStep

(* A change of a row that leaves out the type of a transfer, and makes     *)
(* no transfer of anything else, can begin.                                *)
LEMMA BeginLInv ==
  ASSUME LInv, NEW w \in Worker, NEW e \in Row, NEW c \in Change, Begin(w, e, c),
         IsTransfer(row[e]) => c.type = Unset,
         c.type # "transfer"
  PROVE  LInv'
<1>1. Phase(w) /\ ~Busy(w) /\ TypeOK /\ PairsMirrored /\ row[e] # NoEntry
  BY DEF LInv, Begin
<1>2. row[e] \in Entry
  BY <1>1 DEF TypeOK
<1>3. /\ todo' = [todo EXCEPT ![w] = UpdateTasks(row[e], e)]
      /\ change' = [change EXCEPT ![w] = c]
      /\ UNCHANGED <<opening, row, balance, draft, funds>>
  BY DEF Begin
<1>4. /\ todo'[w] = UpdateTasks(row[e], e) /\ change'[w] = c
      /\ \A v \in Worker \ {w} : todo'[v] = todo[v] /\ change'[v] = change[v]
  BY <1>1, <1>3 DEF TypeOK
<1>5. Waiting(w)'
  BY <1>1, <1>3, NotBusyIsIdle DEF Idle, Waiting, WroteOnly, FundsOf, Wrote
<1>6. UpdateTasks(row[e], e) \in Seq(Task) /\ Phase(w)'
  <2>1. CASE IsTransfer(row[e])
    <3>1. PICK p \in Row : p = row[e].pair
      BY <1>1, <2>1 DEF PairsMirrored, IsTransfer
    <3>2. UpdateTasks(row[e], e) = <<DoUpdate(e), DoSync(p), DoApply(p), DoApply(e)>>
      BY <2>1, <3>1 DEF UpdateTasks, IsTransfer
    <3>3. /\ DoUpdate(e) \in Task /\ DoSync(p) \in Task
          /\ DoApply(p) \in Task /\ DoApply(e) \in Task
      BY <3>1 DEF DoUpdate, DoSync, DoApply, Task
    <3>4. BeforePair(w, e, p)'
      BY <1>1, <1>3, <1>4, <1>5, <2>1, <3>1, <3>2 DEF BeforePair
    <3>5. Phase(w)'
      BY <3>1, <3>4 DEF Phase
    <3> QED
      BY <3>2, <3>3, <3>5
  <2>2. CASE ~IsTransfer(row[e])
    <3>1. UpdateTasks(row[e], e) = <<DoUpdate(e), DoApply(e)>>
      BY <2>2 DEF UpdateTasks, IsTransfer
    <3>2. DoUpdate(e) \in Task /\ DoApply(e) \in Task
      BY DEF DoUpdate, DoApply, Task
    <3>3. BeforeSingle(w, e)'
      BY <1>1, <1>3, <1>4, <1>5, <2>2, <3>1 DEF BeforeSingle
    <3>4. Phase(w)'
      BY <3>3 DEF Phase
    <3> QED
      BY <3>1, <3>2, <3>4
  <2> QED
    BY <2>1, <2>2
<1>7. TypeOK'
  <2>1. todo' \in [Worker -> Seq(Task)]
    BY <1>1, <1>3, <1>6 DEF TypeOK
  <2>2. change' \in [Worker -> Change]
    BY <1>1, <1>3 DEF TypeOK
  <2> QED
    BY <1>1, <1>3, <2>1, <2>2 DEF TypeOK
<1>8. /\ \A f \in Row : Wrote(w, f)' <=> Wrote(w, f)
      /\ \A a \in Account : funds'[w][a] = funds[w][a]
  BY <1>3 DEF Wrote
<1> QED
  BY <1>3, <1>4, <1>6, <1>7, <1>8, LocalStep

(* The PATCH handler only begins changes that keep a transfer a transfer. *)
LEMMA PatchLInv ==
  ASSUME LInv, NEW w \in Worker, Patch(w)
  PROVE  LInv'
<1>1. PICK e \in Row, amount \in Magnitude \cup {Unset},
           type \in {"income", "expense", Unset} :
        /\ row[e] # NoEntry
        /\ row[e].type = "transfer" => type = Unset
        /\ Begin(w, e, [amount |-> AmountWritten(row[e], amount, type),
                        type |-> type, delete |-> FALSE])
  BY DEF Patch
<1> DEFINE c == [amount |-> AmountWritten(row[e], amount, type),
                 type |-> type, delete |-> FALSE]
<1>2. row[e] \in Entry
  BY <1>1 DEF LInv, TypeOK
<1>3. AmountWritten(row[e], amount, type) \in Amount \cup {Unset}
  BY <1>2, WrittenIsAmount
<1>4. c \in Change
  BY <1>3 DEF Change, Type
<1>5. type # "transfer"
  BY DEF Type
<1> QED
  BY <1>1, <1>4, <1>5, BeginLInv DEF IsTransfer

(* The DELETE handler begins a change of deleted_at only. *)
LEMMA DeleteLInv ==
  ASSUME LInv, NEW w \in Worker, Delete(w)
  PROVE  LInv'
<1>1. PICK e \in Row : Begin(w, e, [NoChange EXCEPT !.delete = TRUE])
  BY DEF Delete
<1> DEFINE c == [NoChange EXCEPT !.delete = TRUE]
<1>2. c \in Change /\ c.type = Unset /\ c.type # "transfer"
  BY DEF NoChange, Change, Type
<1> QED
  BY <1>1, <1>2, BeginLInv

(* Which request carries out which kind of task. *)
LEMMA UpdatePhase ==
  ASSUME NEW w \in Worker, Phase(w), Doing(w, "update")
  PROVE  \/ \E e \in Row : BeforeSingle(w, e)
         \/ \E e, p \in Row : BeforePair(w, e, p)
<1>1. todo[w] # <<>> /\ Head(todo[w]).do = "update"
  BY DEF Doing
<1>2. \A e \in Row : DoSync(e).do # "update" /\ DoApply(e).do # "update"
  BY DEF DoSync, DoApply
<1>3. ~Idle(w)
  BY <1>1 DEF Idle
<1>4. ASSUME NEW e \in Row PROVE ~SinglePhase(w, e)
  BY <1>1, <1>2, Tuples DEF SinglePhase
<1>5. ASSUME NEW e \in Row, NEW p \in Row PROVE ~HalfPair(w, e, p) /\ ~PairPhase(w, e, p)
  BY <1>1, <1>2, Tuples DEF HalfPair, PairPhase
<1> QED
  BY <1>3, <1>4, <1>5 DEF Phase

(* Only the trigger of a leg synchronises its pair. *)
LEMMA SyncPhase ==
  ASSUME NEW w \in Worker, Phase(w), Doing(w, "sync")
  PROVE  \E e, p \in Row : HalfPair(w, e, p)
<1>1. todo[w] # <<>> /\ Head(todo[w]).do = "sync"
  BY DEF Doing
<1>2. \A e \in Row : DoUpdate(e).do # "sync" /\ DoApply(e).do # "sync"
  BY DEF DoUpdate, DoApply
<1>3. ~Idle(w)
  BY <1>1 DEF Idle
<1>4. ASSUME NEW e \in Row PROVE ~SinglePhase(w, e) /\ ~BeforeSingle(w, e)
  BY <1>1, <1>2, Tuples DEF SinglePhase, BeforeSingle
<1>5. ASSUME NEW e \in Row, NEW p \in Row PROVE ~BeforePair(w, e, p) /\ ~PairPhase(w, e, p)
  BY <1>1, <1>2, Tuples DEF BeforePair, PairPhase
<1> QED
  BY <1>3, <1>4, <1>5 DEF Phase

(* Balance triggers run for rows written, in the order written. *)
LEMMA ApplyPhase ==
  ASSUME NEW w \in Worker, Phase(w), Doing(w, "apply")
  PROVE  \/ \E e \in Row :
              HasSingle(w, e) /\ todo[w] = <<DoApply(e)>> /\ FundsOf(w, {})
         \/ \E e, p \in Row :
              /\ HasPair(w, e, p)
              /\ \/ todo[w] = <<DoApply(e), DoApply(p)>> /\ FundsOf(w, {})
                 \/ todo[w] = <<DoApply(p)>> /\ FundsOf(w, {e})
<1>1. todo[w] # <<>> /\ Head(todo[w]).do = "apply"
  BY DEF Doing
<1>2. \A e \in Row : DoUpdate(e).do # "apply" /\ DoSync(e).do # "apply"
  BY DEF DoUpdate, DoSync
<1>3. ~Idle(w)
  BY <1>1 DEF Idle
<1>4. ASSUME NEW e \in Row PROVE ~BeforeSingle(w, e)
  BY <1>1, <1>2, Tuples DEF BeforeSingle
<1>5. ASSUME NEW e \in Row, NEW p \in Row PROVE ~BeforePair(w, e, p) /\ ~HalfPair(w, e, p)
  BY <1>1, <1>2, Tuples DEF BeforePair, HalfPair
<1>6. (\E e \in Row : SinglePhase(w, e)) \/ \E e, p \in Row : PairPhase(w, e, p)
  BY <1>3, <1>4, <1>5 DEF Phase
<1> QED
  BY <1>1, <1>6 DEF SinglePhase, PairPhase

(* Writing a free row leaves other requests alone. *)
LEMMA WriteRowLInv ==
  ASSUME LInv, NEW w \in Worker, NEW e \in Row, NEW x \in Entry,
         todo[w] # <<>>, RowFree(w, e), WriteRow(w, e, x), Phase(w)'
  PROVE  LInv'
<1>1. TypeOK
  BY DEF LInv
<1>2. /\ draft' = [draft EXCEPT ![w][e] = x]
      /\ todo' = [todo EXCEPT ![w] = Tail(@)]
      /\ UNCHANGED <<opening, row, balance, change, funds>>
  BY DEF WriteRow
<1>3. /\ \A v \in Worker \ {w} : todo'[v] = todo[v] /\ draft'[v] = draft[v]
      /\ \A f \in Row \ {e} : draft'[w][f] = draft[w][f]
  BY <1>1, <1>2 DEF TypeOK
<1>4. TypeOK'
  <2>1. todo' \in [Worker -> Seq(Task)]
    BY <1>1, <1>2 DEF TypeOK
  <2>2. draft' \in [Worker -> [Row -> Entry \cup {Untouched}]]
    BY <1>1, <1>2 DEF TypeOK
  <2> QED
    BY <1>1, <1>2, <2>1, <2>2 DEF TypeOK
<1>5. \A f \in Row : Wrote(w, f)' => Wrote(w, f) \/ RowFree(w, f)
  BY <1>3 DEF Wrote
<1> QED
  BY <1>2, <1>3, <1>4, <1>5, LocalStep

(* The UPDATE of a request: the row, or the first leg, is written. *)
LEMMA UpdateLInv ==
  ASSUME LInv, NEW w \in Worker, Update(w)
  PROVE  LInv'
<1>1. Phase(w) /\ TypeOK /\ Doing(w, "update") /\ RowFree(w, Target(w)) /\ todo[w] # <<>>
  BY DEF LInv, Update, Doing
<1> DEFINE x == Changed(row[Target(w)], change[w])
<1>2. CASE Rollback(w)
  BY <1>2, RollbackLInv
<1>3. CASE WriteRow(w, Target(w), x)
  <2>1. UNCHANGED <<opening, row, balance, change, funds>>
    BY <1>3 DEF WriteRow
  <2>2. ASSUME NEW e \in Row, Target(w) = e, row[e] # NoEntry, Waiting(w)
        PROVE  /\ x = Changed(row[e], change[w]) /\ x \in Entry
               /\ x.account = row[e].account /\ x.pair = row[e].pair
               /\ todo'[w] = Tail(todo[w])
               /\ draft'[w][e] = x /\ WroteOnly(w, {e})' /\ FundsOf(w, {})'
    <3>1. row[e] \in Entry /\ change[w] \in Change
      BY <1>1, <2>2 DEF TypeOK
    <3>2. /\ x = Changed(row[e], change[w]) /\ x \in Entry
          /\ x.account = row[e].account /\ x.pair = row[e].pair
      BY <2>2, <3>1, ChangedRow
    <3> HIDE DEF x
    <3>3. /\ todo'[w] = Tail(todo[w]) /\ draft'[w][e] = x
          /\ \A f \in Row \ {e} : draft'[w][f] = draft[w][f]
      BY <1>1, <1>3, <2>2 DEF WriteRow, TypeOK
    <3>4. WroteOnly(w, {e})'
      BY <2>2, <3>2, <3>3 DEF Waiting, WroteOnly, Wrote
    <3>5. FundsOf(w, {})'
      BY <2>1, <2>2 DEF Waiting, FundsOf
    <3> QED
      BY <3>2, <3>3, <3>4, <3>5
  <2>3. CASE \E e \in Row : BeforeSingle(w, e)
    <3>1. PICK e \in Row : BeforeSingle(w, e)
      BY <2>3
    <3>2. /\ todo[w] = <<DoUpdate(e), DoApply(e)>> /\ Waiting(w)
          /\ row[e] # NoEntry /\ ~IsTransfer(row[e]) /\ change[w].type # "transfer"
      BY <3>1 DEF BeforeSingle
    <3>3. Target(w) = e /\ Tail(todo[w]) = <<DoApply(e)>>
      BY <3>2, Tuples DEF Target, DoUpdate
    <3>4. /\ x \in Entry /\ x.account = row[e].account /\ x.pair = row[e].pair
          /\ x = Changed(row[e], change[w])
          /\ todo'[w] = <<DoApply(e)>> /\ draft'[w][e] = x
          /\ WroteOnly(w, {e})' /\ FundsOf(w, {})'
      BY <2>2, <3>2, <3>3
    <3>5. row[e] \in Entry /\ change[w] \in Change
      BY <1>1, <3>2 DEF TypeOK
    <3>6. ~IsTransfer(x)
      BY <3>2, <3>4, <3>5, ChangedRow
    <3> HIDE DEF x
    <3>7. HasSingle(w, e)'
      BY <2>1, <3>2, <3>4, <3>6 DEF HasSingle, Succeeds
    <3>8. Phase(w)'
      BY <3>4, <3>7 DEF Phase, SinglePhase
    <3> QED
      BY <1>1, <1>3, <3>3, <3>4, <3>8, WriteRowLInv
  <2>4. CASE \E e, p \in Row : BeforePair(w, e, p)
    <3>1. PICK e \in Row, p \in Row : BeforePair(w, e, p)
      BY <2>4
    <3>2. /\ todo[w] = <<DoUpdate(e), DoSync(p), DoApply(p), DoApply(e)>>
          /\ Waiting(w) /\ row[e] # NoEntry /\ IsTransfer(row[e]) /\ row[e].pair = p
          /\ change[w].type = Unset
      BY <3>1 DEF BeforePair
    <3>3. Target(w) = e /\ Tail(todo[w]) = <<DoSync(p), DoApply(p), DoApply(e)>>
      BY <3>2, Tuples DEF Target, DoUpdate
    <3>4. /\ x \in Entry /\ x.account = row[e].account /\ x.pair = row[e].pair
          /\ x = Changed(row[e], change[w])
          /\ todo'[w] = <<DoSync(p), DoApply(p), DoApply(e)>> /\ draft'[w][e] = x
          /\ WroteOnly(w, {e})' /\ FundsOf(w, {})'
      BY <2>2, <3>2, <3>3
    <3>5. row[e] \in Entry /\ change[w] \in Change
      BY <1>1, <3>2 DEF TypeOK
    <3>6. IsTransfer(x)
      BY <3>2, <3>4, <3>5, ChangedRow
    <3> HIDE DEF x
    <3>7. HalfPair(w, e, p)'
      BY <2>1, <3>2, <3>4, <3>6 DEF HalfPair, Succeeds
    <3>8. Phase(w)'
      BY <3>7 DEF Phase
    <3> QED
      BY <1>1, <1>3, <3>3, <3>4, <3>8, WriteRowLInv
  <2> QED
    BY <1>1, <2>3, <2>4, UpdatePhase
<1> QED
  BY <1>2, <1>3 DEF Update

(* sync_transfer_pair completes the pair. *)
LEMMA SyncLInv ==
  ASSUME LInv, NEW w \in Worker, Sync(w)
  PROVE  LInv'
<1>1. /\ Phase(w) /\ TypeOK /\ PairsMirrored
      /\ Doing(w, "sync") /\ RowFree(w, Target(w)) /\ todo[w] # <<>>
  BY DEF LInv, Sync, Doing
<1>2. PICK e \in Row, p \in Row : HalfPair(w, e, p)
  BY <1>1, SyncPhase
<1>3. /\ todo[w] = <<DoSync(p), DoApply(p), DoApply(e)>>
      /\ WroteOnly(w, {e}) /\ FundsOf(w, {}) /\ Succeeds(w, e)
      /\ row[e] # NoEntry /\ IsTransfer(row[e]) /\ row[e].pair = p
  BY <1>2 DEF HalfPair
<1>4. Target(w) = p /\ Tail(todo[w]) = <<DoApply(p), DoApply(e)>>
  BY <1>3, Tuples DEF Target, DoSync
<1>5. /\ p # e /\ row[p] # NoEntry /\ IsTransfer(row[p]) /\ row[p].pair = e
      /\ row[p].account # row[e].account
  BY <1>1, <1>3 DEF PairsMirrored, IsTransfer
<1>6. row[e] \in Entry /\ row[p] \in Entry /\ draft[w][e] \in Entry
  BY <1>1, <1>3, <1>5 DEF TypeOK, WroteOnly, Wrote
<1> DEFINE x == Mirrored(row[p], draft[w][e])
<1>7. /\ x \in Entry /\ x.account = row[p].account /\ x.pair = e
      /\ IsTransfer(x) /\ x.amount = -draft[w][e].amount
      /\ x.deleted = draft[w][e].deleted
  BY <1>5, <1>6, MirroredRow, SMTT(20) DEF IsTransfer
<1>8. WriteRow(w, p, x)
  BY <1>4, <1>5 DEF Sync
<1> HIDE DEF x
<1>9. /\ todo'[w] = <<DoApply(p), DoApply(e)>> /\ draft'[w][p] = x
      /\ \A f \in Row \ {p} : draft'[w][f] = draft[w][f]
      /\ UNCHANGED <<opening, row, balance, change, funds>>
  BY <1>1, <1>4, <1>8 DEF WriteRow, TypeOK
<1>10. draft'[w][e] = draft[w][e]
  BY <1>5, <1>9
<1>11. WroteOnly(w, {p, e})'
  BY <1>3, <1>5, <1>7, <1>9 DEF WroteOnly, Wrote
<1>12. Succeeds(w, e)' /\ Succeeds(w, p)'
  BY <1>3, <1>5, <1>7, <1>9, <1>10 DEF Succeeds
<1>13. /\ IsTransfer(draft[w][e]) /\ draft[w][e].pair = p
       /\ draft[w][e].account = row[e].account
  BY <1>3 DEF Succeeds
<1>14. HasPair(w, p, e)'
  BY <1>3, <1>5, <1>7, <1>9, <1>10, <1>11, <1>12, <1>13 DEF HasPair
<1>15. FundsOf(w, {})'
  BY <1>3, <1>9 DEF FundsOf
<1>16. Phase(w)'
  BY <1>9, <1>14, <1>15 DEF Phase, PairPhase
<1> QED
  BY <1>1, <1>4, <1>7, <1>8, <1>16, WriteRowLInv

(* A row's trigger writes the balance of its account, not written before,  *)
(* if the row has an effect on it, and nothing else.                       *)
LEMMA SettleStep ==
  ASSUME LInv, NEW w \in Worker, Settle(w), ~Rollback(w),
         NEW e \in Row, Target(w) = e, Wrote(w, e),
         funds[w][draft[w][e].account] = Untouched
  PROVE  /\ row' = row /\ draft' = draft /\ balance' = balance
         /\ todo'[w] = Tail(todo[w])
         /\ \A b \in Account :
              \/ b # draft[w][e].account /\ funds'[w][b] = funds[w][b]
              \/ /\ b = draft[w][e].account
                 /\ NoEffect(w, e) /\ funds'[w][b] = Untouched
              \/ /\ b = draft[w][e].account
                 /\ ~NoEffect(w, e) /\ funds'[w][b] # Untouched
                 /\ funds'[w][b] = (balance[b] - Effect(row[e])) + Effect(draft[w][e])
         /\ Phase(w)' => LInv'
<1> DEFINE a == draft[w][e].account
           new == (balance[a] - Effect(row[e])) + Effect(draft[w][e])
<1>1. TypeOK /\ draft[w][e] \in Entry /\ a \in Account
  <2>1. TypeOK /\ draft[w][e] \in Entry
    BY DEF LInv, TypeOK, Wrote
  <2> QED
    BY <2>1 DEF Entry
<1>2. /\ todo' = [todo EXCEPT ![w] = Tail(@)]
      /\ UNCHANGED <<opening, row, balance, change, draft>>
      /\ \/ NoEffect(w, e) /\ funds' = funds
         \/ /\ ~NoEffect(w, e) /\ AccountFree(w, a) /\ new \in Balance
            /\ funds' = [funds EXCEPT ![w][a] = new]
  BY DEF Settle, Fits
<1> HIDE DEF new
<1>3. /\ \A v \in Worker \ {w} : todo'[v] = todo[v] /\ funds'[v] = funds[v]
      /\ todo'[w] = Tail(todo[w])
      /\ \A b \in Account \ {a} : funds'[w][b] = funds[w][b]
  BY <1>1, <1>2 DEF TypeOK
<1>4. \/ NoEffect(w, e) /\ funds'[w][a] = Untouched
      \/ /\ ~NoEffect(w, e) /\ AccountFree(w, a)
         /\ funds'[w][a] # Untouched /\ funds'[w][a] = new
  BY <1>1, <1>2 DEF TypeOK
<1>5. ASSUME Phase(w)' PROVE LInv'
  <2>1. todo[w] # <<>>
    BY DEF Settle, Doing
  <2>2. todo' \in [Worker -> Seq(Task)]
    BY <1>1, <1>2, <2>1 DEF TypeOK
  <2>3. funds' \in [Worker -> [Account -> Balance \cup {Untouched}]]
    <3>1. CASE funds' = funds
      BY <1>1, <3>1 DEF TypeOK
    <3>2. CASE new \in Balance /\ funds' = [funds EXCEPT ![w][a] = new]
      BY <1>1, <3>2 DEF TypeOK
    <3> QED
      BY <1>2, <3>1, <3>2
  <2>4. TypeOK'
    BY <1>1, <1>2, <2>2, <2>3 DEF TypeOK
  <2>5. \A f \in Row : Wrote(w, f)' <=> Wrote(w, f)
    BY <1>2 DEF Wrote
  <2>6. \A b \in Account :
          funds'[w][b] # Untouched => funds[w][b] # Untouched \/ AccountFree(w, b)
    BY <1>3, <1>4
  <2> QED
    BY <1>2, <1>3, <1>5, <2>4, <2>5, <2>6, LocalStep
<1>6. ASSUME NEW b \in Account
      PROVE  \/ b # a /\ funds'[w][b] = funds[w][b]
             \/ b = a /\ NoEffect(w, e) /\ funds'[w][b] = Untouched
             \/ /\ b = a /\ ~NoEffect(w, e) /\ funds'[w][b] # Untouched
                /\ funds'[w][b] = (balance[b] - Effect(row[e])) + Effect(draft[w][e])
  BY <1>3, <1>4 DEF new
<1> QED
  BY <1>2, <1>3, <1>5, <1>6

(* So the balances written are those of one row more. *)
LEMMA SettleFunds ==
  ASSUME NEW w \in Worker, NEW e \in Row, NEW E \in SUBSET Row, FundsOf(w, E),
         row' = row, draft' = draft, balance' = balance,
         \A f \in E : draft[w][f].account # draft[w][e].account,
         \A b \in Account :
           \/ b # draft[w][e].account /\ funds'[w][b] = funds[w][b]
           \/ /\ b = draft[w][e].account
              /\ NoEffect(w, e) /\ funds'[w][b] = Untouched
           \/ /\ b = draft[w][e].account
              /\ ~NoEffect(w, e) /\ funds'[w][b] # Untouched
              /\ funds'[w][b] = (balance[b] - Effect(row[e])) + Effect(draft[w][e]),
         NEW G, G = E \cup {e}
  PROVE  FundsOf(w, G)'
<1>1. \A f \in Row : NoEffect(w, f)' <=> NoEffect(w, f)
  BY DEF NoEffect
<1>2. SUFFICES ASSUME NEW b \in Account
               PROVE  \/ /\ funds'[w][b] = Untouched
                         /\ \A f \in G : draft[w][f].account = b => NoEffect(w, f)
                      \/ \E f \in G :
                           /\ draft[w][f].account = b /\ ~NoEffect(w, f)
                           /\ funds'[w][b] # Untouched
                           /\ funds'[w][b] = balance[b] - Effect(row[f])
                                             + Effect(draft[w][f])
  BY <1>1 DEF FundsOf
<1>3. CASE b = draft[w][e].account
  BY <1>3
<1>4. CASE b # draft[w][e].account
  <2>1. funds'[w][b] = funds[w][b]
    BY <1>4
  <2>2. CASE funds[w][b] = Untouched
    <3>1. \A f \in E : draft[w][f].account = b => NoEffect(w, f)
      BY <2>2 DEF FundsOf
    <3> QED
      BY <1>4, <2>1, <2>2, <3>1
  <2>3. CASE funds[w][b] # Untouched
    <3>1. \E f \in E : /\ draft[w][f].account = b /\ ~NoEffect(w, f)
                       /\ funds[w][b] = balance[b] - Effect(row[f])
                                        + Effect(draft[w][f])
      BY <2>3 DEF FundsOf
    <3> QED
      BY <2>1, <2>3, <3>1
  <2> QED
    BY <2>2, <2>3
<1> QED
  BY <1>3, <1>4

(* The balance triggers, one row after the other. *)
LEMMA SettleLInv ==
  ASSUME LInv, NEW w \in Worker, Settle(w)
  PROVE  LInv'
<1>1. Phase(w) /\ Doing(w, "apply") /\ TypeOK
  BY DEF LInv, Settle
<1>2. CASE Rollback(w)
  BY <1>2, RollbackLInv
<1>3. SUFFICES ASSUME ~Rollback(w) PROVE LInv'
  BY <1>2
<1>4. ASSUME NEW e \in Row, Target(w) = e, Wrote(w, e),
             NEW E \in SUBSET Row, NEW G, G = E \cup {e}, FundsOf(w, E),
             \A f \in E : draft[w][f].account # draft[w][e].account
      PROVE  /\ row' = row /\ draft' = draft /\ todo'[w] = Tail(todo[w])
             /\ FundsOf(w, G)'
             /\ Phase(w)' => LInv'
  <2> DEFINE a == draft[w][e].account
  <2>1. a \in Account
    BY <1>1, <1>4 DEF TypeOK, Wrote, Entry
  <2>2. funds[w][a] = Untouched
    BY <1>4, <2>1 DEF FundsOf
  <2>3. /\ row' = row /\ draft' = draft /\ balance' = balance
        /\ todo'[w] = Tail(todo[w])
        /\ \A b \in Account :
             \/ b # draft[w][e].account /\ funds'[w][b] = funds[w][b]
             \/ /\ b = draft[w][e].account
                /\ NoEffect(w, e) /\ funds'[w][b] = Untouched
             \/ /\ b = draft[w][e].account
                /\ ~NoEffect(w, e) /\ funds'[w][b] # Untouched
                /\ funds'[w][b] = (balance[b] - Effect(row[e])) + Effect(draft[w][e])
        /\ Phase(w)' => LInv'
    BY <1>3, <1>4, <2>2, SettleStep
  <2>4. FundsOf(w, G)'
    BY <1>4, <2>3, SettleFunds
  <2> QED
    BY <2>3, <2>4
<1>5. CASE \E e \in Row :
             HasSingle(w, e) /\ todo[w] = <<DoApply(e)>> /\ FundsOf(w, {})
  <2>1. PICK e \in Row :
          HasSingle(w, e) /\ todo[w] = <<DoApply(e)>> /\ FundsOf(w, {})
    BY <1>5
  <2>2. Target(w) = e /\ Tail(todo[w]) = <<>> /\ Wrote(w, e)
    BY <2>1, Tuples DEF Target, DoApply, HasSingle, WroteOnly
  <2>3. {} \in SUBSET Row /\ {e} = {} \cup {e}
    OBVIOUS
  <2>4. /\ row' = row /\ draft' = draft /\ todo'[w] = Tail(todo[w])
        /\ FundsOf(w, {e})'
        /\ Phase(w)' => LInv'
    BY <1>4, <2>1, <2>2, <2>3
  <2>5. HasSingle(w, e)'
    BY <2>1, <2>4 DEF HasSingle, WroteOnly, Wrote, Succeeds
  <2> QED
    BY <2>2, <2>4, <2>5 DEF Phase, SinglePhase
<1>6. CASE \E e, p \in Row :
             /\ HasPair(w, e, p)
             /\ \/ todo[w] = <<DoApply(e), DoApply(p)>> /\ FundsOf(w, {})
                \/ todo[w] = <<DoApply(p)>> /\ FundsOf(w, {e})
  <2>1. PICK e \in Row, p \in Row :
             /\ HasPair(w, e, p)
             /\ \/ todo[w] = <<DoApply(e), DoApply(p)>> /\ FundsOf(w, {})
                \/ todo[w] = <<DoApply(p)>> /\ FundsOf(w, {e})
    BY <1>6
  <2>2. /\ Wrote(w, e) /\ Wrote(w, p)
        /\ draft[w][e].account # draft[w][p].account
    BY <2>1 DEF HasPair, WroteOnly
  <2>3. row' = row /\ draft' = draft => HasPair(w, e, p)'
    BY <2>1 DEF HasPair, WroteOnly, Wrote, Succeeds
  <2>4. CASE todo[w] = <<DoApply(e), DoApply(p)>> /\ FundsOf(w, {})
    <3>1. Target(w) = e /\ Tail(todo[w]) = <<DoApply(p)>>
      BY <2>4, Tuples DEF Target, DoApply
    <3>2. {} \in SUBSET Row /\ {e} = {} \cup {e}
      OBVIOUS
    <3>3. /\ row' = row /\ draft' = draft /\ todo'[w] = Tail(todo[w])
          /\ FundsOf(w, {e})'
          /\ Phase(w)' => LInv'
      BY <1>4, <2>2, <2>4, <3>1, <3>2
    <3>4. PairPhase(w, e, p)'
      BY <2>3, <3>1, <3>3 DEF PairPhase
    <3> QED
      BY <3>3, <3>4 DEF Phase
  <2>5. CASE todo[w] = <<DoApply(p)>> /\ FundsOf(w, {e})
    <3>1. Target(w) = p /\ Tail(todo[w]) = <<>>
      BY <2>5, Tuples DEF Target, DoApply
    <3>2. /\ {e} \in SUBSET Row /\ {e, p} = {e} \cup {p}
          /\ \A f \in {e} : draft[w][f].account # draft[w][p].account
      BY <2>2
    <3>3. /\ row' = row /\ draft' = draft /\ todo'[w] = Tail(todo[w])
          /\ FundsOf(w, {e, p})'
          /\ Phase(w)' => LInv'
      BY <1>4, <2>2, <2>5, <3>1, <3>2
    <3>4. PairPhase(w, e, p)'
      BY <2>3, <3>1, <3>3 DEF PairPhase
    <3> QED
      BY <3>3, <3>4 DEF Phase
  <2> QED
    BY <2>1, <2>4, <2>5
<1> QED
  BY <1>1, <1>5, <1>6, ApplyPhase

(* What a request commits: one income or expense, or both legs, and        *)
(* exactly the balances that go with them.                                 *)
LEMMA CommitPhase ==
  ASSUME NEW w \in Worker, Phase(w), todo[w] = <<>>, Busy(w)
  PROVE  \/ \E e \in Row : HasSingle(w, e) /\ FundsOf(w, {e})
         \/ \E e, p \in Row : HasPair(w, e, p) /\ FundsOf(w, {e, p})
<1>1. ~Idle(w)
  BY DEF Busy, Idle, Waiting, WroteOnly
<1>2. ASSUME NEW e \in Row PROVE ~BeforeSingle(w, e)
  BY Tuples DEF BeforeSingle
<1>3. ASSUME NEW e \in Row, NEW p \in Row PROVE ~BeforePair(w, e, p) /\ ~HalfPair(w, e, p)
  BY Tuples DEF BeforePair, HalfPair
<1>4. (\E e \in Row : SinglePhase(w, e)) \/ \E e, p \in Row : PairPhase(w, e, p)
  BY <1>1, <1>2, <1>3 DEF Phase
<1>5. ASSUME NEW e \in Row, SinglePhase(w, e) PROVE HasSingle(w, e) /\ FundsOf(w, {e})
  BY <1>5, Tuples DEF SinglePhase
<1>6. ASSUME NEW e \in Row, NEW p \in Row, PairPhase(w, e, p)
      PROVE  HasPair(w, e, p) /\ FundsOf(w, {e, p})
  BY <1>6, Tuples DEF PairPhase
<1> QED
  BY <1>4, <1>5, <1>6

(* Rows written keep the account and the pair of those they replace.       *)
LEMMA WrittenSucceeds ==
  ASSUME TypeOK, NEW w \in Worker, Phase(w), todo[w] = <<>>, Busy(w),
         NEW e \in Row, Wrote(w, e)
  PROVE  draft[w][e] \in Entry /\ Succeeds(w, e)
<1>1. draft[w][e] \in Entry
  BY DEF TypeOK, Wrote
<1>2. ASSUME NEW f \in Row, HasSingle(w, f) PROVE Succeeds(w, e)
  BY <1>2 DEF HasSingle, WroteOnly
<1>3. ASSUME NEW f \in Row, NEW p \in Row, HasPair(w, f, p) PROVE Succeeds(w, e)
  BY <1>3 DEF HasPair, WroteOnly
<1> QED
  BY <1>1, <1>2, <1>3, CommitPhase

(* The legs of a transfer are committed together.                          *)
LEMMA CommitMirrors ==
  ASSUME TypeOK, PairsMirrored, NEW w \in Worker, Phase(w), todo[w] = <<>>, Busy(w),
         row' = [e \in Row |-> Seen(w, e)]
  PROVE  PairsMirrored'
<1>1. \A e \in Row : /\ Wrote(w, e) => row'[e] = draft[w][e]
                     /\ ~Wrote(w, e) => row'[e] = row[e]
  BY DEF Seen
<1>2. SUFFICES ASSUME NEW g \in Row, row'[g] # NoEntry, IsTransfer(row'[g])
               PROVE  LET q == row'[g].pair
                      IN  /\ q \in Row \ {g} /\ row'[q] # NoEntry
                          /\ IsTransfer(row'[q]) /\ row'[q].pair = g
                          /\ row'[q].account # row'[g].account
                          /\ row'[q].amount = -row'[g].amount
                          /\ row'[q].deleted = row'[g].deleted
  BY DEF PairsMirrored, IsTransfer
<1> DEFINE q == row[g].pair
<1>3. ASSUME ~Wrote(w, g)
      PROVE  /\ row'[g] = row[g] /\ row[g] # NoEntry /\ IsTransfer(row[g])
             /\ q \in Row \ {g} /\ row[q] # NoEntry
             /\ IsTransfer(row[q]) /\ row[q].pair = g
             /\ row[q].account # row[g].account
             /\ row[q].amount = -row[g].amount
             /\ row[q].deleted = row[g].deleted
  BY <1>1, <1>2, <1>3 DEF PairsMirrored, IsTransfer
<1>4. ASSUME ~Wrote(w, g), ~Wrote(w, q) PROVE row'[q] = row[q] /\ row'[g] = row[g]
  BY <1>1, <1>3, <1>4
<1>5. CASE \E e \in Row : HasSingle(w, e)
  <2>1. PICK e \in Row : HasSingle(w, e)
    BY <1>5
  <2>2. WroteOnly(w, {e}) /\ ~IsTransfer(draft[w][e]) /\ Succeeds(w, e)
    BY <2>1 DEF HasSingle
  <2>3. ~Wrote(w, g)
    BY <1>1, <1>2, <2>2 DEF WroteOnly
  <2>4. q # e
    BY <1>3, <2>2, <2>3 DEF Succeeds
  <2>5. ~Wrote(w, q)
    BY <1>3, <2>2, <2>3, <2>4 DEF WroteOnly
  <2> QED
    BY <1>3, <1>4, <2>3, <2>5
<1>6. CASE \E e, p \in Row : HasPair(w, e, p)
  <2>1. PICK e \in Row, p \in Row : HasPair(w, e, p)
    BY <1>6
  <2>2. /\ e # p /\ WroteOnly(w, {e, p}) /\ Succeeds(w, e) /\ Succeeds(w, p)
        /\ IsTransfer(draft[w][e]) /\ IsTransfer(draft[w][p])
        /\ draft[w][e].pair = p /\ draft[w][p].pair = e
        /\ draft[w][e].account # draft[w][p].account
        /\ draft[w][e].amount = -draft[w][p].amount
        /\ draft[w][e].deleted = draft[w][p].deleted
    BY <2>1 DEF HasPair
  <2>3. /\ Wrote(w, e) /\ Wrote(w, p)
        /\ row'[e] = draft[w][e] /\ row'[p] = draft[w][p]
    BY <1>1, <2>2 DEF WroteOnly
  <2>4. draft[w][e] \in Entry /\ draft[w][p] \in Entry
    BY <2>3 DEF TypeOK, Wrote
  <2>5. draft[w][p].amount = -draft[w][e].amount
    <3>1. draft[w][p].amount \in Int
      BY <2>4, AmountsAreIntegers DEF Entry
    <3> QED
      BY <2>2, <3>1
  <2>6. CASE g = e
    BY <2>2, <2>3, <2>4, <2>5, <2>6
  <2>7. CASE g = p
    BY <2>2, <2>3, <2>4, <2>5, <2>7
  <2>8. CASE g \notin {e, p}
    <3>1. ~Wrote(w, g)
      BY <2>2, <2>8 DEF WroteOnly
    <3>2. q # e /\ q # p
      BY <1>3, <2>2, <2>8, <3>1 DEF Succeeds
    <3>3. ~Wrote(w, q)
      BY <1>3, <2>2, <3>1, <3>2 DEF WroteOnly
    <3> QED
      BY <1>3, <1>4, <3>1, <3>3
  <2> QED
    BY <2>6, <2>7, <2>8
<1> QED
  BY <1>5, <1>6, CommitPhase

(* No row vanishes, or changes its account, its pair or its kind.          *)
LEMMA RowsRemain ==
  ASSUME LInv, NEW w \in Worker, Commit(w), NEW e \in Row, row[e] # NoEntry
  PROVE  /\ row'[e] # NoEntry
         /\ row'[e].account = row[e].account
         /\ row'[e].pair = row[e].pair
         /\ IsTransfer(row'[e]) <=> IsTransfer(row[e])
<1>1. /\ TypeOK /\ Phase(w) /\ todo[w] = <<>> /\ Busy(w)
      /\ row' = [f \in Row |-> Seen(w, f)]
  BY DEF LInv, Commit
<1>2. CASE Wrote(w, e)
  <2>1. draft[w][e] \in Entry /\ Succeeds(w, e)
    BY <1>1, <1>2, WrittenSucceeds
  <2>2. row'[e] = draft[w][e]
    BY <1>1, <1>2 DEF Seen
  <2> QED
    BY <2>1, <2>2 DEF Succeeds
<1>3. CASE ~Wrote(w, e)
  BY <1>1, <1>3 DEF Seen
<1> QED
  BY <1>2, <1>3

(* A commit hands over the rows and balances of one request. *)
LEMMA CommitLInv ==
  ASSUME LInv, NEW w \in Worker, Commit(w)
  PROVE  LInv'
<1>1. TypeOK /\ PairsMirrored /\ LocksHold /\ Phase(w) /\ todo[w] = <<>> /\ Busy(w)
  BY DEF LInv, Commit
<1>2. /\ row' = [e \in Row |-> Seen(w, e)]
      /\ balance' = [a \in Account |-> IF funds[w][a] = Untouched THEN balance[a]
                                                                  ELSE funds[w][a]]
      /\ UNCHANGED <<opening, todo>>
      /\ change' = [change EXCEPT ![w] = NoChange]
      /\ draft' = [draft EXCEPT ![w] = NoRowWritten]
      /\ funds' = [funds EXCEPT ![w] = NoBalanceWritten]
  BY DEF Commit
<1>3. /\ draft'[w] = NoRowWritten /\ funds'[w] = NoBalanceWritten /\ todo'[w] = <<>>
      /\ \A v \in Worker \ {w} :
           /\ todo'[v] = todo[v] /\ change'[v] = change[v]
           /\ draft'[v] = draft[v] /\ funds'[v] = funds[v]
  BY <1>1, <1>2 DEF TypeOK
<1>4. (\A e \in Row : ~Wrote(w, e)') /\ \A a \in Account : funds'[w][a] = Untouched
  BY <1>3 DEF Wrote, NoRowWritten, NoBalanceWritten
<1>5. TypeOK'
  <2>1. \A e \in Row : Seen(w, e) \in Entry \cup {NoEntry}
    BY <1>1 DEF TypeOK, Seen, Wrote
  <2>2. row' \in [Row -> Entry \cup {NoEntry}]
    BY <1>2, <2>1
  <2>3. balance' \in [Account -> Balance]
    BY <1>1, <1>2 DEF TypeOK
  <2>4. change' \in [Worker -> Change]
    BY <1>1, <1>2 DEF TypeOK, NoChange, Change
  <2>5. draft' \in [Worker -> [Row -> Entry \cup {Untouched}]]
    BY <1>1, <1>2 DEF TypeOK, NoRowWritten
  <2>6. funds' \in [Worker -> [Account -> Balance \cup {Untouched}]]
    BY <1>1, <1>2 DEF TypeOK, NoBalanceWritten
  <2> QED
    BY <1>1, <1>2, <2>2, <2>3, <2>4, <2>5, <2>6 DEF TypeOK
<1>6. PairsMirrored'
  BY <1>1, <1>2, CommitMirrors
<1>7. LocksHold'
  <2>1. ASSUME NEW u \in Worker, NEW v \in Worker, u # v
        PROVE  /\ \A e \in Row : ~Wrote(u, e)' \/ ~Wrote(v, e)'
               /\ \A a \in Account : funds'[u][a] = Untouched \/ funds'[v][a] = Untouched
    <3>1. CASE u = w \/ v = w
      BY <1>4, <3>1
    <3>2. CASE u # w /\ v # w
      BY <1>1, <1>3, <2>1, <3>2 DEF LocksHold, Wrote
    <3> QED
      BY <3>1, <3>2
  <2> QED
    BY <2>1 DEF LocksHold
<1>8. Phase(w)'
  BY <1>3, <1>4 DEF Phase, Idle, Waiting, WroteOnly, FundsOf
<1>9. ASSUME NEW v \in Worker \ {w} PROVE Phase(v)'
  <2>1. Phase(v)
    BY DEF LInv
  <2>2. ASSUME NEW e \in Row, row[e] # NoEntry
        PROVE  /\ row'[e] # NoEntry
               /\ row'[e].account = row[e].account
               /\ row'[e].pair = row[e].pair
               /\ IsTransfer(row'[e]) <=> IsTransfer(row[e])
    BY <2>2, RowsRemain
  <2>3. ASSUME NEW e \in Row, Wrote(v, e) PROVE row'[e] = row[e]
    BY <1>1, <1>2, <2>3 DEF LocksHold, Seen
  <2>4. ASSUME NEW a \in Account, funds[v][a] # Untouched PROVE balance'[a] = balance[a]
    BY <1>1, <1>2, <2>4 DEF LocksHold
  <2> QED
    BY <1>3, <2>1, <2>2, <2>3, <2>4, PhaseStays
<1> QED
  BY <1>5, <1>6, <1>7, <1>8, <1>9 DEF LInv

-----------------------------------------------------------------------------
(* The inductive invariant holds *)

(* Nothing is written, nobody waits. *)
LEMMA InitLInv == Init => LInv
<1> SUFFICES ASSUME Init PROVE LInv
  OBVIOUS
<1> USE DEF Init
<1>1. TypeOK
  <2>1. todo \in [Worker -> Seq(Task)]
    OBVIOUS
  <2>2. change \in [Worker -> Change]
    BY DEF NoChange, Change
  <2>3. draft \in [Worker -> [Row -> Entry \cup {Untouched}]]
    BY DEF NoRowWritten
  <2>4. funds \in [Worker -> [Account -> Balance \cup {Untouched}]]
    BY DEF NoBalanceWritten
  <2> QED
    BY <2>1, <2>2, <2>3, <2>4 DEF TypeOK
<1>2. PairsMirrored
  BY DEF PairsMirrored
<1>3. ASSUME NEW w \in Worker
      PROVE  /\ \A e \in Row : ~Wrote(w, e)
             /\ \A a \in Account : funds[w][a] = Untouched
  BY DEF Wrote, NoRowWritten, NoBalanceWritten
<1>4. LocksHold
  BY <1>3 DEF LocksHold
<1>5. ASSUME NEW w \in Worker PROVE Phase(w)
  BY <1>3 DEF Phase, Idle, Waiting, WroteOnly, FundsOf
<1> QED
  BY <1>1, <1>2, <1>4, <1>5 DEF LInv

(* Every step of every request preserves it. *)
LEMMA NextLInv == LInv /\ [Next]_vars => LInv'
<1> SUFFICES ASSUME LInv, [Next]_vars PROVE LInv'
  OBVIOUS
<1>1. ASSUME NEW w \in Worker, Request(w) PROVE LInv'
  BY <1>1, CreateEntryLInv, CreateTransferLInv, PatchLInv, DeleteLInv DEF Request
<1>2. ASSUME NEW w \in Worker, Step(w) PROVE LInv'
  BY <1>2, UpdateLInv, SyncLInv, SettleLInv, CommitLInv DEF Step
<1>3. ASSUME NEW w \in Worker, Fail(w) \/ Victim(w) PROVE LInv'
  BY <1>3, RollbackLInv DEF Fail, Victim
<1>4. CASE UNCHANGED vars
  <2>1. TypeOK' /\ PairsMirrored' /\ LocksHold'
    BY <1>4 DEF LInv, vars, TypeOK, PairsMirrored, LocksHold, Wrote
  <2>2. ASSUME NEW v \in Worker PROVE Phase(v)'
    <3>1. Phase(v)
      BY DEF LInv
    <3> QED
      BY <1>4, <3>1, PhaseStays DEF vars
  <2> QED
    BY <2>1, <2>2 DEF LInv
<1> QED
  BY <1>1, <1>2, <1>3, <1>4 DEF Next

(* The inductive invariant holds in every reachable state. *)
THEOREM LInvHolds == Spec => []LInv
  BY InitLInv, NextLInv, PTL DEF Spec

(* The columns keep their types: no balance leaves the range of BIGINT.    *)
THEOREM TypeCorrect == Spec => []TypeOK
<1>1. LInv => TypeOK
  BY DEF LInv
<1> QED
  BY <1>1, LInvHolds, PTL

(* The legs of a transfer stay together, however requests overlap.         *)
THEOREM LegsStayTogether == Spec => []PairsMirrored
<1>1. LInv => PairsMirrored
  BY DEF LInv
<1> QED
  BY <1>1, LInvHolds, PTL

-----------------------------------------------------------------------------
(* Deadlocks *)

(* The task at hand is about a row. *)
LEMMA TargetIsRow ==
  ASSUME TypeOK, NEW v \in Worker, todo[v] # <<>>
  PROVE  Target(v) \in Row
<1>1. todo[v] \in Seq(Task)
  BY DEF TypeOK
<1>2. Head(todo[v]) \in Task
  BY <1>1
<1> QED
  BY <1>2 DEF Target, Task

(* A balance trigger fires for a row its request has written. *)
LEMMA ApplierWrote ==
  ASSUME TypeOK, NEW v \in Worker, Phase(v), Doing(v, "apply")
  PROVE  Wrote(v, Target(v)) /\ draft[v][Target(v)].account \in Account
<1>1. Wrote(v, Target(v))
  <2>1. ASSUME NEW e \in Row, HasSingle(v, e), todo[v] = <<DoApply(e)>>
        PROVE  Wrote(v, Target(v))
    BY <2>1, Tuples DEF HasSingle, WroteOnly, Target, DoApply
  <2>2. ASSUME NEW e \in Row, NEW p \in Row, HasPair(v, e, p),
               todo[v] = <<DoApply(e), DoApply(p)>> \/ todo[v] = <<DoApply(p)>>
        PROVE  Wrote(v, Target(v))
    BY <2>2, Tuples DEF HasPair, WroteOnly, Target, DoApply
  <2> QED
    BY <2>1, <2>2, ApplyPhase
<1>2. Target(v) \in Row
  BY TargetIsRow DEF Doing
<1> QED
  BY <1>1, <1>2 DEF TypeOK, Wrote, Entry

(* Nobody waits for a request that has written nothing. *)
LEMMA NothingToWaitFor ==
  ASSUME TypeOK, NEW w \in Worker, Waiting(w), NEW v \in Worker, Phase(v)
  PROVE  ~WaitsFor(v, w)
<1>1. (\A e \in Row : ~Wrote(w, e)) /\ \A a \in Account : funds[w][a] = Untouched
  BY DEF Waiting, WroteOnly, FundsOf
<1>2. SUFFICES ASSUME WaitsFor(v, w) PROVE FALSE
  OBVIOUS
<1>3. todo[v] # <<>>
  BY <1>2 DEF WaitsFor
<1>4. Target(v) \in Row
  BY <1>3, TargetIsRow
<1>5. CASE Doing(v, "apply")
  BY <1>1, <1>2, <1>5, ApplierWrote DEF WaitsFor, Doing
<1>6. CASE ~Doing(v, "apply")
  BY <1>1, <1>2, <1>3, <1>4, <1>6 DEF WaitsFor, Doing
<1> QED
  BY <1>5, <1>6

(* Who waits for an income or expense has written nothing yet. *)
LEMMA WaitersOfSingles ==
  ASSUME LInv, NEW w \in Worker, NEW e \in Row, HasSingle(w, e), FundsOf(w, {}),
         NEW v \in Worker, WaitsFor(v, w)
  PROVE  Waiting(v)
<1>1. TypeOK /\ PairsMirrored /\ Phase(v) /\ todo[v] # <<>> /\ v # w
  BY DEF LInv, WaitsFor
<1>2. \A a \in Account : funds[w][a] = Untouched
  BY DEF FundsOf
<1>3. /\ WroteOnly(w, {e}) /\ ~IsTransfer(draft[w][e]) /\ Succeeds(w, e)
  BY DEF HasSingle
<1>4. Head(todo[v]).do # "apply" /\ Target(v) = e
  <2>1. Head(todo[v]).do # "apply"
    <3>1. SUFFICES ASSUME Doing(v, "apply") PROVE FALSE
      BY <1>1 DEF Doing
    <3> QED
      BY <1>1, <1>2, <3>1, ApplierWrote DEF WaitsFor, Doing
  <2>2. Target(v) \in Row
    BY <1>1, TargetIsRow
  <2> QED
    BY <1>3, <2>1, <2>2 DEF WaitsFor, WroteOnly
<1>5. ASSUME NEW f \in Row, HalfPair(v, f, e) PROVE FALSE
  <2>1. row[f] # NoEntry /\ IsTransfer(row[f]) /\ row[f].pair = e
    BY <1>5 DEF HalfPair
  <2>2. row[e] # NoEntry /\ IsTransfer(row[e])
    BY <1>1, <2>1 DEF PairsMirrored, IsTransfer
  <2> QED
    BY <1>3, <2>2 DEF Succeeds
<1>6. ASSUME NEW f \in Row, NEW p \in Row, HalfPair(v, f, p) PROVE p = e
  BY <1>4, <1>6, Tuples DEF HalfPair, Target, DoSync
<1>7. ASSUME NEW f \in Row, SinglePhase(v, f) PROVE FALSE
  BY <1>1, <1>4, <1>7, Tuples DEF SinglePhase, DoApply
<1>8. ASSUME NEW f \in Row, NEW p \in Row, PairPhase(v, f, p) PROVE FALSE
  BY <1>1, <1>4, <1>8, Tuples DEF PairPhase, DoApply
<1> QED
  BY <1>1, <1>5, <1>6, <1>7, <1>8 DEF Phase, Idle, BeforeSingle, BeforePair

(* No income or expense is part of a deadlock. *)
THEOREM DeadlocksAreTransfers == Spec => []OnlyTransfersDeadlock
<1>1. ASSUME LInv PROVE OnlyTransfersDeadlock
  <2>1. TypeOK /\ \A v \in Worker : Phase(v)
    BY <1>1 DEF LInv
  <2>2. SUFFICES ASSUME NEW S \in SUBSET Worker, Deadlocked(S), NEW w \in S
                 PROVE  \E e \in Row : Wrote(w, e) /\ IsTransfer(draft[w][e])
    BY DEF OnlyTransfersDeadlock, IsTransfer
  <2>3. /\ \A x \in S : \E v \in S : WaitsFor(x, v)
        /\ \A x \in S : \E v \in S : WaitsFor(v, x)
    BY <2>2 DEF Deadlocked
  <2>4. \A x \in S : ~Waiting(x)
    BY <2>1, <2>2, <2>3, NothingToWaitFor
  <2>5. todo[w] # <<>>
    BY <2>2, <2>3 DEF WaitsFor
  <2>6. ASSUME NEW e \in Row, SinglePhase(w, e) PROVE FALSE
    <3>1. HasSingle(w, e) /\ FundsOf(w, {})
      BY <2>5, <2>6 DEF SinglePhase
    <3>2. PICK v \in S : WaitsFor(v, w)
      BY <2>3
    <3>3. Waiting(v)
      BY <1>1, <3>1, <3>2, WaitersOfSingles
    <3> QED
      BY <2>4, <3>3
  <2>7. ASSUME NEW e \in Row, NEW p \in Row, HalfPair(w, e, p)
        PROVE  Wrote(w, e) /\ IsTransfer(draft[w][e])
    BY <2>7 DEF HalfPair, WroteOnly, Succeeds
  <2>8. ASSUME NEW e \in Row, NEW p \in Row, PairPhase(w, e, p)
        PROVE  Wrote(w, e) /\ IsTransfer(draft[w][e])
    BY <2>8 DEF PairPhase, HasPair, WroteOnly
  <2>9. ~Idle(w) /\ (\A e \in Row : ~BeforeSingle(w, e))
        /\ \A e, p \in Row : ~BeforePair(w, e, p)
    BY <2>4 DEF Idle, BeforeSingle, BeforePair
  <2> QED
    BY <2>1, <2>6, <2>7, <2>8, <2>9 DEF Phase
<1> QED
  BY <1>1, LInvHolds, PTL

-----------------------------------------------------------------------------
(* Balances *)

(* A row without effect, before and after, does not move its balance. *)
LEMMA NoEffectIsZero ==
  ASSUME TypeOK, NEW w \in Worker, NEW e \in Row, Wrote(w, e), NoEffect(w, e)
  PROVE  Effect(row[e]) = 0 /\ Effect(draft[w][e]) = 0
<1>1. row[e] \in Entry \cup {NoEntry} /\ draft[w][e] \in Entry
  BY DEF TypeOK, Wrote
<1> QED
  BY <1>1, EffectIsInteger DEF NoEffect

(* Rows E committed, one at most for each account, account for every       *)
(* change of a balance.                                                    *)
LEMMA CommitMovesBalance ==
  ASSUME TypeOK, NEW w \in Worker, NEW E \in SUBSET Row,
         WroteOnly(w, E), FundsOf(w, E),
         \A e, f \in E : draft[w][e].account = draft[w][f].account => e = f,
         row' = [e \in Row |-> Seen(w, e)],
         balance' = [a \in Account |-> IF funds[w][a] = Untouched THEN balance[a]
                                                                 ELSE funds[w][a]],
         NEW a \in Account
  PROVE  LET changed == {e \in Row : row'[e] # row[e] /\ row'[e].account = a}
         IN  IF changed = {} THEN balance'[a] = balance[a]
             ELSE \E e \in changed :
                    /\ changed = {e}
                    /\ balance'[a] = balance[a] + Effect(row'[e]) - Effect(row[e])
<1> DEFINE changed == {e \in Row : row'[e] # row[e] /\ row'[e].account = a}
<1>1. \A e \in Row : row'[e] = IF e \in E THEN draft[w][e] ELSE row[e]
  BY DEF Seen, WroteOnly
<1>2. \A e \in changed : e \in E /\ draft[w][e].account = a
  BY <1>1
<1>3. \A e \in E : Wrote(w, e) /\ draft[w][e] \in Entry
  BY DEF TypeOK, WroteOnly, Wrote
<1>4. /\ balance[a] \in Int
      /\ \A e \in E : Effect(row[e]) \in Int /\ Effect(draft[w][e]) \in Int
  <2>1. balance[a] \in Int
    BY AmountsAreIntegers DEF TypeOK
  <2>2. ASSUME NEW e \in E PROVE Effect(row[e]) \in Int /\ Effect(draft[w][e]) \in Int
    <3>1. row[e] \in Entry \cup {NoEntry}
      BY DEF TypeOK
    <3> QED
      BY <1>3, <3>1, EffectIsInteger
  <2> QED
    BY <2>1, <2>2
<1>5. ASSUME NEW e \in E, draft[w][e].account = a
      PROVE  balance'[a] = balance[a] + Effect(draft[w][e]) - Effect(row[e])
  <2>1. CASE funds[w][a] = Untouched
    <3>1. NoEffect(w, e)
      BY <1>5, <2>1 DEF FundsOf
    <3>2. Effect(row[e]) = 0 /\ Effect(draft[w][e]) = 0
      BY <1>3, <3>1, NoEffectIsZero
    <3> QED
      BY <1>4, <2>1, <3>2
  <2>2. CASE funds[w][a] # Untouched
    <3>1. PICK f \in E : /\ draft[w][f].account = a
                         /\ funds[w][a] = balance[a] - Effect(row[f])
                                          + Effect(draft[w][f])
      BY <2>2 DEF FundsOf
    <3>2. f = e
      BY <1>5, <3>1
    <3>3. balance'[a] = balance[a] - Effect(row[e]) + Effect(draft[w][e])
      BY <2>2, <3>1, <3>2
    <3> QED
      BY <1>4, <3>3
  <2> QED
    BY <2>1, <2>2
<1>6. CASE changed = {}
  <2>1. CASE \E e \in E : draft[w][e].account = a
    <3>1. PICK e \in E : draft[w][e].account = a
      BY <2>1
    <3>2. draft[w][e] = row[e]
      BY <1>1, <1>6, <3>1
    <3>3. balance'[a] = balance[a] + Effect(draft[w][e]) - Effect(draft[w][e])
      BY <1>5, <3>1, <3>2
    <3>4. balance'[a] = balance[a]
      BY <1>4, <3>3
    <3> QED
      BY <1>6, <3>4
  <2>2. CASE \A e \in E : draft[w][e].account # a
    BY <1>6, <2>2 DEF FundsOf
  <2> QED
    BY <2>1, <2>2
<1>7. CASE changed # {}
  <2>1. PICK e \in changed : TRUE
    BY <1>7
  <2>2. e \in E /\ draft[w][e].account = a /\ row'[e] = draft[w][e]
    BY <1>1, <1>2, <2>1
  <2>3. changed = {e}
    BY <1>2, <2>1, <2>2
  <2>4. balance'[a] = balance[a] + Effect(row'[e]) - Effect(row[e])
    BY <1>5, <2>2
  <2> QED
    BY <1>7, <2>1, <2>3, <2>4
<1> QED
  BY <1>6, <1>7

BalancesMove ==
  \A a \in Account :
    LET changed == {e \in Row : row'[e] # row[e] /\ row'[e].account = a}
    IN  IF changed = {} THEN balance'[a] = balance[a]
        ELSE \E e \in changed :
               /\ changed = {e}
               /\ balance'[a] = balance[a] + Effect(row'[e]) - Effect(row[e])

LEMMA CommitMoves == ASSUME LInv, NEW w \in Worker, Commit(w) PROVE BalancesMove
<1>1. /\ TypeOK /\ Phase(w) /\ todo[w] = <<>> /\ Busy(w)
      /\ row' = [e \in Row |-> Seen(w, e)]
      /\ balance' = [a \in Account |-> IF funds[w][a] = Untouched THEN balance[a]
                                                                  ELSE funds[w][a]]
  BY DEF LInv, Commit
<1>2. ASSUME NEW E \in SUBSET Row, WroteOnly(w, E), FundsOf(w, E),
             \A e, f \in E : draft[w][e].account = draft[w][f].account => e = f
      PROVE  BalancesMove
  BY <1>1, <1>2, CommitMovesBalance DEF BalancesMove
<1>3. ASSUME NEW e \in Row, HasSingle(w, e), FundsOf(w, {e}) PROVE BalancesMove
  BY <1>2, <1>3 DEF HasSingle
<1>4. ASSUME NEW e \in Row, NEW p \in Row, HasPair(w, e, p), FundsOf(w, {e, p})
      PROVE  BalancesMove
  <2>1. /\ {e, p} \in SUBSET Row /\ WroteOnly(w, {e, p})
        /\ draft[w][e].account # draft[w][p].account
    BY <1>4 DEF HasPair
  <2> QED
    BY <1>2, <1>4, <2>1
<1> QED
  BY <1>1, <1>3, <1>4, CommitPhase

(* Nothing but a commit touches what is committed. *)
LEMMA OthersCommitNothing ==
  ASSUME [Next]_vars, \A w \in Worker : ~Commit(w)
  PROVE  UNCHANGED <<opening, row, balance>>
<1>1. ASSUME NEW w \in Worker, Request(w) \/ Fail(w) \/ Victim(w)
      PROVE  UNCHANGED <<opening, row, balance>>
  <2>1. CASE Fail(w) \/ Victim(w)
    BY <2>1 DEF Fail, Victim, Rollback
  <2>2. CASE Request(w)
    <3>1. CASE CreateEntry(w) \/ CreateTransfer(w)
      BY <3>1, ZenonT(30) DEF CreateEntry, CreateTransfer, Insert
    <3>2. CASE Patch(w) \/ Delete(w)
      BY <3>2 DEF Patch, Delete, Begin
    <3> QED
      BY <2>2, <3>1, <3>2 DEF Request
  <2> QED
    BY <1>1, <2>1, <2>2
<1>2. ASSUME NEW w \in Worker, Update(w) \/ Sync(w) \/ Settle(w)
      PROVE  UNCHANGED <<opening, row, balance>>
  BY <1>2 DEF Update, Sync, Settle, WriteRow, Rollback
<1> QED
  BY <1>1, <1>2 DEF Next, Step, vars

(* Each commit moves each balance by what it changes of one row at most.   *)
THEOREM CommitsBalance == Spec => EachCommitBalances
<1>1. LInv /\ [Next]_vars => [BalancesMove]_vars
  <2> SUFFICES ASSUME LInv, [Next]_vars, \A w \in Worker : ~Commit(w)
               PROVE  BalancesMove
    BY CommitMoves
  <2> QED
    BY OthersCommitNothing DEF BalancesMove
<1>2. EachCommitBalances <=> [][BalancesMove]_vars
  BY DEF EachCommitBalances, BalancesMove
<1> QED
  BY <1>1, <1>2, LInvHolds, PTL DEF Spec

-----------------------------------------------------------------------------
(* Every balance is a sum *)

InUse == {e \in Row : row[e] # NoEntry}

(* A request writes two rows at most, so the table stays finite.           *)
LEMMA TableStaysFinite ==
  ASSUME LInv, NEW w \in Worker, Commit(w), IsFiniteSet(InUse)
  PROVE  IsFiniteSet(InUse')
<1>1. /\ Phase(w) /\ todo[w] = <<>> /\ Busy(w)
      /\ row' = [e \in Row |-> Seen(w, e)]
  BY DEF LInv, Commit
<1>2. PICK e \in Row, p \in Row : WroteOnly(w, {e, p})
  <2>1. ASSUME NEW e \in Row, HasSingle(w, e) PROVE WroteOnly(w, {e, e})
    BY <2>1 DEF HasSingle, WroteOnly
  <2>2. ASSUME NEW e \in Row, NEW p \in Row, HasPair(w, e, p) PROVE WroteOnly(w, {e, p})
    BY <2>2 DEF HasPair
  <2> QED
    BY <1>1, <2>1, <2>2, CommitPhase
<1>3. InUse' \subseteq (InUse \cup {e}) \cup {p}
  BY <1>1, <1>2 DEF InUse, Seen, WroteOnly
<1> QED
  BY <1>3, FS_AddElement, FS_Subset

(* A commit keeps the sums: what changes in the rows of an account is what *)
(* changes in its balance.                                                 *)
LEMMA SumsFollow ==
  ASSUME LInv, NEW w \in Worker, Commit(w), IsFiniteSet(InUse), BalanceIsSum
  PROVE  BalanceIsSum'
<1>1. /\ BalancesMove /\ opening' = opening
      /\ row \in [Row -> Entry \cup {NoEntry}] /\ row' \in [Row -> Entry \cup {NoEntry}]
      /\ opening \in [Account -> Int]
  BY CommitMoves, CommitLInv, AmountsAreIntegers DEF Commit, LInv, TypeOK
<1> SUFFICES ASSUME NEW a \in Account PROVE balance'[a] = opening[a] + Total(row', a)
  BY <1>1 DEF BalanceIsSum
<1> DEFINE S == RowsOf(row, a)
           T == RowsOf(row', a)
           f == [e \in Row |-> Effect(row[e])]
           g == [e \in Row |-> Effect(row'[e])]
           changed == {e \in Row : row'[e] # row[e] /\ row'[e].account = a}
<1>2. /\ balance[a] = opening[a] + SumFunctionOnSet(f, S)
      /\ Total(row', a) = SumFunctionOnSet(g, T)
  BY DEF BalanceIsSum, Total
<1>3. (\A e \in Row : f[e] \in Int /\ g[e] \in Int) /\ S \subseteq Row /\ T \subseteq Row
  BY <1>1, EffectIsInteger DEF RowsOf
<1>4. IsFiniteSet(S) /\ IsFiniteSet(T)
  <2>1. IsFiniteSet(InUse') /\ S \subseteq InUse /\ T \subseteq InUse'
    BY TableStaysFinite DEF InUse, RowsOf
  <2> QED
    BY <2>1, FS_Subset
<1>5. S \subseteq T /\ \A e \in T : e \notin changed => e \in S /\ f[e] = g[e]
  BY RowsRemain DEF RowsOf
<1>6. \A e \in changed : e \in S => e \in T
  BY <1>5
<1>7. CASE changed = {}
  <2>1. balance'[a] = balance[a]
    BY <1>1, <1>7 DEF BalancesMove
  <2>2. S = T /\ \A e \in S : f[e] = g[e]
    BY <1>5, <1>7
  <2> HIDE DEF S, T, f, g, changed
  <2>3. SumFunctionOnSet(f, S) = SumFunctionOnSet(g, T)
    BY <1>4, <2>2, SameSum
  <2> QED
    BY <1>2, <2>1, <2>3
<1>8. CASE changed # {}
  <2>1. PICK e \in changed :
          changed = {e} /\ balance'[a] = balance[a] + Effect(row'[e]) - Effect(row[e])
    BY <1>1, <1>8 DEF BalancesMove
  <2>2. e \in Row /\ balance'[a] = balance[a] + g[e] - f[e]
    BY <2>1
  <2>3. S \ {e} = T \ {e} /\ \A d \in S \ {e} : f[d] = g[d]
    BY <1>5, <2>1
  <2>4. e \notin S => f[e] = 0
    BY <2>1, <2>2, RowsRemain, EffectIsInteger DEF RowsOf
  <2>5. e \notin T => g[e] = 0
    BY <2>1, EffectIsInteger DEF RowsOf
  <2> HIDE DEF S, T, f, g, changed
  <2>6. /\ IsFiniteSet(S \ {e}) /\ SumFunctionOnSet(f, S \ {e}) \in Int
        /\ SumFunctionOnSet(f, S \ {e}) = SumFunctionOnSet(g, T \ {e})
    <3>1. IsFiniteSet(S \ {e}) /\ \A d \in S \ {e} : f[d] \in Int
      BY <1>3, <1>4, FS_RemoveElement
    <3>2. SumFunctionOnSet(f, S \ {e}) = SumFunctionOnSet(g, S \ {e})
      BY <2>3, <3>1, SameSum
    <3> QED
      BY <2>3, <3>1, <3>2, SumIsInteger
  <2>7. SumFunctionOnSet(f, S) = f[e] + SumFunctionOnSet(f, S \ {e})
    <3>1. CASE e \in S
      BY <1>3, <1>4, <3>1, SumWithoutOne
    <3>2. CASE e \notin S
      <4>1. S \ {e} = S /\ f[e] = 0
        BY <2>4, <3>2
      <4>2. SumFunctionOnSet(f, S) = SumFunctionOnSet(f, S \ {e})
        BY ONLY <4>1
      <4>3. SumFunctionOnSet(f, S \ {e}) \in Int
        BY <2>6
      <4> QED
        BY <4>1, <4>2, <4>3
    <3> QED
      BY <3>1, <3>2
  <2>8. SumFunctionOnSet(g, T) = g[e] + SumFunctionOnSet(g, T \ {e})
    <3>1. CASE e \in T
      BY <1>3, <1>4, <3>1, SumWithoutOne
    <3>2. CASE e \notin T
      <4>1. T \ {e} = T /\ g[e] = 0
        BY <2>5, <3>2
      <4>2. SumFunctionOnSet(g, T) = SumFunctionOnSet(g, T \ {e})
        BY ONLY <4>1
      <4>3. SumFunctionOnSet(g, T \ {e}) \in Int
        BY <2>6
      <4> QED
        BY <4>1, <4>2, <4>3
    <3> QED
      BY <3>1, <3>2
  <2>9. f[e] \in Int /\ g[e] \in Int /\ opening[a] \in Int
    BY <1>1, <1>3, <2>2
  <2> QED
    BY <1>2, <2>2, <2>6, <2>7, <2>8, <2>9
<1> QED
  BY <1>7, <1>8

(***************************************************************************)
(* The balance of every account is its opening balance and the sum of the  *)
(* rows of the account that are not deleted, after any number of requests. *)
(***************************************************************************)
THEOREM BalancesAreSums == Spec => []BalanceIsSum
<1>1. Init => IsFiniteSet(InUse) /\ BalanceIsSum
  <2> SUFFICES ASSUME Init PROVE IsFiniteSet(InUse) /\ BalanceIsSum
    OBVIOUS
  <2>1. InUse = {} /\ \A a \in Account : RowsOf(row, a) = {}
    BY DEF Init, InUse, RowsOf
  <2>2. \A a \in Account : Total(row, a) = 0
    BY <2>1, SumOfNothing DEF Total
  <2>3. \A a \in Account : balance[a] = opening[a] /\ opening[a] \in Int
    BY AmountsAreIntegers DEF Init
  <2> QED
    BY <2>1, <2>2, <2>3, FS_EmptySet DEF BalanceIsSum
<1>2. LInv /\ IsFiniteSet(InUse) /\ BalanceIsSum /\ [Next]_vars
        => IsFiniteSet(InUse)' /\ BalanceIsSum'
  <2> SUFFICES ASSUME LInv, IsFiniteSet(InUse), BalanceIsSum, [Next]_vars,
                      \A w \in Worker : ~Commit(w)
               PROVE  IsFiniteSet(InUse') /\ BalanceIsSum'
    BY TableStaysFinite, SumsFollow
  <2> QED
    BY OthersCommitNothing DEF InUse, BalanceIsSum, Total, RowsOf
<1> QED
  BY <1>1, <1>2, LInvHolds, PTL DEF Spec

-----------------------------------------------------------------------------
(* Every commit is one step of the atomic ledger *)

(* x is row r amended, or deleted.                                         *)
Amended(r, x) ==
  \E amount \in Amount, type \in Type :
    /\ x = [r EXCEPT !.amount = amount, !.type = type]
    /\ SignAllowed(x)
    /\ (type = "transfer") = (r.type = "transfer")

Rewritten(r, x) == Amended(r, x) \/ x = [r EXCEPT !.deleted = TRUE]

(* What a request may have written so far, and what it is about.           *)
Recorded(w, e) ==
  /\ WroteOnly(w, {e}) /\ row[e] = NoEntry
  /\ \E a \in Account, type \in {"income", "expense"}, m \in Magnitude :
       draft[w][e] = SingleEntry(a, type, m)

RecordedPair(w, o, d) ==
  /\ o # d /\ WroteOnly(w, {o, d}) /\ row[o] = NoEntry /\ row[d] = NoEntry
  /\ \E a, b \in Account, m \in Magnitude :
       a # b /\ draft[w][o] = Leg(a, -m, d) /\ draft[w][d] = Leg(b, m, o)

RewroteOne(w, e) == WroteOnly(w, {e}) /\ row[e] # NoEntry /\ Rewritten(row[e], draft[w][e])

RewrotePair(w, e, p) ==
  /\ e # p /\ WroteOnly(w, {e, p})
  /\ row[e] # NoEntry /\ IsTransfer(row[e]) /\ row[e].pair = p
  /\ Rewritten(row[e], draft[w][e])
  /\ draft[w][p] = Mirrored(row[p], draft[w][e])

Meant(w) ==
  \/ WroteOnly(w, {})
  \/ \E e \in Row : Recorded(w, e) \/ RewroteOne(w, e)
  \/ \E e, p \in Row : RecordedPair(w, e, p) \/ RewrotePair(w, e, p)

(* A request amends or deletes, and only a leg of a transfer has a pair.   *)
OneChange(w) == change[w].delete => change[w].amount = Unset /\ change[w].type = Unset

SinglesAlone == \A e \in Row : row[e] # NoEntry /\ ~IsTransfer(row[e]) => row[e].pair = NoRow

MInv == SinglesAlone /\ \A w \in Worker : Meant(w) /\ OneChange(w)

(* A request means what it meant while the rows it has written stay.       *)
LEMMA MeantStays ==
  ASSUME NEW v \in Worker, Meant(v), draft'[v] = draft[v],
         \A e \in Row : Wrote(v, e) => row'[e] = row[e]
  PROVE  Meant(v)'
<1>1. \A e \in Row : Wrote(v, e)' <=> Wrote(v, e)
  BY DEF Wrote
<1>2. ASSUME NEW E \in SUBSET Row, WroteOnly(v, E) PROVE WroteOnly(v, E)'
  BY <1>1, <1>2 DEF WroteOnly
<1>4. CASE WroteOnly(v, {})
  BY <1>2, <1>4 DEF Meant
<1>5. ASSUME NEW e \in Row, Recorded(v, e) \/ RewroteOne(v, e) PROVE Meant(v)'
  <2>1. WroteOnly(v, {e}) /\ Wrote(v, e)
    BY <1>5 DEF Recorded, RewroteOne, WroteOnly
  <2>2. WroteOnly(v, {e})' /\ row'[e] = row[e]
    BY <2>1, <1>2
  <2>3. Recorded(v, e) => Recorded(v, e)'
    BY <2>2 DEF Recorded
  <2>4. RewroteOne(v, e) => RewroteOne(v, e)'
    BY <2>2 DEF RewroteOne
  <2> QED
    BY <1>5, <2>3, <2>4 DEF Meant
<1>6. ASSUME NEW e \in Row, NEW p \in Row, RecordedPair(v, e, p) \/ RewrotePair(v, e, p)
      PROVE  Meant(v)'
  <2>1. WroteOnly(v, {e, p}) /\ Wrote(v, e) /\ Wrote(v, p)
    BY <1>6 DEF RecordedPair, RewrotePair, WroteOnly
  <2>2. WroteOnly(v, {e, p})' /\ row'[e] = row[e] /\ row'[p] = row[p]
    BY <2>1, <1>2
  <2>3. RecordedPair(v, e, p) => RecordedPair(v, e, p)'
    BY <2>2 DEF RecordedPair
  <2>4. RewrotePair(v, e, p) => RewrotePair(v, e, p)'
    BY <2>2 DEF RewrotePair
  <2> QED
    BY <1>6, <2>3, <2>4 DEF Meant
<1> QED
  BY <1>4, <1>5, <1>6 DEF Meant

(* What a request writes or wants changes nothing for the others.          *)
LEMMA LocalMeant ==
  ASSUME MInv, NEW w \in Worker, row' = row,
         \A v \in Worker \ {w} : draft'[v] = draft[v] /\ change'[v] = change[v],
         Meant(w)', OneChange(w)'
  PROVE  MInv'
<1>1. SinglesAlone'
  BY DEF MInv, SinglesAlone
<1>2. ASSUME NEW v \in Worker \ {w} PROVE Meant(v)' /\ OneChange(v)'
  <2>1. Meant(v) /\ OneChange(v)
    BY DEF MInv
  <2>2. Meant(v)'
    BY <2>1, MeantStays
  <2> QED
    BY <2>1, <2>2 DEF OneChange
<1> QED
  BY <1>1, <1>2 DEF MInv

(* A rollback forgets what was meant.                                      *)
LEMMA RollbackMeant == ASSUME TypeOK, MInv, NEW w \in Worker, Rollback(w) PROVE MInv'
<1>1. /\ draft'[w] = NoRowWritten /\ change'[w] = NoChange /\ row' = row
      /\ \A v \in Worker \ {w} : draft'[v] = draft[v] /\ change'[v] = change[v]
  BY DEF Rollback, TypeOK
<1>2. Meant(w)'
  BY <1>1 DEF Meant, WroteOnly, Wrote, NoRowWritten
<1>3. OneChange(w)'
  BY <1>1 DEF OneChange, NoChange
<1> QED
  BY <1>1, <1>2, <1>3, LocalMeant

(* A request that inserts rows means to record them.                       *)
LEMMA CreateEntryMeant ==
  ASSUME TypeOK, MInv, NEW w \in Worker, CreateEntry(w) PROVE MInv'
<1>1. PICK e \in Row, a \in Account, type \in {"income", "expense"}, m \in Magnitude :
        /\ Unused(e)
        /\ Insert(w, [f \in {e} |-> SingleEntry(a, type, m)], <<DoApply(e)>>)
  BY DEF CreateEntry
<1> DEFINE x == SingleEntry(a, type, m)
<1>2. x \in Entry
  BY NewEntries
<1>3. /\ draft' = [draft EXCEPT ![w] = [f \in Row |-> IF f = e THEN x ELSE Untouched]]
      /\ row' = row /\ change' = change
  BY <1>1 DEF Insert
<1> HIDE DEF x
<1>4. /\ draft'[w] = [f \in Row |-> IF f = e THEN x ELSE Untouched]
      /\ \A v \in Worker \ {w} : draft'[v] = draft[v] /\ change'[v] = change[v]
  BY <1>3 DEF TypeOK
<1>5. WroteOnly(w, {e})' /\ draft'[w][e] = x
  BY <1>2, <1>4 DEF WroteOnly, Wrote
<1>6. Recorded(w, e)'
  BY <1>1, <1>3, <1>5 DEF Recorded, Unused, x
<1>7. Meant(w)' /\ OneChange(w)'
  BY <1>3, <1>6 DEF Meant, MInv, OneChange
<1> QED
  BY <1>3, <1>4, <1>7, LocalMeant

(* So does one that inserts both legs of a transfer.                       *)
LEMMA CreateTransferMeant ==
  ASSUME TypeOK, MInv, NEW w \in Worker, CreateTransfer(w) PROVE MInv'
<1>1. PICK o \in Row, d \in Row, a \in Account, b \in Account, m \in Magnitude :
        /\ o # d /\ Unused(o) /\ Unused(d)
        /\ a # b
        /\ Insert(w, [f \in {o, d} |-> IF f = o THEN Leg(a, -m, d) ELSE Leg(b, m, o)],
                  <<DoApply(o), DoApply(d)>>)
  BY DEF CreateTransfer
<1> DEFINE x == Leg(a, -m, d)
           y == Leg(b, m, o)
<1>2. x \in Entry /\ y \in Entry
  BY NewEntries
<1>3. /\ draft' = [draft EXCEPT ![w] = [f \in Row |->
                     IF f \in {o, d} THEN (IF f = o THEN x ELSE y) ELSE Untouched]]
      /\ row' = row /\ change' = change
  BY <1>1 DEF Insert
<1> HIDE DEF x, y
<1>4. /\ draft'[w] = [f \in Row |->
            IF f \in {o, d} THEN (IF f = o THEN x ELSE y) ELSE Untouched]
      /\ \A v \in Worker \ {w} : draft'[v] = draft[v] /\ change'[v] = change[v]
  BY <1>3 DEF TypeOK
<1>5. WroteOnly(w, {o, d})' /\ draft'[w][o] = x /\ draft'[w][d] = y
  BY <1>1, <1>2, <1>4 DEF WroteOnly, Wrote
<1>6. RecordedPair(w, o, d)'
  <2>1. o # d /\ row'[o] = NoEntry /\ row'[d] = NoEntry
    BY <1>1, <1>3 DEF Unused
  <2>2. a # b /\ draft'[w][o] = Leg(a, -m, d) /\ draft'[w][d] = Leg(b, m, o)
    BY <1>1, <1>5 DEF x, y
  <2> QED
    BY <1>5, <2>1, <2>2 DEF RecordedPair
<1>7. Meant(w)' /\ OneChange(w)'
  BY <1>3, <1>6 DEF Meant, MInv, OneChange
<1> QED
  BY <1>3, <1>4, <1>7, LocalMeant

(* A PATCH amends, a DELETE deletes, and nothing is written yet.           *)
LEMMA BeginMeant ==
  ASSUME TypeOK, MInv, NEW w \in Worker, Patch(w) \/ Delete(w) PROVE MInv'
<1>1. PICK c : /\ \E e \in Row : Begin(w, e, c)
               /\ c.delete => c.amount = Unset /\ c.type = Unset
  <2>1. CASE Patch(w)
    <3>1. PICK e \in Row, amount \in Magnitude \cup {Unset}, type \in {"income", "expense", Unset} :
             Begin(w, e, [amount |-> AmountWritten(row[e], amount, type),
                          type |-> type, delete |-> FALSE])
      BY <2>1 DEF Patch
    <3> DEFINE c == [amount |-> AmountWritten(row[e], amount, type), type |-> type,
                     delete |-> FALSE]
    <3>2. Begin(w, e, c) /\ ~c.delete
      BY <3>1
    <3> HIDE DEF c
    <3> QED
      BY <3>2
  <2>2. CASE Delete(w)
    <3> DEFINE c == [NoChange EXCEPT !.delete = TRUE]
    <3>1. c.amount = Unset /\ c.type = Unset
      BY DEF NoChange
    <3>2. PICK e \in Row : Begin(w, e, c)
      BY <2>2 DEF Delete
    <3> HIDE DEF c
    <3> QED
      BY <3>1, <3>2
  <2> QED
    BY <2>1, <2>2
<1>2. /\ change' = [change EXCEPT ![w] = c] /\ draft' = draft /\ row' = row
  BY <1>1 DEF Begin
<1>3. /\ change'[w] = c
      /\ \A v \in Worker \ {w} : draft'[v] = draft[v] /\ change'[v] = change[v]
  BY <1>2 DEF TypeOK
<1>4. Meant(w)'
  BY <1>2, MeantStays DEF MInv
<1>5. OneChange(w)'
  BY <1>1, <1>3 DEF OneChange
<1> QED
  BY <1>2, <1>3, <1>4, <1>5, LocalMeant

(* What an UPDATE makes of a row is an amendment or a deletion.            *)
LEMMA ChangeRewrites ==
  ASSUME NEW x \in Entry, NEW c \in Change, SignAllowed(Changed(x, c)),
         c.delete => c.amount = Unset /\ c.type = Unset,
         \/ c.type = Unset
         \/ c.type # "transfer" /\ ~IsTransfer(x)
  PROVE  Rewritten(x, Changed(x, c))
<1>1. /\ x.amount \in Amount /\ x.type \in Type /\ x.deleted \in BOOLEAN
      /\ c.amount \in Amount \cup {Unset} /\ c.type \in Type \cup {Unset}
      /\ c.delete \in BOOLEAN
  BY DEF Entry, Change
<1>2. CASE c.delete
  BY <1>1, <1>2 DEF Rewritten, Changed, Entry
<1>3. CASE ~c.delete
  <2>1. PICK amount \in Amount : amount = IF c.amount = Unset THEN x.amount ELSE c.amount
    BY <1>1
  <2>2. PICK type \in Type : type = IF c.type = Unset THEN x.type ELSE c.type
    BY <1>1
  <2>3. Changed(x, c) = [x EXCEPT !.amount = amount, !.type = type]
    BY <1>1, <1>3, <2>1, <2>2 DEF Changed, Entry
  <2>4. (type = "transfer") = (x.type = "transfer")
    BY <2>2 DEF IsTransfer
  <2> QED
    BY <2>3, <2>4 DEF Rewritten, Amended
<1> QED
  BY <1>1, <1>2, <1>3

(* The UPDATE writes the row the request is about.                         *)
LEMMA UpdateMeant ==
  ASSUME LInv, MInv, NEW w \in Worker, Update(w) PROVE MInv'
<1>1. TypeOK /\ Phase(w) /\ Doing(w, "update")
  BY DEF LInv, Update
<1>2. PICK e \in Row :
        /\ Target(w) = e /\ Waiting(w) /\ row[e] # NoEntry
        /\ \/ change[w].type = Unset
           \/ change[w].type # "transfer" /\ ~IsTransfer(row[e])
  <2>1. ASSUME NEW e \in Row, BeforeSingle(w, e)
        PROVE  /\ Target(w) = e /\ Waiting(w) /\ row[e] # NoEntry
               /\ change[w].type # "transfer" /\ ~IsTransfer(row[e])
    BY <2>1, Tuples DEF BeforeSingle, Target, DoUpdate
  <2>2. ASSUME NEW e \in Row, NEW p \in Row, BeforePair(w, e, p)
        PROVE  /\ Target(w) = e /\ Waiting(w) /\ row[e] # NoEntry
               /\ change[w].type = Unset
    BY <2>2, Tuples DEF BeforePair, Target, DoUpdate
  <2> QED
    BY <1>1, <2>1, <2>2, UpdatePhase
<1> DEFINE x == Changed(row[e], change[w])
<1>3. CASE Rollback(w)
  BY <1>1, <1>3, RollbackMeant
<1>4. CASE SignAllowed(x) /\ WriteRow(w, e, x)
  <2>1. row[e] \in Entry /\ change[w] \in Change
    BY <1>1, <1>2 DEF TypeOK
  <2>2. x \in Entry /\ Rewritten(row[e], x)
    BY <1>2, <1>4, <2>1, ChangedRow, ChangeRewrites DEF MInv, OneChange
  <2> HIDE DEF x
  <2>3. /\ draft' = [draft EXCEPT ![w][e] = x] /\ row' = row /\ change' = change
    BY <1>4 DEF WriteRow
  <2>4. /\ draft'[w][e] = x /\ \A f \in Row \ {e} : draft'[w][f] = draft[w][f]
        /\ \A v \in Worker \ {w} : draft'[v] = draft[v] /\ change'[v] = change[v]
    BY <1>1, <2>3 DEF TypeOK
  <2>5. WroteOnly(w, {e})'
    BY <1>2, <2>2, <2>4 DEF Waiting, WroteOnly, Wrote
  <2>6. RewroteOne(w, e)'
    BY <1>2, <2>2, <2>3, <2>4, <2>5 DEF RewroteOne
  <2>7. Meant(w)' /\ OneChange(w)'
    BY <2>3, <2>6 DEF Meant, MInv, OneChange
  <2> QED
    BY <2>3, <2>4, <2>7, LocalMeant
<1> QED
  BY <1>2, <1>3, <1>4 DEF Update

(* Its trigger writes the other leg.                                       *)
LEMMA SyncMeant ==
  ASSUME LInv, MInv, NEW w \in Worker, Sync(w) PROVE MInv'
<1>1. TypeOK /\ PairsMirrored /\ Phase(w) /\ Doing(w, "sync") /\ Meant(w)
  BY DEF LInv, MInv, Sync
<1>2. PICK e \in Row, p \in Row : HalfPair(w, e, p)
  BY <1>1, SyncPhase
<1>3. /\ Target(w) = p /\ WroteOnly(w, {e})
      /\ row[e] # NoEntry /\ IsTransfer(row[e]) /\ row[e].pair = p
  BY <1>2, Tuples DEF HalfPair, Target, DoSync
<1>4. p # e /\ row[p] # NoEntry /\ row[p].pair = e
  BY <1>1, <1>3 DEF PairsMirrored, IsTransfer
<1>5. Rewritten(row[e], draft[w][e])
  <2>1. \A E \in SUBSET Row : WroteOnly(w, E) => E = {e}
    BY <1>3 DEF WroteOnly
  <2>2. ASSUME NEW f \in Row, Recorded(w, f) \/ RewroteOne(w, f)
        PROVE  f = e /\ RewroteOne(w, f)
    BY <1>3, <2>1, <2>2 DEF Recorded, RewroteOne
  <2>3. ASSUME NEW f \in Row, NEW g \in Row, RecordedPair(w, f, g) \/ RewrotePair(w, f, g)
        PROVE  FALSE
    BY <2>1, <2>3 DEF RecordedPair, RewrotePair
  <2>4. ~WroteOnly(w, {})
    BY <2>1
  <2> QED
    BY <1>1, <2>2, <2>3, <2>4 DEF Meant, RewroteOne
<1> DEFINE x == Mirrored(row[p], draft[w][e])
<1>6. x \in Entry
  <2>1. row[p] \in Entry /\ draft[w][e] \in Entry
    BY <1>1, <1>3, <1>4 DEF TypeOK, WroteOnly, Wrote
  <2> QED
    BY <2>1, MirroredRow
<1>7. draft' = [draft EXCEPT ![w][p] = x] /\ row' = row /\ change' = change
  BY <1>3, <1>4 DEF Sync, WriteRow
<1>8. Mirrored(row[p], draft[w][e]) = x
  OBVIOUS
<1> HIDE DEF x
<1>9. /\ draft'[w][p] = x /\ \A f \in Row \ {p} : draft'[w][f] = draft[w][f]
      /\ \A v \in Worker \ {w} : draft'[v] = draft[v] /\ change'[v] = change[v]
  BY <1>1, <1>7 DEF TypeOK
<1>10. WroteOnly(w, {e, p})'
  BY <1>3, <1>6, <1>9 DEF WroteOnly, Wrote
<1>11. draft'[w][e] = draft[w][e]
  BY <1>4, <1>9
<1>12. RewrotePair(w, e, p)'
  BY <1>3, <1>4, <1>5, <1>7, <1>8, <1>9, <1>10, <1>11 DEF RewrotePair
<1>13. Meant(w)' /\ OneChange(w)'
  BY <1>7, <1>12 DEF Meant, MInv, OneChange
<1> QED
  BY <1>7, <1>9, <1>13, LocalMeant

(* The balance triggers write no row.                                      *)
LEMMA SettleMeant ==
  ASSUME LInv, MInv, NEW w \in Worker, Settle(w) PROVE MInv'
<1>1. CASE Rollback(w)
  BY <1>1, RollbackMeant DEF LInv
<1>2. CASE ~Rollback(w)
  <2>1. row' = row /\ draft' = draft /\ change' = change
    BY <1>2 DEF Settle
  <2>2. Meant(w)' /\ OneChange(w)'
    BY <2>1, MeantStays DEF MInv, OneChange
  <2> QED
    BY <2>1, <2>2, LocalMeant
<1> QED
  BY <1>1, <1>2

(* What is committed: one new income or expense, one rewritten, both legs  *)
(* of a new transfer, or both of one rewritten.                            *)
LEMMA CommitMeans ==
  ASSUME LInv, MInv, NEW w \in Worker, Commit(w)
  PROVE  \/ \E e \in Row : Recorded(w, e)
         \/ \E e \in Row : RewroteOne(w, e) /\ ~IsTransfer(row[e])
         \/ \E e, p \in Row : RecordedPair(w, e, p) \/ RewrotePair(w, e, p)
<1>1. Phase(w) /\ todo[w] = <<>> /\ Busy(w) /\ Meant(w)
  BY DEF LInv, MInv, Commit
<1>2. ~WroteOnly(w, {})
  BY <1>1 DEF Busy, WroteOnly
<1>3. ASSUME NEW e \in Row, RewroteOne(w, e) PROVE ~IsTransfer(row[e])
  <2>1. WroteOnly(w, {e}) /\ row[e] # NoEntry
    BY <1>3 DEF RewroteOne
  <2>2. ASSUME NEW f \in Row, HasSingle(w, f) PROVE ~IsTransfer(row[e])
    BY <2>1, <2>2 DEF HasSingle, WroteOnly, Succeeds
  <2>3. ASSUME NEW f \in Row, NEW p \in Row, HasPair(w, f, p) PROVE FALSE
    BY <2>1, <2>3 DEF HasPair, WroteOnly
  <2> QED
    BY <1>1, <2>2, <2>3, CommitPhase
<1> QED
  BY <1>1, <1>2, <1>3 DEF Meant

(* After a commit the request means nothing, the others what they meant.   *)
LEMMA CommitMeant ==
  ASSUME LInv, MInv, NEW w \in Worker, Commit(w) PROVE MInv'
<1>1. /\ TypeOK /\ LocksHold /\ row' = [e \in Row |-> Seen(w, e)]
      /\ change' = [change EXCEPT ![w] = NoChange]
      /\ draft' = [draft EXCEPT ![w] = NoRowWritten]
  BY DEF LInv, Commit
<1>2. /\ draft'[w] = NoRowWritten /\ change'[w] = NoChange
      /\ \A v \in Worker \ {w} : draft'[v] = draft[v] /\ change'[v] = change[v]
  BY <1>1 DEF TypeOK
<1>3. Meant(w)' /\ OneChange(w)'
  BY <1>2 DEF Meant, OneChange, NoChange, WroteOnly, Wrote, NoRowWritten
<1>4. ASSUME NEW v \in Worker \ {w} PROVE Meant(v)' /\ OneChange(v)'
  <2>1. Meant(v) /\ OneChange(v)
    BY DEF MInv
  <2>2. ASSUME NEW e \in Row, Wrote(v, e) PROVE row'[e] = row[e]
    BY <1>1, <2>2 DEF LocksHold, Seen
  <2>3. Meant(v)'
    BY <1>2, <2>1, <2>2, MeantStays
  <2> QED
    BY <1>2, <2>1, <2>3 DEF OneChange
<1>5. ASSUME NEW e \in Row, row'[e] # NoEntry, ~IsTransfer(row'[e])
      PROVE  row'[e].pair = NoRow
  <2>1. CASE row[e] # NoEntry
    BY <1>5, <2>1, RowsRemain DEF MInv, SinglesAlone
  <2>2. CASE row[e] = NoEntry
    <3>1. Wrote(w, e) /\ row'[e] = draft[w][e]
      BY <1>1, <1>5, <2>2 DEF Seen
    <3>2. ASSUME NEW f \in Row, Recorded(w, f) PROVE row'[e].pair = NoRow
      BY <3>1, <3>2 DEF Recorded, WroteOnly, SingleEntry
    <3>3. ASSUME NEW f \in Row, RewroteOne(w, f) PROVE FALSE
      BY <2>2, <3>1, <3>3 DEF RewroteOne, WroteOnly
    <3>4. ASSUME NEW f \in Row, NEW p \in Row, RecordedPair(w, f, p) PROVE FALSE
      BY <1>5, <3>1, <3>4 DEF RecordedPair, WroteOnly, Leg, IsTransfer
    <3>5. ASSUME NEW f \in Row, NEW p \in Row, RewrotePair(w, f, p) PROVE FALSE
      <4>1. row[p] # NoEntry /\ row[f] # NoEntry
        BY <3>5 DEF RewrotePair, LInv, PairsMirrored, IsTransfer
      <4> QED
        BY <2>2, <3>1, <3>5, <4>1 DEF RewrotePair, WroteOnly
    <3> QED
      BY <3>2, <3>3, <3>4, <3>5, CommitMeans
  <2> QED
    BY <2>1, <2>2
<1>6. SinglesAlone'
  BY <1>5 DEF SinglesAlone
<1> QED
  BY <1>3, <1>4, <1>6 DEF MInv

(* Whatever step is taken, every request means one change of the ledger.   *)
LEMMA NextMInv == LInv /\ MInv /\ [Next]_vars => MInv'
<1> SUFFICES ASSUME LInv, MInv, [Next]_vars PROVE MInv'
  OBVIOUS
<1>1. TypeOK
  BY DEF LInv
<1>2. ASSUME NEW w \in Worker, Request(w) PROVE MInv'
  BY <1>1, <1>2, CreateEntryMeant, CreateTransferMeant, BeginMeant DEF Request
<1>3. ASSUME NEW w \in Worker, Step(w) PROVE MInv'
  BY <1>3, UpdateMeant, SyncMeant, SettleMeant, CommitMeant DEF Step
<1>4. ASSUME NEW w \in Worker, Fail(w) \/ Victim(w) PROVE MInv'
  BY <1>1, <1>4, RollbackMeant DEF Fail, Victim
<1>5. CASE UNCHANGED vars
  <2>1. row' = row /\ draft' = draft /\ change' = change
    BY <1>5 DEF vars
  <2>2. ASSUME NEW v \in Worker PROVE Meant(v)' /\ OneChange(v)'
    BY <2>1, MeantStays DEF MInv, OneChange
  <2>3. SinglesAlone'
    BY <2>1 DEF MInv, SinglesAlone
  <2> QED
    BY <2>2, <2>3 DEF MInv
<1> QED
  BY <1>2, <1>3, <1>4, <1>5 DEF Next

(* The total of an account is the same in both ledgers.                    *)
LEMMA SameTotal == \A t, a : Atomic!Total(t, a) = Total(t, a)
  BY DEF Total, Atomic!Total, RowsOf, Atomic!RowsOf, Effect, Atomic!Effect,
         SumFunctionOnSet, Atomic!SumFunctionOnSet, FoldFunctionOnSet,
         Atomic!FoldFunctionOnSet, MapThenFoldSet, Atomic!MapThenFoldSet

(* A commit settles the balances of the atomic ledger.                     *)
LEMMA CommitSettles ==
  ASSUME NEW w \in Worker, Commit(w), TypeOK', BalanceIsSum' PROVE Atomic!Settle
<1>1. opening' = opening /\ balance' \in [Account -> Balance]
  BY DEF Commit, TypeOK
<1>2. \A a \in Account : balance'[a] = opening[a] + Total(row', a)
  BY <1>1 DEF BalanceIsSum
<1>3. balance' = [a \in Account |-> opening[a] + Total(row', a)]
  BY <1>1, <1>2
<1> QED
  BY <1>1, <1>3, SameTotal DEF Atomic!Settle

(* A rewritten row, with its pair if it has one, is what Replace makes.    *)
LEMMA RewriteIsReplace ==
  ASSUME NEW e \in Row, row[e] # NoEntry, NEW x, Rewritten(row[e], x),
         Atomic!Replace(e, x), Atomic!Settle
  PROVE  Atomic!Next
<1>1. CASE Amended(row[e], x)
  <2>1. PICK amount \in Amount, type \in Type :
          /\ x = [row[e] EXCEPT !.amount = amount, !.type = type]
          /\ SignAllowed(x)
          /\ (type = "transfer") = (row[e].type = "transfer")
    BY <1>1 DEF Amended
  <2>2. Atomic!SignAllowed(x)
    BY <2>1 DEF SignAllowed, Atomic!SignAllowed
  <2>3. amount \in Atomic!Amount /\ type \in Atomic!Type
    BY DEF Amount, Atomic!Amount, Type, Atomic!Type
  <2>4. Atomic!Amend(e)
    BY <2>1, <2>2, <2>3 DEF Atomic!Amend
  <2> QED
    BY <2>4 DEF Atomic!Next
<1>2. CASE x = [row[e] EXCEPT !.deleted = TRUE]
  <2>1. Atomic!Delete(e)
    BY <1>2 DEF Atomic!Delete
  <2> QED
    BY <2>1 DEF Atomic!Next
<1> QED
  BY <1>1, <1>2 DEF Rewritten

(* Every commit is a step of the atomic ledger.                            *)
LEMMA CommitIsAtomic ==
  ASSUME LInv, MInv, NEW w \in Worker, Commit(w), TypeOK', BalanceIsSum'
  PROVE  Atomic!Next
<1>1. /\ TypeOK /\ PairsMirrored /\ row' = [e \in Row |-> Seen(w, e)]
  BY DEF LInv, Commit
<1>2. Atomic!Settle
  BY CommitSettles
<1>3. ASSUME NEW e \in Row, Recorded(w, e) PROVE Atomic!Next
  <2>1. PICK a \in Account, type \in {"income", "expense"}, m \in Magnitude :
          draft[w][e] = SingleEntry(a, type, m)
    BY <1>3 DEF Recorded
  <2>2. row' = [row EXCEPT ![e] = draft[w][e]] /\ row[e] = NoEntry
    BY <1>1, <1>3 DEF Recorded, WroteOnly, Seen, TypeOK
  <2>3. row' = [row EXCEPT ![e] = Atomic!SingleEntry(a, type, m)]
    BY <2>1, <2>2 DEF SingleEntry, Atomic!SingleEntry, Signed, Atomic!Signed
  <2>4. Atomic!RecordEntry(e)
    BY <1>2, <2>2, <2>3 DEF Atomic!RecordEntry
  <2> QED
    BY <2>4 DEF Atomic!Next
<1>4. ASSUME NEW o \in Row, NEW d \in Row, RecordedPair(w, o, d) PROVE Atomic!Next
  <2>1. PICK a \in Account, b \in Account, m \in Magnitude :
          a # b /\ draft[w][o] = Leg(a, -m, d) /\ draft[w][d] = Leg(b, m, o)
    BY <1>4 DEF RecordedPair
  <2>2. /\ o # d /\ row[o] = NoEntry /\ row[d] = NoEntry
        /\ row' = [row EXCEPT ![o] = draft[w][o], ![d] = draft[w][d]]
    BY <1>1, <1>4 DEF RecordedPair, WroteOnly, Seen, TypeOK
  <2>3. row' = [row EXCEPT ![o] = Atomic!Leg(a, -m, d), ![d] = Atomic!Leg(b, m, o)]
    BY <2>1, <2>2 DEF Leg, Atomic!Leg
  <2>4. Atomic!RecordTransfer(o, d)
    BY <1>2, <2>1, <2>2, <2>3 DEF Atomic!RecordTransfer
  <2> QED
    BY <2>4 DEF Atomic!Next
<1>5. ASSUME NEW e \in Row, RewroteOne(w, e), ~IsTransfer(row[e]) PROVE Atomic!Next
  <2>1. /\ WroteOnly(w, {e}) /\ row[e] # NoEntry /\ Rewritten(row[e], draft[w][e])
        /\ row[e].pair = NoRow
    BY <1>5 DEF RewroteOne, MInv, SinglesAlone
  <2>2. Atomic!Replace(e, draft[w][e])
    BY <1>1, <2>1 DEF Atomic!Replace, WroteOnly, Seen
  <2> QED
    BY <1>2, <2>1, <2>2, RewriteIsReplace
<1>6. ASSUME NEW e \in Row, NEW p \in Row, RewrotePair(w, e, p) PROVE Atomic!Next
  <2>1. /\ e # p /\ WroteOnly(w, {e, p}) /\ row[e] # NoEntry /\ row[e].pair = p
        /\ Rewritten(row[e], draft[w][e])
        /\ draft[w][p] = Mirrored(row[p], draft[w][e])
    BY <1>6 DEF RewrotePair
  <2>2. draft[w][p] = Atomic!Mirrored(row[p], draft[w][e])
    BY <2>1 DEF Mirrored, Atomic!Mirrored
  <2>3. Atomic!Replace(e, draft[w][e])
    BY <1>1, <2>1, <2>2 DEF Atomic!Replace, WroteOnly, Seen
  <2> QED
    BY <1>2, <2>1, <2>3, RewriteIsReplace
<1> QED
  BY <1>3, <1>4, <1>5, <1>6, CommitMeans

(***************************************************************************)
(* The statements and triggers of a request, whatever comes between them,  *)
(* are one step of the ledger in which every change is atomic.             *)
(***************************************************************************)
THEOREM LedgerIsAtomic == Spec => IsAtomic
<1>1. Init => MInv
  <2> SUFFICES ASSUME Init PROVE MInv
    OBVIOUS
  <2>1. SinglesAlone
    BY DEF Init, SinglesAlone
  <2>2. ASSUME NEW w \in Worker PROVE Meant(w) /\ OneChange(w)
    BY DEF Init, Meant, OneChange, NoChange, WroteOnly, Wrote, NoRowWritten
  <2> QED
    BY <2>1, <2>2 DEF MInv
<1>2. Spec => []MInv
  BY <1>1, NextMInv, LInvHolds, PTL DEF Spec
<1>3. Init => Atomic!Init
  BY DEF Init, Atomic!Init
<1>4. LInv /\ MInv /\ LInv' /\ BalanceIsSum' /\ [Next]_vars
        => [Atomic!Next]_<<opening, row, balance>>
  <2> SUFFICES ASSUME LInv, MInv, LInv', BalanceIsSum', [Next]_vars,
                      \A w \in Worker : ~Commit(w)
               PROVE  UNCHANGED <<opening, row, balance>>
    BY CommitIsAtomic DEF LInv
  <2> QED
    BY OthersCommitNothing
<1> QED
  BY <1>2, <1>3, <1>4, LInvHolds, BalancesAreSums, PTL DEF Spec, IsAtomic, Atomic!Spec

=============================================================================
