--------------------------- MODULE Budgets_proofs ---------------------------
(***************************************************************************)
(* Proofs about the periods of a budget, for any calendar, amounts, rows   *)
(* and workers.                                                            *)
(***************************************************************************)
EXTENDS Budgets, TLAPS

(* What w will leave of row q if it commits now. *)
View(w, q) == IF Touched(w, q) THEN draft[w][q] ELSE period[q]

(* A version that is written fits in with the rows its request leaves, and *)
(* with the versions others write; nobody else has written that row.       *)
Clear ==
  \A w \in Worker : \A r \in Row : Touched(w, r) =>
    /\ \A q \in Row \ {r} : Disjoint(draft[w][r], View(w, q))
    /\ \A v \in Worker \ {w} : /\ ~Touched(v, r)
                               /\ \A q \in Row : Disjoint(draft[w][r], draft[v][q])

(* How far a request is and what it may have written. *)
Shape ==
  \A w \in Worker :
    /\ pc[w] # "idle" => want[w] \in [since : Days, amount : Amount \cup {0}]
    /\ pc[w] \in {"idle", "checked", "update"} => \A r \in Row : ~Touched(w, r)
    /\ pc[w] = "update" => seen[w] \in Row /\ period[seen[w]] # NoPeriod
                           /\ MayFollow(w, seen[w])
    /\ pc[w] = "insert" => want[w].amount # 0

(* What a request writes: a row of its own, or a change of one that is     *)
(* there; an open one, unless others committed meanwhile.                  *)
Change(w, r) ==
  /\ \/ period[r] = NoPeriod /\ want[w].amount # 0 /\ draft[w][r] = Opened(w)
     \/ period[r] # NoPeriod /\ draft[w][r] = Updated(w, r) /\ MayFollow(w, r)
  /\ period[r].to \notin Days \/ raced[w]

Kept ==
  \A w \in Worker :
    /\ \A r \in Row : Touched(w, r) => Change(w, r)
    /\ pc[w] = "update" => period[seen[w]].to = Forever \/ raced[w]

(* What a request that is ready has written: the row that holds, or the    *)
(* one that ends.                                                          *)
Ready ==
  \A w \in Worker : pc[w] = "done" => \E r \in Row :
    /\ Touched(w, r)
    /\ IF want[w].amount = 0 THEN period[r] # NoPeriod
       ELSE draft[w][r].from = want[w].since /\ draft[w][r].amount = want[w].amount

Inv == TypeOK /\ NoOverlap /\ Clear /\ Shape /\ Kept /\ Ready

USE BudgetsAssumption

-----------------------------------------------------------------------------
(* Periods and the absence of one, as the provers need them. *)
LEMMA Facts ==
  /\ NoPeriod \notin Period /\ Forever \in Nat /\ Forever \notin Days
  /\ \A p \in Period : /\ p.from \in Days /\ p.to \in 2..Forever /\ p.amount \in Amount
                       /\ p.from < p.to /\ p # NoPeriod
  /\ NoPeriod.from = 0 /\ NoPeriod.to = 0
  /\ \A p, q \in Period \cup {NoPeriod} : Disjoint(p, q) <=> Disjoint(q, p)
  /\ \A p \in Period \cup {NoPeriod} : Disjoint(p, NoPeriod) /\ Disjoint(NoPeriod, p)
BY DEF Period, NoPeriod, Days, Forever, Disjoint

(* At first there is nothing. *)
LEMMA InitInv == Init => Inv
<1> SUFFICES ASSUME Init PROVE Inv
  OBVIOUS
<1>1. TypeOK
  BY DEF Init, TypeOK, Untouched, Days
<1>2. NoOverlap
  BY DEF Init, NoOverlap, Untouched, Disjoint, NoPeriod
<1>3. Clear /\ Shape /\ Kept /\ Ready
  BY DEF Init, Clear, Shape, Kept, Ready, Untouched, Touched
<1> QED BY <1>1, <1>2, <1>3 DEF Inv

(* A request that is rolled back takes its versions with it. *)
LEMMA RollbackInv == ASSUME NEW w \in Worker, Inv, Rollback(w) PROVE Inv'
<1> USE DEF Inv, Rollback, End
<1>1. TypeOK'
  BY DEF TypeOK, Untouched
<1>2. NoOverlap'
  BY DEF NoOverlap
<1>3. \A v \in Worker \ {w} : /\ draft'[v] = draft[v] /\ want'[v] = want[v]
                              /\ pc'[v] = pc[v] /\ seen'[v] = seen[v]
                              /\ raced'[v] = raced[v]
  BY DEF TypeOK
<1>4. draft'[w] = Untouched /\ pc'[w] = "idle"
  BY DEF TypeOK
<1>5. \A r \in Row : ~Touched(w, r)'
  BY <1>4 DEF Touched, Untouched
<1>6. Clear'
  BY <1>3, <1>4, <1>5, Facts DEF Clear, Touched, View, Untouched, TypeOK
<1>7. Shape'
  BY <1>3, <1>4, <1>5 DEF Shape, Touched, MayFollow
<1>8. Kept'
  BY <1>3, <1>4, <1>5 DEF Kept, Touched, Change, Opened, Updated, MayFollow
<1>9. Ready'
  BY <1>3, <1>4 DEF Ready, Touched
<1> QED BY <1>1, <1>2, <1>6, <1>7, <1>8, <1>9

(* A request that begins, or reads, has written nothing. *)
LEMMA StartInv ==
  ASSUME NEW w \in Worker, Inv, Set(w) \/ Delete(w) PROVE Inv'
<1> USE DEF Inv, Set, Delete
<1>1. TypeOK'
  <2>1. PICK n \in [since : Days, amount : Amount \cup {0}] : want' = [want EXCEPT ![w] = n]
    <3>1. CASE Set(w)
      <4>1. PICK d \in Days, a \in Amount :
               want' = [want EXCEPT ![w] = [since |-> d, amount |-> a]]
        BY <3>1
      <4> QED BY <4>1
    <3>2. CASE Delete(w)
      BY <3>2 DEF TypeOK
    <3> QED BY <3>1, <3>2
  <2> QED BY <2>1 DEF TypeOK
<1>2. \A v \in Worker \ {w} : want'[v] = want[v] /\ pc'[v] = pc[v]
  BY DEF TypeOK
<1>3. pc'[w] = "checked" /\ want'[w] \in [since : Days, amount : Amount \cup {0}]
  BY DEF TypeOK
<1>4. \A r \in Row : ~Touched(w, r)
  BY DEF Shape
<1>5. NoOverlap' /\ Clear'
  BY DEF NoOverlap, Clear, Touched, View
<1>6. Shape'
  BY <1>2, <1>3, <1>4 DEF Shape, Touched, MayFollow
<1>7. Kept'
  BY <1>2, <1>3, <1>4 DEF Kept, Touched, Change, Opened, Updated, MayFollow
<1>8. Ready'
  BY <1>2, <1>3 DEF Ready, Touched
<1> QED BY <1>1, <1>5, <1>6, <1>7, <1>8

LEMMA LookInv == ASSUME NEW w \in Worker, Inv, Look(w) PROVE Inv'
<1> USE DEF Inv, Look, Read
<1>1. TypeOK'
  BY DEF TypeOK, OpenRows
<1>2. \A v \in Worker \ {w} : seen'[v] = seen[v] /\ pc'[v] = pc[v] /\ raced'[v] = raced[v]
  BY DEF TypeOK
<1>3. \A r \in Row : ~Touched(w, r)
  BY DEF Shape
<1>4. \/ pc'[w] = "insert" /\ want[w].amount # 0
      \/ pc'[w] = "update" /\ seen'[w] \in OpenRows /\ MayFollow(w, seen'[w])
  BY DEF TypeOK
<1>5. \A r \in OpenRows : r \in Row /\ period[r].to = Forever /\ period[r] # NoPeriod
  BY Facts DEF OpenRows, Forever
<1>6. NoOverlap' /\ Clear'
  BY DEF NoOverlap, Clear, Touched, View
<1>7. Shape'
  BY <1>2, <1>3, <1>4, <1>5 DEF Shape, Touched, MayFollow
<1>8. Kept'
  BY <1>2, <1>3, <1>4, <1>5 DEF Kept, Touched, Change, Opened, Updated, MayFollow
<1>9. Ready'
  BY <1>2, <1>4 DEF Ready, Touched
<1> QED BY <1>1, <1>6, <1>7, <1>8, <1>9

-----------------------------------------------------------------------------
(* Writing *)

(* A version that changes nothing of the calendar, or that the constraint  *)
(* has let pass, fits in.                                                  *)
LEMMA WriteInv ==
  ASSUME NEW w \in Worker, NEW r \in Row, NEW p \in Period, NEW next \in {"insert", "done"},
         Inv, pc[w] \in {"update", "insert"}, Written(w, r, p, next),
         next = "insert" => want[w].amount # 0,
         \A v \in Worker : ~Touched(v, r),
         \A q \in Row \ {r} : Disjoint(p, View(w, q)),
         \A v \in Worker \ {w} : \A q \in Row : Disjoint(p, draft[v][q]),
         \/ period[r] = NoPeriod /\ want[w].amount # 0 /\ p = Opened(w)
         \/ period[r] # NoPeriod /\ p = Updated(w, r) /\ MayFollow(w, r),
         period[r].to \notin Days \/ raced[w],
         next = "done" => IF want[w].amount = 0 THEN period[r] # NoPeriod
                          ELSE p.from = want[w].since /\ p.amount = want[w].amount
  PROVE  Inv'
<1> USE DEF Inv, Written
<1>1. TypeOK'
  BY DEF TypeOK
<1>2. /\ \A v \in Worker \ {w} : draft'[v] = draft[v] /\ pc'[v] = pc[v]
      /\ \A q \in Row \ {r} : draft'[w][q] = draft[w][q]
      /\ draft'[w][r] = p /\ pc'[w] = next
  BY DEF TypeOK
<1>3. /\ \A v \in Worker \ {w} : \A q \in Row : /\ Touched(v, q)' <=> Touched(v, q)
                                                /\ View(v, q)' = View(v, q)
      /\ \A q \in Row \ {r} : /\ Touched(w, q)' <=> Touched(w, q)
                              /\ View(w, q)' = View(w, q)
      /\ Touched(w, r)' /\ View(w, r)' = p
  BY <1>2, Facts DEF Touched, View
<1>4. NoOverlap'
  BY DEF NoOverlap
<1>5. /\ \A v \in Worker : \A q \in Row : draft[v][q] \in Period \cup {NoPeriod}
      /\ \A v \in Worker : \A q \in Row : View(v, q) \in Period \cup {NoPeriod}
  BY DEF TypeOK, View
<1>6. Clear'
  <2> SUFFICES ASSUME NEW u \in Worker, NEW s \in Row, Touched(u, s)'
               PROVE  /\ \A q \in Row \ {s} : Disjoint(draft[u][s], View(u, q))'
                      /\ \A v \in Worker \ {u} :
                           /\ ~Touched(v, s)'
                           /\ \A q \in Row : Disjoint(draft[u][s], draft[v][q])'
    BY DEF Clear
  <2>1. CASE u = w /\ s = r
    <3>1. \A q \in Row \ {r} : Disjoint(draft[w][r], View(w, q))'
      BY <1>2, <1>3 DEF Disjoint
    <3>2. \A v \in Worker \ {w} : \A q \in Row : Disjoint(draft[w][r], draft[v][q])'
      BY <1>2 DEF Disjoint
    <3> QED BY <2>1, <3>1, <3>2, <1>3
  <2>2. CASE u = w /\ s # r
    <3>1. Touched(w, s)
      BY <2>2, <1>3
    <3>2. \A q \in Row \ {s, r} : Disjoint(draft[w][s], View(w, q))'
      BY <2>2, <3>1, <1>2, <1>3 DEF Clear, Disjoint
    <3>3. Disjoint(p, draft[w][s])
      BY <2>2, <3>1 DEF View
    <3>4. Disjoint(draft[w][s], View(w, r))'
      BY <2>2, <3>3, <1>2, <1>3, <1>5, Facts DEF Disjoint
    <3>5. \A v \in Worker \ {w} :
            /\ ~Touched(v, s)'
            /\ \A q \in Row : Disjoint(draft[w][s], draft[v][q])'
      BY <2>2, <3>1, <1>2, <1>3 DEF Clear, Disjoint
    <3> QED BY <2>2, <3>2, <3>4, <3>5
  <2>3. CASE u # w
    <3>1. Touched(u, s) /\ s # r
      BY <2>3, <1>3
    <3>2. \A q \in Row \ {s} : Disjoint(draft[u][s], View(u, q))'
      BY <2>3, <3>1, <1>2, <1>3 DEF Clear, Disjoint
    <3>3. \A v \in Worker \ {u} : ~Touched(v, s)'
      BY <2>3, <3>1, <1>3 DEF Clear
    <3>4. \A v \in Worker \ {u} : \A q \in Row : ~(v = w /\ q = r)
             => Disjoint(draft[u][s], draft[v][q])'
      BY <2>3, <3>1, <1>2 DEF Clear, Disjoint
    <3>5. Disjoint(draft[u][s], p)
      BY <2>3, <1>5, Facts
    <3>6. Disjoint(draft[u][s], draft[w][r])'
      BY <2>3, <3>5, <1>2 DEF Disjoint
    <3> QED BY <3>2, <3>3, <3>4, <3>6
  <2> QED BY <2>1, <2>2, <2>3
<1>7. Shape'
  BY <1>2, <1>3 DEF Shape, MayFollow
<1>8. Kept'
  <2>1. \A v \in Worker : \A q \in Row : Touched(v, q)' => Change(v, q)'
    BY <1>2, <1>3 DEF Kept, Change, Opened, Updated, MayFollow
  <2> QED BY <2>1, <1>2 DEF Kept
<1>9. Ready'
  BY <1>2, <1>3 DEF Ready
<1> QED BY <1>1, <1>4, <1>6, <1>7, <1>8, <1>9

(* What the answer "ok" of the constraint says. *)
LEMMA ExcludedOk ==
  ASSUME NEW w \in Worker, NEW r \in Row \cup {0}, NEW p, Excluded(w, r, p) = "ok"
  PROVE  /\ \A q \in Row \ {r} : Disjoint(p, View(w, q))
         /\ \A v \in Worker \ {w} : \A q \in Row : Touched(v, q) => Disjoint(p, draft[v][q])
BY DEF Excluded, View

(* An update: of the amount, which moves nothing, or of the last day. *)
LEMMA UpdateInv == ASSUME NEW w \in Worker, Inv, Update(w) PROVE Inv'
<1> DEFINE r == seen[w]
           p == Updated(w, r)
<1>1. /\ r \in Row /\ period[r] # NoPeriod /\ MayFollow(w, r)
      /\ \A q \in Row : ~Touched(w, q)
      /\ want[w].since \in Days /\ want[w].amount \in Amount \cup {0}
      /\ period[r].to = Forever \/ raced[w]
  BY DEF Inv, Shape, Kept, Update
<1>2. period[r] \in Period
  BY <1>1 DEF Inv, TypeOK
<1>3. want[w].since >= period[r].from /\ (Closes(w) => want[w].since > period[r].from)
  BY <1>1, <1>2, Facts DEF MayFollow, Closes, Days
<1>4. ~Closes(w) => want[w].amount # 0
  BY <1>1, <1>2, Facts DEF MayFollow, Closes, Days
<1>5. /\ p \in Period /\ p.from = period[r].from
      /\ Closes(w) => p.to = want[w].since
      /\ ~Closes(w) => p.to = period[r].to /\ p.amount = want[w].amount
  <2>1. CASE Closes(w)
    BY <2>1, <1>1, <1>2, <1>3 DEF Closes, Updated, Period, Days, Forever
  <2>2. CASE ~Closes(w)
    BY <2>2, <1>1, <1>2, <1>4 DEF Closes, Updated, Period
  <2> QED BY <2>1, <2>2
<1>6. \A v \in Worker : ~Touched(v, r)
  BY <1>1 DEF Update
<1>7. \A q \in Row \ {r} : Disjoint(p, View(w, q))
  <2>1. CASE Closes(w)
    BY <2>1, <1>1, ExcludedOk DEF Update
  <2>2. CASE ~Closes(w)
    <3>1. \A q \in Row \ {r} : Disjoint(period[r], period[q])
      BY <1>1 DEF Inv, NoOverlap
    <3> QED BY <2>2, <3>1, <1>1, <1>5 DEF View, Disjoint
  <2> QED BY <2>1, <2>2
<1>8. \A v \in Worker \ {w} : \A q \in Row : Disjoint(p, draft[v][q])
  <2> SUFFICES ASSUME NEW v \in Worker \ {w}, NEW q \in Row PROVE Disjoint(p, draft[v][q])
    OBVIOUS
  <2>1. CASE ~Touched(v, q)
    BY <2>1, <1>5, Facts DEF Touched
  <2>2. CASE Touched(v, q) /\ Closes(w)
    BY <2>2, <1>1, ExcludedOk DEF Update
  <2>3. CASE Touched(v, q) /\ ~Closes(w)
    <3>1. q # r /\ View(v, r) = period[r]
      BY <2>3, <1>6 DEF View
    <3>2. Disjoint(draft[v][q], period[r])
      BY <2>3, <3>1, <1>1 DEF Inv, Clear
    <3>3. draft[v][q] \in Period \cup {NoPeriod}
      BY DEF Inv, TypeOK
    <3>4. Disjoint(period[r], draft[v][q])
      BY <3>2, <3>3, <1>2, Facts
    <3> QED BY <2>3, <3>4, <1>5 DEF Disjoint
  <2> QED BY <2>1, <2>2, <2>3
<1>9. period[r].to \notin Days \/ raced[w]
  BY <1>1, Facts
<1>10. PICK next \in {"insert", "done"} :
          /\ Written(w, r, p, next)
          /\ next = IF Closes(w) /\ want[w].amount # 0 THEN "insert" ELSE "done"
  BY DEF Update
<1>11. next = "done" => IF want[w].amount = 0 THEN period[r] # NoPeriod
                        ELSE p.from = want[w].since /\ p.amount = want[w].amount
  BY <1>1, <1>5, <1>10 DEF Closes
<1>12. pc[w] = "update"
  BY DEF Update
<1> HIDE DEF r, p
<1> QED BY <1>1, <1>5, <1>6, <1>7, <1>8, <1>9, <1>10, <1>11, <1>12, WriteInv DEF p

(* An insertion. *)
LEMMA InsertInv == ASSUME NEW w \in Worker, Inv, Insert(w) PROVE Inv'
<1> DEFINE p == Opened(w)
<1>1. PICK r \in Row : Free(r) /\ Written(w, r, p, "done")
  BY DEF Insert
<1>2. /\ pc[w] = "insert" /\ want[w].since \in Days /\ want[w].amount \in Amount
      /\ want[w].amount # 0
  BY DEF Inv, Shape, Insert
<1>3. p \in Period /\ p.from = want[w].since /\ p.amount = want[w].amount
  BY <1>2 DEF Opened, Period, Days, Forever
<1>4. /\ \A q \in Row : Disjoint(p, View(w, q))
      /\ \A v \in Worker \ {w} : \A q \in Row : Touched(v, q) => Disjoint(p, draft[v][q])
  BY ExcludedOk DEF Insert, Row
<1>5. \A v \in Worker \ {w} : \A q \in Row : Disjoint(p, draft[v][q])
  BY <1>3, <1>4, Facts DEF Touched
<1>6. period[r] = NoPeriod /\ \A v \in Worker : ~Touched(v, r)
  BY <1>1 DEF Free
<1>7. period[r].to \notin Days
  BY <1>6, Facts DEF Days
<1> HIDE DEF p
<1> QED BY <1>1, <1>2, <1>3, <1>4, <1>5, <1>6, <1>7, WriteInv DEF p

-----------------------------------------------------------------------------
(* Committing *)
LEMMA CommitInv == ASSUME NEW w \in Worker, Inv, Commit(w) PROVE Inv'
<1>1. /\ \A q \in Row : period'[q] = View(w, q)
      /\ \A v \in Worker \ {w} : /\ draft'[v] = draft[v] /\ want'[v] = want[v]
                                 /\ pc'[v] = pc[v] /\ seen'[v] = seen[v]
                                 /\ pc[v] # "idle" => raced'[v]
      /\ draft'[w] = Untouched /\ pc'[w] = "idle"
  BY DEF Inv, TypeOK, Commit, End, View
<1>2. TypeOK'
  BY DEF Inv, TypeOK, Commit, End, Untouched
<1>3. \A q \in Row : ~Touched(w, q)'
  BY <1>1 DEF Touched, Untouched
<1>4. \A v \in Worker \ {w} : \A q \in Row : Touched(v, q)' <=> Touched(v, q)
  BY <1>1 DEF Touched
<1>5. \A v \in Worker : \A q \in Row : /\ draft[v][q] \in Period \cup {NoPeriod}
                                       /\ View(v, q) \in Period \cup {NoPeriod}
  BY DEF Inv, TypeOK, View
<1>6. NoOverlap'
  <2> SUFFICES ASSUME NEW q \in Row, NEW r \in Row, q # r
               PROVE  Disjoint(View(w, q), View(w, r))
    BY <1>1 DEF NoOverlap
  <2>1. CASE Touched(w, q)
    BY <2>1 DEF Inv, Clear, View
  <2>2. CASE Touched(w, r)
    <3>1. Disjoint(View(w, r), View(w, q))
      BY <2>2 DEF Inv, Clear, View
    <3> QED BY <3>1, <1>5, Facts
  <2>3. CASE ~Touched(w, q) /\ ~Touched(w, r)
    BY <2>3 DEF Inv, NoOverlap, View
  <2> QED BY <2>1, <2>2, <2>3
<1>7. Clear'
  <2> SUFFICES ASSUME NEW u \in Worker, NEW s \in Row, Touched(u, s)'
               PROVE  /\ \A q \in Row \ {s} : Disjoint(draft[u][s], View(u, q))'
                      /\ \A v \in Worker \ {u} :
                           /\ ~Touched(v, s)'
                           /\ \A q \in Row : Disjoint(draft[u][s], draft[v][q])'
    BY DEF Clear
  <2>1. u # w /\ Touched(u, s) /\ draft'[u][s] = draft[u][s] /\ draft[u][s] \in Period
    BY <1>1, <1>3, <1>4, <1>5 DEF Touched
  <2>2. ASSUME NEW q \in Row \ {s} PROVE Disjoint(draft[u][s], View(u, q))'
    <3>1. CASE Touched(u, q)
      <4>1. Disjoint(draft[u][s], draft[u][q])
        BY <2>1, <3>1 DEF Inv, Clear, View
      <4>2. View(u, q)' = draft[u][q]
        BY <2>1, <3>1, <1>1, <1>4 DEF View
      <4> QED BY <4>1, <4>2, <2>1 DEF Disjoint
    <3>2. CASE ~Touched(u, q) /\ Touched(w, q)
      <4>1. Disjoint(draft[u][s], draft[w][q])
        BY <2>1 DEF Inv, Clear
      <4>2. View(u, q)' = draft[w][q]
        BY <2>1, <3>2, <1>1, <1>4 DEF View
      <4> QED BY <4>1, <4>2, <2>1 DEF Disjoint
    <3>3. CASE ~Touched(u, q) /\ ~Touched(w, q)
      <4>1. Disjoint(draft[u][s], period[q])
        BY <2>1, <3>3 DEF Inv, Clear, View
      <4>2. View(u, q)' = period[q]
        BY <2>1, <3>3, <1>1, <1>4 DEF View
      <4> QED BY <4>1, <4>2, <2>1 DEF Disjoint
    <3> QED BY <3>1, <3>2, <3>3
  <2>3. ASSUME NEW v \in Worker \ {u} PROVE ~Touched(v, s)'
    BY <2>1, <1>3, <1>4 DEF Inv, Clear
  <2>4. ASSUME NEW v \in Worker \ {u}, NEW q \in Row
        PROVE Disjoint(draft[u][s], draft[v][q])'
    <3>1. CASE v = w
      <4>1. draft'[w][q] = NoPeriod
        BY <1>1 DEF Untouched
      <4>2. Disjoint(draft[u][s], NoPeriod)
        BY <2>1, Facts
      <4> QED BY <3>1, <4>1, <4>2, <2>1 DEF Disjoint
    <3>2. CASE v # w
      <4>1. Disjoint(draft[u][s], draft[v][q])
        BY <2>1 DEF Inv, Clear
      <4> QED BY <3>2, <4>1, <2>1, <1>1 DEF Disjoint
    <3> QED BY <3>1, <3>2
  <2> QED BY <2>2, <2>3, <2>4
<1>8. \A q \in Row : period[q] # NoPeriod =>
         /\ period'[q] # NoPeriod /\ period'[q].from = period[q].from
  <2> SUFFICES ASSUME NEW q \in Row, period[q] # NoPeriod
               PROVE  View(w, q) # NoPeriod /\ View(w, q).from = period[q].from
    BY <1>1
  <2>1. CASE Touched(w, q)
    <3>1. draft[w][q] = Updated(w, q) /\ draft[w][q] # NoPeriod
      BY <2>1 DEF Inv, Kept, Change, Touched
    <3>2. Updated(w, q).from = period[q].from
      BY DEF Inv, TypeOK, Updated, Period
    <3> QED BY <2>1, <3>1, <3>2 DEF View
  <2>2. CASE ~Touched(w, q)
    BY <2>2 DEF View
  <2> QED BY <2>1, <2>2
<1>9. Shape'
  BY <1>1, <1>3, <1>4, <1>8 DEF Inv, Shape, MayFollow
<1>10. Kept'
  <2>1. ASSUME NEW v \in Worker, NEW q \in Row, Touched(v, q)' PROVE Change(v, q)'
    <3>1. v # w /\ Touched(v, q)
      BY <2>1, <1>3, <1>4
    <3>2. ~Touched(w, q) /\ period'[q] = period[q]
      BY <3>1, <1>1 DEF Inv, Clear, View
    <3>3. pc[v] # "idle" /\ raced'[v]
      BY <3>1, <1>1 DEF Inv, Shape
    <3> QED BY <3>1, <3>2, <3>3, <1>1 DEF Inv, Kept, Change, Opened, Updated, MayFollow
  <2> QED BY <2>1, <1>1 DEF Kept
<1>11. Ready'
  <2> SUFFICES ASSUME NEW v \in Worker, pc'[v] = "done"
               PROVE  \E r \in Row :
                        /\ Touched(v, r)'
                        /\ IF want'[v].amount = 0 THEN period'[r] # NoPeriod
                           ELSE /\ draft'[v][r].from = want'[v].since
                                /\ draft'[v][r].amount = want'[v].amount
    BY DEF Ready
  <2>1. v # w /\ pc[v] = "done"
    BY <1>1
  <2>2. PICK r \in Row :
          /\ Touched(v, r)
          /\ IF want[v].amount = 0 THEN period[r] # NoPeriod
             ELSE draft[v][r].from = want[v].since /\ draft[v][r].amount = want[v].amount
    BY <2>1 DEF Inv, Ready
  <2> QED BY <2>1, <2>2, <1>1, <1>4, <1>8
<1> QED BY <1>2, <1>6, <1>7, <1>9, <1>10, <1>11 DEF Inv

-----------------------------------------------------------------------------
LEMMA NextInv == ASSUME Inv, [Next]_vars PROVE Inv'
<1>1. ASSUME UNCHANGED <<period, request>>, active' \in BOOLEAN, today' \in Days PROVE Inv'
  <2> USE <1>1 DEF request, Inv
  <2>1. TypeOK' /\ NoOverlap'
    BY DEF TypeOK, NoOverlap
  <2>2. Clear'
    BY DEF Clear, View, Touched
  <2>3. Shape'
    BY DEF Shape, Touched, MayFollow
  <2>4. Kept'
    BY DEF Kept, Touched, Change, Opened, Updated, MayFollow
  <2>5. Ready'
    BY DEF Ready, Touched
  <2> QED BY <2>1, <2>2, <2>3, <2>4, <2>5
<1>2. CASE UNCHANGED vars
  BY <1>1, <1>2 DEF vars, Inv, TypeOK
<1>3. CASE NextDay \/ ArchiveOrReactivate
  <2>1. active \in BOOLEAN /\ today \in Days
    BY DEF Inv, TypeOK
  <2>2. CASE NextDay
    BY <1>1, <2>1, <2>2 DEF NextDay, Days
  <2>3. CASE ArchiveOrReactivate
    <3>1. active' \in BOOLEAN
      BY <2>3 DEF ArchiveOrReactivate
    <3>2. UNCHANGED <<period, request>> /\ today' \in Days
      BY <2>1, <2>3 DEF ArchiveOrReactivate
    <3> QED BY <1>1, <3>1, <3>2
  <2> QED BY <1>3, <2>2, <2>3
<1>4. ASSUME NEW w \in Worker, Step(w) PROVE Inv'
  <2>1. CASE Set(w) \/ Delete(w)
    BY <2>1, StartInv
  <2>2. CASE Look(w)
    BY <2>2, LookInv
  <2>3. CASE Refuse(w) \/ Overlap(w) \/ Fail(w)
    BY <2>3, RollbackInv DEF Refuse, Overlap, Fail
  <2>4. CASE Update(w)
    BY <2>4, UpdateInv
  <2>5. CASE Insert(w)
    BY <2>5, InsertInv
  <2>6. CASE Commit(w)
    BY <2>6, CommitInv
  <2> QED BY <1>4, <2>1, <2>2, <2>3, <2>4, <2>5, <2>6 DEF Step
<1> QED BY <1>2, <1>3, <1>4 DEF Next

LEMMA AlwaysInv == Spec => []Inv
BY InitInv, NextInv, PTL DEF Spec

(* Rows, requests and the versions they write keep their types; no period  *)
(* is ever empty.                                                          *)
THEOREM TypeCorrect == Spec => []TypeOK
<1>1. Inv => TypeOK
  BY DEF Inv
<1> QED BY <1>1, AlwaysInv, PTL

(* No day has two budgets. *)
THEOREM PeriodsDisjoint == Spec => []NoOverlap
<1>1. Inv => NoOverlap
  BY DEF Inv
<1> QED BY <1>1, AlwaysInv, PTL

-----------------------------------------------------------------------------
(* Steps that are not commits leave the periods alone. *)
LEMMA OnlyCommits ==
  ASSUME [Next]_vars, \A w \in Worker : ~Commit(w) PROVE UNCHANGED period
BY DEF Next, Step, vars, request, NextDay, ArchiveOrReactivate, Set, Delete, Look, Read,
       Refuse, Update, Insert, Overlap, Fail, Rollback, End, Written

(* A closed period is touched only by a request that was overtaken. *)
THEOREM ClosedStaysClosed == Spec => ClosedIsClosed
<1> DEFINE Closed == \A r \in Row : period[r].to \in Days /\ period'[r] # period[r] =>
                       \E w \in Worker : Commit(w) /\ raced[w]
<1>1. ASSUME Inv, [Next]_vars PROVE Closed
  <2> SUFFICES ASSUME NEW r \in Row, period[r].to \in Days, period'[r] # period[r]
               PROVE  \E w \in Worker : Commit(w) /\ raced[w]
    OBVIOUS
  <2>1. PICK w \in Worker : Commit(w)
    BY <1>1, OnlyCommits
  <2>2. Touched(w, r)
    BY <2>1 DEF Commit
  <2>3. raced[w]
    BY <1>1, <2>2 DEF Inv, Kept, Change
  <2> QED BY <2>1, <2>3
<1>2. Inv /\ [Next]_vars => [Closed]_vars
  BY <1>1
<1> QED BY <1>2, AlwaysInv, PTL DEF Spec, ClosedIsClosed

(* A request that is not overtaken leaves earlier days as they were. *)
LEMMA CommitKeepsEarlier ==
  ASSUME Inv, NEW w \in Worker, Commit(w), ~raced[w], NEW d \in Days, d < want[w].since
  PROVE  BudgetOn(d)' = BudgetOn(d)
<1>1. want[w].since \in Days
  BY DEF Inv, Shape, Commit
<1>2. ASSUME NEW r \in Row
      PROVE  /\ period'[r].from <= d /\ d < period'[r].to
                <=> period[r].from <= d /\ d < period[r].to
             /\ period[r].from <= d /\ d < period[r].to
                => period'[r].amount = period[r].amount
  <2>1. CASE ~Touched(w, r)
    BY <2>1 DEF Commit
  <2>2. CASE Touched(w, r)
    <3>1. period'[r] = draft[w][r] /\ Change(w, r) /\ period[r].to \notin Days
      BY <2>2 DEF Commit, Inv, Kept, Change
    <3>2. CASE period[r] = NoPeriod /\ draft[w][r] = Opened(w)
      BY <3>1, <3>2, <1>1, Facts DEF Opened, Days
    <3>3. CASE period[r] # NoPeriod /\ draft[w][r] = Updated(w, r) /\ MayFollow(w, r)
      <4>1. period[r] \in Period /\ period[r].to = Forever
        <5>1. period[r] \in Period
          BY <3>3 DEF Inv, TypeOK
        <5>2. period[r].to \in 2..Forever /\ period[r].to \notin 1..LastDay
          BY <3>1, <5>1, Facts DEF Days
        <5> QED BY <5>1, <5>2 DEF Forever
      <4>2. CASE period[r].from = want[w].since
        BY <4>1, <4>2, <3>1, <3>3, <1>1, Facts DEF Updated, Period, Days
      <4>3. CASE period[r].from # want[w].since
        BY <4>1, <4>3, <3>1, <3>3, <1>1, Facts DEF Updated, Period, Days, Forever
      <4> QED BY <4>2, <4>3
    <3> QED BY <3>1, <3>2, <3>3 DEF Change
  <2> QED BY <2>1, <2>2
<1> QED BY <1>2 DEF BudgetOn

(* The past is changed only by a request that was overtaken. *)
THEOREM PastIsKept == Spec => EarlierDaysKept
<1> DEFINE Earlier == \A d \in Days : BudgetOn(d)' # BudgetOn(d) =>
                        \E w \in Worker : Commit(w) /\ (d >= want[w].since \/ raced[w])
<1>1. ASSUME Inv, [Next]_vars PROVE Earlier
  <2> SUFFICES ASSUME NEW d \in Days, BudgetOn(d)' # BudgetOn(d)
               PROVE  \E w \in Worker : Commit(w) /\ (d >= want[w].since \/ raced[w])
    OBVIOUS
  <2>1. PICK w \in Worker : Commit(w)
    <3>1. CASE \A w \in Worker : ~Commit(w)
      BY <1>1, <3>1, OnlyCommits DEF BudgetOn
    <3> QED BY <3>1
  <2>2. want[w].since \in Days
    BY <1>1, <2>1 DEF Inv, Shape, Commit
  <2>3. d >= want[w].since \/ raced[w]
    BY <1>1, <2>1, <2>2, CommitKeepsEarlier DEF Days
  <2> QED BY <2>1, <2>3
<1>2. Inv /\ [Next]_vars => [Earlier]_vars
  BY <1>1
<1> QED BY <1>2, AlwaysInv, PTL DEF Spec, EarlierDaysKept

-----------------------------------------------------------------------------
(* In a table without overlaps, a row that covers a day is all there is on *)
(* that day.                                                               *)
LEMMA OneOnDay ==
  ASSUME NEW P \in [Row -> Period \cup {NoPeriod}], NEW r \in Row, NEW d \in Days,
         \A p, q \in Row : p # q => Disjoint(P[p], P[q]),
         P[r].from <= d, d < P[r].to
  PROVE  {P[s].amount : s \in {q \in Row : P[q].from <= d /\ d < P[q].to}} = {P[r].amount}
<1>1. ASSUME NEW q \in Row, P[q].from <= d, d < P[q].to PROVE q = r
  <2>1. P[q] \in Period /\ P[r] \in Period
    BY <1>1, Facts DEF Days
  <2>2. ~Disjoint(P[q], P[r])
    BY <1>1, <2>1, Facts DEF Disjoint, Days, Forever
  <2> QED BY <2>2
<1> QED BY <1>1

(* A PUT that commits holds. *)
LEMMA PutHolds ==
  ASSUME Inv, NEW w \in Worker, Commit(w), want[w].amount # 0,
         NEW d \in want[w].since..LastDay, ~raced[w] \/ d = want[w].since
  PROVE  BudgetOn(d)' = {want[w].amount}
<1>1. want[w].since \in Days /\ d \in Days /\ pc[w] = "done"
  BY DEF Inv, Shape, Commit, Days
<1>2. PICK r \in Row : /\ Touched(w, r) /\ draft[w][r].from = want[w].since
                       /\ draft[w][r].amount = want[w].amount
  BY <1>1 DEF Inv, Ready
<1>3. period'[r] = draft[w][r] /\ draft[w][r] \in Period /\ Change(w, r)
  BY <1>2 DEF Commit, Inv, TypeOK, Touched, Kept
<1>4. d < draft[w][r].to
  <2>1. CASE d = want[w].since
    BY <2>1, <1>2, <1>3, Facts
  <2>2. CASE ~raced[w] /\ draft[w][r] = Opened(w)
    BY <2>2, <1>1 DEF Opened, Days, Forever
  <2>3. CASE /\ ~raced[w] /\ period[r] # NoPeriod
             /\ draft[w][r] = Updated(w, r) /\ MayFollow(w, r)
    <3>1. period[r] \in Period
      BY <2>3 DEF Inv, TypeOK
    <3>2. Updated(w, r).from = period[r].from
      BY <3>1 DEF Updated, Period
    <3>3. draft[w][r].to = period[r].to
      BY <1>2, <2>3, <3>1, <3>2 DEF Updated, Period
    <3>4. period[r].to \in 2..Forever /\ period[r].to \notin Days
      BY <2>3, <3>1, <1>3, Facts DEF Change
    <3> QED BY <1>1, <3>3, <3>4 DEF Days, Forever
  <2> QED BY <2>1, <2>2, <2>3, <1>3 DEF Change
<1>5. TypeOK' /\ NoOverlap'
  BY CommitInv DEF Inv
<1>6. period'[r].from <= d /\ d < period'[r].to
  BY <1>1, <1>2, <1>3, <1>4 DEF Days
<1>7. BudgetOn(d)' = {period'[r].amount}
  BY <1>1, <1>5, <1>6, OneOnDay DEF TypeOK, NoOverlap, BudgetOn
<1> QED BY <1>2, <1>3, <1>7

(* A DELETE that commits, and was not overtaken, leaves nothing. *)
LEMMA DeleteHolds ==
  ASSUME Inv, NEW w \in Worker, Commit(w), want[w].amount = 0, ~raced[w],
         NEW d \in want[w].since..LastDay
  PROVE  BudgetOn(d)' = {}
<1>1. want[w].since \in Days /\ d \in Days /\ pc[w] = "done"
  BY DEF Inv, Shape, Commit, Days
<1>2. ASSUME NEW q \in Row, Touched(w, q)
      PROVE  /\ period[q] \in Period /\ period[q].to = Forever
             /\ period[q].from < want[w].since
             /\ period'[q] = Updated(w, q) /\ Updated(w, q).to = want[w].since
  <2>1. /\ period[q] # NoPeriod /\ draft[w][q] = Updated(w, q) /\ MayFollow(w, q)
        /\ period[q].to \notin Days
    BY <1>2 DEF Inv, Kept, Change
  <2>2. period[q] \in Period
    BY <2>1 DEF Inv, TypeOK
  <2>3. period[q].to = Forever
    BY <2>1, <2>2, Facts DEF Days, Forever
  <2>4. period[q].from < want[w].since
    BY <2>1, <2>2, <1>1, Facts DEF MayFollow, Days
  <2>5. Updated(w, q).to = want[w].since
    BY <2>2, <2>4, <1>1, Facts DEF Updated, Period, Days
  <2> QED BY <1>2, <2>1, <2>2, <2>3, <2>4, <2>5 DEF Commit
<1>3. PICK r \in Row : Touched(w, r)
  BY <1>1 DEF Inv, Ready
<1>4. ASSUME NEW q \in Row PROVE ~(period'[q].from <= d /\ d < period'[q].to)
  <2>1. CASE Touched(w, q)
    BY <2>1, <1>1, <1>2 DEF Days
  <2>2. CASE ~Touched(w, q)
    <3>1. period'[q] = period[q] /\ Disjoint(period[q], period[r])
      BY <2>2, <1>3 DEF Commit, Inv, NoOverlap
    <3>2. CASE period[q] = NoPeriod
      BY <3>1, <3>2, <1>1, Facts DEF Days
    <3>3. CASE period[q] \in Period
      <4>1. /\ period[q].to <= period[r].from \/ Forever <= period[q].from
            /\ period[r].from < want[w].since
        BY <3>1, <1>2, <1>3 DEF Disjoint
      <4>2. period[q].from \in Days /\ period[q].to \in 2..Forever /\ period[r].from \in Days
        BY <3>3, <1>2, <1>3, Facts
      <4> QED BY <4>1, <4>2, <3>1, <1>1 DEF Days, Forever
    <3> QED BY <3>2, <3>3 DEF Inv, TypeOK
  <2> QED BY <2>1, <2>2
<1> QED BY <1>4 DEF BudgetOn

(* What a request was promised is what it leaves. *)
THEOREM RequestsTakeHold == Spec => TakesHold
<1> DEFINE Holds == \A w \in Worker : Commit(w) => \A d \in want[w].since..LastDay :
                      IF want[w].amount = 0
                      THEN raced[w] \/ BudgetOn(d)' = {}
                      ELSE (raced[w] /\ d # want[w].since) \/ BudgetOn(d)' = {want[w].amount}
<1>1. ASSUME Inv PROVE Holds
  <2> SUFFICES ASSUME NEW w \in Worker, Commit(w), NEW d \in want[w].since..LastDay
               PROVE  IF want[w].amount = 0
                      THEN raced[w] \/ BudgetOn(d)' = {}
                      ELSE \/ raced[w] /\ d # want[w].since
                           \/ BudgetOn(d)' = {want[w].amount}
    OBVIOUS
  <2>1. CASE want[w].amount = 0
    BY <1>1, <2>1, DeleteHolds
  <2>2. CASE want[w].amount # 0
    BY <1>1, <2>2, PutHolds
  <2> QED BY <2>1, <2>2
<1>2. Inv /\ [Next]_vars => [Holds]_vars
  BY <1>1
<1> QED BY <1>2, AlwaysInv, PTL DEF Spec, TakesHold

-----------------------------------------------------------------------------
(* What a request that was not overtaken still finds before its insertion: *)
(* nothing open, or the row it has closed itself.                          *)
AsRead(w) ==
  \/ seen[w] = 0 /\ OpenRows = {} /\ \A r \in Row : ~Touched(w, r)
  \/ /\ seen[w] \in Row /\ period[seen[w]].to = Forever
     /\ period[seen[w]].from < want[w].since
     /\ Touched(w, seen[w]) /\ draft[w][seen[w]].to = want[w].since
     /\ \A r \in Row \ {seen[w]} : ~Touched(w, r)

Undisturbed == \A w \in Worker : pc[w] = "insert" /\ ~raced[w] => AsRead(w)

LEMMA UpdateReads ==
  ASSUME Inv, Undisturbed, NEW w \in Worker, Update(w), pc'[w] = "insert", ~raced[w]
  PROVE  AsRead(w)'
<1>0. PICK r \in Row : r = seen[w]
  BY DEF Inv, Shape, Kept, Update
<1>1. /\ period[r] # NoPeriod /\ MayFollow(w, r)
      /\ \A q \in Row : ~Touched(w, q)
      /\ want[w].since \in Days /\ period[r].to = Forever
  BY <1>0 DEF Inv, Shape, Kept, Update
<1>2. period[r] \in Period
  BY <1>1 DEF Inv, TypeOK
<1>3. Closes(w) /\ want[w].amount # 0 /\ Written(w, r, Updated(w, r), "insert")
  BY <1>0 DEF Update, Written, Inv, TypeOK
<1>4. period[r].from < want[w].since
  BY <1>0, <1>1, <1>2, <1>3, Facts DEF MayFollow, Closes, Days
<1>5. Updated(w, r).to = want[w].since /\ Updated(w, r).from = period[r].from
  BY <1>0, <1>2, <1>3 DEF Closes, Updated, Period
<1>6. Updated(w, r) # NoPeriod
  BY <1>2, <1>5, Facts DEF Days
<1>7. /\ UNCHANGED <<period, want, seen>>
      /\ draft'[w][r] = Updated(w, r)
      /\ \A q \in Row \ {r} : draft'[w][q] = draft[w][q]
  BY <1>1, <1>3 DEF Written, Inv, TypeOK
<1>8. Touched(w, r)' /\ \A q \in Row \ {r} : ~Touched(w, q)'
  BY <1>1, <1>6, <1>7 DEF Touched
<1> QED BY <1>0, <1>1, <1>4, <1>5, <1>7, <1>8 DEF AsRead

LEMMA StaysUndisturbed == ASSUME Inv, Undisturbed, [Next]_vars PROVE Undisturbed'
<1> SUFFICES ASSUME NEW v \in Worker, pc'[v] = "insert", ~raced'[v] PROVE AsRead(v)'
  BY DEF Undisturbed
<1>1. CASE UNCHANGED <<period, request>>
  BY <1>1 DEF request, Undisturbed, AsRead, OpenRows, Touched
<1>2. ASSUME NEW w \in Worker, Step(w), ~Commit(w), w # v PROVE AsRead(v)'
  <2>1. /\ pc'[v] = pc[v] /\ want'[v] = want[v] /\ seen'[v] = seen[v]
        /\ draft'[v] = draft[v] /\ raced'[v] = raced[v] /\ period' = period
    BY <1>2 DEF Step, Set, Delete, Look, Read, Refuse, Update, Insert, Overlap, Fail,
                Rollback, End, Written, Inv, TypeOK
  <2> QED BY <2>1 DEF Undisturbed, AsRead, OpenRows, Touched
<1>3. ASSUME NEW w \in Worker, Commit(w) PROVE AsRead(v)'
  <2>1. pc'[w] = "idle" /\ \A u \in Worker \ {w} : pc'[u] = pc[u] /\ (pc[u] # "idle" => raced'[u])
    BY <1>3 DEF Commit, End, Inv, TypeOK
  <2> QED BY <2>1
<1>4. CASE Look(v)
  <2>1. UNCHANGED <<period, draft>> /\ seen'[v] = 0 /\ OpenRows = {}
    BY <1>4 DEF Look, Read, Inv, TypeOK
  <2>2. \A r \in Row : ~Touched(v, r)
    BY <1>4 DEF Look, Inv, Shape
  <2> QED BY <2>1, <2>2 DEF AsRead, OpenRows, Touched
<1>5. CASE Update(v)
  BY <1>5, UpdateReads DEF Update, Written
<1>6. CASE Set(v) \/ Delete(v) \/ Insert(v) \/ Refuse(v) \/ Overlap(v) \/ Fail(v)
  BY <1>6 DEF Set, Delete, Insert, Written, Refuse, Overlap, Fail, Rollback, End, Inv, TypeOK
<1> QED
  BY <1>1, <1>2, <1>3, <1>4, <1>5, <1>6
     DEF Next, Step, NextDay, ArchiveOrReactivate, vars

(* With what a version conflicts. *)
LEMMA ExcludedConflict ==
  ASSUME NEW w \in Worker, NEW r, NEW p, Excluded(w, r, p) = "conflict"
  PROVE  \E q \in Row \ {r} : ~Disjoint(p, View(w, q))
BY DEF Excluded, View

LEMMA OverlapHasCause ==
  ASSUME Inv, Undisturbed, NEW w \in Worker, Overlap(w), ~raced[w]
  PROVE  seen[w] = 0 /\ \E r \in Row : period[r].to \in Days /\ want[w].since < period[r].to
<1>1. \A q \in Row : period[q] \in Period \cup {NoPeriod}
  BY DEF Inv, TypeOK
<1>2. CASE pc[w] = "update"
  <2> DEFINE r == seen[w]
  <2>1. /\ r \in Row /\ period[r] \in Period /\ MayFollow(w, r) /\ want[w].since \in Days
        /\ period[r].to = Forever /\ \A q \in Row : ~Touched(w, q)
    BY <1>1, <1>2 DEF Inv, Shape, Kept
  <2>2. Closes(w) /\ Excluded(w, r, Updated(w, r)) = "conflict"
    BY <1>2 DEF Overlap
  <2>3. Updated(w, r).from = period[r].from /\ Updated(w, r).to = want[w].since
    BY <2>1, <2>2 DEF Closes, Updated, Period
  <2> HIDE DEF r
  <2>4. PICK q \in Row \ {r} : ~Disjoint(Updated(w, r), View(w, q))
    BY <2>2, ExcludedConflict
  <2>5. View(w, q) = period[q] /\ Disjoint(period[r], period[q])
    BY <2>1 DEF View, Inv, NoOverlap
  <2>6. CASE period[q] = NoPeriod
    BY <2>1, <2>3, <2>4, <2>5, <2>6, Facts DEF Disjoint, Days
  <2>7. CASE period[q] \in Period
    <3>1. /\ period[q].from \in Days /\ period[q].to \in 2..Forever /\ period[r].from \in Days
          /\ period[q].to <= period[r].from \/ Forever <= period[q].from
      BY <2>1, <2>5, <2>7, Facts DEF Disjoint
    <3>2. period[q].to <= period[r].from
      BY <3>1 DEF Days, Forever
    <3> QED BY <2>3, <2>4, <2>5, <3>2 DEF Disjoint
  <2> QED BY <1>1, <2>6, <2>7
<1>3. CASE pc[w] = "insert"
  <2>1. AsRead(w) /\ want[w].since \in Days
    BY <1>3 DEF Undisturbed, Inv, Shape
  <2>2. PICK q \in Row : ~Disjoint(Opened(w), View(w, q))
    BY <1>3, ExcludedConflict DEF Overlap
  <2>3. View(w, q).to > want[w].since /\ View(w, q) # NoPeriod
    <3>1. View(w, q) \in Period \cup {NoPeriod}
      BY DEF View, Inv, TypeOK
    <3>2. View(w, q).to \in Nat
      BY <3>1, Facts DEF Forever
    <3> QED BY <2>1, <2>2, <3>2, Facts DEF Disjoint, Opened, Days
  <2>4. CASE seen[w] = 0 /\ OpenRows = {} /\ \A r \in Row : ~Touched(w, r)
    <3>1. period[q] \in Period /\ period[q].to > want[w].since /\ period[q].to # Forever
      BY <1>1, <2>3, <2>4 DEF View, OpenRows
    <3>2. period[q].to \in Days
      BY <3>1, Facts DEF Days, Forever
    <3> QED BY <2>4, <3>1, <3>2
  <2>5. CASE seen[w] # 0
    <3> DEFINE r == seen[w]
    <3>1. /\ r \in Row /\ period[r].to = Forever /\ period[r].from < want[w].since
          /\ draft[w][r].to = want[w].since /\ Touched(w, r)
          /\ \A s \in Row \ {r} : ~Touched(w, s)
      BY <2>1, <2>5 DEF AsRead
    <3> HIDE DEF r
    <3>2. q # r
      BY <2>1, <2>3, <3>1 DEF View, Days
    <3>3. period[q] \in Period /\ period[q].to > want[w].since /\ Disjoint(period[r], period[q])
      BY <1>1, <2>3, <3>1, <3>2 DEF View, Inv, NoOverlap
    <3>4. /\ period[q].from \in Days /\ period[q].to \in 2..Forever
          /\ period[q].to <= period[r].from \/ Forever <= period[q].from
      BY <3>1, <3>3, Facts DEF Disjoint
    <3>5. period[r].from \in Nat
      BY <1>1, <3>1, Facts DEF Days
    <3> QED BY <2>1, <3>1, <3>3, <3>4, <3>5 DEF Days, Forever
  <2> QED BY <2>1, <2>4, <2>5 DEF AsRead, Row
<1> QED BY <1>2, <1>3 DEF Overlap

(* The constraint refuses only who was overtaken, or who begins before a   *)
(* closed period ends.                                                     *)
THEOREM ConflictsHaveCause == Spec => ConflictForCause
<1> DEFINE Cause == \A w \in Worker : Overlap(w) =>
              \/ raced[w]
              \/ seen[w] = 0 /\ \E r \in Row : period[r].to \in Days /\ want[w].since < period[r].to
<1>1. Init => Undisturbed
  BY DEF Init, Undisturbed
<1>2. Inv /\ Undisturbed /\ [Next]_vars => Undisturbed'
  BY StaysUndisturbed
<1>3. Inv /\ Undisturbed /\ [Next]_vars => [Cause]_vars
  BY OverlapHasCause
<1> QED BY <1>1, <1>2, <1>3, AlwaysInv, PTL DEF Spec, ConflictForCause

=============================================================================
