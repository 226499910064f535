------------------------------- MODULE Budgets -------------------------------
(***************************************************************************)
(* The budget periods of one category. A PUT or a DELETE reads the open    *)
(* period with a plain SELECT, decides by it, and writes by the id of the  *)
(* row it read; the exclusion constraint of the table compares each version*)
(* it writes with those that are committed and those still being written.  *)
(*                                                                         *)
(* An UPDATE of the amount alone leaves the index of the constraint alone. *)
(* Two insertions that wait for each other are ended by the database, as   *)
(* any other error (Fail).                                                 *)
(***************************************************************************)
EXTENDS Naturals

CONSTANTS
  Worker,     (* threads that serve requests, one after another            *)
  Amount,     (* what may be budgeted                                      *)
  LastDay,    (* bound on the calendar                                     *)
  MaxRows     (* bound on the rows of the category                         *)

ASSUME BudgetsAssumption ==
  /\ LastDay \in Nat \ {0} /\ MaxRows \in Nat \ {0}
  /\ Amount \subseteq Nat \ {0}

Days == 1..LastDay
Row == 1..MaxRows

(* valid_to of an open period. *)
Forever == LastDay + 1

(* Half-open and not empty: to is the first day after.                     *)
Period   == {p \in [from : Days, to : 2..Forever, amount : Amount] : p.from < p.to}
NoPeriod == [from |-> 0, to |-> 0, amount |-> 0]

VARIABLES
  period,     (* the committed rows                                        *)
  active,     (* is the category not archived?                             *)
  today,
  pc,         (* how far the request of each worker is                     *)
  want,       (* since which day it wants which amount; 0 to stop          *)
  seen,       (* the open row it read, or 0                                *)
  draft,      (* the versions of rows it has written                       *)
  raced       (* history: others have committed since it read              *)

request == <<pc, want, seen, draft, raced>>
vars    == <<period, active, today, request>>

Untouched == [r \in Row |-> NoPeriod]
Nothing   == [since |-> 0, amount |-> 0]

Init ==
  /\ period = Untouched /\ active = TRUE /\ today = 1
  /\ pc = [w \in Worker |-> "idle"]
  /\ want = [w \in Worker |-> Nothing]
  /\ seen = [w \in Worker |-> 0]
  /\ draft = [w \in Worker |-> Untouched]
  /\ raced = [w \in Worker |-> FALSE]

-----------------------------------------------------------------------------
(* The rest of the world *)

NextDay == today < LastDay /\ today' = today + 1 /\ UNCHANGED <<period, active, request>>

ArchiveOrReactivate == active' = ~active /\ UNCHANGED <<period, today, request>>

(* The end of a request, and of a transaction that is rolled back. *)
End(w) ==
  /\ pc' = [pc EXCEPT ![w] = "idle"]
  /\ want' = [want EXCEPT ![w] = Nothing]
  /\ seen' = [seen EXCEPT ![w] = 0]
  /\ draft' = [draft EXCEPT ![w] = Untouched]
  /\ UNCHANGED <<active, today>>

Rollback(w) == End(w) /\ raced' = [raced EXCEPT ![w] = FALSE] /\ UNCHANGED period

-----------------------------------------------------------------------------
(* A request reads *)

(* A PUT names any day, or means the first of the month; only an active    *)
(* category is budgeted.                                                   *)
Set(w) ==
  /\ pc[w] = "idle" /\ active
  /\ \E d \in Days, a \in Amount : want' = [want EXCEPT ![w] = [since |-> d, amount |-> a]]
  /\ pc' = [pc EXCEPT ![w] = "checked"]
  /\ UNCHANGED <<period, active, today, seen, draft, raced>>

(* get_current_budget *)
OpenRows == {r \in Row : period[r].to = Forever}

(* Nothing begins before the open period, and nothing ends the day it      *)
(* begins or earlier.                                                      *)
MayFollow(w, r) ==
  IF want[w].amount = 0 THEN want[w].since > period[r].from
  ELSE want[w].since >= period[r].from

Read(w) ==
  /\ \/ /\ OpenRows = {} /\ want[w].amount # 0
        /\ seen' = [seen EXCEPT ![w] = 0] /\ pc' = [pc EXCEPT ![w] = "insert"]
     \/ \E r \in OpenRows :
          /\ MayFollow(w, r)
          /\ seen' = [seen EXCEPT ![w] = r] /\ pc' = [pc EXCEPT ![w] = "update"]
  /\ raced' = [raced EXCEPT ![w] = FALSE]
  /\ UNCHANGED <<period, active, today, want, draft>>

Look(w) == pc[w] = "checked" /\ Read(w)

(* A PUT before the open period, a DELETE of nothing or too early: 404, 409*)
Refuse(w) ==
  /\ pc[w] = "checked" /\ Rollback(w)
  /\ IF want[w].amount = 0 THEN \A r \in OpenRows : ~MayFollow(w, r)
     ELSE \E r \in OpenRows : ~MayFollow(w, r)

(* A DELETE closes the open period today. *)
Delete(w) ==
  /\ pc[w] = "idle"
  /\ want' = [want EXCEPT ![w] = [since |-> today, amount |-> 0]]
  /\ pc' = [pc EXCEPT ![w] = "checked"]
  /\ UNCHANGED <<period, active, today, seen, draft, raced>>

-----------------------------------------------------------------------------
(* It writes *)

(* Faulty variant: both ends belong to the period. *)
DisjointEnds(p, q) == p.to < q.from \/ q.to < p.from

Disjoint(p, q) == p.to <= q.from \/ q.to <= p.from

Touched(w, r) == draft[w][r] # NoPeriod

(* Faulty variant: only committed rows are compared. *)
ExcludedByCommitted(w, r, p) ==
  IF \E q \in Row \ {r} : ~Touched(w, q) /\ ~Disjoint(p, period[q]) THEN "conflict"
  ELSE "ok"

(* excl_budget_overlap, when w writes p as row r (0 for a row to come): a  *)
(* version another transaction is writing, or replacing, is waited for.    *)
Excluded(w, r, p) ==
  IF \E v \in Worker \ {w}, q \in Row :
       Touched(v, q) /\ (~Disjoint(p, draft[v][q]) \/ ~Disjoint(p, period[q])) THEN "wait"
  ELSE IF \E q \in Row \ {r} :
            ~Disjoint(p, IF Touched(w, q) THEN draft[w][q] ELSE period[q]) THEN "conflict"
  ELSE "ok"

(* Faulty variant: the amount is always corrected in place. *)
Corrected(w, r) == [period[r] EXCEPT !.amount = want[w].amount]

(* The same first day corrects the amount, a later one closes the period;  *)
(* whatever the row has become since it was read.                          *)
Updated(w, r) ==
  IF period[r].from = want[w].since THEN [period[r] EXCEPT !.amount = want[w].amount]
  ELSE [period[r] EXCEPT !.to = want[w].since]

Closes(w) == period[seen[w]].from # want[w].since

Free(r) == period[r] = NoPeriod /\ \A v \in Worker : ~Touched(v, r)

Written(w, r, p, next) ==
  /\ draft' = [draft EXCEPT ![w][r] = p]
  /\ pc' = [pc EXCEPT ![w] = next]
  /\ UNCHANGED <<period, active, today, want, seen, raced>>

(* update_amount or close_budget: it waits for whoever has written the row.*)
Update(w) ==
  /\ pc[w] = "update"
  /\ \A v \in Worker \ {w} : ~Touched(v, seen[w])
  /\ Closes(w) => Excluded(w, seen[w], Updated(w, seen[w])) = "ok"
  /\ Written(w, seen[w], Updated(w, seen[w]),
             IF Closes(w) /\ want[w].amount # 0 THEN "insert" ELSE "done")

(* Faulty variant: the new period begins a day after the old one ends. *)
OpenedAfter(w) == [from |-> want[w].since + 1, to |-> Forever, amount |-> want[w].amount]

Opened(w) == [from |-> want[w].since, to |-> Forever, amount |-> want[w].amount]

Insert(w) ==
  /\ pc[w] = "insert" /\ Excluded(w, 0, Opened(w)) = "ok"
  /\ \E r \in Row : Free(r) /\ Written(w, r, Opened(w), "done")

(* The constraint is violated: 409. *)
Overlap(w) ==
  /\ \/ /\ pc[w] = "update" /\ Closes(w)
        /\ \A v \in Worker \ {w} : ~Touched(v, seen[w])
        /\ Excluded(w, seen[w], Updated(w, seen[w])) = "conflict"
     \/ pc[w] = "insert" /\ Excluded(w, 0, Opened(w)) = "conflict"
  /\ Rollback(w)

Commit(w) ==
  /\ pc[w] = "done"
  /\ period' = [r \in Row |-> IF Touched(w, r) THEN draft[w][r] ELSE period[r]]
  /\ raced' = [v \in Worker |-> v # w /\ pc[v] # "idle"]
  /\ End(w)

(* Any error, at any time. *)
Fail(w) == pc[w] # "idle" /\ Rollback(w)

-----------------------------------------------------------------------------
Step(w) ==
  \/ Set(w) \/ Delete(w) \/ Look(w) \/ Refuse(w)
  \/ Update(w) \/ Insert(w) \/ Overlap(w) \/ Commit(w) \/ Fail(w)

Next == NextDay \/ ArchiveOrReactivate \/ \E w \in Worker : Step(w)

Spec == Init /\ [][Next]_vars

-----------------------------------------------------------------------------
(* Properties *)

(* Type invariant. *)
TypeOK ==
  /\ period \in [Row -> Period \cup {NoPeriod}]
  /\ active \in BOOLEAN /\ today \in Days
  /\ pc \in [Worker -> {"idle", "checked", "update", "insert", "done"}]
  /\ want \in [Worker -> [since : Days, amount : Amount \cup {0}] \cup {Nothing}]
  /\ seen \in [Worker -> Row \cup {0}]
  /\ draft \in [Worker -> [Row -> Period \cup {NoPeriod}]]
  /\ raced \in [Worker -> BOOLEAN]

(***************************************************************************)
(* No day has two budgets, and so at most one period is open, whatever two *)
(* requests that read the same period do to it.                            *)
(***************************************************************************)
NoOverlap == \A q, r \in Row : q # r => Disjoint(period[q], period[r])

(* get_budget_progress: what is budgeted for a month that begins on day d. *)
BudgetOn(d) == {period[r].amount : r \in {q \in Row : period[q].from <= d /\ d < period[q].to}}

(***************************************************************************)
(* A request changes no day before the one it names: what was budgeted for *)
(* the past stays, unless another request commits while it is at work.     *)
(***************************************************************************)
EarlierDaysKept ==
  [][\A d \in Days : BudgetOn(d)' # BudgetOn(d) =>
       \E w \in Worker : Commit(w) /\ (d >= want[w].since \/ raced[w])]_vars

(* Only a request overtaken by another touches a period that is closed.    *)
ClosedIsClosed ==
  [][\A r \in Row : period[r].to \in Days /\ period'[r] # period[r] =>
       \E w \in Worker : Commit(w) /\ raced[w]]_vars

(***************************************************************************)
(* A PUT that succeeds holds on its day even if it was overtaken, and from *)
(* then on unless it was; a DELETE leaves nothing after today.             *)
(***************************************************************************)
TakesHold ==
  [][\A w \in Worker : Commit(w) => \A d \in want[w].since..LastDay :
       IF want[w].amount = 0
       THEN raced[w] \/ BudgetOn(d)' = {}
       ELSE (raced[w] /\ d # want[w].since) \/ BudgetOn(d)' = {want[w].amount}]_vars

(***************************************************************************)
(* The constraint refuses a PUT only if it was overtaken, or if it found   *)
(* nothing open and begins before a closed period ends.                    *)
(***************************************************************************)
ConflictForCause ==
  [][\A w \in Worker : Overlap(w) =>
       \/ raced[w]
       \/ seen[w] = 0 /\ \E r \in Row : period[r].to \in Days /\ want[w].since < period[r].to]_vars

=============================================================================
