------------------------- MODULE PaymentPlans_proofs -------------------------
(***************************************************************************)
(* Proofs about PaymentPlans, for any plans, runs, requests, dates,        *)
(* frequencies and edits.                                                  *)
(*                                                                         *)
(* The inductive invariant IInv says, beside the types, that a run which   *)
(* has passed its second look holds the row's lock and sees the row as it  *)
(* is, that every row satisfies the CHECK constraints, and that a plan     *)
(* nobody edited has been posted for dates before its due date only.       *)
(***************************************************************************)
EXTENDS PaymentPlans, Operators_proofs, SequenceTheorems

Holding(c) == pc[c] \in {"account", "group", "posting"}

(* What the lock is for. *)
HoldersSeeTheRow ==
  \A c \in Cron : Holding(c) =>
    /\ target[c] \in Plan
    /\ Exists(target[c])
    /\ lock[target[c]] = c
    /\ view[c] = plan[target[c]]
    /\ view[c].active
    /\ view[c].due <= today

(* Whatever is aimed at exists. *)
TargetsExist ==
  /\ \A c \in Cron : date[c] <= today
  /\ \A c \in Cron : \A p \in todo[c] : Exists(p)
  /\ \A c \in Cron : pc[c] = "locking" => target[c] \in Plan /\ Exists(target[c])
  /\ \A r \in Request : pc[r] = "writing" =>
       /\ target[r] \in Plan
       /\ Exists(target[r])
       /\ view[r] \in Schedule
       /\ edit[r] \in Edits

RowsAreConsistent == \A p \in Plan : Exists(p) => Consistent(plan[p])

NothingPostedBefore == \A p \in Plan : ~Exists(p) => posted[p] = <<>>

(* An unedited plan has been posted up to its due date only. *)
PostedIsPast ==
  \A p \in Plan : Exists(p) /\ p \notin edited =>
    \A i \in 1..Len(posted[p]) :
      /\ posted[p][i] <= plan[p].due
      /\ plan[p].active => posted[p][i] < plan[p].due

(* What counts as archived all along still is, and was not seen active. *)
ArchivedIsDormant ==
  \A c \in Cron :
    /\ Holding(c) => archived[c] \subseteq Dormant(target[c])
    /\ pc[c] = "group" => "account" \notin archived[c]
    /\ pc[c] = "posting" => archived[c] = {}

Coherent == TypeOK /\ HoldersSeeTheRow /\ TargetsExist

USE PlansAssumption

-----------------------------------------------------------------------------
(* Lemmas about the operators on a single row *)

(* A consistent row moved on is one again, at a later date or closed. *)
LEMMA MovedOnRow ==
  ASSUME NEW s \in Schedule, Consistent(s)
  PROVE  /\ MovedOn(s, s) \in Schedule
         /\ Consistent(MovedOn(s, s))
         /\ MovedOn(s, s).due \in Nat
         /\ s.due \in Nat
         /\ \/ MovedOn(s, s).due > s.due /\ MovedOn(s, s).active = s.active
            \/ MovedOn(s, s).due = s.due /\ ~MovedOn(s, s).active
<1> DEFINE next == AdvanceScheduledDate(s.due, s.frequency, s.anchor)
<1>1. /\ s.due \in Dates
      /\ s.due \in Nat
      /\ s.anchor \in 0..31
      /\ s.frequency \in PlanFrequencies \cup {NoFrequency}
      /\ s.active \in BOOLEAN
      /\ s.recurring \in BOOLEAN
  BY DEF Schedule, Dates
<1>2. CASE s.recurring /\ (s.end = NoEnd \/ next <= s.end)
  <2>1. next \in Dates /\ next > s.due
    BY <1>1, <1>2, AdvanceIsLater DEF Consistent
  <2>2. MovedOn(s, s) = [s EXCEPT !.due = next]
    BY <1>2 DEF MovedOn
  <2>3. s.end # NoEnd => s.end >= next
    BY <1>2, <2>1 DEF Schedule, Dates
  <2> HIDE DEF next
  <2>4. MovedOn(s, s) \in Schedule
    BY <2>1, <2>2 DEF Schedule
  <2>5. /\ MovedOn(s, s).due = next
        /\ MovedOn(s, s).active = s.active
        /\ MovedOn(s, s).recurring = s.recurring
        /\ MovedOn(s, s).frequency = s.frequency
        /\ MovedOn(s, s).anchor = s.anchor
        /\ MovedOn(s, s).end = s.end
    BY <2>2 DEF Schedule
  <2> QED
    BY <1>1, <2>1, <2>3, <2>4, <2>5 DEF Consistent, Dates
<1>3. CASE ~(s.recurring /\ (s.end = NoEnd \/ next <= s.end))
  <2>1. MovedOn(s, s) = [s EXCEPT !.active = FALSE]
    BY <1>3 DEF MovedOn
  <2>2. MovedOn(s, s) \in Schedule
    BY <2>1 DEF Schedule
  <2>3. /\ MovedOn(s, s).due = s.due
        /\ MovedOn(s, s).active = FALSE
        /\ MovedOn(s, s).recurring = s.recurring
        /\ MovedOn(s, s).frequency = s.frequency
        /\ MovedOn(s, s).anchor = s.anchor
        /\ MovedOn(s, s).end = s.end
    BY <2>1 DEF Schedule
  <2> QED
    BY <1>1, <2>2, <2>3 DEF Consistent
<1> QED
  BY <1>2, <1>3

(* An UPDATE by PATCH leaves a row. *)
LEMMA UpdatedRow ==
  ASSUME NEW s \in Schedule, NEW seen \in Schedule, NEW e \in Edits
  PROVE  Updated(s, seen, e) \in Schedule
<1>1. e \in Edit
  OBVIOUS
<1>2. /\ Given(e.active, s.active) \in BOOLEAN
      /\ Given(e.recurring, s.recurring) \in BOOLEAN
      /\ Given(e.due, s.due) \in Dates
      /\ Given(e.frequency, s.frequency) \in PlanFrequencies \cup {NoFrequency}
      /\ Given(e.end, s.end) \in Dates \cup {NoEnd}
  BY <1>1 DEF Edit, Schedule, Given
<1>3. AnchorWritten(seen, e) \in 0..31
  <2>1. EffectiveDue(seen, e) \in Dates /\ seen.anchor \in 0..31
    BY <1>1 DEF Edit, Schedule, Given, EffectiveDue
  <2>2. Day(EffectiveDue(seen, e)) \in 0..31
    BY <2>1, DateOfParts
  <2> QED
    BY <2>1, <2>2 DEF AnchorWritten, NoAnchor
<1> QED
  BY <1>2, <1>3 DEF Updated, Schedule

-----------------------------------------------------------------------------
(* Every action keeps types, targets and the holders' view. *)

RowsCoherent == Coherent /\ RowsAreConsistent

LEMMA InitCoherent == Init => RowsCoherent
<1> SUFFICES ASSUME Init PROVE RowsCoherent
  OBVIOUS
<1>1. TypeOK
  BY DEF Init, TypeOK, table, history
<1>2. HoldersSeeTheRow /\ TargetsExist /\ RowsAreConsistent
  BY DEF Init, HoldersSeeTheRow, TargetsExist, RowsAreConsistent, Holding, Exists,
     Dates
<1> QED
  BY <1>1, <1>2 DEF RowsCoherent, Coherent

LEMMA TickCoherent == RowsCoherent /\ Tick => RowsCoherent'
<1> SUFFICES ASSUME RowsCoherent, Tick PROVE RowsCoherent'
  OBVIOUS
<1> USE DEF RowsCoherent, Coherent, table, history, Tick
<1>1. TypeOK'
  BY DEF TypeOK
<1>2. today' \in Nat /\ today \in Nat /\ today' > today /\ \A c \in Cron : date[c] \in Nat
  BY DEF TypeOK, Dates
<1>3. \A c \in Cron : Holding(c) => view[c].due \in Nat
  BY DEF TypeOK, HoldersSeeTheRow, Schedule, Dates, Exists
<1>4. HoldersSeeTheRow'
  BY <1>2, <1>3 DEF HoldersSeeTheRow, Holding, Exists
<1>5. TargetsExist'
  BY <1>2 DEF TargetsExist, Exists
<1>6. RowsAreConsistent'
  BY DEF RowsAreConsistent, Exists
<1> QED
  BY <1>1, <1>4, <1>5, <1>6

LEMMA CreateCoherent ==
  ASSUME RowsCoherent, NEW p \in Plan, Create(p) PROVE RowsCoherent'
<1> USE DEF RowsCoherent, Coherent, table, history
<1>1. PICK new : /\ new \in Schedule
                 /\ Consistent(new)
                 /\ plan' = [plan EXCEPT ![p] = new]
  <2>1. PICK due \in Today, f \in PlanFrequencies \cup {NoFrequency},
             end \in Today \cup {NoEnd} :
          LET n == [active |-> TRUE, recurring |-> f # NoFrequency,
                    frequency |-> f, due |-> due, end |-> end,
                    anchor |-> IF f = NoFrequency THEN NoAnchor ELSE Day(due)]
          IN  Consistent(n) /\ plan' = [plan EXCEPT ![p] = n]
    BY DEF Create
  <2>2. due \in Dates /\ Day(due) \in 0..31
    BY DateOfParts
  <2>3. [active |-> TRUE, recurring |-> f # NoFrequency,
         frequency |-> f, due |-> due, end |-> end,
         anchor |-> IF f = NoFrequency THEN NoAnchor ELSE Day(due)] \in Schedule
    BY <2>2 DEF Schedule, NoAnchor
  <2> QED
    BY <2>1, <2>3
<1>2. plan[p] = NoPlan /\ new # NoPlan
  BY <1>1 DEF Create, Exists
<1>3. TypeOK'
  BY <1>1 DEF TypeOK, Create
<1>4. HoldersSeeTheRow'
  BY <1>1, <1>2 DEF HoldersSeeTheRow, Holding, Exists, Create, TypeOK
<1>5. TargetsExist'
  BY <1>1, <1>2 DEF TargetsExist, Exists, Create, TypeOK
<1>6. RowsAreConsistent'
  BY <1>1 DEF RowsAreConsistent, Exists, TypeOK
<1> QED
  BY <1>3, <1>4, <1>5, <1>6

LEMMA ArchivingCoherent ==
  ASSUME RowsCoherent, NEW b \in BOOLEAN,
         (\E p \in Plan : SetAccountActive(p, b)) \/ SetGroupActive(b)
  PROVE  RowsCoherent'
<1>1. UNCHANGED <<today, plan, posted, lock, pc, todo, target, view, date, edit,
                  failures, edited>>
  BY DEF SetAccountActive, SetGroupActive
<1>2. accountActive' \in [Plan -> BOOLEAN] /\ groupActive' \in BOOLEAN
  BY DEF SetAccountActive, SetGroupActive, RowsCoherent, Coherent, TypeOK
<1>3. archived' \in [Cron -> SUBSET {"account", "group"}]
  BY DEF SetAccountActive, SetGroupActive, RowsCoherent, Coherent, TypeOK
<1>4. TypeOK'
  BY <1>1, <1>2, <1>3 DEF TypeOK, RowsCoherent, Coherent
<1>5. HoldersSeeTheRow' /\ TargetsExist' /\ RowsAreConsistent'
  BY <1>1 DEF HoldersSeeTheRow, Holding, Exists, TargetsExist, RowsAreConsistent,
     RowsCoherent, Coherent
<1> QED
  BY <1>4, <1>5 DEF RowsCoherent, Coherent

LEMMA PatchReadCoherent ==
  ASSUME RowsCoherent, NEW r \in Request, PatchRead(r) PROVE RowsCoherent'
<1> USE DEF RowsCoherent, Coherent, table, history
<1>1. PICK p \in Plan, e \in Edits :
        /\ Exists(p)
        /\ target' = [target EXCEPT ![r] = p]
        /\ view' = [view EXCEPT ![r] = plan[p]]
        /\ edit' = [edit EXCEPT ![r] = e]
  BY DEF PatchRead
<1>2. /\ UNCHANGED <<today, plan, posted, accountActive, groupActive, lock, todo,
                      date, failures, edited, archived>>
      /\ pc' = [pc EXCEPT ![r] = "writing"]
  BY DEF PatchRead
<1>3. plan[p] \in Schedule /\ r \notin Cron
  BY <1>1 DEF Exists, TypeOK
<1>4. TypeOK'
  BY <1>1, <1>2, <1>3 DEF TypeOK
<1>5. HoldersSeeTheRow'
  BY <1>1, <1>2, <1>3 DEF HoldersSeeTheRow, Holding, Exists, TypeOK
<1>6. TargetsExist'
  BY <1>1, <1>2, <1>3 DEF TargetsExist, Exists, TypeOK
<1>7. RowsAreConsistent'
  BY <1>2 DEF RowsAreConsistent, Exists
<1> QED
  BY <1>4, <1>5, <1>6, <1>7

(* What a PATCH writes, if it writes, is a row that satisfies the checks, *)
(* and no run holds the one it replaces.                                  *)
LEMMA PatchWriteRow ==
  ASSUME RowsCoherent, NEW r \in Request, PatchWrite(r)
  PROVE  /\ target[r] \in Plan /\ Exists(target[r])
         /\ \A c \in Cron : Holding(c) => target[c] # target[r]
         /\ \/ UNCHANGED <<plan, edited>>
            \/ \E new \in Schedule :
                 /\ Consistent(new)
                 /\ plan' = [plan EXCEPT ![target[r]] = new]
                 /\ edited' = IF new = plan[target[r]] THEN edited
                              ELSE edited \cup {target[r]}
<1> USE DEF RowsCoherent, Coherent
<1>1. /\ target[r] \in Plan /\ Exists(target[r])
      /\ view[r] \in Schedule /\ edit[r] \in Edits
  BY DEF PatchWrite, TargetsExist
<1>2. plan[target[r]] \in Schedule
  BY <1>1 DEF Exists, TypeOK
<1>3. Updated(plan[target[r]], view[r], edit[r]) \in Schedule
  BY <1>1, <1>2, UpdatedRow
<1>4. \A c \in Cron : Holding(c) => target[c] # target[r]
  BY DEF PatchWrite, HoldersSeeTheRow
<1> QED
  BY <1>1, <1>3, <1>4 DEF PatchWrite

LEMMA PatchWriteCoherent ==
  ASSUME RowsCoherent, NEW r \in Request, PatchWrite(r) PROVE RowsCoherent'
<1> USE DEF RowsCoherent, Coherent
<1>1. /\ UNCHANGED <<today, posted, accountActive, groupActive, lock, todo,
                      target, view, date, edit, failures, archived>>
      /\ pc' = [pc EXCEPT ![r] = "done"]
      /\ r \notin Cron
  BY DEF PatchWrite
<1>2. CASE UNCHANGED <<plan, edited>>
  <2>1. TypeOK'
    BY <1>1, <1>2 DEF TypeOK
  <2>2. HoldersSeeTheRow' /\ TargetsExist' /\ RowsAreConsistent'
    BY <1>1, <1>2 DEF HoldersSeeTheRow, Holding, Exists, TargetsExist,
       RowsAreConsistent, TypeOK
  <2> QED
    BY <2>1, <2>2
<1>3. ASSUME NEW new \in Schedule, Consistent(new),
             plan' = [plan EXCEPT ![target[r]] = new],
             edited' = IF new = plan[target[r]] THEN edited
                       ELSE edited \cup {target[r]}
      PROVE  RowsCoherent'
  <2>1. target[r] \in Plan /\ \A c \in Cron : Holding(c) => target[c] # target[r]
    BY PatchWriteRow
  <2>2. TypeOK'
    BY <1>1, <1>3, <2>1 DEF TypeOK
  <2>3. \A p \in Plan : Exists(p) => Exists(p)'
    BY <1>3 DEF Exists, TypeOK
  <2>4. HoldersSeeTheRow'
    BY <1>1, <1>3, <2>1, <2>3 DEF HoldersSeeTheRow, Holding, TypeOK
  <2>5. TargetsExist'
    BY <1>1, <2>3 DEF TargetsExist, TypeOK
  <2>6. RowsAreConsistent'
    BY <1>3, <2>1 DEF RowsAreConsistent, Exists, TypeOK
  <2> QED
    BY <2>2, <2>4, <2>5, <2>6
<1> QED
  BY <1>2, <1>3, PatchWriteRow

(* Release, whatever it ends, keeps the others' hold. *)
LEMMA ReleaseFrame ==
  ASSUME TypeOK, NEW c \in Cron, Release(c)
  PROVE  /\ lock' \in [Plan -> Cron \cup {Free}]
         /\ view' \in [Cron \cup Request -> Schedule \cup {NoPlan}]
         /\ target' \in [Cron \cup Request -> Plan \cup {NoPlan}]
         /\ archived' \in [Cron -> SUBSET {"account", "group"}]
         /\ \A a \in Cron \cup Request : a # c =>
              view'[a] = view[a] /\ target'[a] = target[a]
         /\ \A d \in Cron : d # c => archived'[d] = archived[d]
         /\ \A d \in Cron, p \in Plan : d # c /\ lock[p] = d => lock'[p] = d
  BY DEF Release, TypeOK

(* A step of run c that changes no row and leaves it holding nothing. *)
LEMMA LetGoCoherent ==
  ASSUME RowsCoherent, NEW c \in Cron, Release(c),
         UNCHANGED <<today, plan, posted, accountActive, groupActive, date, edit,
                     edited>>,
         failures' \in 0..MaxFailures,
         todo' \in [Cron -> SUBSET Plan],
         \A d \in Cron : todo'[d] \subseteq todo[d],
         NEW where \in {"idle", "next"},
         pc' = [pc EXCEPT ![c] = where]
  PROVE  RowsCoherent'
<1> USE DEF RowsCoherent, Coherent
<1>1. TypeOK'
  BY ReleaseFrame DEF TypeOK
<1>2. c \notin Request
  OBVIOUS
<1>3. HoldersSeeTheRow'
  BY ReleaseFrame DEF HoldersSeeTheRow, Holding, Exists, TypeOK
<1>4. TargetsExist'
  BY <1>2, ReleaseFrame DEF TargetsExist, Exists, TypeOK
<1>5. RowsAreConsistent'
  BY DEF RowsAreConsistent, Exists
<1> QED
  BY <1>1, <1>3, <1>4, <1>5

(* A step of run c that changes nothing but where c is and what it aims at. *)
LEMMA ListingCoherent ==
  ASSUME RowsCoherent, NEW c \in Cron, Start(c) \/ TakePlan(c) \/ Finish(c)
  PROVE  RowsCoherent'
<1> USE DEF RowsCoherent, Coherent, table, history
<1>1. c \notin Request
  OBVIOUS
<1>2. CASE Start(c)
  <2>1. DuePlans \in SUBSET Plan /\ \A p \in DuePlans : Exists(p)
    BY DEF DuePlans
  <2>2. TypeOK'
    BY <1>2, <2>1 DEF Start, TypeOK
  <2>3. HoldersSeeTheRow'
    BY <1>2 DEF Start, HoldersSeeTheRow, Holding, Exists, TypeOK
  <2>4. TargetsExist'
    BY <1>1, <1>2, <2>1 DEF Start, TargetsExist, Exists, TypeOK
  <2>5. RowsAreConsistent'
    BY <1>2 DEF Start, RowsAreConsistent, Exists
  <2> QED
    BY <2>2, <2>3, <2>4, <2>5
<1>3. CASE TakePlan(c)
  <2>1. PICK p \in todo[c] :
          /\ target' = [target EXCEPT ![c] = p]
          /\ todo' = [todo EXCEPT ![c] = @ \ {p}]
    BY <1>3 DEF TakePlan
  <2>2. /\ UNCHANGED <<today, plan, posted, accountActive, groupActive, lock,
                        view, edit, failures, edited, archived>>
        /\ date' = [date EXCEPT ![c] = today]
        /\ pc' = [pc EXCEPT ![c] = "locking"]
    BY <1>3 DEF TakePlan
  <2>3. p \in Plan /\ Exists(p)
    BY DEF TypeOK, TargetsExist
  <2>4. TypeOK'
    BY <2>1, <2>2, <2>3 DEF TypeOK
  <2>5. HoldersSeeTheRow'
    BY <2>1, <2>2 DEF HoldersSeeTheRow, Holding, Exists, TypeOK
  <2>6. today \in Nat
    BY DEF TypeOK, Dates
  <2>7. TargetsExist'
    BY <1>1, <2>1, <2>2, <2>3, <2>6 DEF TargetsExist, Exists, TypeOK
  <2>8. RowsAreConsistent'
    BY <2>2 DEF RowsAreConsistent, Exists
  <2> QED
    BY <2>4, <2>5, <2>7, <2>8
<1>4. CASE Finish(c)
  <2>1. TypeOK'
    BY <1>4 DEF Finish, TypeOK
  <2>2. HoldersSeeTheRow' /\ RowsAreConsistent'
    BY <1>4 DEF Finish, HoldersSeeTheRow, Holding, Exists, TypeOK, RowsAreConsistent
  <2>3. TargetsExist'
    BY <1>1, <1>4 DEF Finish, TargetsExist, Exists, TypeOK
  <2> QED
    BY <2>1, <2>2, <2>3
<1> QED
  BY <1>2, <1>3, <1>4

LEMMA LockPlanCoherent ==
  ASSUME RowsCoherent, NEW c \in Cron, LockPlan(c) PROVE RowsCoherent'
<1> USE DEF RowsCoherent, Coherent
<1>1. /\ UNCHANGED <<today, plan, posted, accountActive, groupActive, todo, date,
                      edit, failures, edited>>
      /\ target[c] \in Plan /\ Exists(target[c]) /\ lock[target[c]] = Free
      /\ c \notin Request
  BY DEF LockPlan, TargetsExist, table
<1>2. CASE ~StillDue(c, plan[target[c]])
  <2>1. Release(c) /\ pc' = [pc EXCEPT ![c] = "next"]
    BY <1>2 DEF LockPlan
  <2>2. failures' \in 0..MaxFailures /\ todo' \in [Cron -> SUBSET Plan]
    BY <1>1 DEF TypeOK
  <2> QED
    BY <1>1, <2>1, <2>2, LetGoCoherent
<1>3. CASE StillDue(c, plan[target[c]])
  <2>1. /\ lock' = [lock EXCEPT ![target[c]] = c]
        /\ view' = [view EXCEPT ![c] = plan[target[c]]]
        /\ archived' = [archived EXCEPT ![c] = Dormant(target[c])]
        /\ pc' = [pc EXCEPT ![c] = "account"]
        /\ UNCHANGED target
    BY <1>3 DEF LockPlan
  <2>2. Dormant(target[c]) \in SUBSET {"account", "group"}
    BY DEF Dormant
  <2>3. TypeOK'
    <3>1. plan[target[c]] \in Schedule
      BY <1>1 DEF Exists, TypeOK
    <3> QED
      BY <1>1, <2>1, <2>2, <3>1 DEF TypeOK
  <2>4. plan[target[c]].active /\ plan[target[c]].due <= today
    <3>1. plan[target[c]].due \in Nat /\ date[c] \in Nat /\ today \in Nat
      BY <1>1 DEF TypeOK, Exists, Schedule, Dates
    <3>2. date[c] <= today
      BY DEF TargetsExist
    <3> QED
      BY <1>3, <3>1, <3>2 DEF StillDue
  <2>5. HoldersSeeTheRow'
    BY <1>1, <2>1, <2>4 DEF HoldersSeeTheRow, Holding, Exists, TypeOK
  <2>6. TargetsExist'
    BY <1>1, <2>1 DEF TargetsExist, Exists, TypeOK
  <2>7. RowsAreConsistent'
    BY <1>1 DEF RowsAreConsistent, Exists
  <2> QED
    BY <2>3, <2>5, <2>6, <2>7
<1> QED
  BY <1>2, <1>3

LEMMA CheckCoherent ==
  ASSUME RowsCoherent, NEW c \in Cron, CheckAccount(c) \/ CheckGroup(c)
  PROVE  RowsCoherent'
<1> USE DEF RowsCoherent, Coherent
<1>1. /\ UNCHANGED <<today, plan, posted, accountActive, groupActive, todo, date,
                      edit, failures, edited>>
      /\ c \notin Request
      /\ Holding(c)
  BY DEF CheckAccount, CheckGroup, GoOnIf, table, Holding
<1>2. \/ /\ Release(c)
         /\ pc' = [pc EXCEPT ![c] = "next"]
      \/ /\ UNCHANGED <<lock, view, target, archived>>
         /\ \E where \in {"group", "posting"} : pc' = [pc EXCEPT ![c] = where]
  BY DEF CheckAccount, CheckGroup, GoOnIf
<1>3. CASE Release(c) /\ pc' = [pc EXCEPT ![c] = "next"]
  <2>1. failures' \in 0..MaxFailures /\ todo' \in [Cron -> SUBSET Plan]
    BY <1>1 DEF TypeOK
  <2> QED
    BY <1>1, <1>3, <2>1, LetGoCoherent
<1>4. ASSUME UNCHANGED <<lock, view, target, archived>>,
             NEW where \in {"group", "posting"}, pc' = [pc EXCEPT ![c] = where]
      PROVE  RowsCoherent'
  <2>1. TypeOK'
    BY <1>1, <1>4 DEF TypeOK
  <2>2. HoldersSeeTheRow'
    BY <1>1, <1>4 DEF HoldersSeeTheRow, Holding, Exists, TypeOK
  <2>3. TargetsExist'
    BY <1>1, <1>4 DEF TargetsExist, Exists, TypeOK
  <2>4. RowsAreConsistent'
    BY <1>1 DEF RowsAreConsistent, Exists
  <2> QED
    BY <2>1, <2>2, <2>3, <2>4
<1> QED
  BY <1>2, <1>3, <1>4

(* Post, said of the row itself: it is active and due, the date posted is  *)
(* its due date, a new one, and the row moves on to a later one or closes. *)
LEMMA PostRow ==
  ASSUME RowsCoherent, NEW c \in Cron, Post(c)
  PROVE  /\ target[c] \in Plan /\ Exists(target[c])
         /\ plan[target[c]] \in Schedule /\ Consistent(plan[target[c]])
         /\ plan[target[c]].active /\ plan[target[c]].due <= today
         /\ ~OccurrenceTaken(target[c], plan[target[c]].due)
         /\ posted' = [posted EXCEPT ![target[c]] =
                        Append(@, plan[target[c]].due)]
         /\ plan' = [plan EXCEPT ![target[c]] =
                      MovedOn(plan[target[c]], plan[target[c]])]
         /\ \A d \in Cron : Holding(d) /\ d # c => target[d] # target[c]
<1> USE DEF RowsCoherent, Coherent
<1>1. /\ target[c] \in Plan /\ Exists(target[c]) /\ lock[target[c]] = c
      /\ view[c] = plan[target[c]]
      /\ view[c].active /\ view[c].due <= today
  BY DEF Post, HoldersSeeTheRow, Holding
<1>2. plan[target[c]] \in Schedule /\ Consistent(plan[target[c]])
  BY <1>1 DEF TypeOK, Exists, RowsAreConsistent
<1>3. \A d \in Cron : Holding(d) /\ d # c => target[d] # target[c]
  BY <1>1 DEF HoldersSeeTheRow
<1>4. /\ ~OccurrenceTaken(target[c], plan[target[c]].due)
      /\ posted' = [posted EXCEPT ![target[c]] = Append(@, plan[target[c]].due)]
      /\ plan' = [plan EXCEPT ![target[c]] =
                   MovedOn(plan[target[c]], plan[target[c]])]
  BY <1>1 DEF Post, Postable
<1> QED
  BY <1>1, <1>2, <1>3, <1>4

LEMMA PostCoherent ==
  ASSUME RowsCoherent, NEW c \in Cron, Post(c) PROVE RowsCoherent'
<1> USE DEF RowsCoherent, Coherent
<1> DEFINE p == target[c]
           moved == MovedOn(plan[p], plan[p])
<1>1. /\ UNCHANGED <<today, accountActive, groupActive, todo, date, edit, failures,
                      edited>>
      /\ pc' = [pc EXCEPT ![c] = "next"]
      /\ Release(c)
      /\ c \notin Request
  BY DEF Post
<1>2. /\ p \in Plan /\ Exists(p)
      /\ plan[p] \in Schedule /\ Consistent(plan[p])
      /\ posted' = [posted EXCEPT ![p] = Append(@, plan[p].due)]
      /\ plan' = [plan EXCEPT ![p] = moved]
      /\ \A d \in Cron : Holding(d) /\ d # c => target[d] # p
  BY PostRow
<1>3. moved \in Schedule /\ Consistent(moved)
  BY <1>2, MovedOnRow
<1> HIDE DEF moved, p
<1>4. TypeOK'
  <2>1. Append(posted[p], plan[p].due) \in Seq(Dates)
    BY <1>2 DEF TypeOK, Schedule
  <2>2. posted' \in [Plan -> Seq(Dates)]
    BY <1>2, <2>1 DEF TypeOK
  <2>3. plan' \in [Plan -> Schedule \cup {NoPlan}]
    BY <1>2, <1>3 DEF TypeOK
  <2> QED
    BY <1>1, <2>2, <2>3, ReleaseFrame DEF TypeOK
<1>5. \A q \in Plan : Exists(q) => Exists(q)'
  BY <1>2, <1>3 DEF Exists, TypeOK
<1>6. HoldersSeeTheRow'
  <2> SUFFICES ASSUME NEW d \in Cron, Holding(d)'
               PROVE  /\ target[d] \in Plan /\ target'[d] = target[d]
                      /\ Exists(target[d])'
                      /\ lock'[target[d]] = d
                      /\ view'[d] = plan'[target[d]]
                      /\ view'[d].active
                      /\ view'[d].due <= today'
    BY DEF HoldersSeeTheRow
  <2>1. d # c /\ Holding(d)
    BY <1>1 DEF Holding, TypeOK
  <2>2. /\ target[d] \in Plan /\ Exists(target[d]) /\ lock[target[d]] = d
        /\ view[d] = plan[target[d]] /\ view[d].active /\ view[d].due <= today
    BY <2>1 DEF HoldersSeeTheRow
  <2>3. target'[d] = target[d] /\ view'[d] = view[d] /\ lock'[target[d]] = d
    BY <1>1, <2>1, <2>2, ReleaseFrame
  <2>4. plan'[target[d]] = plan[target[d]]
    BY <1>2, <2>1, <2>2 DEF TypeOK
  <2> QED
    BY <1>1, <1>5, <2>2, <2>3, <2>4
<1>7. TargetsExist'
  BY <1>1, <1>5, ReleaseFrame DEF TargetsExist, TypeOK
<1>8. RowsAreConsistent'
  BY <1>2, <1>3 DEF RowsAreConsistent, Exists, TypeOK
<1> QED
  BY <1>4, <1>6, <1>7, <1>8

LEMMA GiveUpCoherent ==
  ASSUME RowsCoherent, NEW c \in Cron, Refuse(c) \/ Fail(c) \/ Crash(c)
  PROVE  RowsCoherent'
<1>1. /\ UNCHANGED <<today, plan, posted, accountActive, groupActive, date, edit,
                      edited>>
      /\ Release(c)
  BY DEF Refuse, Fail, Crash, table
<1>2. failures' \in 0..MaxFailures
  BY DEF Refuse, Fail, Crash, RowsCoherent, Coherent, TypeOK
<1>3. /\ todo' \in [Cron -> SUBSET Plan]
      /\ \A d \in Cron : todo'[d] \subseteq todo[d]
  BY DEF Refuse, Fail, Crash, RowsCoherent, Coherent, TypeOK
<1>4. \E where \in {"idle", "next"} : pc' = [pc EXCEPT ![c] = where]
  BY DEF Refuse, Fail, Crash
<1> QED
  BY <1>1, <1>2, <1>3, <1>4, LetGoCoherent

LEMMA StepCoherent == RowsCoherent /\ [Next]_vars => RowsCoherent'
<1> SUFFICES ASSUME RowsCoherent, [Next]_vars PROVE RowsCoherent'
  OBVIOUS
<1>1. CASE Tick
  BY <1>1, TickCoherent
<1>2. ASSUME NEW p \in Plan, Create(p) PROVE RowsCoherent'
  BY <1>2, CreateCoherent
<1>3. ASSUME NEW p \in Plan, NEW b \in BOOLEAN, SetAccountActive(p, b)
      PROVE  RowsCoherent'
  BY <1>3, ArchivingCoherent
<1>4. ASSUME NEW b \in BOOLEAN, SetGroupActive(b) PROVE RowsCoherent'
  BY <1>4, ArchivingCoherent
<1>5. ASSUME NEW r \in Request, PatchRead(r) \/ PatchWrite(r) PROVE RowsCoherent'
  BY <1>5, PatchReadCoherent, PatchWriteCoherent
<1>6. ASSUME NEW c \in Cron, Run(c) PROVE RowsCoherent'
  BY <1>6, ListingCoherent, LockPlanCoherent, CheckCoherent, PostCoherent,
     GiveUpCoherent DEF Run
<1>7. ASSUME NEW c \in Cron, Fail(c) \/ Crash(c) PROVE RowsCoherent'
  BY <1>7, GiveUpCoherent
<1>8. CASE UNCHANGED vars
  <2> USE <1>8 DEF vars, table, history, RowsCoherent, Coherent
  <2>1. TypeOK'
    BY DEF TypeOK
  <2>2. HoldersSeeTheRow' /\ TargetsExist' /\ RowsAreConsistent'
    BY DEF HoldersSeeTheRow, Holding, Exists, TargetsExist, RowsAreConsistent
  <2> QED
    BY <2>1, <2>2
<1> QED
  BY <1>1, <1>2, <1>3, <1>4, <1>5, <1>6, <1>7, <1>8 DEF Next

(***************************************************************************)
(* Tables, runs and requests keep their types, and what the runs hold is   *)
(* the row as it is: the premise of all that follows.                      *)
(***************************************************************************)
THEOREM RowsStayCoherent == Spec => []RowsCoherent
  BY InitCoherent, StepCoherent, PTL DEF Spec

(***************************************************************************)
(* The type invariant of PaymentPlans.                                     *)
(***************************************************************************)
THEOREM TypeCorrect == Spec => []TypeOK
<1>1. RowsCoherent => TypeOK
  BY DEF RowsCoherent, Coherent
<1> QED
  BY <1>1, RowsStayCoherent, PTL

-----------------------------------------------------------------------------
(* What is posted *)

(* The steps that change rows or postings: the others are of no interest. *)
LEMMA RowsChange ==
  ASSUME [Next]_vars
  PROVE  \/ UNCHANGED <<plan, posted, edited>>
         \/ \E p \in Plan : Create(p)
         \/ \E r \in Request : PatchWrite(r)
         \/ \E c \in Cron : Post(c)
<1>1. CASE Next
  BY <1>1 DEF Next, Run, Tick, SetAccountActive, SetGroupActive, PatchRead, Start,
     TakePlan, Finish, LockPlan, CheckAccount, CheckGroup, GoOnIf, Refuse, Fail,
     Crash, table, history
<1>2. CASE UNCHANGED vars
  BY <1>2 DEF vars, table, history
<1> QED
  BY <1>1, <1>2

(* A row that appears is a consistent, active, unposted one. *)
LEMMA CreatedRow ==
  ASSUME TypeOK, NEW p \in Plan, Create(p)
  PROVE  /\ ~Exists(p) /\ UNCHANGED <<posted, edited>>
         /\ \E new : new.active /\ plan' = [plan EXCEPT ![p] = new]
  BY DEF Create, history

Postings == NothingPostedBefore /\ PostedIsPast /\ AtMostOnce /\ UneditedIsExact

PostingsInv == RowsCoherent /\ Postings

LEMMA InitPostings == Init => Postings
  BY DEF Init, Postings, NothingPostedBefore, PostedIsPast, AtMostOnce,
     UneditedIsExact, Exists

LEMMA CreatePostings ==
  ASSUME PostingsInv, NEW p \in Plan, Create(p) PROVE Postings'
<1>1. /\ ~Exists(p) /\ posted' = posted /\ edited' = edited /\ posted[p] = <<>>
  BY CreatedRow DEF PostingsInv, Postings, RowsCoherent, Coherent,
     NothingPostedBefore
<1>2. PICK new : new.active /\ plan' = [plan EXCEPT ![p] = new]
  BY CreatedRow DEF PostingsInv, RowsCoherent, Coherent
<1>3. plan \in [Plan -> Schedule \cup {NoPlan}]
  BY DEF PostingsInv, RowsCoherent, Coherent, TypeOK
<1>4. plan'[p] = new /\ \A q \in Plan : q # p => plan'[q] = plan[q]
  BY <1>2, <1>3
<1>5. Len(posted[p]) = 0
  BY <1>1
<1>6. NothingPostedBefore'
  BY <1>1, <1>4 DEF NothingPostedBefore, Exists, PostingsInv, Postings
<1>7. PostedIsPast'
  BY <1>1, <1>4, <1>5 DEF PostedIsPast, Exists, PostingsInv, Postings
<1>8. AtMostOnce'
  BY <1>1 DEF AtMostOnce, PostingsInv, Postings
<1>9. UneditedIsExact'
  <2> SUFFICES ASSUME NEW q \in Plan, Exists(q)', q \notin edited
               PROVE  ExactlyPosted(plan'[q], posted'[q])
    BY <1>1 DEF UneditedIsExact
  <2>1. CASE q = p
    BY <1>1, <1>2, <1>4, <1>5, <2>1 DEF ExactlyPosted
  <2>2. CASE q # p
    BY <1>1, <1>4, <2>2 DEF UneditedIsExact, Exists, PostingsInv, Postings
  <2> QED
    BY <2>1, <2>2
<1> QED
  BY <1>6, <1>7, <1>8, <1>9 DEF Postings

LEMMA PatchPostings ==
  ASSUME PostingsInv, NEW r \in Request, PatchWrite(r) PROVE Postings'
<1> USE DEF PostingsInv, Postings
<1>1. posted' = posted
  BY DEF PatchWrite
<1>2. plan \in [Plan -> Schedule \cup {NoPlan}] /\ target[r] \in Plan
  BY PatchWriteRow DEF RowsCoherent, Coherent, TypeOK
<1>3. \A p \in Plan : p \notin edited' => plan'[p] = plan[p] /\ p \notin edited
  BY <1>2, PatchWriteRow
<1>4. \A p \in Plan : Exists(p) => Exists(p)'
  BY <1>2, PatchWriteRow DEF Exists
<1>5. NothingPostedBefore'
  BY <1>1, <1>4 DEF NothingPostedBefore
<1>6. PostedIsPast'
  BY <1>1, <1>3 DEF PostedIsPast, Exists
<1>7. AtMostOnce'
  BY <1>1 DEF AtMostOnce
<1>8. UneditedIsExact'
  BY <1>1, <1>3 DEF UneditedIsExact, Exists
<1> QED
  BY <1>5, <1>6, <1>7, <1>8

(* The posted plan itself: one lemma for the case that its due date is the *)
(* last of dates that end before it.                                       *)
LEMMA PostPostings ==
  ASSUME PostingsInv, NEW c \in Cron, Post(c) PROVE Postings'
<1> USE DEF PostingsInv, Postings
<1> DEFINE p == target[c]
           s == plan[p]
           moved == MovedOn(s, s)
           old == posted[p]
           n == Len(old)
           after(d) == AdvanceScheduledDate(d, s.frequency, s.anchor)
<1>1. /\ p \in Plan /\ Exists(p)
      /\ s \in Schedule /\ Consistent(s) /\ s.active
      /\ ~OccurrenceTaken(p, s.due)
      /\ posted' = [posted EXCEPT ![p] = Append(@, s.due)]
      /\ plan' = [plan EXCEPT ![p] = moved]
  BY PostRow
<1>2. edited' = edited
  BY DEF Post
<1>3. /\ plan \in [Plan -> Schedule \cup {NoPlan}]
      /\ posted \in [Plan -> Seq(Dates)]
  BY DEF RowsCoherent, Coherent, TypeOK
<1>4. /\ old \in Seq(Dates) /\ n \in Nat
      /\ posted'[p] = Append(old, s.due)
      /\ Len(posted'[p]) = n + 1
      /\ posted'[p][n + 1] = s.due
      /\ \A i \in 1..n : posted'[p][i] = old[i] /\ old[i] \in Dates
  BY <1>1, <1>3 DEF Schedule
<1>5. /\ plan'[p] = moved
      /\ \A q \in Plan : q # p => plan'[q] = plan[q] /\ posted'[q] = posted[q]
  BY <1>1, <1>3
<1>6. /\ s.due \in Nat /\ moved.due \in Nat /\ moved \in Schedule
      /\ \/ moved.due > s.due /\ moved.active = s.active
         \/ moved.due = s.due /\ ~moved.active
  BY <1>1, MovedOnRow
<1>7. moved # NoPlan
  BY <1>6
<1>8. NothingPostedBefore'
  BY <1>5, <1>7 DEF NothingPostedBefore, Exists
<1>9. PostedIsPast'
  <2> SUFFICES ASSUME NEW q \in Plan, Exists(q)', q \notin edited,
                      NEW i \in 1..Len(posted'[q])
               PROVE  /\ posted'[q][i] <= plan'[q].due
                      /\ plan'[q].active => posted'[q][i] < plan'[q].due
    BY <1>2 DEF PostedIsPast
  <2>1. CASE q # p
    BY <2>1, <1>5 DEF PostedIsPast, Exists
  <2>2. CASE q = p
    <3>1. \A j \in 1..n : old[j] < s.due
      BY <1>1, <2>2 DEF PostedIsPast
    <3>2. \A j \in 1..(n + 1) : posted'[p][j] \in Nat /\ posted'[p][j] <= s.due
      <4> TAKE j \in 1..(n + 1)
      <4>1. CASE j \in 1..n
        <5>1. posted'[p][j] = old[j] /\ old[j] \in Nat
          BY <1>4, <4>1 DEF Dates
        <5>2. old[j] < s.due
          BY <3>1, <4>1
        <5> HIDE DEF s, old, n
        <5> QED
          BY <5>1, <5>2, <1>6
      <4>2. CASE j = n + 1
        BY <1>4, <1>6, <4>2
      <4>3. j \in 1..n \/ j = n + 1
        <5> HIDE DEF n
        <5> QED
          BY <1>4
      <4> QED
        BY <4>1, <4>2, <4>3
    <3> HIDE DEF s, moved, old, n
    <3> QED
      BY <2>2, <3>2, <1>4, <1>5, <1>6
  <2> QED
    BY <2>1, <2>2
<1>10. AtMostOnce'
  <2> SUFFICES ASSUME NEW q \in Plan, NEW i \in 1..Len(posted'[q]),
                      NEW j \in 1..Len(posted'[q]),
                      posted'[q][i] = posted'[q][j]
               PROVE  i = j
    BY DEF AtMostOnce
  <2>1. CASE q # p
    BY <2>1, <1>5 DEF AtMostOnce
  <2>2. CASE q = p
    <3>1. \A k \in 1..n : old[k] # s.due
      BY <1>1 DEF OccurrenceTaken
    <3>2. (i \in 1..n \/ i = n + 1) /\ (j \in 1..n \/ j = n + 1)
      <4>1. i \in 1..(n + 1) /\ j \in 1..(n + 1)
        BY <2>2, <1>4
      <4> HIDE DEF n
      <4> QED
        BY <4>1, <1>4
    <3>3. CASE i \in 1..n /\ j \in 1..n
      BY <2>2, <3>3, <1>1, <1>4 DEF AtMostOnce
    <3>4. CASE i = n + 1 /\ j \in 1..n
      BY <2>2, <3>1, <3>4, <1>4
    <3>5. CASE i \in 1..n /\ j = n + 1
      BY <2>2, <3>1, <3>5, <1>4
    <3> QED
      BY <3>2, <3>3, <3>4, <3>5
  <2> QED
    BY <2>1, <2>2
<1>11. UneditedIsExact'
  <2>1. ASSUME NEW q \in Plan, Exists(q)', q \notin edited', q # p
        PROVE  ExactlyPosted(plan'[q], posted'[q])
    BY <2>1, <1>2, <1>5 DEF UneditedIsExact, Exists
  <2>2. ASSUME p \notin edited
        PROVE  ExactlyPosted(plan'[p], posted'[p])
    <3>1. /\ moved.recurring = s.recurring
          /\ moved.frequency = s.frequency
          /\ moved.anchor = s.anchor
          /\ moved.end = s.end
      BY <1>1 DEF MovedOn, Schedule
    <3>2. /\ s.recurring => \A i \in 1..(n - 1) : old[i + 1] = after(old[i])
          /\ n > 0 => s.recurring /\ s.due = after(old[n])
      BY <1>1, <1>4, <2>2 DEF UneditedIsExact, ExactlyPosted
    <3>3. s.recurring => \A i \in 1..n : posted'[p][i + 1] = after(posted'[p][i])
      <4> SUFFICES ASSUME s.recurring, NEW i \in 1..n
                   PROVE  posted'[p][i + 1] = after(posted'[p][i])
        OBVIOUS
      <4>1. CASE i = n
        BY <4>1, <3>2, <1>4
      <4>2. CASE i # n
        <5>1. i \in 1..(n - 1) /\ i + 1 \in 1..n
          BY <4>2, <1>4
        <5> QED
          BY <5>1, <3>2, <1>4
      <4> QED
        BY <4>1, <4>2
    <3>4. moved.active => s.recurring /\ moved.due = after(s.due)
      BY <1>1 DEF MovedOn, Schedule
    <3>5. ~moved.active =>
            /\ moved.due = s.due
            /\ ~s.recurring => n = 0
            /\ s.recurring => s.end # NoEnd /\ after(s.due) > s.end
      <4> SUFFICES ASSUME ~moved.active
                   PROVE  /\ moved.due = s.due
                          /\ ~s.recurring => n = 0
                          /\ s.recurring => s.end # NoEnd /\ after(s.due) > s.end
        OBVIOUS
      <4>1. ~(s.recurring /\ (s.end = NoEnd \/ after(s.due) <= s.end))
        BY <1>1 DEF MovedOn, Schedule
      <4>2. moved.due = s.due
        BY <4>1 DEF MovedOn, Schedule
      <4>3. ~s.recurring => n = 0
        BY <3>2, <1>4
      <4>4. s.recurring => s.end # NoEnd /\ after(s.due) > s.end
        <5>1. s.end \in Nat
          BY <1>1 DEF Schedule, Dates, NoEnd
        <5>2. s.recurring => after(s.due) \in Nat
          BY <1>1, AdvanceIsLater DEF Consistent, Schedule, Dates
        <5> HIDE DEF after, s
        <5> QED
          BY <5>1, <5>2, <4>1
      <4> QED
        BY <4>2, <4>3, <4>4
    <3> HIDE DEF s, moved, old, n
    <3> QED
      BY <1>4, <1>5, <3>1, <3>3, <3>4, <3>5 DEF ExactlyPosted
  <2> HIDE DEF p
  <2> QED
    BY <2>1, <2>2, <1>2 DEF UneditedIsExact
<1> QED
  BY <1>8, <1>9, <1>10, <1>11

LEMMA StepPostings == PostingsInv /\ [Next]_vars => PostingsInv'
<1> SUFFICES ASSUME PostingsInv, [Next]_vars PROVE Postings'
  BY StepCoherent DEF PostingsInv
<1>1. CASE UNCHANGED <<plan, posted, edited>>
  BY <1>1 DEF PostingsInv, Postings, NothingPostedBefore, PostedIsPast, AtMostOnce,
     UneditedIsExact, Exists
<1> QED
  BY <1>1, RowsChange, CreatePostings, PatchPostings, PostPostings

LEMMA PostingsAlways == Spec => []PostingsInv
<1>1. Init => PostingsInv
  BY InitCoherent, InitPostings DEF PostingsInv
<1> QED
  BY <1>1, StepPostings, PTL DEF Spec

(***************************************************************************)
(* AtMostOnce: the unique index holds because it is checked at every post, *)
(* for any number of runs and any edits.                                   *)
(***************************************************************************)
THEOREM OnlyOnce == Spec => []AtMostOnce
<1>1. PostingsInv => AtMostOnce
  BY DEF PostingsInv, Postings
<1> QED
  BY <1>1, PostingsAlways, PTL

(***************************************************************************)
(* UneditedIsExact: no occurrence of an unedited plan is left out or       *)
(* doubled, whatever runs overlap, fail or crash, for every calendar.      *)
(***************************************************************************)
THEOREM Exact == Spec => []UneditedIsExact
<1>1. PostingsInv => UneditedIsExact
  BY DEF PostingsInv, Postings
<1> QED
  BY <1>1, PostingsAlways, PTL

(***************************************************************************)
(* RefusedOnlyIfEdited: a run that holds an unedited plan sees a due date  *)
(* later than all that is posted, and a row that can move on.              *)
(***************************************************************************)
THEOREM LockSuffices == Spec => RefusedOnlyIfEdited
<1>1. ASSUME PostingsInv, NEW c \in Cron, pc[c] = "posting", Refuse(c)
      PROVE  target[c] \in edited
  <2>1. /\ target[c] \in Plan /\ Exists(target[c])
        /\ view[c] = plan[target[c]] /\ plan[target[c]].active
    BY <1>1 DEF PostingsInv, RowsCoherent, Coherent, HoldersSeeTheRow, Holding
  <2>2. plan[target[c]] \in Schedule /\ Consistent(plan[target[c]])
    BY <1>1, <2>1 DEF PostingsInv, RowsCoherent, Coherent, TypeOK, Exists,
       RowsAreConsistent
  <2>3. Consistent(MovedOn(plan[target[c]], view[c])) /\ plan[target[c]].due \in Nat
    BY <2>1, <2>2, MovedOnRow
  <2>4. target[c] \notin edited => ~OccurrenceTaken(target[c], plan[target[c]].due)
    BY <1>1, <2>1, <2>3 DEF PostingsInv, Postings, PostedIsPast, OccurrenceTaken
  <2> QED
    BY <1>1, <2>1, <2>3, <2>4 DEF Refuse, Postable
<1>2. PostingsInv => \A c \in Cron : pc[c] = "posting" /\ Refuse(c)
                                       => target[c] \in edited
  BY <1>1
<1> QED
  BY <1>2, PostingsAlways, PTL DEF RefusedOnlyIfEdited

(***************************************************************************)
(* PostsWhatIsDue: a posting is of the committed row's due date, and only  *)
(* the daily run's posting step changes a plan on the run's behalf.        *)
(***************************************************************************)
THEOREM PostsDue == Spec => PostsWhatIsDue
<1> DEFINE Due(p) == /\ Exists(p) /\ plan[p].active /\ plan[p].due <= today
                     /\ posted'[p] = Append(posted[p], plan[p].due)
                     /\ plan'[p].due > plan[p].due \/ ~plan'[p].active
           Moves(p) == \/ posted'[p] # posted[p]
                       \/ plan'[p] # plan[p] /\ \E c \in Cron : pc'[c] # pc[c]
<1>1. ASSUME RowsCoherent, [Next]_vars, NEW p \in Plan, Moves(p)
      PROVE  Due(p)
  <2>0. /\ plan \in [Plan -> Schedule \cup {NoPlan}]
        /\ posted \in [Plan -> Seq(Dates)]
        /\ pc \in [Cron \cup Request ->
                     {"idle", "next", "locking", "account", "group", "posting",
                      "writing", "done"}]
    BY <1>1 DEF RowsCoherent, Coherent, TypeOK
  <2>1. ~UNCHANGED <<plan, posted, edited>>
    BY <1>1
  <2>2. ASSUME NEW q \in Plan, Create(q) PROVE FALSE
    BY <1>1, <2>2 DEF Create
  <2>3. ASSUME NEW r \in Request, PatchWrite(r) PROVE FALSE
    BY <1>1, <2>0, <2>3 DEF PatchWrite
  <2>4. ASSUME NEW c \in Cron, Post(c) PROVE Due(p)
    <3>1. /\ target[c] \in Plan /\ Exists(target[c])
          /\ plan[target[c]] \in Schedule /\ Consistent(plan[target[c]])
          /\ plan[target[c]].active /\ plan[target[c]].due <= today
          /\ posted' = [posted EXCEPT ![target[c]] =
                         Append(@, plan[target[c]].due)]
          /\ plan' = [plan EXCEPT ![target[c]] =
                       MovedOn(plan[target[c]], plan[target[c]])]
      BY <1>1, <2>4, PostRow
    <3>2. p = target[c]
      BY <1>1, <2>0, <3>1
    <3>3. plan'[p] = MovedOn(plan[p], plan[p])
      BY <2>0, <3>1, <3>2
    <3>4. plan'[p].due > plan[p].due \/ ~plan'[p].active
      BY <3>1, <3>2, <3>3, MovedOnRow
    <3>5. posted'[p] = Append(posted[p], plan[p].due)
      BY <2>0, <3>1, <3>2
    <3> QED
      BY <3>1, <3>2, <3>4, <3>5
  <2> QED
    BY <1>1, <2>1, <2>2, <2>3, <2>4, RowsChange
<1>2. RowsCoherent /\ [Next]_vars =>
        [\A p \in Plan :
           posted'[p] # posted[p]
             \/ (plan'[p] # plan[p] /\ \E c \in Cron : pc'[c] # pc[c])
           => /\ Exists(p) /\ plan[p].active /\ plan[p].due <= today
              /\ posted'[p] = Append(posted[p], plan[p].due)
              /\ plan'[p].due > plan[p].due \/ ~plan'[p].active]_vars
  BY <1>1
<1> QED
  BY <1>2, RowsStayCoherent, PTL DEF Spec, PostsWhatIsDue

-----------------------------------------------------------------------------
(* Archiving *)

ArchivingInv == RowsCoherent /\ ArchivedIsDormant

LEMMA StepArchiving == ArchivingInv /\ [Next]_vars => ArchivingInv'
<1> SUFFICES ASSUME ArchivingInv, [Next]_vars, NEW d \in Cron
             PROVE  /\ Holding(d)' => archived'[d] \subseteq Dormant(target[d])'
                    /\ pc'[d] = "group" => "account" \notin archived'[d]
                    /\ pc'[d] = "posting" => archived'[d] = {}
  BY StepCoherent DEF ArchivingInv, ArchivedIsDormant
<1>0. /\ Holding(d) => /\ target[d] \in Plan
                        /\ archived[d] \subseteq Dormant(target[d])
      /\ pc[d] = "group" => "account" \notin archived[d]
      /\ pc[d] = "posting" => archived[d] = {}
      /\ d \notin Request
      /\ TypeOK
  BY DEF ArchivingInv, ArchivedIsDormant, RowsCoherent, Coherent, HoldersSeeTheRow
<1> DEFINE Kept == /\ pc'[d] = pc[d]
                   /\ target'[d] = target[d] /\ archived'[d] = archived[d]
                   /\ accountActive' = accountActive /\ groupActive' = groupActive
           LetGo == ~Holding(d)'
<1>1. CASE Kept \/ LetGo
  BY <1>0, <1>1 DEF Holding, Dormant
<1>2. ASSUME NEW p \in Plan, NEW b \in BOOLEAN, SetAccountActive(p, b)
      PROVE  /\ Holding(d)' => archived'[d] \subseteq Dormant(target[d])'
             /\ pc'[d] = "group" => "account" \notin archived'[d]
             /\ pc'[d] = "posting" => archived'[d] = {}
  <2>1. /\ pc'[d] = pc[d] /\ target'[d] = target[d] /\ groupActive' = groupActive
        /\ accountActive' = [accountActive EXCEPT ![p] = b]
        /\ archived'[d] = IF b /\ target[d] = p THEN archived[d] \ {"account"}
                                                ELSE archived[d]
    BY <1>2 DEF SetAccountActive
  <2>2. accountActive \in [Plan -> BOOLEAN]
    BY <1>0 DEF TypeOK
  <2> QED
    BY <1>0, <2>1, <2>2 DEF Holding, Dormant
<1>3. ASSUME NEW b \in BOOLEAN, SetGroupActive(b)
      PROVE  /\ Holding(d)' => archived'[d] \subseteq Dormant(target[d])'
             /\ pc'[d] = "group" => "account" \notin archived'[d]
             /\ pc'[d] = "posting" => archived'[d] = {}
  <2>1. /\ pc'[d] = pc[d] /\ target'[d] = target[d]
        /\ accountActive' = accountActive /\ groupActive' = b
        /\ archived'[d] = IF b THEN archived[d] \ {"group"} ELSE archived[d]
    BY <1>3 DEF SetGroupActive
  <2> QED
    BY <1>0, <2>1 DEF Holding, Dormant
<1>4. ASSUME NEW r \in Request, PatchRead(r) \/ PatchWrite(r) PROVE Kept
  BY <1>4, <1>0 DEF PatchRead, PatchWrite, table, history, TypeOK
<1>5. ASSUME NEW c \in Cron, c # d, Run(c) \/ Fail(c) \/ Crash(c) PROVE Kept
  BY <1>5, <1>0, ReleaseFrame DEF Run, Start, TakePlan, Finish, LockPlan,
     CheckAccount, CheckGroup, GoOnIf, Post, Refuse, Fail, Crash, table, history,
     TypeOK
<1>6. CASE Start(d) \/ TakePlan(d) \/ Finish(d) \/ Post(d) \/ Refuse(d)
             \/ Fail(d) \/ Crash(d)
  <2>1. LetGo
    BY <1>6, <1>0 DEF Start, TakePlan, Finish, Post, Refuse, Fail, Crash, Holding,
       TypeOK
  <2> QED
    BY <1>1, <2>1
<1>7. CASE LockPlan(d)
  <2>1. \/ LetGo
        \/ /\ pc'[d] = "account" /\ target'[d] = target[d]
           /\ archived'[d] = Dormant(target[d])
           /\ accountActive' = accountActive /\ groupActive' = groupActive
    BY <1>7, <1>0 DEF LockPlan, Holding, table, TypeOK
  <2> QED
    BY <1>1, <2>1 DEF Dormant
<1>8. CASE CheckAccount(d) \/ CheckGroup(d)
  <2>1. /\ Holding(d)
        /\ accountActive' = accountActive /\ groupActive' = groupActive
    BY <1>8 DEF CheckAccount, CheckGroup, GoOnIf, Holding, table
  <2>2. \/ LetGo
        \/ /\ pc[d] = "account" /\ pc'[d] = "group" /\ accountActive[target[d]]
           /\ target'[d] = target[d] /\ archived'[d] = archived[d]
        \/ /\ pc[d] = "group" /\ pc'[d] = "posting" /\ groupActive
           /\ target'[d] = target[d] /\ archived'[d] = archived[d]
    BY <1>8, <1>0 DEF CheckAccount, CheckGroup, GoOnIf, Holding, TypeOK
  <2> QED
    BY <1>0, <1>1, <2>1, <2>2 DEF Dormant
<1>9. CASE Tick \/ (\E p \in Plan : Create(p)) \/ UNCHANGED vars
  <2>1. Kept
    BY <1>9 DEF Tick, Create, vars, table, history
  <2> QED
    BY <1>1, <2>1
<1> QED
  BY <1>1, <1>2, <1>3, <1>4, <1>5, <1>6, <1>7, <1>8, <1>9 DEF Next, Run

(***************************************************************************)
(* ArchivedIsNotPosted: a run that reaches its posting has seen account    *)
(* and group active since it locked the plan.                              *)
(***************************************************************************)
THEOREM ArchivingHolds == Spec => ArchivedIsNotPosted
<1>1. Init => ArchivingInv
  <2>1. Init => ArchivedIsDormant
    BY DEF Init, ArchivedIsDormant, Holding
  <2> QED
    BY <2>1, InitCoherent DEF ArchivingInv
<1>2. ArchivingInv => \A c \in Cron :
        pc[c] = "posting" /\ posted' # posted /\ pc'[c] = "next" => archived[c] = {}
  BY DEF ArchivingInv, ArchivedIsDormant
<1> QED
  BY <1>1, <1>2, StepArchiving, PTL DEF Spec, ArchivedIsNotPosted

-----------------------------------------------------------------------------
(* Requests that do not overlap *)

(* A plan is edited by one PATCH at a time, between its reading the plan   *)
(* and its writing it; the daily runs may do what they like.               *)
Apart ==
  \A r, s \in Request :
    pc[r] = "writing" /\ pc[s] = "writing" /\ target[r] = target[s] => r = s

(* What it completes its edit from is still so. *)
WritersSeeTheAnchor ==
  \A r \in Request : pc[r] = "writing" =>
    /\ view[r].anchor = plan[target[r]].anchor
    /\ view[r].recurring = plan[target[r]].recurring

(* A run leaves the anchor of a plan alone. *)
LEMMA PostKeepsAnchor ==
  ASSUME TypeOK, NEW c \in Cron, Post(c), NEW p \in Plan, Exists(p)
  PROVE  plan'[p].anchor = plan[p].anchor /\ plan'[p].recurring = plan[p].recurring
<1>1. plan[p] \in Schedule
  BY DEF Exists, TypeOK
<1>2. plan' = [plan EXCEPT ![target[c]] = MovedOn(@, view[c])]
  BY DEF Post
<1>3. CASE p = target[c]
  <2>1. plan'[p] = MovedOn(plan[p], view[c])
    BY <1>2, <1>3 DEF TypeOK
  <2> QED
    BY <1>1, <2>1 DEF MovedOn, Schedule
<1>4. CASE p # target[c]
  BY <1>2, <1>4 DEF TypeOK
<1> QED
  BY <1>3, <1>4

(* What a request holds is its own. *)
LEMMA RequestsFrame ==
  ASSUME TypeOK, [Next]_vars, NEW r \in Request
  PROVE  \/ PatchRead(r)
         \/ PatchWrite(r)
         \/ /\ pc'[r] = pc[r] /\ target'[r] = target[r]
            /\ view'[r] = view[r] /\ edit'[r] = edit[r]
<1> DEFINE Kept == /\ pc'[r] = pc[r] /\ target'[r] = target[r]
                   /\ view'[r] = view[r] /\ edit'[r] = edit[r]
<1>0. r \notin Cron
  OBVIOUS
<1>1. ASSUME NEW s \in Request, s # r, PatchRead(s) \/ PatchWrite(s) PROVE Kept
  BY <1>1 DEF PatchRead, PatchWrite, TypeOK
<1>2. ASSUME NEW c \in Cron, Release(c) PROVE target'[r] = target[r] /\ view'[r] = view[r]
  BY <1>0, <1>2, ReleaseFrame
<1>3. ASSUME NEW c \in Cron, Start(c) \/ TakePlan(c) \/ Finish(c) PROVE Kept
  BY <1>0, <1>3 DEF Start, TakePlan, Finish, TypeOK
<1>4. ASSUME NEW c \in Cron, LockPlan(c) PROVE Kept
  BY <1>0, <1>2, <1>4 DEF LockPlan, TypeOK
<1>5. ASSUME NEW c \in Cron, CheckAccount(c) \/ CheckGroup(c) PROVE Kept
  BY <1>0, <1>2, <1>5 DEF CheckAccount, CheckGroup, GoOnIf, TypeOK
<1>6. ASSUME NEW c \in Cron, Post(c) \/ Refuse(c) \/ Fail(c) \/ Crash(c) PROVE Kept
  BY <1>0, <1>2, <1>6 DEF Post, Refuse, Fail, Crash, TypeOK
<1>7. CASE \/ Tick
           \/ \E p \in Plan : Create(p)
           \/ \E p \in Plan, b \in BOOLEAN : SetAccountActive(p, b)
           \/ \E b \in BOOLEAN : SetGroupActive(b)
           \/ UNCHANGED vars
  BY <1>7 DEF Tick, Create, SetAccountActive, SetGroupActive, vars
<1> HIDE DEF Kept
<1>8. ASSUME NEW c \in Cron, Run(c) \/ Fail(c) \/ Crash(c) PROVE Kept
  BY <1>3, <1>4, <1>5, <1>6, <1>8 DEF Run
<1>9. ASSUME NEW s \in Request, PatchRead(s) \/ PatchWrite(s)
      PROVE  PatchRead(r) \/ PatchWrite(r) \/ Kept
  BY <1>1, <1>9
<1>10. PatchRead(r) \/ PatchWrite(r) \/ Kept
  BY <1>7, <1>8, <1>9 DEF Next, Kept
<1> QED
  BY <1>10 DEF Kept

(* Nobody edits the plan meanwhile, and a run keeps its anchor.            *)
LEMMA WritersKeepSeeing ==
  ASSUME RowsCoherent, Apart, WritersSeeTheAnchor, [Next]_vars PROVE WritersSeeTheAnchor'
<1> SUFFICES ASSUME NEW r \in Request, pc'[r] = "writing"
             PROVE  /\ view'[r].anchor = plan'[target'[r]].anchor
                    /\ view'[r].recurring = plan'[target'[r]].recurring
  BY DEF WritersSeeTheAnchor
<1>0. TypeOK
  BY DEF RowsCoherent, Coherent
<1>1. CASE PatchRead(r)
  <2>1. PICK p \in Plan :
          target' = [target EXCEPT ![r] = p] /\ view' = [view EXCEPT ![r] = plan[p]]
    BY <1>1 DEF PatchRead
  <2>2. target'[r] = p /\ view'[r] = plan[p] /\ plan' = plan
    BY <1>0, <1>1, <2>1 DEF PatchRead, table, TypeOK
  <2> QED
    BY <2>2
<1>2. CASE PatchWrite(r)
  BY <1>0, <1>2 DEF PatchWrite, TypeOK
<1>3. CASE pc'[r] = pc[r] /\ target'[r] = target[r] /\ view'[r] = view[r]
  <2>1. /\ pc[r] = "writing" /\ target[r] \in Plan /\ Exists(target[r])
        /\ view[r].anchor = plan[target[r]].anchor
        /\ view[r].recurring = plan[target[r]].recurring
    BY <1>3 DEF WritersSeeTheAnchor, RowsCoherent, Coherent, TargetsExist
  <2>2. ASSUME NEW s \in Request, PatchWrite(s) PROVE plan'[target[r]] = plan[target[r]]
    <3>1. s # r /\ pc[s] = "writing"
      BY <1>0, <1>3, <2>1, <2>2 DEF PatchWrite, TypeOK
    <3>2. target[s] # target[r]
      BY <2>1, <3>1 DEF Apart
    <3>3. \/ plan' = plan
          \/ \E n \in Schedule : plan' = [plan EXCEPT ![target[s]] = n]
      BY <2>2, PatchWriteRow
    <3> QED
      BY <1>0, <2>1, <3>2, <3>3 DEF TypeOK
  <2>3. ASSUME NEW p \in Plan, Create(p) PROVE plan'[target[r]] = plan[target[r]]
    <3>1. ~Exists(p) /\ \E n : plan' = [plan EXCEPT ![p] = n]
      BY <1>0, <2>3, CreatedRow
    <3> QED
      BY <1>0, <2>1, <3>1 DEF TypeOK
  <2>4. ASSUME NEW c \in Cron, Post(c)
        PROVE  /\ plan'[target[r]].anchor = plan[target[r]].anchor
               /\ plan'[target[r]].recurring = plan[target[r]].recurring
    BY <1>0, <2>1, <2>4, PostKeepsAnchor
  <2>5. /\ plan'[target[r]].anchor = plan[target[r]].anchor
        /\ plan'[target[r]].recurring = plan[target[r]].recurring
    BY <2>2, <2>3, <2>4, RowsChange
  <2> QED
    BY <1>3, <2>1, <2>5
<1> QED
  BY <1>0, <1>1, <1>2, <1>3, RequestsFrame

(***************************************************************************)
(* The anchor changes only with the due date, as the document has it, as   *)
(* long as no two requests edit one plan at the same time: no daily run    *)
(* that comes in between, and no edit of another plan, makes a request     *)
(* write back an anchor that is out of date.                               *)
(***************************************************************************)
THEOREM AnchorChangesOnlyWithDateApart == Spec /\ []Apart => AnchorChangesOnlyWithDate
<1>1. Init => WritersSeeTheAnchor
  BY DEF Init, WritersSeeTheAnchor
<1>2. RowsCoherent /\ Apart /\ WritersSeeTheAnchor /\ [Next]_vars => WritersSeeTheAnchor'
  BY WritersKeepSeeing
<1>3. ASSUME RowsCoherent, WritersSeeTheAnchor, [Next]_vars, NEW r \in Request,
             pc[r] = "writing", pc'[r] = "done", NEW p \in Plan, Exists(p),
             plan[p].recurring, plan'[p].recurring, edit[r].due = Unset
      PROVE  plan'[p].anchor = plan[p].anchor
  <2>1. PatchWrite(r)
    <3>1. ~PatchRead(r)
      BY <1>3 DEF PatchRead
    <3> QED
      BY <1>3, <3>1, RequestsFrame DEF RowsCoherent, Coherent
  <2>2. TypeOK /\ target[r] \in Plan /\ plan[p] \in Schedule /\ Consistent(plan[p])
    BY <1>3 DEF RowsCoherent, Coherent, TypeOK, TargetsExist, RowsAreConsistent, Exists
  <2>3. CASE plan'[p] = plan[p]
    BY <2>3
  <2>4. CASE plan'[p] # plan[p]
    <3> DEFINE new == Updated(plan[p], view[r], edit[r])
    <3>1. p = target[r] /\ plan'[p] = new
      BY <2>1, <2>2, <2>4 DEF PatchWrite, TypeOK
    <3>2. /\ new.anchor = AnchorWritten(view[r], edit[r])
          /\ new.recurring = Given(edit[r].recurring, plan[p].recurring)
      BY DEF Updated
    <3>3. /\ view[r].anchor = plan[p].anchor
          /\ view[r].recurring = plan[p].recurring
      BY <1>3, <3>1 DEF WritersSeeTheAnchor
    <3>4. Recurs(view[r], edit[r])
      BY <1>3, <3>1, <3>2, <3>3 DEF Recurs
    <3>5. view[r].anchor # NoAnchor
      BY <1>3, <2>2, <3>3 DEF Consistent
    <3>6. AnchorWritten(view[r], edit[r]) = plan[p].anchor
      BY <1>3, <3>3, <3>4, <3>5 DEF AnchorWritten
    <3> HIDE DEF new
    <3> QED
      BY <3>1, <3>2, <3>6
  <2> QED
    BY <2>3, <2>4
<1>4. RowsCoherent /\ WritersSeeTheAnchor /\ [Next]_vars =>
        [\A r \in Request : pc[r] = "writing" /\ pc'[r] = "done" =>
           \A p \in Plan :
             Exists(p) /\ plan[p].recurring /\ plan'[p].recurring
               /\ edit[r].due = Unset
             => plan'[p].anchor = plan[p].anchor]_vars
  BY <1>3
<1> QED
  BY <1>1, <1>2, <1>4, RowsStayCoherent, PTL DEF Spec, AnchorChangesOnlyWithDate
=============================================================================
