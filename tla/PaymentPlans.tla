---------------------------- MODULE PaymentPlans ----------------------------
(***************************************************************************)
(* Payment plans: the daily run that posts what is due (run_due.py), any   *)
(* number of which may overlap, and the requests that change the plans     *)
(* (create_payment_plan, update_payment_plan) or archive the account or    *)
(* the group they belong to.                                               *)
(*                                                                         *)
(* A run lists the due plans once and then gives each a transaction of its *)
(* own: lock the plan's row, look at it again, check that account and      *)
(* group are active, post the occurrence and move the plan on, commit.     *)
(* A PATCH reads the plan without a lock, checks and completes the edit    *)
(* from what it read, and writes it later, when the row is free.           *)
(***************************************************************************)
EXTENDS PlanCalendar, Sequences, FiniteSets

CONSTANTS
  Plan,             (* plans; those not created yet are NoPlan             *)
  Cron,             (* processes of run_due.py, each run again and again   *)
  Request,          (* PATCH requests, each served once                    *)
  Today,            (* dates the clock can show, and dates users give      *)
  PlanFrequencies,  (* frequencies users give                              *)
  Edits,            (* bodies of PATCH requests                            *)
  MaxFailures,      (* bound: exceptions and crashes of the daily run      *)
  NoPlan, NoFrequency, Unset, Free

NoEnd == 0

Schedule == [active : BOOLEAN, recurring : BOOLEAN,
             frequency : PlanFrequencies \cup {NoFrequency},
             due : Dates, anchor : 0..31, end : Dates \cup {NoEnd}]

Edit == [due : Today \cup {Unset}, recurring : BOOLEAN \cup {Unset},
         frequency : PlanFrequencies \cup {NoFrequency, Unset},
         end : Today \cup {NoEnd, Unset}, active : BOOLEAN \cup {Unset}]

ASSUME PlansAssumption ==
  /\ Today \subseteq Dates
  /\ PlanFrequencies \subseteq Frequencies
  /\ Edits \subseteq Edit
  /\ MaxFailures \in Nat
  /\ NoPlan \notin Schedule
  /\ NoFrequency \notin PlanFrequencies
  /\ Unset \notin Dates \cup {NoEnd}
  /\ Unset \notin PlanFrequencies \cup {NoFrequency}
  /\ Unset \notin BOOLEAN
  /\ Free \notin Cron
  /\ Cron \cap Request = {}

VARIABLES
  today,            (* date.today()                                        *)
  plan,             (* the table payment_plans                             *)
  posted,           (* dates of the transactions made from each plan, in   *)
                    (* order; kept when one is deleted, as the row is      *)
  accountActive,    (* is_active of the plan's account                     *)
  groupActive,      (* is_active of the group                              *)
  lock,             (* FOR UPDATE lock on each plan's row                  *)
  pc,               (* where each run and each request is                  *)
  todo,             (* plans the run still has to go through               *)
  target,           (* the plan a run or request is working on             *)
  view,             (* the plan as it loaded it                            *)
  date,             (* processing_date of a run                            *)
  edit,             (* the body of each PATCH                              *)
  failures,         (* exceptions and crashes so far                       *)
  edited,           (* history: plans whose row a PATCH has changed        *)
  archived          (* history: what has been archived all along since a   *)
                    (* run locked its plan                                 *)

table   == <<plan, posted, accountActive, groupActive>>
history == <<edited, archived>>
vars    == <<today, table, lock, pc, todo, target, view, date, edit, failures,
             history>>

Exists(p) == plan[p] # NoPlan

(* The CHECK constraints of payment_plans. *)
Consistent(s) ==
  /\ IF s.recurring THEN s.frequency # NoFrequency /\ s.anchor # NoAnchor
                    ELSE s.frequency = NoFrequency /\ s.anchor = NoAnchor
                           /\ s.end = NoEnd
  /\ s.end # NoEnd => s.end >= s.due

Init ==
  /\ today \in Today
  /\ plan = [p \in Plan |-> NoPlan]
  /\ posted = [p \in Plan |-> <<>>]
  /\ accountActive = [p \in Plan |-> TRUE]
  /\ groupActive = TRUE
  /\ lock = [p \in Plan |-> Free]
  /\ pc = [a \in Cron \cup Request |-> "idle"]
  /\ todo = [c \in Cron |-> {}]
  /\ target = [a \in Cron \cup Request |-> NoPlan]
  /\ view = [a \in Cron \cup Request |-> NoPlan]
  /\ date = [c \in Cron |-> today]
  /\ edit = [r \in Request |-> Unset]
  /\ failures = 0
  /\ edited = {}
  /\ archived = [c \in Cron |-> {}]

-----------------------------------------------------------------------------
(* Time, and what users do to plans, accounts and the group *)

Tick ==
  /\ today' \in {d \in Today : d > today}
  /\ UNCHANGED <<table, lock, pc, todo, target, view, date, edit, failures,
                 history>>

(* A new plan is anchored on the day of its first due date. *)
Create(p) ==
  /\ ~Exists(p)
  /\ \E due \in Today, f \in PlanFrequencies \cup {NoFrequency},
        end \in Today \cup {NoEnd} :
       LET new == [active |-> TRUE, recurring |-> f # NoFrequency,
                   frequency |-> f, due |-> due, end |-> end,
                   anchor |-> IF f = NoFrequency THEN NoAnchor ELSE Day(due)]
       IN  Consistent(new) /\ plan' = [plan EXCEPT ![p] = new]
  /\ UNCHANGED <<today, posted, accountActive, groupActive, lock, pc, todo,
                 target, view, date, edit, failures, history>>

(* PATCH of the account or of the group: archive it or take it back. *)
SetAccountActive(p, b) ==
  /\ accountActive' = [accountActive EXCEPT ![p] = b]
  /\ archived' = [c \in Cron |-> IF b /\ target[c] = p
                                 THEN archived[c] \ {"account"} ELSE archived[c]]
  /\ UNCHANGED <<today, plan, posted, groupActive, lock, pc, todo, target, view,
                 date, edit, failures, edited>>

SetGroupActive(b) ==
  /\ groupActive' = b
  /\ archived' = [c \in Cron |-> IF b THEN archived[c] \ {"group"}
                                      ELSE archived[c]]
  /\ UNCHANGED <<today, plan, posted, accountActive, lock, pc, todo, target,
                 view, date, edit, failures, edited>>

-----------------------------------------------------------------------------
(* PATCH of a plan *)

Given(field, otherwise) == IF field = Unset THEN otherwise ELSE field

(* UpdatePaymentPlanRequest: what the schema lets through. *)
WellFormed(e) ==
  /\ e.recurring = TRUE => e.frequency \in PlanFrequencies
  /\ e.recurring = FALSE =>
       e.frequency \in {NoFrequency, Unset} /\ e.end \in {NoEnd, Unset}
  /\ e.end \notin {NoEnd, Unset} /\ e.due # Unset => e.end >= e.due

(* The plan as the service expects it to be after edit e of plan s. *)
Recurs(s, e)       == Given(e.recurring, s.recurring)
EffectiveDue(s, e) == Given(e.due, s.due)
EffectiveFrequency(s, e) ==
  IF e.recurring = FALSE THEN NoFrequency ELSE Given(e.frequency, s.frequency)
EffectiveEnd(s, e) == IF e.recurring = FALSE THEN NoEnd ELSE Given(e.end, s.end)

(* update_payment_plan raises no ConflictError. *)
Acceptable(s, e) ==
  /\ Recurs(s, e) => EffectiveFrequency(s, e) # NoFrequency
  /\ EffectiveEnd(s, e) # NoEnd => EffectiveEnd(s, e) >= EffectiveDue(s, e)

(* The anchor it writes, always: a new date brings a new anchor, else the  *)
(* one that was read is written back.                                      *)
AnchorWritten(s, e) ==
  IF ~Recurs(s, e) THEN NoAnchor
  ELSE IF e.due # Unset \/ s.anchor = NoAnchor THEN Day(EffectiveDue(s, e))
  ELSE s.anchor

(* Row s after the UPDATE of an edit that was completed from row seen. *)
Updated(s, seen, e) ==
  [active    |-> Given(e.active, s.active),
   recurring |-> Given(e.recurring, s.recurring),
   frequency |-> IF e.recurring = FALSE THEN NoFrequency
                                        ELSE Given(e.frequency, s.frequency),
   due       |-> Given(e.due, s.due),
   anchor    |-> AnchorWritten(seen, e),
   end       |-> IF e.recurring = FALSE THEN NoEnd ELSE Given(e.end, s.end)]

PatchRead(r) ==
  /\ pc[r] = "idle"
  /\ \E p \in Plan, e \in Edits :
       /\ Exists(p) /\ WellFormed(e) /\ Acceptable(plan[p], e)
       /\ target' = [target EXCEPT ![r] = p]
       /\ view' = [view EXCEPT ![r] = plan[p]]
       /\ edit' = [edit EXCEPT ![r] = e]
  /\ pc' = [pc EXCEPT ![r] = "writing"]
  /\ UNCHANGED <<today, table, lock, todo, date, failures, history>>

(* The UPDATE waits for the row; a CHECK constraint may turn it into 409. *)
PatchWrite(r) ==
  /\ pc[r] = "writing"
  /\ lock[target[r]] = Free
  /\ LET p   == target[r]
         new == Updated(plan[p], view[r], edit[r])
     IN  IF Consistent(new)
         THEN /\ plan' = [plan EXCEPT ![p] = new]
              /\ edited' = IF new = plan[p] THEN edited ELSE edited \cup {p}
         ELSE UNCHANGED <<plan, edited>>
  /\ pc' = [pc EXCEPT ![r] = "done"]
  /\ UNCHANGED <<today, posted, accountActive, groupActive, lock, todo, target,
                 view, date, edit, failures, archived>>

-----------------------------------------------------------------------------
(* The daily run *)

Dormant(p) == (IF accountActive[p] THEN {} ELSE {"account"})
                \cup (IF groupActive THEN {} ELSE {"group"})

(* due_plan_ids *)
DuePlans ==
  {p \in Plan : Exists(p) /\ plan[p].active /\ plan[p].due <= today
                  /\ accountActive[p] /\ groupActive}

Start(c) ==
  /\ pc[c] = "idle"
  /\ todo' = [todo EXCEPT ![c] = DuePlans]
  /\ pc' = [pc EXCEPT ![c] = "next"]
  /\ UNCHANGED <<today, table, lock, target, view, date, edit, failures, history>>

(* process_due_plan is called for one of the plans listed: the order of    *)
(* the list is up to the database.                                         *)
TakePlan(c) ==
  /\ pc[c] = "next"
  /\ \E p \in todo[c] :
       /\ target' = [target EXCEPT ![c] = p]
       /\ todo' = [todo EXCEPT ![c] = @ \ {p}]
  /\ date' = [date EXCEPT ![c] = today]
  /\ pc' = [pc EXCEPT ![c] = "locking"]
  /\ UNCHANGED <<today, table, lock, view, edit, failures, history>>

Finish(c) ==
  /\ pc[c] = "next" /\ todo[c] = {}
  /\ pc' = [pc EXCEPT ![c] = "idle"]
  /\ UNCHANGED <<today, table, lock, todo, target, view, date, edit, failures,
                 history>>

(* The transaction of the plan in hand is over; the next one begins. *)
Release(c) ==
  /\ lock' = [p \in Plan |-> IF lock[p] = c THEN Free ELSE lock[p]]
  /\ view' = [view EXCEPT ![c] = NoPlan]
  /\ target' = [target EXCEPT ![c] = NoPlan]
  /\ archived' = [archived EXCEPT ![c] = {}]

(* Faulty variant: the run does not look at the plan again. *)
DueWhenListed(c, s) == TRUE

(* Faulty variant: a plan due today waits for tomorrow. *)
DueBefore(c, s) == s.active /\ s.due < date[c]

(* The second look at the plan. *)
StillDue(c, s) == s.active /\ s.due <= date[c]

(* Faulty variant: the row is read without FOR UPDATE. *)
ReadPlan(c) ==
  /\ pc[c] = "locking"
  /\ IF StillDue(c, plan[target[c]])
     THEN /\ UNCHANGED <<lock, target>>
          /\ view' = [view EXCEPT ![c] = plan[target[c]]]
          /\ archived' = [archived EXCEPT ![c] = Dormant(target[c])]
          /\ pc' = [pc EXCEPT ![c] = "account"]
     ELSE /\ Release(c)
          /\ pc' = [pc EXCEPT ![c] = "next"]
  /\ UNCHANGED <<today, table, todo, date, edit, failures, edited>>

(* SELECT ... FOR UPDATE waits for the row; then the plan is looked at     *)
(* again, for it may have changed since it was listed.                     *)
LockPlan(c) ==
  /\ pc[c] = "locking"
  /\ lock[target[c]] = Free
  /\ IF StillDue(c, plan[target[c]])
     THEN /\ lock' = [lock EXCEPT ![target[c]] = c]
          /\ view' = [view EXCEPT ![c] = plan[target[c]]]
          /\ archived' = [archived EXCEPT ![c] = Dormant(target[c])]
          /\ pc' = [pc EXCEPT ![c] = "account"]
          /\ UNCHANGED target
     ELSE /\ Release(c)
          /\ pc' = [pc EXCEPT ![c] = "next"]
  /\ UNCHANGED <<today, table, todo, date, edit, failures, edited>>

(* Go on if the account (the group) is active, else leave the plan be. *)
GoOnIf(c, active, where) ==
  /\ IF active
     THEN pc' = [pc EXCEPT ![c] = where] /\ UNCHANGED <<lock, view, target, archived>>
     ELSE pc' = [pc EXCEPT ![c] = "next"] /\ Release(c)
  /\ UNCHANGED <<today, table, todo, date, edit, failures, edited>>

CheckAccount(c) ==
  pc[c] = "account" /\ GoOnIf(c, accountActive[target[c]], "group")

(* Faulty variant: only the selection looks at the group. *)
GroupNotChecked(c) == pc[c] = "group" /\ GoOnIf(c, TRUE, "posting")

CheckGroup(c) == pc[c] = "group" /\ GoOnIf(c, groupActive, "posting")

(* Faulty variant: without the unique index. *)
NeverTaken(p, d) == FALSE

(* uq_transactions_payment_plan_occurrence_account *)
OccurrenceTaken(p, d) == \E i \in 1..Len(posted[p]) : posted[p][i] = d

(* Faulty variant: a plan that would end today is closed a period early. *)
MovedOnTooSoon(s, seen) ==
  LET next == AdvanceScheduledDate(seen.due, seen.frequency, seen.anchor)
  IN  IF seen.recurring /\ (seen.end = NoEnd \/ next < seen.end)
      THEN [s EXCEPT !.due = next]
      ELSE [s EXCEPT !.active = FALSE]

(* The row after the occurrence: at the next date, or closed. *)
MovedOn(s, seen) ==
  LET next == AdvanceScheduledDate(seen.due, seen.frequency, seen.anchor)
  IN  IF seen.recurring /\ (seen.end = NoEnd \/ next <= seen.end)
      THEN [s EXCEPT !.due = next]
      ELSE [s EXCEPT !.active = FALSE]

(* The occurrence is new and the row it leaves behind allowed. *)
Postable(c) ==
  /\ ~OccurrenceTaken(target[c], view[c].due)
  /\ Consistent(MovedOn(plan[target[c]], view[c]))

(* create_transaction and the UPDATE of the plan, in one commit. *)
Post(c) ==
  /\ pc[c] = "posting"
  /\ Postable(c)
  /\ LET p == target[c]
     IN  /\ posted' = [posted EXCEPT ![p] = Append(@, view[c].due)]
         /\ plan' = [plan EXCEPT ![p] = MovedOn(@, view[c])]
  /\ pc' = [pc EXCEPT ![c] = "next"]
  /\ Release(c)
  /\ UNCHANGED <<today, accountActive, groupActive, todo, date, edit, failures,
                 edited>>

(* IntegrityError: rolled back and logged, the plan stays as it is. *)
Refuse(c) ==
  /\ pc[c] = "posting"
  /\ ~Postable(c)
  /\ pc' = [pc EXCEPT ![c] = "next"]
  /\ Release(c)
  /\ UNCHANGED <<today, table, todo, date, edit, failures, edited>>

(* Any other exception: rolled back and logged, the run goes on. *)
Fail(c) ==
  /\ pc[c] \in {"locking", "account", "group", "posting"}
  /\ failures < MaxFailures
  /\ failures' = failures + 1
  /\ pc' = [pc EXCEPT ![c] = "next"]
  /\ Release(c)
  /\ UNCHANGED <<today, table, todo, date, edit, edited>>

(* The process dies; PostgreSQL rolls its transaction back. *)
Crash(c) ==
  /\ pc[c] # "idle"
  /\ failures < MaxFailures
  /\ failures' = failures + 1
  /\ pc' = [pc EXCEPT ![c] = "idle"]
  /\ todo' = [todo EXCEPT ![c] = {}]
  /\ Release(c)
  /\ UNCHANGED <<today, table, date, edit, edited>>

-----------------------------------------------------------------------------
Run(c) ==
  \/ Start(c) \/ TakePlan(c) \/ Finish(c)
  \/ LockPlan(c) \/ CheckAccount(c) \/ CheckGroup(c)
  \/ Post(c) \/ Refuse(c)

Next ==
  \/ Tick
  \/ \E p \in Plan : Create(p)
  \/ \E p \in Plan, b \in BOOLEAN : SetAccountActive(p, b)
  \/ \E b \in BOOLEAN : SetGroupActive(b)
  \/ \E r \in Request : PatchRead(r) \/ PatchWrite(r)
  \/ \E c \in Cron : Run(c) \/ Fail(c) \/ Crash(c)

Spec == Init /\ [][Next]_vars

(* The daily run is started again and again and goes through its list. *)
FairSpec == Spec /\ \A c \in Cron : WF_vars(Run(c))

-----------------------------------------------------------------------------
(* Properties *)

(* Type invariant of the tables and of what runs and requests hold. *)
TypeOK ==
  /\ today \in Today
  /\ plan \in [Plan -> Schedule \cup {NoPlan}]
  /\ posted \in [Plan -> Seq(Dates)]
  /\ accountActive \in [Plan -> BOOLEAN]
  /\ groupActive \in BOOLEAN
  /\ lock \in [Plan -> Cron \cup {Free}]
  /\ pc \in [Cron \cup Request -> {"idle", "next", "locking", "account", "group",
                                   "posting", "writing", "done"}]
  /\ todo \in [Cron -> SUBSET Plan]
  /\ target \in [Cron \cup Request -> Plan \cup {NoPlan}]
  /\ view \in [Cron \cup Request -> Schedule \cup {NoPlan}]
  /\ date \in [Cron -> Today]
  /\ edit \in [Request -> Edits \cup {Unset}]
  /\ failures \in 0..MaxFailures
  /\ edited \in SUBSET Plan
  /\ archived \in [Cron -> SUBSET {"account", "group"}]

(***************************************************************************)
(* No occurrence is posted twice, whatever runs overlap, crash or are      *)
(* repeated and wherever a PATCH moves the plan's date, also back onto one *)
(* already posted.                                                         *)
(***************************************************************************)
AtMostOnce ==
  \A p \in Plan : \A i, j \in 1..Len(posted[p]) :
    posted[p][i] = posted[p][j] => i = j

(***************************************************************************)
(* A plan nobody edits is posted exactly on its calendar: each date posted *)
(* is followed by the next one of the schedule, none left out; an active   *)
(* plan is due next after the last one posted, and it is closed only when  *)
(* the next would lie beyond its end.                                      *)
(***************************************************************************)
ExactlyPosted(s, dates) ==
  LET n        == Len(dates)
      after(d) == AdvanceScheduledDate(d, s.frequency, s.anchor)
  IN  /\ s.recurring => \A i \in 1..(n - 1) : dates[i + 1] = after(dates[i])
      /\ s.active /\ n > 0 => s.recurring /\ s.due = after(dates[n])
      /\ ~s.active => /\ n > 0 /\ dates[n] = s.due
                      /\ ~s.recurring => n = 1
                      /\ s.recurring => s.end # NoEnd /\ after(s.due) > s.end

UneditedIsExact ==
  \A p \in Plan : Exists(p) /\ p \notin edited => ExactlyPosted(plan[p], posted[p])

(***************************************************************************)
(* The row lock alone keeps overlapping runs apart: the unique index and   *)
(* the CHECK constraints refuse a posting only for a plan that was edited. *)
(***************************************************************************)
RefusedOnlyIfEdited ==
  [][\A c \in Cron : pc[c] = "posting" /\ Refuse(c) => target[c] \in edited]_vars

(***************************************************************************)
(* The daily run posts the date the table shows at commit, not one it read *)
(* before: the plan is active, due, within its end, and moves on or closes *)
(* in the same step; and it changes no plan without posting.               *)
(***************************************************************************)
PostsWhatIsDue ==
  [][\A p \in Plan :
       posted'[p] # posted[p]
         \/ (plan'[p] # plan[p] /\ \E c \in Cron : pc'[c] # pc[c])
       => /\ Exists(p) /\ plan[p].active /\ plan[p].due <= today
          /\ posted'[p] = Append(posted[p], plan[p].due)
          /\ plan'[p].due > plan[p].due \/ ~plan'[p].active]_vars

(***************************************************************************)
(* Archiving suspends: what is archived when a run locks the plan, and     *)
(* stays so, keeps it from posting, though it was active when listed.      *)
(***************************************************************************)
ArchivedIsNotPosted ==
  [][\A c \in Cron : pc[c] = "posting" /\ posted' # posted /\ pc'[c] = "next"
       => archived[c] = {}]_vars

(***************************************************************************)
(* Whatever fails or crashes, a plan that is due is posted in the end, or  *)
(* it is edited or archived, as long as its occurrence is a new one.       *)
(***************************************************************************)
Pending(p) ==
  /\ Exists(p) /\ plan[p].active /\ plan[p].due <= today
  /\ accountActive[p] /\ groupActive
  /\ ~OccurrenceTaken(p, plan[p].due)

DueIsPosted == \A p \in Plan : Pending(p) ~> ~Pending(p)

(***************************************************************************)
(* What docs/domains/payment_plans.md, section 5, says of the anchor: it   *)
(* is replaced only when the due date is changed explicitly by a PATCH.    *)
(***************************************************************************)
AnchorChangesOnlyWithDate ==
  [][\A r \in Request : pc[r] = "writing" /\ pc'[r] = "done" =>
       \A p \in Plan :
         Exists(p) /\ plan[p].recurring /\ plan'[p].recurring
           /\ edit[r].due = Unset
         => plan'[p].anchor = plan[p].anchor]_vars

=============================================================================
