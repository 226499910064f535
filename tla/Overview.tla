------------------------------ MODULE Overview ------------------------------
(***************************************************************************)
(* The overview of a group: what its accounts hold, the next payday and    *)
(* what will be left by then. Three SELECTs, each with a snapshot of its   *)
(* own, between which the daily run posts plans and people spend, archive  *)
(* and reactivate; then arithmetic on what they gave. (A fourth one, what  *)
(* was spent today, goes into the answer as it is.)                        *)
(***************************************************************************)
EXTENDS Integers, Functions

CONSTANTS
  Account,
  Spendable,    (* accounts of SPENDABLE_ACCOUNT_TYPES                     *)
  Plan,         (* payment plans                                           *)
  Income,       (* those of type income                                    *)
  Transfer,     (* those of type transfer; the others are expenses         *)
  AccountOf,    (* the account of each plan                                *)
  ToAccount,    (* to_account_id of each transfer                          *)
  Amount,       (* what each plan moves                                    *)
  Period,       (* days from one due date to the next, 0 for a single one  *)
  FirstDue,     (* due dates the plans may start with                      *)
  LastDay,      (* bound: the last day                                     *)
  MaxEdits,     (* bound: what people do                                   *)
  NoPlan, NoAnswer

VARIABLES
  today,
  balance,      (* of each account, counted from its opening               *)
  open,         (* accounts with is_active                                 *)
  active,       (* plans with is_active                                    *)
  due,          (* next_due_date of each plan                              *)
  edits,        (* what people have done so far                            *)
  read,         (* what the statements of a request have given so far      *)
  answer,       (* what the last answer was made of, until the next request*)
                (* or until something but an expense or a transfer of a    *)
                (* plan is committed                                       *)
  slipped,      (* history: cents the daily run has taken out of spendable *)
                (* accounts since the first statement                      *)
  disturbed,    (* history: something else was committed since then        *)
  exact,        (* history: neither happened during the last request       *)
  transferred   (* history: cents that transfers of plans have taken out of*)
                (* spendable accounts since the last answer                *)

group   == <<balance, open, active, due, edits>>
history == <<slipped, disturbed, exact, transferred>>
vars    == <<today, balance, open, active, due, edits, read, answer, slipped,
             disturbed, exact, transferred>>

Expense == Plan \ (Income \cup Transfer)

Nothing == [step |-> "idle"]

Init ==
  /\ today = 0
  /\ balance = [a \in Account |-> 0]
  /\ open = Account /\ active \in SUBSET Plan
  /\ due \in [Plan -> FirstDue]
  /\ edits = 0
  /\ read = Nothing /\ answer = NoAnswer
  /\ slipped = 0 /\ disturbed = FALSE /\ exact = FALSE /\ transferred = 0

-----------------------------------------------------------------------------
(* The group *)

Disturb ==
  /\ disturbed' = (read # Nothing) /\ answer' = NoAnswer /\ transferred' = 0
  /\ UNCHANGED <<today, read, slipped, exact>>

Midnight ==
  /\ today < LastDay /\ today' = today + 1
  /\ UNCHANGED <<group, read, answer, history>>

(* A transfer moves two balances at once. *)
After(p) ==
  CASE p \in Income   -> [balance EXCEPT ![AccountOf[p]] = @ + Amount[p]]
    [] p \in Expense  -> [balance EXCEPT ![AccountOf[p]] = @ - Amount[p]]
    [] p \in Transfer -> [balance EXCEPT ![AccountOf[p]] = @ - Amount[p],
                                        ![ToAccount[p]] = @ + Amount[p]]

(* What an expense or a transfer takes out of the spendable accounts; it is*)
(* negative if a transfer pays into one. An archived one does not count.   *)
Out(p) ==
  (IF AccountOf[p] \in open \cap Spendable THEN Amount[p] ELSE 0)
  - (IF p \in Transfer /\ ToAccount[p] \in open \cap Spendable THEN Amount[p] ELSE 0)

(* The daily run posts a plan that is due and not suspended; nobody looks  *)
(* whether the destination of a transfer is archived.                      *)
Post(p) ==
  /\ p \in active /\ due[p] <= today /\ AccountOf[p] \in open
  /\ balance' = After(p)
  /\ IF Period[p] = 0
     THEN active' = active \ {p} /\ UNCHANGED due
     ELSE due' = [due EXCEPT ![p] = @ + Period[p]] /\ UNCHANGED active
  /\ IF p \in Income THEN Disturb
     ELSE /\ slipped' = IF read # Nothing THEN slipped + Out(p) ELSE slipped
          /\ transferred' = IF answer # NoAnswer /\ p \in Transfer
                            THEN transferred + Out(p) ELSE transferred
          /\ UNCHANGED <<today, read, answer, disturbed, exact>>
  /\ UNCHANGED <<open, edits>>

Edit == edits < MaxEdits /\ edits' = edits + 1 /\ Disturb

(* Somebody records an expense. *)
Spend(a) ==
  /\ Edit
  /\ balance' = [balance EXCEPT ![a] = @ - 1]
  /\ UNCHANGED <<open, active, due>>

(* An account, or a plan, is archived or reactivated. *)
ToggleAccount(a) ==
  /\ Edit
  /\ open' = IF a \in open THEN open \ {a} ELSE open \cup {a}
  /\ UNCHANGED <<balance, active, due>>

TogglePlan(p) ==
  /\ Edit
  /\ active' = IF p \in active THEN active \ {p} ELSE active \cup {p}
  /\ UNCHANGED <<balance, open, due>>

-----------------------------------------------------------------------------
(* The statements *)

(* get_group_balance *)
Available == SumFunctionOnSet(balance, open \cap Spendable)

(* get_payday_plan: the recurring income due first. *)
Candidates == {p \in active \cap Income : Period[p] > 0}

Before(p, q) == due[p] < due[q] \/ (due[p] = due[q] /\ Amount[p] >= Amount[q])

First == {p \in Candidates : \A q \in Candidates : Before(p, q)}

Payday == IF Candidates = {} THEN NoPlan ELSE CHOOSE p \in First : TRUE

Horizon(day, p) == IF due[p] < day THEN day ELSE due[p]

(* Faulty variant: what is overdue is taken for posted. *)
PendingFromToday(until) ==
  {p \in active \cap Expense : due[p] <= until /\ due[p] >= today}

(* get_upcoming_payment_plans, which has no lower bound, and               *)
(* pending_fixed_expenses, which leaves transfers out.                     *)
Pending(until) == {p \in active \cap Expense : due[p] <= until}

ReadBalance ==
  /\ read = Nothing
  /\ read' = [step |-> "balance", today |-> today, available |-> Available]
  /\ answer' = NoAnswer /\ transferred' = 0
  /\ UNCHANGED <<today, group, slipped, disturbed, exact>>

Answered(a) ==
  /\ read' = Nothing /\ answer' = a
  /\ exact' = (~disturbed /\ slipped = 0)
  /\ slipped' = 0 /\ disturbed' = FALSE /\ transferred' = 0
  /\ UNCHANGED <<today, group>>

(* Without a payday there is nothing to look forward to. *)
ReadNoPayday ==
  /\ read.step = "balance" /\ Payday = NoPlan
  /\ Answered([today |-> read.today, available |-> read.available,
               payday |-> NoPlan])

(* Faulty variant: the day is looked up again.                             *)
ReadPaydayAgain ==
  /\ read.step = "balance" /\ Payday # NoPlan
  /\ read' = [step |-> "payday", today |-> read.today, available |-> read.available,
              payday |-> Payday, horizon |-> Horizon(today, Payday)]
  /\ UNCHANGED <<today, group, answer, history>>

ReadPayday ==
  /\ read.step = "balance" /\ Payday # NoPlan
  /\ read' = [step |-> "payday", today |-> read.today, available |-> read.available,
              payday |-> Payday,
              horizon |-> Horizon(read.today, Payday)]
  /\ UNCHANGED <<today, group, answer, history>>

ReadUpcoming ==
  /\ read.step = "payday"
  /\ Answered([today |-> read.today, available |-> read.available,
               payday |-> read.payday, horizon |-> read.horizon,
               pending |-> [p \in Pending(read.horizon) |-> due[p]]])

-----------------------------------------------------------------------------
(* The arithmetic on an answer with a payday *)

Pays(a) == a # NoAnswer /\ a.payday # NoPlan

RealBalance(a) == a.available - SumFunctionOnSet(Amount, DOMAIN a.pending)

DaysRemaining(a) == a.horizon - a.today

(* Rounded down, and never divided by 0. *)
DailySafeSpend(a) ==
  RealBalance(a) \div (IF DaysRemaining(a) < 1 THEN 1 ELSE DaysRemaining(a))

(* Faulty variant: an overdue expense stays on its date. *)
OnItsDate(a, p) == a.pending[p]

(* What is overdue leaves today. *)
StepDate(a, p) == IF a.pending[p] < a.today THEN a.today ELSE a.pending[p]

(* build_projection *)
Projection(a) ==
  [day \in a.today .. a.horizon |->
     a.available - SumFunctionOnSet(Amount, {p \in DOMAIN a.pending : StepDate(a, p) \in a.today .. day})]

-----------------------------------------------------------------------------
Next ==
  \/ Midnight
  \/ \E p \in Plan : Post(p) \/ TogglePlan(p)
  \/ \E a \in Account : Spend(a) \/ ToggleAccount(a)
  \/ ReadBalance \/ ReadNoPayday \/ ReadPayday \/ ReadUpcoming

Spec == Init /\ [][Next]_vars

-----------------------------------------------------------------------------
(* Properties *)

(* Type invariant. *)
TypeOK ==
  /\ today \in 0..LastDay
  /\ balance \in [Account -> Int]
  /\ open \subseteq Account /\ active \subseteq Plan
  /\ due \in [Plan -> Nat]
  /\ edits \in 0..MaxEdits
  /\ read.step \in {"idle", "balance", "payday"}
  /\ read.step = "payday" => read.payday \in Plan /\ read.horizon >= read.today
  /\ slipped \in Int /\ transferred \in Int
  /\ disturbed \in BOOLEAN /\ exact \in BOOLEAN

(***************************************************************************)
(* Whatever the daily run moves between the statements, the blocks of one  *)
(* answer agree: the days are not negative, the curve has a point for each *)
(* day and never rises, it ends at the real balance, and the daily safe    *)
(* spend is the most that can be spent on each of the days without going   *)
(* below zero (docs/domains/account_groups.md, section 5).                 *)
(***************************************************************************)
AnswerAddsUp ==
  Pays(answer) =>
    LET curve == Projection(answer)
        days  == DaysRemaining(answer)
        n     == IF days = 0 THEN 1 ELSE days
    IN  /\ days >= 0
        /\ curve[answer.horizon] = RealBalance(answer)
        /\ \A d \in DOMAIN curve : d < answer.horizon => curve[d + 1] <= curve[d]
        /\ n * DailySafeSpend(answer) <= RealBalance(answer)
        /\ n * (DailySafeSpend(answer) + 1) > RealBalance(answer)

(* The answer of one snapshot, as of the day the request began. *)
Snapshot(day) ==
  IF Payday = NoPlan THEN Available
  ELSE Available - SumFunctionOnSet(Amount, Pending(Horizon(day, Payday)))

Shown(a) == IF a.payday = NoPlan THEN a.available ELSE RealBalance(a)

(***************************************************************************)
(* If only expenses and transfers of plans were posted between the         *)
(* statements, the real balance is that of one snapshot, plus what they    *)
(* took out: an expense may be overlooked, since it left the list before   *)
(* its amount left the balance that was read, and so may a transfer, but   *)
(* nothing is counted twice; and if nothing was posted, the answer is      *)
(* exact.                                                                  *)
(***************************************************************************)
OverlookedNotDoubled ==
  [][(ReadNoPayday \/ ReadUpcoming) /\ ~disturbed =>
       Shown(answer') = Snapshot(read.today) + slipped]_vars

(* The expenses of an answer are single, or not due again before payday,   *)
(* and leave from accounts that are spendable and not archived.            *)
Foreseen(a) ==
  \A p \in DOMAIN a.pending :
    /\ Period[p] = 0 \/ a.pending[p] + Period[p] > a.horizon
    /\ AccountOf[p] \in Spendable \cap open

(***************************************************************************)
(* docs/domains/account_groups.md, section 5: the real balance is what is  *)
(* left at the end of the cycle, before payday. So it is, if nobody does   *)
(* anything meanwhile, as soon as all expenses up to the horizon are posted*)
(* and until it is over or something is paid in - provided they are        *)
(* Foreseen: one due twice before payday is taken off once, and one of an  *)
(* archived or a savings account though it never leaves the available. And *)
(* it is short of it by what transfers have moved to accounts that are not *)
(* spendable, and by no more: docs/domains/payment_plans.md, section 6,    *)
(* leaves them out of what is pending.                                     *)
(***************************************************************************)
PromiseKept ==
  (/\ exact /\ Pays(answer) /\ Foreseen(answer) /\ today <= answer.horizon
   /\ \A p \in active \cap Expense : due[p] > answer.horizon)
  => Available = RealBalance(answer) - transferred

=============================================================================
