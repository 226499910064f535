---------------------------- MODULE PlanSchedule ----------------------------
(***************************************************************************)
(* A recurring payment plan that nobody edits: created on a first date,    *)
(* then advanced from one due date to the next by the daily run.           *)
(***************************************************************************)
EXTENDS PlanCalendar

CONSTANTS
  FirstDates,       (* dates on which plans are created to start           *)
  PlanFrequencies,  (* frequencies they are given                          *)
  MaxOccurrences    (* bound: due dates followed after the first           *)

VARIABLES
  first,            (* the due date given when the plan was created        *)
  frequency,        (* interval and unit                                   *)
  anchor,           (* recurrence_anchor_day                               *)
  due,              (* next_due_date                                       *)
  occurrences       (* how many times the plan has been advanced           *)

vars == <<first, frequency, anchor, due, occurrences>>

(* create_payment_plan takes the anchor from the first due date. *)
Init ==
  /\ first \in FirstDates \cap Dates
  /\ frequency \in PlanFrequencies \cap Frequencies
  /\ anchor = Day(first)
  /\ due = first
  /\ occurrences = 0

Advance ==
  /\ occurrences < MaxOccurrences
  /\ due' = AdvanceScheduledDate(due, frequency, anchor)
  /\ occurrences' = occurrences + 1
  /\ UNCHANGED <<first, frequency, anchor>>

Next == Advance

Spec == Init /\ [][Next]_vars

-----------------------------------------------------------------------------
(* Properties *)

(* Type invariant. *)
TypeOK ==
  /\ first \in FirstDates \cap Dates
  /\ frequency \in PlanFrequencies \cap Frequencies
  /\ anchor \in 1..31
  /\ due \in Dates
  /\ occurrences \in Nat

(***************************************************************************)
(* A monthly or yearly plan does not drift: the n-th due date is in the    *)
(* n-th month (or year) after the first, on the day the plan was created   *)
(* for, clipped to that month alone, however many shorter months were      *)
(* passed on the way.                                                      *)
(***************************************************************************)
DueOnAnchor ==
  frequency.unit \in Monthly =>
    /\ Month(due) = Month(first) + occurrences * MonthsPer(frequency)
    /\ Day(due) <= Day(first)
    /\ Day(due) < Day(first) => Day(due) = MonthLength(Month(due))

(* A daily or weekly plan keeps its distance in days across month ends,    *)
(* leap days and years, so a weekly plan stays on its weekday.             *)
DueKeepsDistance ==
  frequency.unit \notin Monthly =>
    DayNumber(due) = DayNumber(first) + occurrences * frequency.interval
                       * (IF frequency.unit = "week" THEN 7 ELSE 1)

(* An advanced plan is due later than before: the daily run cannot see the *)
(* same date twice on a plan nobody edits.                                 *)
DueMovesForward == [][due' > due]_vars

=============================================================================
