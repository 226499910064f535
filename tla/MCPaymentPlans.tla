---------------------------- MODULE MCPaymentPlans ----------------------------
(* Small instances of PaymentPlans, around the end of February 2023.         *)
EXTENDS PaymentPlans, TLC

CONSTANTS rent, gym, c1, c2, r1, r2

January == 12 * 2023

Jan31 == On(January, 31)
Feb28 == On(January + 1, 28)
Mar28 == On(January + 2, 28)
Mar31 == On(January + 2, 31)

MCOnePlan  == {rent}
MCTwoPlans == {rent, gym}
MCOneCron  == {c1}
MCTwoCrons == {c1, c2}
MCNoRequest   == {}
MCOneRequest  == {r1}
MCTwoRequests == {r1, r2}

MCToday2 == {Jan31, Feb28}
MCToday3 == {Jan31, Feb28, Mar31}
MCToday4 == {Jan31, Feb28, Mar28, Mar31}

EveryMonth == [interval |-> 1, unit |-> "month"]
MCMonthly  == {EveryMonth}

(* A PATCH of the amount alone: it gives none of the schedule's fields. *)
AmountOnly == [due |-> Unset, recurring |-> Unset, frequency |-> Unset,
               end |-> Unset, active |-> Unset]

MCNoEdits == {}

(* Bring the plan back to life, move it, stop or restart its recurrence,   *)
(* give it an end.                                                         *)
MCEdits ==
  {AmountOnly,
   [AmountOnly EXCEPT !.active = TRUE],
   [AmountOnly EXCEPT !.active = FALSE],
   [AmountOnly EXCEPT !.due = Jan31, !.active = TRUE],
   [AmountOnly EXCEPT !.due = Feb28],
   [AmountOnly EXCEPT !.due = Mar31],
   [AmountOnly EXCEPT !.recurring = FALSE],
   [AmountOnly EXCEPT !.recurring = TRUE, !.frequency = EveryMonth],
   [AmountOnly EXCEPT !.end = Feb28]}

MCDateOrAmount == {AmountOnly, [AmountOnly EXCEPT !.due = Feb28]}

CronSymmetry == Permutations(MCTwoCrons)
PlanSymmetry == Permutations(MCTwoPlans) \cup Permutations(MCTwoCrons)
=============================================================================
