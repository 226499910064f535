---------------------------- MODULE PlanCalendar ----------------------------
(***************************************************************************)
(* The date arithmetic of a payment plan: advance_scheduled_date of        *)
(* app/payment_plans/run_due.py and as much of Python's datetime and       *)
(* calendar as it uses.                                                    *)
(*                                                                         *)
(* A date is the number 32 * m + d, where m counts months from January of  *)
(* year 0 and d is the day of the month: later dates are larger numbers.   *)
(***************************************************************************)
EXTENDS Integers

Month(date) == date \div 32
Day(date)   == date % 32
On(m, d)    == 32 * m + d

LeapYear(y) == y % 4 = 0 /\ (y % 100 # 0 \/ y % 400 = 0)

(* calendar.monthrange(year, month)[1] *)
MonthLength(m) ==
  IF m % 12 \in {3, 5, 8, 10} THEN 30
  ELSE IF m % 12 # 1 THEN 31
  ELSE IF LeapYear(m \div 12) THEN 29 ELSE 28

Dates == {date \in Nat : Day(date) \in 1..MonthLength(Month(date))}

Tomorrow(date) ==
  IF Day(date) < MonthLength(Month(date)) THEN date + 1
                                          ELSE On(Month(date) + 1, 1)

(* date + timedelta(days=n) *)
AddDays(date, n) ==
  LET after[k \in 0..n] == IF k = 0 THEN date ELSE Tomorrow(after[k - 1])
  IN  after[n]

(* Days since 1 January of year 1, by the rule of datetime.toordinal. *)
DaysBeforeYear(y) ==
  365 * (y - 1) + (y - 1) \div 4 - (y - 1) \div 100 + (y - 1) \div 400

DaysBeforeMonth(m) ==
  DaysBeforeYear(m \div 12)
    + <<0, 31, 59, 90, 120, 151, 181, 212, 243, 273, 304, 334>>[(m % 12) + 1]
    + (IF m % 12 > 1 /\ LeapYear(m \div 12) THEN 1 ELSE 0)

DayNumber(date) == DaysBeforeMonth(Month(date)) + Day(date)

-----------------------------------------------------------------------------
Units    == {"day", "week", "month", "year"}
Monthly  == {"month", "year"}
NoAnchor == 0

Frequencies == [interval : Nat \ {0}, unit : Units]

MonthsPer(f) == IF f.unit = "month" THEN f.interval ELSE 12 * f.interval
DaysPer(f)   == IF f.unit = "day" THEN f.interval ELSE 7 * f.interval

Earlier(a, b) == IF a <= b THEN a ELSE b

(* Day d of month m, clipped to the length of the month. *)
Clipped(m, d) == On(m, Earlier(d, MonthLength(m)))

-----------------------------------------------------------------------------
(* Faulty variant: the day of the last, perhaps clipped, date is kept. *)
AdvanceByCurrentDay(date, f, anchor) ==
  IF f.unit \in Monthly
  THEN Clipped(Month(date) + MonthsPer(f), Day(date))
  ELSE AddDays(date, DaysPer(f))

(***************************************************************************)
(* The due date after "date": so many months on, on the anchor day clipped *)
(* to the month reached, or so many days on.                               *)
(***************************************************************************)
AdvanceScheduledDate(date, f, anchor) ==
  IF f.unit \in Monthly
  THEN Clipped(Month(date) + MonthsPer(f),
               IF anchor = NoAnchor THEN Day(date) ELSE anchor)
  ELSE AddDays(date, DaysPer(f))

=============================================================================
