------------------------------ MODULE MCDomains ------------------------------
(***************************************************************************)
(* Instances for TLC of the domains. They share nothing, so that it is     *)
(* enough to let one of them run at a time: "domain" names it, and the     *)
(* variables of the others keep their first values.                        *)
(***************************************************************************)
EXTENDS Domains, TLC

CONSTANTS a, b, c, other, eur, usd, blank, salary, rent, gym, save,
          refill, bank, savings

VARIABLE domain

(* Three categories of one group and one of another. *)
Categories == {a, b, c, other}
Groups     == [x \in Categories |-> IF x = other THEN "other" ELSE "group"]

(* Three accounts and three currencies, one of them empty. *)
Accounts == {a, b, c}

(* Two users, two e-mails and two passwords. *)
Users     == {a, b}
Emails    == {"e-mail", "other e-mail"}
Passwords == {"password", "other password"}

(* A salary every three days, a rent every two, a single fee paid from the *)
(* savings, and two single transfers: to the savings, and back.            *)
Plans     == {salary, rent, gym, save, refill}
Transfers == {save, refill}
Holdings  == [p \in Plans |-> IF p \in {gym, refill} THEN savings ELSE bank]
Targets   == (save :> savings) @@ (refill :> bank)
Amounts   == (salary :> 3) @@ (rent :> 2) @@ (gym :> 1) @@ (save :> 1) @@ (refill :> 2)
Periods   == [p \in Plans |-> CASE p = salary -> 3 [] p = rent -> 2 [] OTHER -> 0]

(* One of the transfers is archived when it begins, and the single plans   *)
(* are due on fixed days.                                                  *)
ActiveAtFirst == {Plans \ {save}, Plans \ {refill}}
DueAtFirst    == {[p \in Plans |-> CASE p = salary -> s [] p = rent -> r
                                      [] p = gym -> 0 [] OTHER -> 1] : s, r \in {0, 1}}

(* Three rows, as many dates, and pages of one. *)
Transactions == 1..3

(* Plans that start around the ends of months, leap days and years: the    *)
(* last days of the months from January 2023 to March 2024.                *)
Cal == INSTANCE PlanCalendar

January == 12 * 2023

MonthEnds ==
  {Cal!On(m, d) : m \in January..(January + 14), d \in 28..31}
    \cup {Cal!On(January + 8, 22), Cal!On(January + 12, 1)}

Frequencies ==
  [interval : {1, 2, 3, 5, 12, 13}, unit : {"month"}]
    \cup [interval : {1, 4}, unit : {"year"}]
    \cup [interval : {1, 2, 10}, unit : {"day", "week"}]

-----------------------------------------------------------------------------
Running == {"budgets", "categories", "accounts", "users", "overview", "pages", "schedule"}

(* One initial state of the domains that do not run. *)
MCInit ==
  /\ domain \in Running
  /\ IF domain = "overview"
     THEN planned \in ActiveAtFirst /\ due \in DueAtFirst
     ELSE planned = Plans /\ due = [p \in Plans |-> 0]
  /\ IF domain = "pages" THEN unused \in SUBSET Transactions ELSE unused = Transactions
  /\ IF domain = "schedule"
     THEN first \in MonthEnds /\ frequency \in Frequencies
     ELSE /\ first = Cal!On(January, 31)
          /\ frequency = [interval |-> 1, unit |-> "month"]
  /\ DomainsInit

MCNext ==
  /\ UNCHANGED domain
  /\ \/ domain = "budgets"    /\ BudgetsStep
     \/ domain = "categories" /\ CategoriesStep
     \/ domain = "accounts"   /\ AccountsStep
     \/ domain = "users"      /\ UsersStep
     \/ domain = "overview"   /\ OverviewStep
     \/ domain = "pages"      /\ PagesStep
     \/ domain = "schedule"   /\ ScheduleStep

MCSpec == MCInit /\ [][MCNext]_<<domain, domainsVars>>

Symmetry == Permutations(Worker)

=============================================================================
