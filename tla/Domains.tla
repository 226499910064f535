------------------------------- MODULE Domains -------------------------------
(***************************************************************************)
(* The domains that share nothing with one another but the database:       *)
(* Budgets, which this module extends, and six more. Their steps           *)
(* interleave, and each leaves the others alone.                           *)
(***************************************************************************)
EXTENDS Budgets, Integers, FiniteSets

CONSTANTS
  Category, GroupOf,                                 (* of Categories       *)
  Account, Currency, Default, Blank,                 (* of Accounts         *)
  User, Email, Password,                             (* of Users            *)
  Holding, Spendable, Plan, Income, Transfer,        (* of Overview         *)
  HoldingOf, HoldingTo, PlanAmount, PlanPeriod, FirstDue, LastOverview, MaxEdits,
  Transaction, Date, Limit, MaxWrites,               (* of TransactionPages *)
  FirstDates, PlanFrequencies, MaxOccurrences,       (* of PlanSchedule     *)
  None                                               (* nothing of a kind   *)

(* What the Accounts write besides a currency. *)
Flags == {"archived", "active", "the rest", "nothing"}

ASSUME DomainsAssumption ==
  /\ None \notin Category
  /\ Default \in Currency /\ Blank \in Currency \ {Default}
  /\ None \notin Account \cup Currency \cup Flags /\ Currency \cap Flags = {}
  /\ None \notin User \cup Email \cup Password

(* Plans move amounts to, from or between accounts of the group; a period  *)
(* is not negative.                                                        *)
ASSUME OverviewAssumption ==
  /\ IsFiniteSet(Holding) /\ IsFiniteSet(Plan) /\ None \notin Plan
  /\ Transfer \subseteq Plan \ Income
  /\ HoldingOf \in [Plan -> Holding] /\ HoldingTo \in [Transfer -> Holding]
  /\ \A p \in Transfer : HoldingTo[p] # HoldingOf[p]
  /\ PlanAmount \in [Plan -> Nat] /\ PlanPeriod \in [Plan -> Nat]
  /\ FirstDue \subseteq Nat /\ LastOverview \in Nat /\ MaxEdits \in Nat

ASSUME PagesAssumption ==
  /\ IsFiniteSet(Transaction) /\ Date \subseteq Int
  /\ Limit \in Nat \ {0} /\ MaxWrites \in Nat

VARIABLES
  parent, catPc, category, wanted, catRaced,
  currency, inUse, accPc, account, writes, accRaced, excused,
  email, password, userPc, user, toEmail, proved, toPassword, overtaken,
  overToday, balance, open, planned, due, edits, read, answer, slipped,
  disturbed, exact, transferred,
  date, unused, inserts, step, offset, total, shown, steady, tied, inserted, removed, between,
  first, frequency, anchor, nextDue, occurrences

categories == <<parent, catPc, category, wanted, catRaced>>
accounts   == <<currency, inUse, accPc, account, writes, accRaced, excused>>
users      == <<email, password, userPc, user, toEmail, proved, toPassword, overtaken>>
overview   == <<overToday, balance, open, planned, due, edits, read, answer, slipped,
                disturbed, exact, transferred>>
pages      == <<date, unused, inserts, step, offset, total, shown, steady, tied,
                inserted, removed, between>>
schedule   == <<first, frequency, anchor, nextDue, occurrences>>

C == INSTANCE Categories WITH NoParent <- None, pc <- catPc, raced <- catRaced

A == INSTANCE Accounts WITH
       NoAccount <- None, NoCurrency <- None,
       active <- inUse, pc <- accPc, raced <- accRaced

U == INSTANCE Users WITH pc <- userPc

O == INSTANCE Overview WITH
       Account <- Holding, AccountOf <- HoldingOf, ToAccount <- HoldingTo,
       Amount <- PlanAmount,
       Period <- PlanPeriod, LastDay <- LastOverview, NoPlan <- None, NoAnswer <- None,
       today <- overToday, active <- planned

P == INSTANCE TransactionPages WITH Row <- Transaction, writes <- inserts

S == INSTANCE PlanSchedule WITH due <- nextDue

-----------------------------------------------------------------------------
DomainsInit == Init /\ C!Init /\ A!Init /\ U!Init /\ O!Init /\ P!Init /\ S!Init

BudgetsStep    == Next   /\ UNCHANGED <<categories, accounts, users, overview, pages, schedule>>
CategoriesStep == C!Next /\ UNCHANGED <<vars, accounts, users, overview, pages, schedule>>
AccountsStep   == A!Next /\ UNCHANGED <<vars, categories, users, overview, pages, schedule>>
UsersStep      == U!Next /\ UNCHANGED <<vars, categories, accounts, overview, pages, schedule>>
OverviewStep   == O!Next /\ UNCHANGED <<vars, categories, accounts, users, pages, schedule>>
PagesStep      == P!Next /\ UNCHANGED <<vars, categories, accounts, users, overview, schedule>>
ScheduleStep   == S!Next /\ UNCHANGED <<vars, categories, accounts, users, overview, pages>>

DomainsNext ==
  \/ BudgetsStep \/ CategoriesStep \/ AccountsStep \/ UsersStep
  \/ OverviewStep \/ PagesStep \/ ScheduleStep

domainsVars == <<vars, categories, accounts, users, overview, pages, schedule>>

DomainsSpec == DomainsInit /\ [][DomainsNext]_domainsVars

-----------------------------------------------------------------------------
(* The properties of the domains, under the names they have there; those of*)
(* Budgets need no other.                                                  *)

(* The type invariants. *)
DomainTypesOK ==
  TypeOK /\ C!TypeOK /\ A!TypeOK /\ U!TypeOK /\ O!TypeOK /\ P!TypeOK /\ S!TypeOK

(* Summary, list and budgets count the same (Categories).                  *)
SameFigures == C!SameFigures

(* Only requests that raced nest categories, or meet the trigger           *)
(* (Categories).                                                           *)
LevelsForCause == C!LevelsForCause

(* A group has one currency until one of three causes (Accounts). *)
MixedForCause == A!MixedForCause

(* No two users have one e-mail (Users). *)
OneUserPerEmail == U!OneUserPerEmail

(* A password is changed by who knew it (Users). *)
ChangedByItsKnower == U!ChangedByItsKnower

(* Whatever commits between its statements, an answer adds up (Overview). *)
AnswerAddsUp == O!AnswerAddsUp

(* What is promised to be left is there, but for transfers (Overview). *)
PromiseKept == O!PromiseKept

(* A posting may be overlooked, never counted twice (Overview). *)
OverlookedNotDoubled == O!OverlookedNotDoubled

(* No row is missed or repeated without a cause (TransactionPages). *)
PagesForCause == P!PagesForCause

(* A monthly or yearly plan does not drift, a daily or weekly one keeps its*)
(* distance in days (PlanSchedule).                                        *)
DueOnSchedule == S!DueOnAnchor /\ S!DueKeepsDistance

=============================================================================
