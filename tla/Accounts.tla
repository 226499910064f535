------------------------------ MODULE Accounts ------------------------------
(***************************************************************************)
(* The accounts of one group and their currencies. A creation looks at the *)
(* active accounts and inserts a row later; a PATCH writes the columns it  *)
(* is given, the active flag among them, and looks at nothing. The rule of *)
(* one currency is the application's alone. The column balance is in the   *)
(* module Ledger.                                                          *)
(***************************************************************************)
EXTENDS FiniteSets

CONSTANTS
  Account,      (* every account there may ever be                         *)
  Currency,
  NoCurrency,   (* of an account that has no row                           *)
  Default,      (* DEFAULT_CURRENCY, and the default of the column         *)
  Blank,        (* the empty string, which a request may give as currency  *)
  NoAccount,
  Worker        (* threads that serve requests, one after another          *)

(* Default and Blank are two of Currency; NoCurrency and NoAccount are not *)
(* among the others.                                                       *)

VARIABLES
  currency,     (* of the committed rows                                   *)
  active,       (* rows with is_active                                     *)
  pc,           (* how far the request of each worker is                   *)
  account,      (* the account it creates or updates                       *)
  writes,       (* the currency or the flag it writes, or "the rest"       *)
  raced,        (* history: others have committed since it began           *)
  excused       (* history: something let a second currency in             *)

vars == <<currency, active, pc, account, writes, raced, excused>>

Init ==
  /\ currency = [a \in Account |-> NoCurrency]
  /\ active = {}
  /\ pc = [w \in Worker |-> "idle"]
  /\ account = [w \in Worker |-> NoAccount]
  /\ writes = [w \in Worker |-> "nothing"]
  /\ raced = [w \in Worker |-> FALSE]
  /\ excused = FALSE

Row == {a \in Account : currency[a] # NoCurrency}

(* Of the active accounts: what decides about a new one, and what          *)
(* get_group_balance shows one of.                                         *)
InUse == {currency[a] : a \in active}

-----------------------------------------------------------------------------
Begin(w, next, a, what) ==
  /\ pc[w] = "idle"
  /\ pc' = [pc EXCEPT ![w] = next]
  /\ account' = [account EXCEPT ![w] = a]
  /\ writes' = [writes EXCEPT ![w] = what]
  /\ UNCHANGED <<currency, active, raced, excused>>

End(w) ==
  /\ pc' = [pc EXCEPT ![w] = "idle"]
  /\ account' = [account EXCEPT ![w] = NoAccount]
  /\ writes' = [writes EXCEPT ![w] = "nothing"]

Rollback(w) ==
  /\ End(w) /\ raced' = [raced EXCEPT ![w] = FALSE]
  /\ UNCHANGED <<currency, active, excused>>

Chosen == Currency \cup {NoCurrency}

(* Faulty variant: a request without a currency is not checked. *)
FitsIfGiven(c) == InUse # {} /\ c # NoCurrency => c \in InUse

(* The check takes no currency and an empty one for the default. *)
Effective(c) == IF c \in {NoCurrency, Blank} THEN Default ELSE c

Fits(c) == InUse # {} => Effective(c) \in InUse

Create(w) ==
  \E a \in Account \ Row, c \in Chosen :
    /\ \A v \in Worker : account[v] # a
    /\ Fits(c)
    /\ Begin(w, "insert", a, c)

(* The column has its default only if none is given: an empty one is *)
(* written as it is.                                                 *)
Inserted(c) == IF c = NoCurrency THEN Default ELSE c

Insert(w) ==
  /\ pc[w] = "insert"
  /\ pc' = [pc EXCEPT ![w] = "done"]
  /\ writes' = [writes EXCEPT ![w] = Inserted(@)]
  /\ UNCHANGED <<currency, active, account, raced, excused>>

(* PATCH: archive, reactivate, or other columns only. *)
Patch(w) ==
  \E a \in Row, what \in {"archived", "active", "the rest"} : Begin(w, "update", a, what)

Locked(w) == \E v \in Worker \ {w} : pc[v] = "done" /\ account[v] = account[w]

Update(w) ==
  /\ pc[w] = "update" /\ ~Locked(w)
  /\ pc' = [pc EXCEPT ![w] = "done"]
  /\ UNCHANGED <<currency, active, account, writes, raced, excused>>

(* A new row is active by default. *)
ActiveAfter(w) ==
  CASE writes[w] = "archived" -> active \ {account[w]}
    [] writes[w] = "the rest" -> active
    [] OTHER -> active \cup {account[w]}

(* No PATCH has a currency. *)
CurrencyAfter(w) ==
  IF writes[w] \in Currency THEN [currency EXCEPT ![account[w]] = writes[w]]
  ELSE currency

(* What lets a second currency in: a creation that others overtook, an     *)
(* empty currency while another is in use, and no account left in use.     *)
Excuses(w) ==
  \/ writes[w] \in Currency /\ raced[w]
  \/ writes[w] = Blank /\ InUse # {}
  \/ ActiveAfter(w) = {}

Commit(w) ==
  /\ pc[w] = "done"
  /\ excused' = (excused \/ Excuses(w))
  /\ currency' = CurrencyAfter(w)
  /\ active' = ActiveAfter(w)
  /\ raced' = [v \in Worker |-> v # w /\ pc[v] # "idle"]
  /\ End(w)

(* Any error, at any time. *)
Fail(w) == pc[w] # "idle" /\ Rollback(w)

-----------------------------------------------------------------------------
Next ==
  \E w \in Worker :
    Create(w) \/ Insert(w) \/ Patch(w) \/ Update(w) \/ Commit(w) \/ Fail(w)

Spec == Init /\ [][Next]_vars

-----------------------------------------------------------------------------
(* Properties *)

(* Type invariant; only rows are active. *)
TypeOK ==
  /\ currency \in [Account -> Chosen]
  /\ active \subseteq Row
  /\ pc \in [Worker -> {"idle", "insert", "update", "done"}]
  /\ account \in [Worker -> Account \cup {NoAccount}]
  /\ writes \in [Worker -> Chosen \cup {"archived", "active", "the rest", "nothing"}]
  /\ raced \in [Worker -> BOOLEAN]
  /\ excused \in BOOLEAN

(***************************************************************************)
(* docs/domains/accounts.md, section 5: the active accounts of a group     *)
(* share one currency, and a creation in another one gets a 409. So it is  *)
(* up to three things, none of which the check can see: a creation that    *)
(* others overtook; an empty currency, which is checked as the default but *)
(* stored empty; and a moment at which all accounts are archived, since    *)
(* the next one may have any currency and a reactivation is not checked.   *)
(* Until one of these, no sequence of creations, archivings and            *)
(* reactivations gives the group two currencies, archived accounts         *)
(* included: that a reactivation need not look follows from it.            *)
(***************************************************************************)
MixedForCause ==
  ~excused => \A a, b \in Row : currency[a] = currency[b]

=============================================================================
