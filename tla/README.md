# A TLA+ development of the finanz-app backend

finanz-app is a REST backend for shared household finances: FastAPI endpoints
(`src/app/<domain>/router.py`), services that hold the rules
(`service.py`), repositories that hold the SQL (`repository.py`), and a
PostgreSQL schema whose triggers and constraints carry part of the logic
(`src/alembic/versions/`). A daily batch process posts due payment plans
(`src/app/payment_plans/run_due.py`, started by `src/docker/payment-plans-cron`).
This directory models the parts of it in which the order of steps, not the
wording of a response, decides whether the data stay right.

Contents: 1 the execution model, 2 the inventory, 3 the modules, 4 the runs,
5 fairness, 6 the proofs, 7 where code and documents differ, 8 what is left out,
9 what could follow.

## 1. The execution model

Everything below follows from five facts of the code.

* **One request, one session, one transaction.** `get_db`
  (`app/database.py:52-74`) opens a session, commits after the endpoint
  returned and rolls back on any exception. Endpoints are `def`, so FastAPI runs
  them in a thread pool: requests interleave at every SQL statement.
* **READ COMMITTED.** No isolation level is set, so each statement sees what was
  committed when it started. A value read by one statement may be stale at the
  next. An `UPDATE` or `SELECT ... FOR UPDATE` waits for a row another
  transaction has changed and then goes on with the newest version.
* **Identity map.** A SQLAlchemy session keeps the objects it has loaded while
  somebody refers to them. A later `SELECT`, also one with `FOR UPDATE`, returns
  the same object *without* refreshing its attributes unless it asks for
  `populate_existing`, and nothing in the code does.
* **Constraints become 409.** `app/shared/error_handlers.py:21-28` turns foreign
  key, unique, check and exclusion violations into `409 Conflict`, any other
  database error (a deadlock, a serialisation failure) into `500`; either way the
  transaction is rolled back.
* **The answer leaves before the commit.** `get_db` is a dependency with `yield`:
  with the FastAPI version the project pins, the code after the `yield`, and with it the
  commit, runs when the response has been sent. A client may therefore act upon
  an answer whose transaction has not committed, or never will. For sessions,
  where the answer carries a token nobody else can make, this is modelled
  (`Sessions`); elsewhere a request that follows the answer is one more
  concurrent request, which the modules have anyway.

An action of a module is therefore one SQL statement with the decision that
follows it, a commit, or a rollback. Statements of a request that no other
request can come between (an insert of a fresh row, say) are one action.

## 2. Inventory

| component | state | operations | interacts with | hard behaviour | what makes it correct |
|---|---|---|---|---|---|
| group membership | `account_group_members` rows (user, role) | change role, expel or leave, join by invitation | authorisation dependencies read the same rows | last-owner check under row locks, stale requester, lock order | the group keeps an owner; only members act; no deadlock |
| invitations | `invitations` rows (status, expiry) | create, look up, list, revoke, accept; lazy expiry on reading | inserts memberships | two accepts of one code, accept against revoke, an expiry written over an acceptance, an expiry rolled back by its own error | a code admits one person; an accepted invitation stays accepted |
| accounts | `accounts` rows (currency, active, `opening_balance`) | create, update and archive, balance per group | a trigger starts the column `balance` from `opening_balance`; the ledger moves it | the currency check reads before it writes; archived accounts leave the check | one currency per group |
| ledger | `transactions` rows (amount, type, pair, `deleted_at`), column `accounts.balance` | create, create transfer, update, delete | triggers keep the balance, mirror the other leg, check groups | sign computed from a stale row, both legs updated at once, lock order of two transfers, delete against update | balance = opening + live amounts; the two legs mirror each other |
| transaction queries | none | lists by page, summary by category | read `transactions` and `categories` | total and page are two snapshots, ties in the order, offsets while rows change | each row that stays is shown once; three queries count the same rows |
| payment plans | `payment_plans` rows (due date, anchor, recurrence, active) | create, update, list; the daily run | posts into the ledger; reads account and group state | two runs at once, a run against a PATCH, a crash between plans, month ends, a date moved back onto a posted one | an occurrence is posted at most once, never early, never skipped |
| budgets | `budgets` rows (category, amount, period) | set, delete, progress | exclusion constraint on periods; reads the flag of the category | read-then-write on the open period, a period closed twice, half-open intervals | one budget per category and day; closed periods do not change |
| categories | `categories` rows (parent, active) | create, update, list | parent's depth checked by a trigger | two parents changed at once | two levels |
| sessions | `sessions` rows (token hash, revoked) | log in, register, refresh, log out | JWT helpers, cookies | a refresh token used twice at once, refresh against log-out, a commit that fails after the answer | one refresh token buys one successor |
| users and passwords | `users` rows (e-mail, name), `auth_providers` | register, update the own profile, change password | unique e-mail | two registrations of one e-mail, two changes of one password | one user per e-mail; a password is changed by who knows it |
| group overview | none (derived) | available balance, payday, pending expenses, projection | reads accounts and plans with one statement each | the daily run commits between two reads; overdue and repeated expenses | the answer adds up, and what it promises is left at payday |
| group create, list and update | `account_groups` rows | create with its owner, rename, archive | first state of a group; an archived group stops its plans | none of its own | |
| unit of work, errors | none | commit, rollback, mapping of errors | every component | none of its own: a step of every module | |
| main, configuration, logging, schemas; migrations runner and deployment | none | start-up, validation | | sequential | |

Interactions: services call the services and repositories of other domains in
their own transaction (an acceptance inserts a member, the daily run inserts a
transaction and moves its plan, the overview reads accounts and plans);
everything else they share, they share through rows, constraints and triggers.

All components with rules of their own are modelled; section 8 says what is not.

## 3. The modules

### GroupMembers: who belongs to a group

`row` is the table `account_group_members` of one group, by row id, since the
ids decide the lock order; `unused` are ids not given yet. For each request,
`seen` is what its session's identity map holds, `lock` the rows its
`SELECT ... ORDER BY id FOR UPDATE` has returned (`repository.py:114-124`) and
`pending` those it still has to lock.

| action | code |
|---|---|
| `AuthoriseChange`, `AuthoriseExpel` | the dependency loads the requester's row (`dependencies.py:98-111`) |
| `OpenForUpdate`, `LockNextRow` | the locking SELECT; waits row by row, skips a row deleted meanwhile, does not refresh an object already loaded |
| `ChangeRole`, `Expel`, `Reject` | `change_member_role`, `expel_group_member` with the last-owner check (`OwnerSeenBesides`) and the commit |
| `AcceptCheck`, `AcceptInsert` | `accept_invitation` as far as it inserts a member |

The important point is in `LockNextRow`: the requester's own object was loaded
before the lock, so its attributes are those of that time.

### PlanCalendar, PlanSchedule: the dates of a plan

`PlanCalendar` is pure: a date is `32 * month + day`, months counted from year
0, so that dates are ordered as numbers; `MonthLength` is the Gregorian
calendar; `AdvanceScheduledDate` is `advance_scheduled_date`
(`run_due.py:32-59`), month arithmetic clipped to the end of the month and
pulled back to the anchor day. `PlanSchedule` follows one unedited plan from due
date to due date, whatever first date and frequency it was created with.

### PaymentPlans: the daily run and those who disturb it

Processes `Cron` run `materialize_due_plans` again and again: `Start` (list due
plans), `TakePlan`, `ReadPlan` (load), `LockPlan` (`FOR UPDATE`, second look at
the row: `StillDue`), `CheckAccount`, `CheckGroup`, `Post` (insert the
transaction and move the plan on, one commit) or `Refuse` (the unique index on
plan and date, or a CHECK, says no), `Fail` (any exception: this plan is rolled
back, the list goes on), `Crash` (the process dies between or inside plans),
`Finish`. Requests: `Create`, `PatchRead` and `PatchWrite`
(`update_payment_plan` validates and completes the edit from a row it read
without a lock), archiving of account and group, and the clock (`Tick`).
`edited` and `archived` are history variables that let a property speak of
plans nobody edited and of what stayed archived.

### LedgerEntries, AtomicLedger, Ledger: the balances

`LedgerEntries` has the rows of `transactions` and what a row does to a balance.
`AtomicLedger` is the abstract specification: a movement is recorded, amended or
deleted in one step, a transfer both legs at once, and every balance is always
the opening balance and the sum of the live movements.

`Ledger` is the code: each request has a list `todo` of the statements and
trigger firings still to come, in PostgreSQL's order. A PATCH of a transfer leg
is `UPDATE` the row, then the trigger `sync_transfer_pair` updates the other
leg, whose own balance trigger runs before the first one's. What a request has
written but not committed is in `draft` (rows) and `funds` (balances), and a
row or balance in there is locked: others wait (`RowFree`, `AccountFree`).
`Commit` publishes it, `Rollback` forgets it. `Update` may meet the CHECK on the
sign; `Settle` (the balance trigger) may overflow, also half-way, since it takes
the old effect back before it adds the new one; `Fail` is any other error;
`Victim` is the deadlock detector. The module implements `AtomicLedger`: its
`Commit` is an abstract step, everything else stutters (`IsAtomic`).

### Invitations: codes that admit

A request looks (`Get`, `List`, `Revoke`, or `CheckMembers` then `Accept`),
decides by what it saw and by the clock (`Judge`, with `Expired` for
`is_invitation_expired`), writes each row by id (`Write`, waiting for whoever
has written it; an UPDATE that finds no row is an error, a DELETE is not), inserts
its member (`Join`, which waits for and may fail on the unique membership) and
commits. `Refuse` is the acceptance of a late invitation: it marks the row
expired and then raises, so the mark is rolled back.
`admitted` and `lateThen` are history.

### Sessions, TokenChain: refresh tokens

`row` is the table `sessions` by token. `Grant` is the session a log-in or a
registration adds; a refresh is `LookUp` (plain SELECT), `Ask` (the clock when the
conditional UPDATE is sent), then `Consume` or `Refuse`, as `Outcome` says: the UPDATE
waits for whoever has the row and goes by what that one left; `Logout` is the
unconditional UPDATE of `revoke_session_by_refresh_token_hash`, which may find no
row. Then `Answer` puts the new token into the client's hands (`held`), and only then
`Commit` writes the rows, or `Fail` loses them; `Expire` is the clock. So clients show
tokens the table does not know yet, never will, or has revoked.

`TokenChain` is the promise without transactions: a token is granted once and
exchanged at most once, while alive. `Sessions` implements it (`IsTokenChain`): a
`Commit` is `Grant`, `Exchange` or `Revoke`, everything else stutters.

### Budgets: one category's periods

`period` has the committed rows, half-open intervals of days; a request has
`want`ed something, has `seen` the open row and keeps in `draft` what it wrote. `Set`
and `Delete` begin, `Look` reads the open period and decides (`MayFollow`) or `Refuse`s,
`Update` corrects the amount or closes the period *by id, whatever the row has
become*, `Insert` opens the next one. `Excluded` is the exclusion constraint as
PostgreSQL applies it: a version in conflict that is not committed is waited for.
`raced` remembers that somebody committed between the read and the end.

### Categories: the tree and who reads it

`parent` maps each existing category to its parent. `Create`, `Move` (its checks
`GoodParent` and, one statement later, `CheckChildren`), `Promote` (which nothing
checks) and `Edit` (any PATCH without a parent) lead to `Write`, at which the trigger
looks at the committed parent once more (`TriggerRefuses`). Below, `SummaryLine`,
`FilterOf` and `CountedBy` are the three ways in which summary, list and budget
find the categories of a root.

### Accounts: one currency per group

`Create` looks at the currencies of active accounts and inserts later; `Patch`
archives, reactivates or writes other columns, and checks nothing. A request may
name a currency, none, or the empty one (`Blank`), and the two conversions of the code
differ: the check takes both of the latter for the default (`Effective`,
`service.py:30`), the row has the default only if there was none (`Inserted`,
`repository.py:41`). `excused` is history: something has let a second currency in.

### Users: e-mails and passwords

`Register`, `ChangeEmail`, `Rename` and `ChangePassword` with what they read; then the
flush. An insertion into the unique index waits for uncommitted entries of the same
e-mail (`IndexFree`), also while the new user's password is being hashed (`Hash`), and
ends in `Conflict` if one commits. A change of password writes by id; the password it
verified is `proved`.

### Overview: three statements and some arithmetic

`ReadBalance`, `ReadPayday` (or `ReadNoPayday`) and `ReadUpcoming` are the statements,
between which `Post` (the daily run), `Spend`, `ToggleAccount`, `TogglePlan` and
`Midnight` come in. Plans are incomes, expenses or transfers; a transfer moves two
balances and is never among the pending expenses, as in the code
(`pending_fixed_expenses`). `transferred` remembers what transfers have taken out of
the spendable accounts since the answer (less than zero if they paid in), `slipped`
what the daily run took out between the statements. `today` is taken once, with the first statement. Real balance,
days remaining, daily safe spend and projection are operators on the answer.

### TransactionPages: a list that changes while it is read

A client asks for page after page by offset; each answer is `ReadTotal` and
`ReadPage`, two snapshots. `IsPage` admits every page that `ORDER BY date` admits:
rows of one date come in any order. `Record`, `Delete` and `Move` are other people's
commits.

### Domains: seven side by side

The last six modules and `PlanSchedule` share no state. `Domains` is their
interleaving: it extends `Budgets`, instantiates the others with variables and
constants of their own (`C`, `A`, `U`, `O`, `P`, `S`), and each of its steps is a step
of one that leaves the others alone (`DomainsSpec`). It also names their properties
and says what the constants must satisfy. `MCDomains` gives them values and lets
one of the seven run, chosen in the first state by `domain`. Nothing is lost by that:
`DomainsAlone`, in `Domains_proofs`, says that in `DomainsSpec` each behaves as if it
were alone.

Each module's faulty variants (marked as such) are bugs one could plausibly
write in that code; every property checked below is broken by one of them.

## 4. The runs

| run | instance | shows |
|---|---|---|
| `members` | 3 users, 2 requests, 4 row ids | under the locks every other member is seen as committed, requests never wait for each other in a circle, the last owner is lost only through a requester whose own role is stale, nobody expelled expels |
| `members_owner` | 2 users, 2 requests | *violation*: two owners demote each other and the group has none |
| `plans` | 1 plan, 2 processes, 1 PATCH of nine kinds, 3 days, 1 failure or crash | posted at most once; unedited plans exactly on their calendar; the lock alone suffices; what is archived is not posted |
| `plans_live` | 2 plans, 1 process, 1 failure | a due plan is posted in the end, though another of the list fails or the process crashes |
| `plans_anchor` | 1 process, 2 PATCHes | *violation*: a PATCH of the amount puts an old anchor back |
| `ledger` | 2 accounts, 4 rows, 2 requests at a time, amounts 1 and 2, overflow at 3 | balances are sums, legs mirror, every commit is an atomic step of `AtomicLedger` and moves a balance by what its rows changed; only transfers deadlock |
| `ledger_live` | 2 rows, amount 1 | every request ends |
| `invitations` | 2 users, 2 requests at a time, 2 invitations | acceptance and membership are one; revoked is final; only overtaken requests err; late invitations admit nobody; no deadlock |
| `invitations_record` | 1 invitation | *violation*: an accepted invitation expires, is revoked or admits a second user |
| `sessions` | 3 tokens, 3 requests at a time | refreshes, log-outs, log-ins and failed commits of any order are a chain of tokens exchanged once; no rotation eats a session; a refusal has a cause |
| `domains` | the seven instances below | budgets never overlap, the past stays, requests take hold, conflicts have a cause; two levels unless requests race, and the same figures of a root from three queries; a second currency only by a race, an empty currency or once all accounts were archived; one user per e-mail, passwords changed by who knew them; the overview adds up, keeps its promise but for scheduled transfers, and never counts twice; pages show each row that stays, or say why not; plans keep their day and their distance |
| `categories_levels` | 3 categories of a group, 1 of another, 2 requests | *violation*: a third level |

Instances of `domains`: `Budgets` with 2 requests at a time, 3 days, 2 rows, 2 amounts;
`Categories` with 3 categories of a group and 1 of another; `Accounts` with 3 accounts,
2 currencies and the empty one; `Users` with 2 users, e-mails and passwords; `Overview`
with a salary every 3 days, a rent every 2, a single fee paid from savings and a single
transfer each way between bank and savings, one of them archived at first (so one
expense may be due twice before payday, another never leaves the available balance, and
transfers lower and raise it), days 0 to 2 and one act of people; `TransactionPages`
with 3 rows, 3 dates, pages of one row and 2 writes; `PlanSchedule` with 53 first dates
around the ends of 15 months (a leap day among them), 14 frequencies, 14 dates each. All
of them also have 2 requests at a time where they have requests.

Why these bounds are enough. The hazards are races of two requests, each of
which needs one row (a plan, an invitation, a period), two rows (a transfer, a
listing, a category and its parent) or one group; a third request adds no new
pair of conflicting statements, and where
a third party matters (a member who leaves, the clock, archiving) it is an
action of its own. Four row ids let a member who was removed join again under a
new id on either side of the others. Three dates around 28 February show a
clipped month and the return to the 31st. Two amounts are what it takes to see an
amount change; at 3 balances overflow (an overflow half-way with a result that would fit
needs more than these amounts, and is covered by the proof only). The
overview ends on day 2 because the cycle of an answer, from its statements through
what falls due to the postings of the daily run, fits into it, payday on day 0 or 1
and an overdue rent included. Four rows have room for two transfers in opposite directions; there
`FewOrSmall` keeps movements of two cents and deleted ones to states with at most
two rows. In `Sessions` a third request meets the second one's successor. Two rows of
`Budgets` are a closed and an open period; with three rows (set `MaxRows` and run
`Budgets` alone, 1.3 million states) nothing new appears. Days matter only by their order. Three categories are what a third
level takes. Workers in `Ledger`, `Invitations`, `Sessions` and the domains serve
requests without end, so
sequences of any length are explored; in the other two modules each request is
served once. All of the safety properties are also proved without
the bounds (section 6).

`CHECK_DEADLOCK FALSE` stands where the bounded system does stop: when every
request is done (`GroupMembers`), every row used up and deleted (`Ledger`), the
clock at its last day (`PaymentPlans`), the plan at its last occurrence or the client at
the last page (two of the `domains`). Waiting in a circle is therefore a property of
its own in the first two.
Symmetry is used in runs without liveness only, over sets the modules treat
alike (row ids of `GroupMembers` are ordered, so they are not among them).

## 5. Fairness

* `PaymentPlans`: weak fairness of `Run(c)`, the next step of a process: cron
  starts it every day (`docker/payment-plans-cron`), and each of its steps ends.
  Nothing is assumed of requests or of the clock.
* `Ledger`: strong fairness of `Step(w)`, because a statement that waits for a
  row is enabled only between two holders of it, and PostgreSQL queues waiters so
  that none is overtaken for ever; weak fairness of `Victim(w)`, because the
  deadlock detector runs after `deadlock_timeout`. It may choose any member of the
  cycle. Nothing is assumed of arrivals or of failures.

## 6. The proofs

All theorems hold for any values of the constants that satisfy the module's
ASSUME: disjoint sentinels, natural-number row ids, amounts and bounds, dates of
the calendar. None bounds the number of users, rows, plans, processes, requests.
They rest on lemmas in the same modules, one per action. Type invariants that are
proved are not run again, except where a run is cheap.

* `GroupMembers_proofs`. `IInv` adds to the types: locks are held only while
  locking and only on live rows; locked ids lie below those still to be locked
  (without this two requests could wait for each other); before the lock a
  session has loaded its own row only (without this the locked rows need not be
  fresh); unused ids are blank. From it: `TypeOK`, `LockedRowsAreFresh`,
  `NoWaitCycle`, and the action properties `LastOwnerLostOnlyByStaleSelf`,
  `ExpelNeedsLiveRequester`. The first of these is the precise extent of the
  defect of section 7: with a fresh requester the check would be enough.
* `Operators_proofs`, which the others use. Sums over a set and the calendar are
  recursive functions, and the induction theorems of the library take an operator for a
  parameter, which the provers cannot instantiate. So induction is done with sets: a set
  of numbers that has 0 and the successor of each of its members is `Nat`
  (`EveryNumber`), a non-empty family of subsets of a finite set has a minimal one
  (`MinimalSet`). From these: that the function behind `SumFunctionOnSet` exists, and
  that the sum does not depend on the order it is taken in (`SumWithoutOne`), from
  which the other lemmas on sums follow. For the calendar: `AddDaysCounts` (n days
  later the day number is n more, across months, leap days and years) and
  `AdvanceIsLater` (for every date, frequency and anchor the next date is a date, and
  later).
* `Budgets_proofs`. The invariant: types (no period is ever empty); `NoOverlap`; `Clear`,
  a version that is written is disjoint from what its request leaves of the other rows
  and from every version others write, and nobody else has written its row; `Shape`,
  how far a request is and what it may have written by then; `Kept`, what it writes is a
  row of its own or a change of one that is there, and that one is open unless somebody
  overtook it; `Ready`, before its commit it has written the row that holds, or ends, on
  its day. `NoOverlap` is not inductive without `Clear`, which is what the
  waiting of the constraint buys: at a commit the versions become rows. From it: `NoOverlap`,
  `EarlierDaysKept`, `TakesHold`, `ClosedIsClosed`. `ConflictForCause` needs one more part,
  `Undisturbed`: what a request nobody has overtaken still finds before its insertion,
  nothing open or the one row it has closed itself.
* `Sessions_proofs`. The invariant: no two requests have written one row; a token being
  issued has no row and one issuer; a token being used has a row, and a live one if a
  refresh has taken it; what became of a revoked token is accounted for. From it: each
  `Commit` is a step of `TokenChain` (`ImplementsTokenChain`), `RotationKeepsSession`,
  `RefusedForCause` and `LogoutIsFinal`.
* `PaymentPlans_proofs`. `IInv`: a process past its second look holds the row's
  lock and its view equals the row; every row satisfies the CHECKs; an unedited
  plan has been posted only for dates before its due date (which, with
  `AdvanceIsLater`, is why the unique index never refuses for it); what counts as
  archived still is. From it `AtMostOnce`, `UneditedIsExact`,
  `RefusedOnlyIfEdited`, `PostsWhatIsDue`, `ArchivedIsNotPosted`.
* `Ledger_proofs`. `LInv` = types, `PairsMirrored`, `LocksHold` (nothing is
  written by two requests at once) and, for each request, the `Phase` it is in:
  idle; about to update one row or a pair; half a pair written; all rows
  written and balances of some of them. Each phase says which rows are written,
  that a pair in it mirrors, and that each balance written is the committed one
  moved by its row (`FundsOf`). `PairsMirrored` alone is not inductive: between
  the two UPDATEs of a pair it would break if another request could write the
  second leg, and the phase with `LocksHold` excludes that. From it: `TypeOK`,
  `PairsMirrored`, `OnlyTransfersDeadlock` and `EachCommitBalances`. `BalanceIsSum`
  follows by induction over the commits: a commit changes at most one row of an
  account and moves the balance by it, and finitely many rows are in use, so the sum
  moves alike. `IsAtomic`, the refinement of `AtomicLedger`, needs `MInv` besides: what
  a request has written means *one* change (`Meant`: a row recorded, a pair recorded, a
  row or a pair rewritten by one amendment or deletion). Then a commit is `Record`,
  `RecordTransfer`, `Amend` or `Delete`, whatever came between its statements.
* `Invitations_proofs`. `IInv`: an invitation a request has written is written by
  it alone and has a row (`Held`); what a request writes, what it saw gave it
  reason to (`ChosenOnly`); only an acceptance joins,
  and it joins a user; what was late when it looked is still late; an unused
  invitation has admitted nobody; and `AcceptedWithMember` itself. `Held` is what lets a commit be read as a change of single
  rows, and `ChosenOnly` what ties that change to the earlier look: without them
  nothing relates a commit to the decision two statements before it. From it:
  `TypeOK`, `AcceptedWithMember`, `LateAdmitsNobody`, and the action properties
  `RevokedIsFinal` and `OnlyOvertakenErr`, the precise extent of the two defects
  of section 7. `NoDeadlock` follows from `Descending`: a request writes its rows latest
  first and a membership last, so what it waits for is earlier than what it holds, and
  the one that waits for the least of the rows (`WFMin`) waits for nobody.

* `Domains_proofs` has, for each of the six instances of `Domains`, an inductive
  invariant, and then the theorems of `DomainsSpec`, by `DomainsAlone`.
  * `UInv` (Users): what the request at each step is about, with a registration alone on
    its row; and `EmailsApart`: no e-mail is held twice, held while another request is
    past the index with it, or about to be had twice. From it `OneUserPerEmail` and
    `ChangedByItsKnower`.
  * `CInv` (Categories): what each request is about, and `AsChecked`: as long as there
    are two levels and nobody has overtaken it, the parent a request wants is still a
    root and its category still without children. A creation that is not overtaken
    needs no look at children, because nothing can hang below a row not committed.
    From it `LevelsForCause`; `SameFigures` follows from the types alone, at any depth.
  * `AInv` (Accounts): `StillFits`, the currency a creation nobody has overtaken was
    checked with is in use, or none is; and `OneCurrency`, until something lets a second
    currency in all rows have one, and some account is in use if there are any.
    Without that last part the rows could not be told from those in use, which are all
    that the check sees. From it `MixedForCause`.
  * `ScheduleInv` (PlanSchedule): the due date is a closed form of the first date, the
    frequency and the number of periods. From it `DueOnSchedule` and `DueMovesForward`.
  * `OInv` (Overview): `StillSo`, what has been read equals what is there, apart from
    the expenses and transfers `slipped` in between, if nothing else has happened;
    `PostedOnce`, in the cycle of an answer each of its expenses is either still to be
    posted, on the date the answer has for it, or has left the balance, once, and all
    that has left it besides was `transferred`. From it `AnswerAddsUp`,
    `OverlookedNotDoubled` and `PromiseKept`.
  * `PInv` (TransactionPages): if no two rows have one date, the offset divides the list:
    a steady row that was shown has a smaller rank, unless something was inserted, one
    that was not has none smaller, unless something was removed. From it
    `PagesForCause`, by counting: a page has the rows of exactly its ranks
    (`PageHasRanks`).

Assumptions of `Domains` that go beyond disjoint names: the default currency is not the
empty one; a transfer joins two different accounts (`_create_transfer`); holdings, plans and
transactions are finite sets (tables are), amounts and intervals of plans are not
negative (the schemas ask for more than zero), dates and days are integers, a page has at least one
row (the schema of the query).

Only model-checked: the liveness properties `DueIsPosted` and `RequestsEnd`, since the
prover knows neither fairness nor ENABLED. Every invariant and every action property of
the runs that pass is also proved. The properties of the runs marked *violation* are
false; the theorems say how far. `LastOwnerLostOnlyByStaleSelf`, `OnlyOvertakenErr` and
`LevelsForCause` name the one step that breaks three of them. And each of
the four holds of requests that do not overlap, with `[]Apart` (`[]CategoriesApart`) as
the hypothesis:

| theorem | what must not overlap | what may |
|---|---|---|
| `GroupAlwaysHasOwnerApart` | role changes and expulsions, authorisation to commit | acceptances of invitations |
| `AnchorChangesOnlyWithDateApart` | PATCHes of one plan, read to write | daily runs, PATCHes of other plans, archiving |
| `AcceptedIsFinalApart` | requests that have looked at one invitation | creations, departures, requests for others |
| `TwoLevelsApart` | requests for categories | |

The argument is the same in all four: what a request read before it decides is still so
when it writes (`RolesAreCurrent`, `WritersSeeTheAnchor`, `UpToDate`, `NobodyOvertaken`),
since only another request of that kind could have changed it. So the code needs no more
than the lock, or the second look, that keeps these requests apart.

## 7. Where code and documents differ

Shown by the runs marked *violation*:

* A group can lose its last owner (`account_groups.md` §5 says never): the
  `FOR UPDATE` of the members does not refresh the requester's own object.
* A code can admit two users (§5: not reused once accepted), and an accepted
  invitation can become expired or be revoked (§5 and the docstring of
  `is_invitation_expired`): statuses are checked on a plain read and written by
  id alone. `OnlyOvertakenErr` shows that overlapping is the only way.
* The anchor day of a plan can change without its date being changed
  (`payment_plans.md` §5): every PATCH of a recurring plan writes it back.
* Categories can have three levels (`categories.md` §5 says the application cannot get
  round two "ni por error"): check and trigger see committed rows only. For a root the
  three queries agree at any depth, but below a third level they leave its
  transactions out of every root (`SameFigures`), and a subcategory no longer counts
  its own only.

Met while modelling and read off the code, without a run of their own:

* `expel_group_member` lets an admin expel an admin (`service.py:234`;
  `account_groups.md:148` says otherwise).
* Two DELETEs of one transaction that look before either commits
  both answer 204 (`transactions/service.py:181`; `transactions.md:83` says the
  second gets 404) with no effect on the balance.
* A log-out that arrives after the answer but before the commit of the request that issued the
  token finds no row, answers 204, and the session lives on; one that waits for a
  refresh of its token leaves the successor alive; and its own commit may fail after
  its 204 (`auth.md` §8 promises revocation). `Sessions` has all three behaviours.
* `budgets.md` §5 says the constraint fires only under a real race: after a DELETE in
  the middle of a month, a PUT that names no date begins on the first and is refused
  without any race (the second case of `ConflictForCause`).
* One currency per group (`accounts.md:68`) is lost in three ways, the clauses of
  `Excuses`, and `MixedForCause` shows that there is no fourth. The plainest needs
  neither a race nor a reactivation: a request with the currency `""`, which the schema
  admits (`accounts/schemas.py:19`), is checked as EUR (`service.py:30`) and stored empty
  (`repository.py:41`); and a group whose only active accounts have the empty currency
  accepts no further one. The others: all accounts are archived, one is created in
  another currency and an old one reactivated; two creations at once.
* The real balance (`account_groups.md` §5: what is left before payday) subtracts an
  expense that is due twice before payday once, and subtracts expenses of archived
  or savings accounts although they never leave the available balance: `Foreseen`, a
  hypothesis of `PromiseKept`, leaves these cases out. And it does not subtract scheduled
  transfers to accounts that are not spendable, a known limitation
  (`payment_plans.md:102`): `PromiseKept` says by how much the promise is missed, the sum
  `transferred`. Its other hypotheses are that nobody does anything between the answer and
  the end of the cycle and that no income comes in before. A posting between two
  statements of one answer is overlooked (`OverlookedNotDoubled`).

## 8. What is left out

* Queries without a decision: lists by account or group, daily spend, the filters
  other than the category, which are conditions on one row.
* The end date of a plan in the overview (`PaymentPlans` has it): a plan that ended would
  leave the pending expenses as an archived one does, after its last posting.
* Names, colours, icons, notes, roles of an invitation, `updated_by`; start-up,
  configuration, logging, deployment, the runner of the migrations.
* Amounts in their full range (`Magnitude` and `MaxBalance` stand for
  them), UUIDs, hashes and tokens character by character, percentages.
* Access tokens: no table knows them, so a log-out leaves them valid until they expire.
* Physical deletion of users, groups and accounts: no endpoint does it.
* The authorisation in front of the ledger, plans and invitations: a role read
  by a dependency and not checked again is the subject of `GroupMembers`.
* A log-in whose session row waits for a foreign key on a user being updated: it waits,
  and decides nothing by what it waited for.
* Which status and body an error gets.

## 9. What could follow

The inventory is covered. Worth adding next: the composition of `Invitations` with
`GroupMembers` (a join against the last-owner check) and of `PaymentPlans` with `Ledger`
(a posting that overflows), each of which now models the other side as an action of
its own.
