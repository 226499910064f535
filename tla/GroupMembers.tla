---------------------------- MODULE GroupMembers ----------------------------
(***************************************************************************)
(* The membership table of one account group and the requests that write   *)
(* it: PATCH and DELETE of a member (app/account_groups/service.py,        *)
(* change_group_member_role and expel_group_member) and the membership     *)
(* half of accepting an invitation (accept_invitation).                    *)
(*                                                                         *)
(* Every request is one database transaction in READ COMMITTED, run by its *)
(* own SQLAlchemy session, and the model has one step per statement that   *)
(* other requests can come between:                                        *)
(*                                                                         *)
(*   1. the authorisation dependency reads the requester's row, unlocked,  *)
(*      and leaves the loaded object in the session's identity map;        *)
(*   2. SELECT ... ORDER BY id FOR UPDATE takes its snapshot and locks the *)
(*      rows of the group one by one, waiting for each;                    *)
(*   3. the service checks what it sees, writes and commits, or raises and *)
(*      is rolled back; either way the locks are released.                 *)
(*                                                                         *)
(* A row that is already in the identity map is NOT refreshed by step 2    *)
(* (the statement has no populate_existing), so "seen" keeps its old role. *)
(***************************************************************************)
EXTENDS Naturals, FiniteSets

CONSTANTS
  User,        (* people that are, were or may become members              *)
  RowId,       (* ids of account_group_members rows; bounds how many       *)
               (* memberships the group has over its life                  *)
  Request,     (* HTTP requests served concurrently, each served once      *)
  NoRow,       (* an id with no live row                                   *)
  NoRequest,   (* an unlocked row                                          *)
  NoCommand    (* the command of a request that has not arrived            *)

Role    == {"owner", "admin", "member"}
Row     == [user : User, role : Role]
Command == [kind : {"change", "expel", "accept"},
            by : User, target : User, role : Role]

ASSUME ConstantsAssumption ==
  /\ RowId \subseteq Nat
  /\ NoRow \notin Row
  /\ NoRequest \notin Request
  /\ NoCommand \notin Command

VARIABLES
  row,       (* the table: RowId -> Row, or NoRow                          *)
  unused,    (* ids never given to a row (gen_random_uuid: any order)      *)
  lock,      (* FOR UPDATE row locks: RowId -> Request or NoRequest        *)
  pc,        (* where each request is                                      *)
  cmd,       (* what each request asks for                                 *)
  seen,      (* identity map of each session: the role of a loaded row     *)
  pending    (* rows of the FOR UPDATE snapshot still to be locked         *)

vars == <<row, unused, lock, pc, cmd, seen, pending>>

members == {r \in RowId : row[r] # NoRow}

HasOwner == \E r \in members : row[r].role = "owner"

(* Rows the FOR UPDATE of request t has returned. *)
Result(t) == {r \in RowId : lock[r] = t}

IsFirst(r, S) == r \in S /\ \A s \in S : r <= s

(***************************************************************************)
(* Any membership that earlier requests can have left: distinct users, at  *)
(* least one of them an owner (create_group inserts the creator as owner). *)
(***************************************************************************)
Init ==
  /\ row \in [RowId -> Row \cup {NoRow}]
  /\ \A r, s \in members : row[r].user = row[s].user => r = s
  /\ HasOwner
  /\ unused = RowId \ members
  /\ lock = [r \in RowId |-> NoRequest]
  /\ pc = [t \in Request |-> "idle"]
  /\ cmd = [t \in Request |-> NoCommand]
  /\ seen = [t \in Request |-> [r \in RowId |-> "unloaded"]]
  /\ pending = [t \in Request |-> {}]

-----------------------------------------------------------------------------
(* The authorisation dependency *)

(* get_membership puts the requester's row in the session's identity map.  *)
LoadOwnRow(t, r) == seen' = [seen EXCEPT ![t][r] = row[r].role]

(* PATCH of a member: RequireOwner lets the request through. *)
AuthoriseChange(t) ==
  /\ pc[t] = "idle"
  /\ \E r \in members, u \in User, ro \in Role :
       /\ row[r].role = "owner"
       /\ cmd' = [cmd EXCEPT ![t] = [kind |-> "change", by |-> row[r].user,
                                     target |-> u, role |-> ro]]
       /\ LoadOwnRow(t, r)
  /\ pc' = [pc EXCEPT ![t] = "authorised"]
  /\ UNCHANGED <<row, unused, lock, pending>>

(* DELETE of a member: RequireMembership lets any member through. *)
AuthoriseExpel(t) ==
  /\ pc[t] = "idle"
  /\ \E r \in members, u \in User :
       /\ cmd' = [cmd EXCEPT ![t] = [kind |-> "expel", by |-> row[r].user,
                                     target |-> u, role |-> "member"]]
       /\ LoadOwnRow(t, r)
  /\ pc' = [pc EXCEPT ![t] = "authorised"]
  /\ UNCHANGED <<row, unused, lock, pending>>

-----------------------------------------------------------------------------
(* SELECT ... WHERE group_id = g ORDER BY id FOR UPDATE *)

(* Faulty variant: the members are also listed before they are locked. *)
ListThenOpenForUpdate(t) ==
  /\ pc[t] = "authorised"
  /\ pending' = [pending EXCEPT ![t] = members]
  /\ seen' = [seen EXCEPT ![t] =
                [r \in RowId |-> IF r \in members /\ @[r] = "unloaded"
                                THEN row[r].role ELSE @[r]]]
  /\ pc' = [pc EXCEPT ![t] = "locking"]
  /\ UNCHANGED <<row, unused, lock, cmd>>

(* The statement starts: READ COMMITTED gives it the rows committed now. *)
OpenForUpdate(t) ==
  /\ pc[t] = "authorised"
  /\ pending' = [pending EXCEPT ![t] = members]
  /\ pc' = [pc EXCEPT ![t] = "locking"]
  /\ UNCHANGED <<row, unused, lock, cmd, seen>>

(* Faulty variant: rows are locked in any order (no ORDER BY). *)
LockNextRowAnyOrder(t) ==
  /\ pc[t] = "locking"
  /\ \E r \in pending[t] :
       /\ pending' = [pending EXCEPT ![t] = @ \ {r}]
       /\ \/ row[r] = NoRow /\ UNCHANGED <<lock, seen>>
          \/ /\ row[r] # NoRow
             /\ lock[r] = NoRequest
             /\ lock' = [lock EXCEPT ![r] = t]
             /\ seen' = [seen EXCEPT ![t][r] =
                           IF @ = "unloaded" THEN row[r].role ELSE @]
  /\ UNCHANGED <<row, unused, pc, cmd>>

(***************************************************************************)
(* The next row in id order.  One deleted since the snapshot is skipped;   *)
(* a locked one is waited for.  The row comes back in its newest version,  *)
(* but an object the session already holds keeps its attributes.           *)
(***************************************************************************)
LockNextRow(t) ==
  /\ pc[t] = "locking"
  /\ \E r \in pending[t] :
       /\ IsFirst(r, pending[t])
       /\ pending' = [pending EXCEPT ![t] = @ \ {r}]
       /\ \/ /\ row[r] = NoRow
             /\ UNCHANGED <<lock, seen>>
          \/ /\ row[r] # NoRow
             /\ lock[r] = NoRequest
             /\ lock' = [lock EXCEPT ![r] = t]
             /\ seen' = [seen EXCEPT ![t][r] =
                           IF @ = "unloaded" THEN row[r].role ELSE @]
  /\ UNCHANGED <<row, unused, pc, cmd>>

-----------------------------------------------------------------------------
(* The service's decision, on the rows returned and the roles seen *)

TargetRow(t, r) == r \in Result(t) /\ row[r].user = cmd[t].target

(* Faulty variant: the target's own role counts as a remaining owner. *)
OwnerSeenAnywhere(t) == \E r \in Result(t) : seen[t][r] = "owner"

OwnerSeenBesides(t) ==
  \E r \in Result(t) : row[r].user # cmd[t].target /\ seen[t][r] = "owner"

(* change_group_member_role goes through. *)
MayChange(t) ==
  /\ cmd[t].kind = "change"
  /\ \E r \in RowId : TargetRow(t, r)
  /\ OwnerSeenBesides(t) \/ cmd[t].role = "owner"

(* Faulty variant: the requester is not looked up under the lock. *)
RequesterNotChecked(t, target) == seen[t][target] # "owner"

(* The requester of an expulsion, found among the rows returned. *)
RequesterMayExpel(t, target) ==
  \E q \in Result(t) :
    /\ row[q].user = cmd[t].by
    /\ \/ seen[t][q] = "owner"
       \/ seen[t][q] = "admin" /\ seen[t][target] # "owner"

(* expel_group_member goes through. *)
MayExpel(t) ==
  /\ cmd[t].kind = "expel"
  /\ OwnerSeenBesides(t)
  /\ \E r \in RowId :
       /\ TargetRow(t, r)
       /\ cmd[t].by = cmd[t].target \/ RequesterMayExpel(t, r)

ReadyToDecide(t) == pc[t] = "locking" /\ pending[t] = {}

(* COMMIT or ROLLBACK: the request is over and its locks are free. *)
End(t) ==
  /\ lock' = [r \in RowId |-> IF lock[r] = t THEN NoRequest ELSE lock[r]]
  /\ pc' = [pc EXCEPT ![t] = "done"]
  /\ UNCHANGED <<unused, cmd, seen, pending>>

ChangeRole(t) ==
  /\ ReadyToDecide(t)
  /\ MayChange(t)
  /\ row' = [r \in RowId |-> IF TargetRow(t, r)
                             THEN [user |-> row[r].user, role |-> cmd[t].role]
                             ELSE row[r]]
  /\ End(t)

Expel(t) ==
  /\ ReadyToDecide(t)
  /\ MayExpel(t)
  /\ row' = [r \in RowId |-> IF TargetRow(t, r) THEN NoRow ELSE row[r]]
  /\ End(t)

(* NotFoundError, ConflictError or ForbiddenError: nothing is written. *)
Reject(t) ==
  /\ ReadyToDecide(t)
  /\ ~MayChange(t) /\ ~MayExpel(t)
  /\ UNCHANGED row
  /\ End(t)

-----------------------------------------------------------------------------
(* Accepting an invitation: read the members, later insert the new one *)

Joining == {t \in Request : pc[t] = "joining"}

(* The unlocked membership check; the bound keeps an id for every insert. *)
AcceptCheck(t) ==
  /\ pc[t] = "idle"
  /\ Cardinality(unused) > Cardinality(Joining)
  /\ \E u \in User, ro \in Role :
       /\ \A r \in members : row[r].user # u
       /\ cmd' = [cmd EXCEPT ![t] = [kind |-> "accept", by |-> u,
                                     target |-> u, role |-> ro]]
  /\ pc' = [pc EXCEPT ![t] = "joining"]
  /\ UNCHANGED <<row, unused, lock, seen, pending>>

(* The insert; UniqueConstraint(group_id, user_id) turns a second row of   *)
(* the same user into a 409 that rolls the request back.                   *)
AcceptInsert(t) ==
  /\ pc[t] = "joining"
  /\ IF \E r \in members : row[r].user = cmd[t].by
     THEN UNCHANGED <<row, unused>>
     ELSE \E r \in unused :
            /\ row' = [row EXCEPT ![r] = [user |-> cmd[t].by,
                                          role |-> cmd[t].role]]
            /\ unused' = unused \ {r}
  /\ pc' = [pc EXCEPT ![t] = "done"]
  /\ UNCHANGED <<lock, cmd, seen, pending>>

-----------------------------------------------------------------------------
Serve(t) ==
  \/ OpenForUpdate(t) \/ LockNextRow(t)
  \/ ChangeRole(t) \/ Expel(t) \/ Reject(t)
  \/ AcceptInsert(t)

Next ==
  \E t \in Request :
    \/ AuthoriseChange(t) \/ AuthoriseExpel(t) \/ AcceptCheck(t)
    \/ Serve(t)

Spec == Init /\ [][Next]_vars

-----------------------------------------------------------------------------
(* Properties *)

(* Type invariant of the table, the locks and the sessions. *)
TypeOK ==
  /\ row \in [RowId -> Row \cup {NoRow}]
  /\ unused \in SUBSET RowId
  /\ lock \in [RowId -> Request \cup {NoRequest}]
  /\ pc \in [Request -> {"idle", "authorised", "locking", "joining", "done"}]
  /\ cmd \in [Request -> Command \cup {NoCommand}]
  /\ seen \in [Request -> [RowId -> Role \cup {"unloaded"}]]
  /\ pending \in [Request -> SUBSET RowId]

(***************************************************************************)
(* What FOR UPDATE buys: every row a request has locked still exists, and  *)
(* its role in the session is the committed one, for every member but the  *)
(* requester, whose object was loaded before the lock.                     *)
(***************************************************************************)
LockedRowsAreFresh ==
  \A t \in Request : \A r \in Result(t) :
    /\ row[r] # NoRow
    /\ row[r].user # cmd[t].by => seen[t][r] = row[r].role

(* Locks are taken in id order, so no two requests wait for each other.    *)
WaitsFor(t, s) ==
  /\ pc[t] = "locking"
  /\ \E r \in pending[t] : IsFirst(r, pending[t]) /\ lock[r] = s

NoWaitCycle ==
  \A t, s \in Request : t # s => ~(WaitsFor(t, s) /\ WaitsFor(s, t))

(* The requester was an owner when the dependency ran and no longer is,    *)
(* but the session still shows it the old role.                            *)
StaleSelf(t) ==
  \E r \in Result(t) :
    row[r].user = cmd[t].by /\ seen[t][r] = "owner" /\ row[r].role # "owner"

Decides(t) == pc[t] = "locking" /\ pc'[t] = "done"

(***************************************************************************)
(* The group loses its last owner in no other way than by the decision of  *)
(* a request whose own role is stale: the lock and the check do stop every *)
(* other interleaving of demotions, expulsions and departures.             *)
(***************************************************************************)
LastOwnerLostOnlyByStaleSelf ==
  [][HasOwner /\ ~HasOwner'
       => \E t \in Request : Decides(t) /\ StaleSelf(t)]_vars

(***************************************************************************)
(* Whoever was expelled while waiting for the lock expels nobody: when a   *)
(* DELETE removes a member, its requester is still one.                    *)
(***************************************************************************)
ExpelNeedsLiveRequester ==
  [][\A t \in Request :
       Decides(t) /\ cmd[t].kind = "expel" /\ row' # row
         => \E q \in members : row[q].user = cmd[t].by]_vars

(***************************************************************************)
(* What docs/domains/account_groups.md says of the code and the code does  *)
(* not do: section 5, "Un grupo nunca se queda sin owner".                 *)
(***************************************************************************)
GroupAlwaysHasOwner == HasOwner

=============================================================================
