---------------------------- MODULE Invitations ----------------------------
(***************************************************************************)
(* Invitations to one group: created, read (and marked expired in passing),*)
(* revoked and accepted by requests that overlap. A request first looks    *)
(* with a plain SELECT, then decides by what it saw, then writes: its      *)
(* UPDATE or DELETE names the row by id only, waits for whoever has        *)
(* written the row, and goes by the row that is there afterwards.          *)
(*                                                                         *)
(* Invitations are numbered in the order of created_at. A user account is  *)
(* never deleted by this code, so invited_by is never null.                *)
(***************************************************************************)
EXTENDS Naturals, FiniteSets, Sequences

CONSTANTS
  User,             (* who may join; the owner is not one of them          *)
  Worker,           (* threads that serve requests, one after another      *)
  Nobody,           (* nobody accepts                                      *)
  MaxInvitations    (* bound on the invitations ever created               *)

ASSUME InvitationsAssumption == MaxInvitations \in Nat /\ Nobody \notin User

Invitation == 1..MaxInvitations

(* No row before it is created ("unused"), none after it is revoked.       *)
Status == {"unused", "pending", "accepted", "expired", "revoked"}

Kind == {"get", "list", "revoke", "accept", "refuse"}

VARIABLES
  status,       (* the rows of the table invitations                       *)
  late,         (* invitations past expires_at                             *)
  members,      (* users who belong to the group                           *)
  pc,           (* how far the request of each worker is                   *)
  kind,         (* which request it is                                     *)
  user,         (* who accepts                                             *)
  seen,         (* the statuses its SELECT returned                        *)
  todo,         (* invitations it still has to write                       *)
  draft,        (* what it has written                                     *)
  joining,      (* it has inserted its user as a member                    *)
  admitted,     (* history: who joined with which invitation               *)
  lateThen      (* history: what was late when the request looked          *)

request == <<pc, kind, user, seen, todo, draft, joining, lateThen>>
vars == <<status, late, members, admitted, request>>

NotSeen   == [i \in Invitation |-> "not seen"]
Untouched == [i \in Invitation |-> "untouched"]

Init ==
  /\ status = [i \in Invitation |-> "unused"]
  /\ late = {} /\ members = {}
  /\ admitted = [i \in Invitation |-> {}]
  /\ pc = [w \in Worker |-> "idle"]
  /\ kind = [w \in Worker |-> "get"]
  /\ user = [w \in Worker |-> Nobody]
  /\ seen = [w \in Worker |-> NotSeen]
  /\ todo = [w \in Worker |-> <<>>]
  /\ draft = [w \in Worker |-> Untouched]
  /\ joining = [w \in Worker |-> FALSE]
  /\ lateThen = [w \in Worker |-> {}]

HasRow(i) == status[i] \notin {"unused", "revoked"}

-----------------------------------------------------------------------------
(* The rest of the world *)

Create(i) ==
  /\ status[i] = "unused"
  /\ \A j \in Invitation : j < i => status[j] # "unused"
  /\ status' = [status EXCEPT ![i] = "pending"]
  /\ UNCHANGED <<late, members, admitted, request>>

(* Seven days after its creation. *)
Lapse(i) ==
  /\ status[i] # "unused" /\ i \notin late
  /\ \A j \in Invitation : j < i => j \in late
  /\ late' = late \cup {i}
  /\ UNCHANGED <<status, members, admitted, request>>

(* A member leaves or is expelled. *)
Leave(u) ==
  /\ u \in members
  /\ members' = members \ {u}
  /\ UNCHANGED <<status, late, admitted, request>>

(* The end of a request, and of a transaction that is rolled back. *)
End(w) ==
  /\ pc' = [pc EXCEPT ![w] = "idle"]
  /\ seen' = [seen EXCEPT ![w] = NotSeen]
  /\ todo' = [todo EXCEPT ![w] = <<>>]
  /\ draft' = [draft EXCEPT ![w] = Untouched]
  /\ joining' = [joining EXCEPT ![w] = FALSE]
  /\ lateThen' = [lateThen EXCEPT ![w] = {}]
  /\ kind' = [kind EXCEPT ![w] = "get"]
  /\ user' = [user EXCEPT ![w] = Nobody]

Rollback(w) == End(w) /\ UNCHANGED <<status, late, members, admitted>>

-----------------------------------------------------------------------------
(* A request looks. One that asks for what is not there ends at once. *)

Look(w, k, S) ==
  /\ kind' = [kind EXCEPT ![w] = k]
  /\ seen' = [seen EXCEPT ![w] = [i \in Invitation |-> IF i \in S THEN status[i]
                                                              ELSE "not seen"]]
  /\ lateThen' = [lateThen EXCEPT ![w] = late]
  /\ pc' = [pc EXCEPT ![w] = "looked"]
  /\ UNCHANGED <<status, late, members, admitted, todo, draft, joining>>

Get(w) ==
  /\ pc[w] = "idle"
  /\ \E i \in Invitation : HasRow(i) /\ Look(w, "get", {i})
  /\ UNCHANGED user

List(w) ==
  /\ pc[w] = "idle"
  /\ Look(w, "list", {i \in Invitation : HasRow(i)})
  /\ UNCHANGED user

Revoke(w) ==
  /\ pc[w] = "idle"
  /\ \E i \in Invitation : HasRow(i) /\ Look(w, "revoke", {i})
  /\ UNCHANGED user

(* Who accepts must not be a member yet. *)
CheckMembers(w) ==
  /\ pc[w] = "idle"
  /\ \E u \in User : u \notin members /\ user' = [user EXCEPT ![w] = u]
  /\ pc' = [pc EXCEPT ![w] = "no member"]
  /\ UNCHANGED <<status, late, members, admitted, kind, seen, todo, draft, joining,
                 lateThen>>

Accept(w) ==
  /\ pc[w] = "no member"
  /\ \E i \in Invitation : IF HasRow(i) THEN Look(w, "accept", {i}) /\ UNCHANGED user
                                        ELSE Rollback(w)

-----------------------------------------------------------------------------
(* It decides by what it has seen and by the clock. *)

Saw(w, s) == {i \in Invitation : seen[w][i] = s}

(* Faulty variant: late or not, pending is pending. *)
NeverExpired(w) == {}

(* is_invitation_expired *)
Expired(w) == Saw(w, "pending") \cap late

(* Faulty variant: the rows come in no particular order. *)
AnyOrder(S) ==
  {s \in [1..Cardinality(S) -> S] : \A m, n \in DOMAIN s : m # n => s[m] # s[n]}

(* The rows of a listing, latest first. *)
InOrder(S) ==
  {s \in [1..Cardinality(S) -> S] : \A m, n \in DOMAIN s : m < n => s[m] > s[n]}

(* Faulty variant: an accepted invitation is not refused. *)
DecideWithoutAccepted(w) ==
  CASE kind[w] \in {"get", "list"} -> [write |-> Expired(w), as |-> kind[w]]
    [] kind[w] = "revoke" -> [write |-> Saw(w, "pending") \cup Saw(w, "expired"),
                              as |-> "revoke"]
    [] kind[w] = "accept" ->
         IF Expired(w) # {} THEN [write |-> Expired(w), as |-> "refuse"]
         ELSE [write |-> Saw(w, "pending") \cup Saw(w, "accepted"), as |-> "accept"]

(* Which rows it writes, and as what. An acceptance that finds its         *)
(* invitation late marks it, then fails: "refuse".                         *)
Decide(w) ==
  CASE kind[w] \in {"get", "list"} -> [write |-> Expired(w), as |-> kind[w]]
    [] kind[w] = "revoke" -> [write |-> Saw(w, "pending") \cup Saw(w, "expired"),
                              as |-> "revoke"]
    [] kind[w] = "accept" ->
         IF Expired(w) # {} THEN [write |-> Expired(w), as |-> "refuse"]
         ELSE [write |-> Saw(w, "pending"), as |-> "accept"]

Judge(w) ==
  /\ pc[w] = "looked"
  /\ IF Decide(w).write = {}
     THEN Rollback(w)
     ELSE /\ todo' \in {[todo EXCEPT ![w] = s] : s \in InOrder(Decide(w).write)}
          /\ kind' = [kind EXCEPT ![w] = Decide(w).as]
          /\ pc' = [pc EXCEPT ![w] = "writing"]
          /\ UNCHANGED <<status, late, members, admitted, user, seen, draft, joining,
                         lateThen>>

-----------------------------------------------------------------------------
(* It writes, and commits. *)

Wrote(w, i) == draft[w][i] # "untouched"

(* The status its statement gives a row. *)
Written(k) ==
  CASE k \in {"get", "list", "refuse"} -> "expired"
    [] k = "revoke" -> "revoked"
    [] k = "accept" -> "accepted"

(* Faulty variant: the UPDATE puts a deleted row back. *)
AlwaysThere(i) == TRUE

StillThere(i) == HasRow(i)

(* An UPDATE that finds no row is an error (scalar_one), a DELETE is not.  *)
Write(w) ==
  /\ pc[w] = "writing" /\ todo[w] # <<>>
  /\ LET i == Head(todo[w])
     IN  /\ \A v \in Worker \ {w} : ~Wrote(v, i)
         /\ IF ~StillThere(i) /\ kind[w] # "revoke"
            THEN Rollback(w)
            ELSE /\ draft' = [draft EXCEPT ![w][i] =
                                 IF StillThere(i) THEN Written(kind[w]) ELSE @]
                 /\ todo' = [todo EXCEPT ![w] = Tail(@)]
                 /\ UNCHANGED <<status, late, members, admitted, pc, kind, user, seen,
                                joining, lateThen>>

Joining(w, u) == joining[w] /\ user[w] = u

(* One membership for a user, or 409. *)
Join(w) ==
  /\ pc[w] = "writing" /\ todo[w] = <<>> /\ kind[w] = "accept" /\ ~joining[w]
  /\ \A v \in Worker \ {w} : ~Joining(v, user[w])
  /\ IF user[w] \in members
     THEN Rollback(w)
     ELSE /\ joining' = [joining EXCEPT ![w] = TRUE]
          /\ UNCHANGED <<status, late, members, admitted, pc, kind, user, seen, todo,
                         draft, lateThen>>

(* Faulty variant: the acceptance is committed before the membership. *)
ReadyAtOnce(w) == kind[w] # "refuse"

Ready(w) == kind[w] # "refuse" /\ (kind[w] = "accept" => joining[w])

(* What it has written becomes the state of the database. *)
Applied(w) ==
  /\ status' = [i \in Invitation |-> IF Wrote(w, i) THEN draft[w][i] ELSE status[i]]
  /\ admitted' = [i \in Invitation |-> IF Wrote(w, i) /\ joining[w]
                                       THEN admitted[i] \cup {user[w]} ELSE admitted[i]]
  /\ members' = IF joining[w] THEN members \cup {user[w]} ELSE members
  /\ UNCHANGED late

Commit(w) ==
  /\ pc[w] = "writing" /\ todo[w] = <<>> /\ Ready(w)
  /\ Applied(w)
  /\ End(w)

(* The conflict an expired invitation raises takes its mark back. *)
Refuse(w) ==
  pc[w] = "writing" /\ todo[w] = <<>> /\ kind[w] = "refuse" /\ Rollback(w)

(* Any error, at any time. *)
Fail(w) == pc[w] # "idle" /\ Rollback(w)

-----------------------------------------------------------------------------
Request(w) == Get(w) \/ List(w) \/ Revoke(w) \/ CheckMembers(w)

Step(w) == Accept(w) \/ Judge(w) \/ Write(w) \/ Join(w) \/ Commit(w) \/ Refuse(w)

Next ==
  \/ \E i \in Invitation : Create(i) \/ Lapse(i)
  \/ \E u \in User : Leave(u)
  \/ \E w \in Worker : Request(w) \/ Step(w) \/ Fail(w)

Spec == Init /\ [][Next]_vars

-----------------------------------------------------------------------------
(* Properties *)

(* Type invariant. *)
TypeOK ==
  /\ status \in [Invitation -> Status]
  /\ late \subseteq Invitation /\ members \subseteq User
  /\ pc \in [Worker -> {"idle", "no member", "looked", "writing"}]
  /\ kind \in [Worker -> Kind] /\ user \in [Worker -> User \cup {Nobody}]
  /\ seen \in [Worker -> [Invitation -> Status \cup {"not seen"}]]
  /\ todo \in [Worker -> Seq(Invitation)]
  /\ draft \in [Worker -> [Invitation -> Status \cup {"untouched"}]]
  /\ joining \in [Worker -> BOOLEAN]
  /\ admitted \in [Invitation -> SUBSET User]
  /\ lateThen \in [Worker -> SUBSET Invitation]

(***************************************************************************)
(* An acceptance and the membership it brings are one: an invitation is    *)
(* accepted only if somebody joined with it, and one with which somebody   *)
(* joined is never pending again, whatever else was written to it.         *)
(***************************************************************************)
AcceptedWithMember ==
  \A i \in Invitation :
    /\ status[i] = "accepted" => admitted[i] # {}
    /\ admitted[i] # {} => status[i] # "pending"

(***************************************************************************)
(* A revoked invitation stays revoked and admits nobody, not even by a     *)
(* request that looked, or decided, before it was revoked.                 *)
(***************************************************************************)
RevokedIsFinal ==
  [][\A i \in Invitation : status[i] = "revoked" =>
       status'[i] = "revoked" /\ admitted'[i] = admitted[i]]_vars

(* Since request w looked at invitation i, somebody has changed it. *)
Overtaken(w, i) == seen[w][i] \notin {"not seen", status[i]}

(***************************************************************************)
(* An accepted invitation is lost, and one that is no longer pending       *)
(* admits somebody, only through a request that looked at it before        *)
(* another one committed: alone, every request leaves it as it must be.    *)
(***************************************************************************)
OnlyOvertakenErr ==
  [][\A i \in Invitation :
       \/ status[i] = "accepted" /\ status'[i] # "accepted"
       \/ status[i] # "pending" /\ admitted'[i] # admitted[i]
       => \E w \in Worker : Commit(w) /\ Wrote(w, i) /\ Overtaken(w, i)]_vars

(* Nobody joins with an invitation that was late when his request looked.  *)
LateAdmitsNobody ==
  [][\A i \in Invitation : admitted'[i] # admitted[i] =>
       \E w \in Worker : Commit(w) /\ Wrote(w, i) /\ i \notin lateThen[w]]_vars

WaitsFor(w, v) ==
  /\ v # w /\ pc[w] = "writing"
  /\ \/ todo[w] # <<>> /\ Wrote(v, Head(todo[w]))
     \/ /\ todo[w] = <<>> /\ kind[w] = "accept" /\ ~joining[w]
        /\ Joining(v, user[w])

(***************************************************************************)
(* Requests never wait for each other in a circle, though a listing writes *)
(* many rows and an acceptance waits for a row and then for a membership.  *)
(***************************************************************************)
NoDeadlock ==
  \A S \in (SUBSET Worker) \ {{}} : \E w \in S : \A v \in S : ~WaitsFor(w, v)

(***************************************************************************)
(* docs/domains/account_groups.md, section 5, and is_invitation_expired:   *)
(* an accepted invitation is the record that somebody joined the group; its*)
(* code is not used again, and it neither expires nor is it revoked.       *)
(***************************************************************************)
AcceptedIsFinal ==
  [][\A i \in Invitation :
       status[i] = "accepted" => status'[i] = "accepted" /\ admitted'[i] = admitted[i]]_vars

=============================================================================
