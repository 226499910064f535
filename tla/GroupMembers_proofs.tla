------------------------- MODULE GroupMembers_proofs -------------------------
(***************************************************************************)
(* Proofs about GroupMembers, for any set of users, rows and requests.     *)
(*                                                                         *)
(* IInv is inductive: besides the types it says that a locked row is live  *)
(* and freshly seen (but for the requester's own), and that the locks of a *)
(* request lie below the rows it still has to lock.                        *)
(***************************************************************************)
EXTENDS GroupMembers, TLAPS

(* Locks are only held while locking, and a command is there by then. *)
LocksHaveOwners ==
  \A t \in Request : \A r \in Result(t) :
    /\ pc[t] = "locking"
    /\ row[r] # NoRow

CommandsArrive ==
  \A t \in Request : pc[t] # "idle" => cmd[t] \in Command

(* What is locked has a smaller id than what is still to be locked. *)
LockOrder ==
  \A t \in Request : \A r \in Result(t) : \A p \in pending[t] : r < p

(* Before its FOR UPDATE returns a row, a session holds no object of it    *)
(* but the requester's.                                                    *)
OnlyOwnRowLoaded ==
  \A t \in Request : \A r \in RowId :
    /\ pc[t] \in {"idle", "joining"} => seen[t][r] = "unloaded"
    /\ lock[r] # t /\ row[r] # NoRow /\ seen[t][r] # "unloaded"
         /\ pc[t] \in {"authorised", "locking"}
         => row[r].user = cmd[t].by

(* Ids that were never used hold no row and nobody has seen them. *)
UnusedRowsAreBlank ==
  \A r \in unused :
    /\ row[r] = NoRow
    /\ \A t \in Request : seen[t][r] = "unloaded" /\ r \notin pending[t]

IInv ==
  /\ TypeOK
  /\ LocksHaveOwners
  /\ CommandsArrive
  /\ LockOrder
  /\ OnlyOwnRowLoaded
  /\ UnusedRowsAreBlank
  /\ LockedRowsAreFresh

USE ConstantsAssumption

-----------------------------------------------------------------------------
(* The initial states satisfy the invariant. *)
LEMMA InitIInv == Init => IInv
<1> SUFFICES ASSUME Init PROVE IInv
  OBVIOUS
<1>1. TypeOK
  BY DEF Init, TypeOK, Row, Role, members
<1>2. \A t \in Request : Result(t) = {}
  BY DEF Init, Result
<1>3. LocksHaveOwners /\ LockOrder /\ LockedRowsAreFresh
  BY <1>2 DEF LocksHaveOwners, LockOrder, LockedRowsAreFresh
<1>4. CommandsArrive /\ OnlyOwnRowLoaded
  BY DEF Init, CommandsArrive, OnlyOwnRowLoaded
<1>5. UnusedRowsAreBlank
  BY DEF Init, UnusedRowsAreBlank, members
<1> QED
  BY <1>1, <1>3, <1>4, <1>5 DEF IInv

-----------------------------------------------------------------------------
(* Every action keeps the types. *)
LEMMA TypeStep == TypeOK /\ UnusedRowsAreBlank /\ CommandsArrive /\ [Next]_vars => TypeOK'
<1> SUFFICES ASSUME TypeOK, UnusedRowsAreBlank, CommandsArrive, [Next]_vars
             PROVE  TypeOK'
  OBVIOUS
<1> USE DEF TypeOK
<1>1. ASSUME NEW t \in Request, AuthoriseChange(t) PROVE TypeOK'
  <2>1. PICK r \in members, u \in User, ro \in Role :
          /\ cmd' = [cmd EXCEPT ![t] = [kind |-> "change", by |-> row[r].user,
                                        target |-> u, role |-> ro]]
          /\ LoadOwnRow(t, r)
    BY <1>1 DEF AuthoriseChange
  <2>2. row[r] \in Row
    BY DEF members
  <2>3. cmd' \in [Request -> Command \cup {NoCommand}]
    BY <2>1, <2>2 DEF Command, Row
  <2>4. seen' \in [Request -> [RowId -> Role \cup {"unloaded"}]]
    BY <2>1, <2>2 DEF LoadOwnRow, Row, members
  <2> QED
    BY <1>1, <2>3, <2>4 DEF AuthoriseChange
<1>2. ASSUME NEW t \in Request, AuthoriseExpel(t) PROVE TypeOK'
  <2>1. PICK r \in members, u \in User :
          /\ cmd' = [cmd EXCEPT ![t] = [kind |-> "expel", by |-> row[r].user,
                                        target |-> u, role |-> "member"]]
          /\ LoadOwnRow(t, r)
    BY <1>2 DEF AuthoriseExpel
  <2>2. row[r] \in Row
    BY DEF members
  <2>3. cmd' \in [Request -> Command \cup {NoCommand}]
    BY <2>1, <2>2 DEF Command, Row, Role
  <2>4. seen' \in [Request -> [RowId -> Role \cup {"unloaded"}]]
    BY <2>1, <2>2 DEF LoadOwnRow, Row, members
  <2> QED
    BY <1>2, <2>3, <2>4 DEF AuthoriseExpel
<1>3. ASSUME NEW t \in Request, OpenForUpdate(t) PROVE TypeOK'
  BY <1>3 DEF OpenForUpdate, members
<1>4. ASSUME NEW t \in Request, LockNextRow(t) PROVE TypeOK'
  <2>1. PICK r \in pending[t] :
          /\ pending' = [pending EXCEPT ![t] = @ \ {r}]
          /\ \/ UNCHANGED <<lock, seen>>
             \/ /\ row[r] # NoRow
                /\ lock' = [lock EXCEPT ![r] = t]
                /\ seen' = [seen EXCEPT ![t][r] =
                              IF @ = "unloaded" THEN row[r].role ELSE @]
    BY <1>4 DEF LockNextRow
  <2>2. r \in RowId /\ UNCHANGED <<row, unused, pc, cmd>>
    BY <1>4 DEF LockNextRow
  <2>3. CASE UNCHANGED <<lock, seen>>
    BY <2>1, <2>2, <2>3
  <2>4. CASE /\ row[r] # NoRow
             /\ lock' = [lock EXCEPT ![r] = t]
             /\ seen' = [seen EXCEPT ![t][r] =
                           IF @ = "unloaded" THEN row[r].role ELSE @]
    <3>1. row[r].role \in Role
      BY <2>2, <2>4 DEF Row
    <3>2. seen' \in [Request -> [RowId -> Role \cup {"unloaded"}]]
      BY <2>2, <2>4, <3>1
    <3> QED
      BY <2>1, <2>2, <2>4, <3>2
  <2> QED
    BY <2>1, <2>3, <2>4
<1>5. ASSUME NEW t \in Request, ChangeRole(t) PROVE TypeOK'
  <2>1. cmd[t] \in Command
    BY <1>5 DEF ChangeRole, ReadyToDecide, CommandsArrive
  <2>2. row' \in [RowId -> Row \cup {NoRow}]
    BY <1>5, <2>1 DEF ChangeRole, Row, Command, MayChange, TargetRow, Result,
       LocksHaveOwners
  <2> QED
    BY <1>5, <2>2 DEF ChangeRole, End
<1>6. ASSUME NEW t \in Request, Expel(t) PROVE TypeOK'
  BY <1>6 DEF Expel, End
<1>7. ASSUME NEW t \in Request, Reject(t) PROVE TypeOK'
  BY <1>7 DEF Reject, End
<1>8. ASSUME NEW t \in Request, AcceptCheck(t) PROVE TypeOK'
  BY <1>8 DEF AcceptCheck, Command
<1>9. ASSUME NEW t \in Request, AcceptInsert(t) PROVE TypeOK'
  <2>1. CASE UNCHANGED <<row, unused>>
    BY <1>9, <2>1 DEF AcceptInsert
  <2>2. CASE \E r \in unused :
               /\ row' = [row EXCEPT ![r] = [user |-> cmd[t].by,
                                             role |-> cmd[t].role]]
               /\ unused' = unused \ {r}
    <3>1. cmd[t] \in Command
      BY <1>9 DEF AcceptInsert, CommandsArrive
    <3>2. [user |-> cmd[t].by, role |-> cmd[t].role] \in Row
      BY <3>1 DEF Command, Row
    <3> QED
      BY <1>9, <2>2, <3>2 DEF AcceptInsert
  <2> QED
    BY <1>9, <2>1, <2>2 DEF AcceptInsert
<1>10. CASE UNCHANGED vars
  BY <1>10 DEF vars
<1> QED
  BY <1>1, <1>2, <1>3, <1>4, <1>5, <1>6, <1>7, <1>8, <1>9, <1>10
     DEF Next, Serve

-----------------------------------------------------------------------------
(* A deciding request changes at most its locked rows, and keeps the user  *)
(* of a row that stays.                                                    *)
LEMMA DecisionFrame ==
  ASSUME IInv, NEW t \in Request, ChangeRole(t) \/ Expel(t) \/ Reject(t)
  PROVE  /\ pc[t] = "locking" /\ pc' = [pc EXCEPT ![t] = "done"]
         /\ UNCHANGED <<unused, cmd, seen, pending>>
         /\ \A r \in RowId :
              /\ lock'[r] = IF lock[r] = t THEN NoRequest ELSE lock[r]
              /\ lock[r] # t => row'[r] = row[r]
              /\ row[r] = NoRow => row'[r] = NoRow
              /\ row'[r] # NoRow => row'[r].user = row[r].user
<1>1. \A r \in RowId : lock[r] = t => row[r] # NoRow
  BY DEF IInv, LocksHaveOwners, Result
<1>2. CASE ChangeRole(t)
  <2>1. \A r \in RowId :
          row'[r] = IF TargetRow(t, r)
                    THEN [user |-> row[r].user, role |-> cmd[t].role]
                    ELSE row[r]
    BY <1>2 DEF ChangeRole
  <2> QED
    BY <1>1, <1>2, <2>1
       DEF ChangeRole, End, ReadyToDecide, TargetRow, Result
<1>3. CASE Expel(t)
  BY <1>3 DEF Expel, End, ReadyToDecide, TargetRow, Result
<1>4. CASE Reject(t)
  BY <1>4 DEF Reject, End, ReadyToDecide
<1> QED
  BY <1>2, <1>3, <1>4

(* The three decisions keep the invariant. *)
LEMMA DecisionStep ==
  ASSUME IInv, TypeOK', NEW t \in Request, ChangeRole(t) \/ Expel(t) \/ Reject(t)
  PROVE  IInv'
<1>1. /\ pc[t] = "locking" /\ pc' = [pc EXCEPT ![t] = "done"]
      /\ UNCHANGED <<unused, cmd, seen, pending>>
  BY DecisionFrame
<1>2. ASSUME NEW r \in RowId
      PROVE  /\ lock'[r] = IF lock[r] = t THEN NoRequest ELSE lock[r]
             /\ lock[r] # t => row'[r] = row[r]
             /\ row[r] = NoRow => row'[r] = NoRow
             /\ row'[r] # NoRow => row'[r].user = row[r].user
  BY DecisionFrame
<1>3. ASSUME NEW s \in Request, NEW r \in RowId, lock'[r] = s
      PROVE  s # t /\ lock[r] = s /\ row'[r] = row[r]
  BY <1>2, <1>3
<1>4. \A s \in Request : s # t => pc'[s] = pc[s]
  BY <1>1 DEF IInv, TypeOK
<1>5. pc'[t] = "done"
  BY <1>1 DEF IInv, TypeOK
<1>6. LocksHaveOwners'
  <2> SUFFICES ASSUME NEW s \in Request, NEW r \in RowId, lock'[r] = s
               PROVE  pc'[s] = "locking" /\ row'[r] # NoRow
    BY DEF LocksHaveOwners, Result
  <2>1. s # t /\ lock[r] = s /\ row'[r] = row[r]
    BY <1>3
  <2> QED
    BY <1>4, <2>1 DEF IInv, LocksHaveOwners, Result
<1>7. CommandsArrive'
  BY <1>1, <1>4, <1>5 DEF IInv, CommandsArrive
<1>8. LockOrder'
  BY <1>1, <1>3 DEF IInv, LockOrder, Result
<1>9. OnlyOwnRowLoaded'
  <2> SUFFICES ASSUME NEW s \in Request, NEW r \in RowId
               PROVE  /\ pc'[s] \in {"idle", "joining"} => seen'[s][r] = "unloaded"
                      /\ lock'[r] # s /\ row'[r] # NoRow /\ seen'[s][r] # "unloaded"
                           /\ pc'[s] \in {"authorised", "locking"}
                           => row'[r].user = cmd'[s].by
    BY DEF OnlyOwnRowLoaded
  <2>1. CASE s = t
    BY <2>1, <1>5
  <2>2. CASE s # t
    <3>1. lock'[r] # s => lock[r] # s
      BY <1>2, <2>2
    <3> QED
      BY <1>1, <1>2, <1>4, <2>2, <3>1 DEF IInv, OnlyOwnRowLoaded
  <2> QED
    BY <2>1, <2>2
<1>10. UnusedRowsAreBlank'
  BY <1>1, <1>2 DEF IInv, UnusedRowsAreBlank, TypeOK
<1>11. LockedRowsAreFresh'
  BY <1>1, <1>3 DEF IInv, LockedRowsAreFresh, Result
<1> QED
  BY <1>6, <1>7, <1>8, <1>9, <1>10, <1>11 DEF IInv

-----------------------------------------------------------------------------
(* Arriving, by either dependency: only the requester's own row is loaded. *)
LEMMA ArrivalStep ==
  ASSUME IInv, TypeOK', NEW t \in Request, NEW r \in members,
         pc[t] = "idle",
         cmd'[t] \in Command, cmd'[t].by = row[r].user,
         \A s \in Request : s # t => cmd'[s] = cmd[s],
         LoadOwnRow(t, r),
         pc' = [pc EXCEPT ![t] = "authorised"],
         UNCHANGED <<row, unused, lock, pending>>
  PROVE  IInv'
<1>1. pc'[t] = "authorised" /\ \A s \in Request : s # t => pc'[s] = pc[s]
  BY DEF IInv, TypeOK
<1>2. /\ \A s \in Request : s # t => seen'[s] = seen[s]
      /\ \A q \in RowId : q # r => seen'[t][q] = seen[t][q]
  BY DEF IInv, TypeOK, LoadOwnRow, members
<1>3. \A q \in RowId : lock[q] # t
  BY DEF IInv, LocksHaveOwners, Result
<1>4. LocksHaveOwners'
  BY <1>1, <1>3 DEF IInv, LocksHaveOwners, Result
<1>5. CommandsArrive'
  BY <1>1 DEF IInv, CommandsArrive
<1>6. LockOrder'
  BY DEF IInv, LockOrder, Result
<1>7. OnlyOwnRowLoaded'
  <2> SUFFICES ASSUME NEW s \in Request, NEW q \in RowId
               PROVE  /\ pc'[s] \in {"idle", "joining"} => seen'[s][q] = "unloaded"
                      /\ lock'[q] # s /\ row'[q] # NoRow /\ seen'[s][q] # "unloaded"
                           /\ pc'[s] \in {"authorised", "locking"}
                           => row'[q].user = cmd'[s].by
    BY DEF OnlyOwnRowLoaded
  <2>1. CASE s = t
    BY <1>1, <1>2, <2>1 DEF IInv, OnlyOwnRowLoaded
  <2>2. CASE s # t
    BY <1>1, <1>2, <2>2 DEF IInv, OnlyOwnRowLoaded
  <2> QED
    BY <2>1, <2>2
<1>8. UnusedRowsAreBlank'
  <2>1. r \notin unused
    BY DEF IInv, UnusedRowsAreBlank, members
  <2> QED
    BY <1>2, <2>1 DEF IInv, UnusedRowsAreBlank, TypeOK
<1>9. LockedRowsAreFresh'
  BY <1>2, <1>3 DEF IInv, LockedRowsAreFresh, Result
<1> QED
  BY <1>4, <1>5, <1>6, <1>7, <1>8, <1>9 DEF IInv

(* Locking the next row, or skipping it. *)
LEMMA LockStep ==
  ASSUME IInv, TypeOK', NEW t \in Request, LockNextRow(t)
  PROVE  IInv'
<1>1. PICK r \in pending[t] :
        /\ IsFirst(r, pending[t])
        /\ pending' = [pending EXCEPT ![t] = @ \ {r}]
        /\ \/ UNCHANGED <<lock, seen>>
           \/ /\ row[r] # NoRow
              /\ lock[r] = NoRequest
              /\ lock' = [lock EXCEPT ![r] = t]
              /\ seen' = [seen EXCEPT ![t][r] =
                            IF @ = "unloaded" THEN row[r].role ELSE @]
  BY DEF LockNextRow
<1>2. /\ UNCHANGED <<row, unused, pc, cmd>> /\ pc[t] = "locking"
      /\ r \in RowId /\ RowId \subseteq Nat
      /\ \A s \in Request : pending'[s] \subseteq pending[s]
      /\ r \notin pending'[t]
  BY <1>1 DEF LockNextRow, IInv, TypeOK
<1>3. CASE UNCHANGED <<lock, seen>>
  <2>1. LockOrder'
    BY <1>2, <1>3 DEF IInv, LockOrder, Result
  <2>2. UnusedRowsAreBlank'
    BY <1>2, <1>3 DEF IInv, UnusedRowsAreBlank
  <2>3. LocksHaveOwners' /\ CommandsArrive' /\ OnlyOwnRowLoaded' /\ LockedRowsAreFresh'
    BY <1>2, <1>3 DEF IInv, LocksHaveOwners, CommandsArrive, OnlyOwnRowLoaded,
                      LockedRowsAreFresh, Result
  <2> QED
    BY <2>1, <2>2, <2>3 DEF IInv
<1>4. CASE /\ row[r] # NoRow
           /\ lock[r] = NoRequest
           /\ lock' = [lock EXCEPT ![r] = t]
           /\ seen' = [seen EXCEPT ![t][r] =
                         IF @ = "unloaded" THEN row[r].role ELSE @]
  <2>1. /\ lock'[r] = t
        /\ \A q \in RowId : q # r => lock'[q] = lock[q]
    BY <1>2, <1>4 DEF IInv, TypeOK
  <2>2. /\ \A s \in Request : s # t => seen'[s] = seen[s]
        /\ \A q \in RowId : q # r => seen'[t][q] = seen[t][q]
        /\ seen'[t][r] = IF seen[t][r] = "unloaded" THEN row[r].role ELSE seen[t][r]
    BY <1>2, <1>4 DEF IInv, TypeOK
  <2>3. LocksHaveOwners'
    BY <1>2, <1>4, <2>1 DEF IInv, LocksHaveOwners, Result
  <2>4. CommandsArrive'
    BY <1>2 DEF IInv, CommandsArrive
  <2>5. LockOrder'
    <3> SUFFICES ASSUME NEW s \in Request, NEW q \in RowId, lock'[q] = s,
                        NEW p \in pending'[s]
                 PROVE  q < p
      BY DEF LockOrder, Result
    <3>1. CASE q = r
      <4>1. s = t
        BY <2>1, <3>1
      <4>2. p \in pending[t] /\ p # r /\ r <= p
        BY <1>1, <1>2, <4>1 DEF IsFirst
      <4>3. p \in Nat /\ r \in Nat
        BY <1>2, <4>2 DEF IInv, TypeOK
      <4> QED
        BY <3>1, <4>2, <4>3
    <3>2. CASE q # r
      BY <1>2, <2>1, <3>2 DEF IInv, LockOrder, Result
    <3> QED
      BY <3>1, <3>2
  <2>6. OnlyOwnRowLoaded'
    <3> SUFFICES ASSUME NEW s \in Request, NEW q \in RowId
                 PROVE  /\ pc'[s] \in {"idle", "joining"} => seen'[s][q] = "unloaded"
                        /\ lock'[q] # s /\ row'[q] # NoRow /\ seen'[s][q] # "unloaded"
                             /\ pc'[s] \in {"authorised", "locking"}
                             => row'[q].user = cmd'[s].by
      BY DEF OnlyOwnRowLoaded
    <3>1. CASE s # t
      <4>1. lock'[q] # s => lock[q] # s
        BY <1>4, <2>1, <3>1
      <4> QED
        BY <1>2, <2>2, <3>1, <4>1 DEF IInv, OnlyOwnRowLoaded
    <3>2. CASE s = t /\ q # r
      <4>1. /\ pc'[s] = pc[s] /\ row'[q] = row[q] /\ cmd'[s] = cmd[s]
            /\ lock'[q] = lock[q] /\ seen'[s][q] = seen[s][q]
        BY <1>2, <2>1, <2>2, <3>2
      <4> QED
        BY <4>1 DEF IInv, OnlyOwnRowLoaded
    <3>3. CASE s = t /\ q = r
      BY <1>2, <2>1, <3>3
    <3> QED
      BY <3>1, <3>2, <3>3
  <2>7. UnusedRowsAreBlank'
    <3>1. r \notin unused
      BY <1>1 DEF IInv, UnusedRowsAreBlank
    <3> QED
      BY <1>2, <2>2, <3>1 DEF IInv, UnusedRowsAreBlank, TypeOK
  <2>8. LockedRowsAreFresh'
    <3> SUFFICES ASSUME NEW s \in Request, NEW q \in RowId, lock'[q] = s
                 PROVE  /\ row[q] # NoRow
                        /\ row[q].user # cmd[s].by => seen'[s][q] = row[q].role
      BY <1>2 DEF LockedRowsAreFresh, Result
    <3>1. CASE q # r
      <4>1. lock[q] = s
        BY <2>1, <3>1
      <4>2. seen'[s][q] = seen[s][q]
        BY <2>2, <3>1
      <4> QED
        BY <4>1, <4>2 DEF IInv, LockedRowsAreFresh, Result
    <3>2. CASE q = r
      <4>1. s = t /\ lock[r] # t
        BY <1>4, <2>1, <3>2
      <4>2. row[r].user # cmd[t].by => seen[t][r] = "unloaded"
        BY <1>2, <1>4, <4>1 DEF IInv, OnlyOwnRowLoaded
      <4> QED
        BY <1>4, <2>2, <3>2, <4>1, <4>2
    <3> QED
      BY <3>1, <3>2
  <2> QED
    BY <2>3, <2>4, <2>5, <2>6, <2>7, <2>8 DEF IInv
<1> QED
  BY <1>1, <1>3, <1>4

(* The remaining actions: opening the SELECT and accepting an invitation. *)
LEMMA OpenStep ==
  ASSUME IInv, TypeOK', NEW t \in Request, OpenForUpdate(t)
  PROVE  IInv'
<1>1. /\ pc[t] = "authorised" /\ pc' = [pc EXCEPT ![t] = "locking"]
      /\ pending' = [pending EXCEPT ![t] = members]
      /\ UNCHANGED <<row, unused, lock, cmd, seen>>
  BY DEF OpenForUpdate
<1>2. pc'[t] = "locking" /\ \A s \in Request : s # t => pc'[s] = pc[s]
  BY <1>1 DEF IInv, TypeOK
<1>3. pending'[t] = members /\ \A s \in Request : s # t => pending'[s] = pending[s]
  BY <1>1 DEF IInv, TypeOK
<1>4. \A q \in RowId : lock[q] # t
  BY <1>1 DEF IInv, LocksHaveOwners, Result
<1>5. LocksHaveOwners' /\ LockOrder' /\ LockedRowsAreFresh'
  BY <1>1, <1>2, <1>3, <1>4
     DEF IInv, LocksHaveOwners, LockOrder, LockedRowsAreFresh, Result
<1>6. CommandsArrive' /\ OnlyOwnRowLoaded'
  BY <1>1, <1>2 DEF IInv, CommandsArrive, OnlyOwnRowLoaded
<1>7. UnusedRowsAreBlank'
  BY <1>1, <1>3 DEF IInv, UnusedRowsAreBlank, members
<1> QED
  BY <1>5, <1>6, <1>7 DEF IInv

LEMMA AcceptStep ==
  ASSUME IInv, TypeOK', NEW t \in Request, AcceptCheck(t) \/ AcceptInsert(t)
  PROVE  IInv'
<1>1. pc[t] \in {"idle", "joining"} /\ UNCHANGED <<lock, seen, pending>>
  BY DEF AcceptCheck, AcceptInsert
<1>2. \A q \in RowId : lock[q] # t
  BY <1>1 DEF IInv, LocksHaveOwners, Result
<1>3. CASE AcceptCheck(t)
  <2>1. /\ UNCHANGED <<row, unused>>
        /\ pc'[t] = "joining" /\ \A s \in Request : s # t => pc'[s] = pc[s]
        /\ \A s \in Request : s # t => cmd'[s] = cmd[s]
        /\ cmd'[t] \in Command /\ pc[t] = "idle"
    BY <1>3 DEF AcceptCheck, IInv, TypeOK, Command
  <2>2. LocksHaveOwners' /\ LockOrder'
    BY <1>1, <1>2, <2>1 DEF IInv, LocksHaveOwners, LockOrder, Result
  <2>4. LockedRowsAreFresh'
    BY <1>1, <1>2, <2>1 DEF IInv, LockedRowsAreFresh, Result
  <2>3. CommandsArrive' /\ OnlyOwnRowLoaded' /\ UnusedRowsAreBlank'
    BY <1>1, <2>1 DEF IInv, CommandsArrive, OnlyOwnRowLoaded, UnusedRowsAreBlank
  <2> QED
    BY <2>2, <2>3, <2>4 DEF IInv
<1>4. CASE AcceptInsert(t)
  <2>1. /\ UNCHANGED cmd /\ pc[t] = "joining"
        /\ pc'[t] = "done" /\ \A s \in Request : s # t => pc'[s] = pc[s]
        /\ unused' \subseteq unused
        /\ \A r \in RowId : r \notin unused \/ r \in unused' => row'[r] = row[r]
    BY <1>4 DEF AcceptInsert, IInv, TypeOK
  <2>2. \A r \in RowId : row[r] # NoRow => row'[r] = row[r]
    BY <2>1 DEF IInv, UnusedRowsAreBlank
  <2>3. LocksHaveOwners' /\ LockOrder' /\ LockedRowsAreFresh'
    BY <1>1, <1>2, <2>1, <2>2
       DEF IInv, LocksHaveOwners, LockOrder, LockedRowsAreFresh, Result
  <2>4. CommandsArrive'
    BY <2>1 DEF IInv, CommandsArrive
  <2>5. OnlyOwnRowLoaded'
    <3> SUFFICES ASSUME NEW s \in Request, NEW r \in RowId
                 PROVE  /\ pc'[s] \in {"idle", "joining"} => seen[s][r] = "unloaded"
                        /\ lock[r] # s /\ row'[r] # NoRow /\ seen[s][r] # "unloaded"
                             /\ pc'[s] \in {"authorised", "locking"}
                             => row'[r].user = cmd[s].by
      BY <1>1, <2>1 DEF OnlyOwnRowLoaded
    <3>1. CASE r \in unused
      BY <3>1 DEF IInv, UnusedRowsAreBlank
    <3>2. CASE r \notin unused
      BY <2>1, <3>2 DEF IInv, OnlyOwnRowLoaded
    <3> QED
      BY <3>1, <3>2
  <2>6. UnusedRowsAreBlank'
    BY <1>1, <2>1 DEF IInv, UnusedRowsAreBlank, TypeOK
  <2> QED
    BY <2>3, <2>4, <2>5, <2>6 DEF IInv
<1> QED
  BY <1>3, <1>4

(* Every step keeps the invariant. *)
LEMMA StepIInv == IInv /\ [Next]_vars => IInv'
<1> SUFFICES ASSUME IInv, [Next]_vars PROVE IInv'
  OBVIOUS
<1>0. TypeOK'
  BY TypeStep DEF IInv
<1>1. ASSUME NEW t \in Request, AuthoriseChange(t) PROVE IInv'
  <2>1. PICK r \in members, u \in User, ro \in Role :
          /\ cmd' = [cmd EXCEPT ![t] = [kind |-> "change", by |-> row[r].user,
                                        target |-> u, role |-> ro]]
          /\ LoadOwnRow(t, r)
    BY <1>1 DEF AuthoriseChange
  <2>2. row[r] \in Row
    BY DEF IInv, TypeOK, members
  <2>3. /\ cmd'[t] = [kind |-> "change", by |-> row[r].user, target |-> u, role |-> ro]
        /\ \A s \in Request : s # t => cmd'[s] = cmd[s]
    BY <2>1 DEF IInv, TypeOK
  <2>4. cmd'[t] \in Command /\ cmd'[t].by = row[r].user
    BY <2>2, <2>3 DEF Command, Row
  <2> QED
    BY <1>0, <1>1, <2>1, <2>3, <2>4, ArrivalStep DEF AuthoriseChange
<1>2. ASSUME NEW t \in Request, AuthoriseExpel(t) PROVE IInv'
  <2>1. PICK r \in members, u \in User :
          /\ cmd' = [cmd EXCEPT ![t] = [kind |-> "expel", by |-> row[r].user,
                                        target |-> u, role |-> "member"]]
          /\ LoadOwnRow(t, r)
    BY <1>2 DEF AuthoriseExpel
  <2>2. row[r] \in Row
    BY DEF IInv, TypeOK, members
  <2>3. /\ cmd'[t] = [kind |-> "expel", by |-> row[r].user, target |-> u, role |-> "member"]
        /\ \A s \in Request : s # t => cmd'[s] = cmd[s]
    BY <2>1 DEF IInv, TypeOK
  <2>4. cmd'[t] \in Command /\ cmd'[t].by = row[r].user
    BY <2>2, <2>3 DEF Command, Row, Role
  <2> QED
    BY <1>0, <1>2, <2>1, <2>3, <2>4, ArrivalStep DEF AuthoriseExpel
<1>3. ASSUME NEW t \in Request, OpenForUpdate(t) PROVE IInv'
  BY <1>0, <1>3, OpenStep
<1>4. ASSUME NEW t \in Request, LockNextRow(t) PROVE IInv'
  BY <1>0, <1>4, LockStep
<1>5. ASSUME NEW t \in Request, ChangeRole(t) \/ Expel(t) \/ Reject(t) PROVE IInv'
  BY <1>0, <1>5, DecisionStep
<1>6. ASSUME NEW t \in Request, AcceptCheck(t) \/ AcceptInsert(t) PROVE IInv'
  BY <1>0, <1>6, AcceptStep
<1>7. CASE UNCHANGED vars
  BY <1>0, <1>7
     DEF vars, IInv, LocksHaveOwners, CommandsArrive, LockOrder,
         OnlyOwnRowLoaded, UnusedRowsAreBlank, LockedRowsAreFresh, Result
<1> QED
  BY <1>1, <1>2, <1>3, <1>4, <1>5, <1>6, <1>7 DEF Next, Serve

-----------------------------------------------------------------------------
(* The inductive invariant holds in every reachable state. *)
THEOREM Invariance == Spec => []IInv
<1> QED
  BY InitIInv, StepIInv, PTL DEF Spec

(* The table, the locks and the sessions keep their types. *)
THEOREM TypeCorrect == Spec => []TypeOK
<1>1. IInv => TypeOK
  BY DEF IInv
<1> QED
  BY <1>1, Invariance, PTL

(* A row under FOR UPDATE is live and, but for the requester's own, seen   *)
(* with its committed role.                                                *)
THEOREM LockedViewIsFresh == Spec => []LockedRowsAreFresh
<1>1. IInv => LockedRowsAreFresh
  BY DEF IInv
<1> QED
  BY <1>1, Invariance, PTL

(* Taking row locks in id order keeps two requests from waiting for each   *)
(* other, however their snapshots differ.                                  *)
THEOREM NoTwoWaitForEachOther == Spec => []NoWaitCycle
<1>1. IInv => NoWaitCycle
  <2> SUFFICES ASSUME IInv, NEW t \in Request, NEW s \in Request, t # s,
                      WaitsFor(t, s), WaitsFor(s, t)
               PROVE  FALSE
    BY DEF NoWaitCycle
  <2>1. PICK p \in pending[t] : lock[p] = s
    BY DEF WaitsFor
  <2>2. PICK q \in pending[s] : lock[q] = t
    BY DEF WaitsFor
  <2>3. p \in RowId /\ q \in RowId /\ RowId \subseteq Nat
    BY <2>1, <2>2 DEF IInv, TypeOK
  <2>4. p < q
    BY <2>1, <2>2, <2>3 DEF IInv, LockOrder, Result
  <2>5. q < p
    BY <2>1, <2>2, <2>3 DEF IInv, LockOrder, Result
  <2>6. p \in Nat /\ q \in Nat
    BY <2>3
  <2> QED
    BY <2>4, <2>5, <2>6
<1> QED
  BY <1>1, Invariance, PTL

(* The last owner disappears only through the decision of a request whose  *)
(* own role, preloaded by the dependency, was stale.                       *)
THEOREM LastOwnerSafety == Spec => LastOwnerLostOnlyByStaleSelf
<1>1. IInv /\ [Next]_vars
        => [HasOwner /\ ~HasOwner' => \E t \in Request : Decides(t) /\ StaleSelf(t)]_vars
  <2> SUFFICES ASSUME IInv, [Next]_vars, HasOwner, ~HasOwner'
               PROVE  \E t \in Request : Decides(t) /\ StaleSelf(t)
    OBVIOUS
  <2>1. PICK o \in RowId : row[o] # NoRow /\ row[o].role = "owner"
    BY DEF HasOwner, members
  <2>2. \A r \in RowId : row'[r] # NoRow => row'[r].role # "owner"
    BY DEF HasOwner, members
  <2>3. PICK t \in Request : ChangeRole(t) \/ Expel(t)
    <3>1. row' # row
      BY <2>1, <2>2
    <3>2. ASSUME NEW t \in Request, AcceptInsert(t) PROVE row'[o] = row[o]
      <4>1. \A r \in unused : row[r] = NoRow
        BY DEF IInv, UnusedRowsAreBlank
      <4> QED
        BY <2>1, <3>2, <4>1 DEF AcceptInsert, IInv, TypeOK
    <3> QED
      BY <2>1, <2>2, <3>1, <3>2
         DEF Next, Serve, vars, AuthoriseChange, AuthoriseExpel, AcceptCheck,
             OpenForUpdate, LockNextRow, Reject
  <2>4. Decides(t)
    BY <2>3 DEF ChangeRole, Expel, End, ReadyToDecide, Decides, IInv, TypeOK
  <2>5. \A r \in Result(t) : row[r].user # cmd[t].target => row'[r] = row[r]
    BY <2>3 DEF ChangeRole, Expel, TargetRow, Result
  <2>6. OwnerSeenBesides(t)
    <3>1. CASE Expel(t)
      BY <3>1 DEF Expel, MayExpel
    <3>2. CASE ChangeRole(t)
      <4>1. PICK r \in RowId : TargetRow(t, r)
        BY <3>2 DEF ChangeRole, MayChange
      <4>2. row'[r] = [user |-> row[r].user, role |-> cmd[t].role]
        BY <3>2, <4>1 DEF ChangeRole
      <4>3. cmd[t] \in Command /\ row[r] \in Row
        <5>1. pc[t] # "idle"
          BY <3>2 DEF ChangeRole, ReadyToDecide
        <5>2. row[r] # NoRow
          BY <4>1 DEF TargetRow, IInv, LocksHaveOwners
        <5> QED
          BY <5>1, <5>2 DEF IInv, CommandsArrive, TypeOK
      <4>4. row'[r] \in Row
        BY <4>2, <4>3 DEF Command, Row
      <4>5. cmd[t].role # "owner"
        BY <2>2, <4>2, <4>4
      <4> QED
        BY <3>2, <4>5 DEF ChangeRole, MayChange
    <3> QED
      BY <2>3, <3>1, <3>2
  <2>7. PICK r \in Result(t) : row[r].user # cmd[t].target /\ seen[t][r] = "owner"
    BY <2>6 DEF OwnerSeenBesides
  <2>8. r \in RowId /\ row[r] # NoRow /\ row'[r] = row[r]
    BY <2>5, <2>7 DEF Result, IInv, LocksHaveOwners
  <2>9. row[r].role # "owner"
    BY <2>2, <2>8
  <2>10. row[r].user = cmd[t].by
    BY <2>7, <2>9 DEF IInv, LockedRowsAreFresh
  <2> QED
    BY <2>4, <2>7, <2>9, <2>10 DEF StaleSelf
<1> QED
  BY <1>1, Invariance, PTL DEF Spec, LastOwnerLostOnlyByStaleSelf

(* An expelled requester no longer expels: the expulsion that commits has  *)
(* a requester who is still a member.                                      *)
THEOREM ExpelSafety == Spec => ExpelNeedsLiveRequester
<1>1. IInv /\ [Next]_vars
        => [\A t \in Request :
              Decides(t) /\ cmd[t].kind = "expel" /\ row' # row
                => \E q \in members : row[q].user = cmd[t].by]_vars
  <2> SUFFICES ASSUME IInv, [Next]_vars, NEW t \in Request, Decides(t),
                      cmd[t].kind = "expel", row' # row
               PROVE  \E q \in members : row[q].user = cmd[t].by
    OBVIOUS
  <2>1. Expel(t)
    <3>1. ASSUME NEW s \in Request, s # t,
                 \/ AuthoriseChange(s) \/ AuthoriseExpel(s) \/ AcceptCheck(s)
                 \/ Serve(s)
          PROVE  pc'[t] = pc[t]
      BY <3>1 DEF IInv, TypeOK, AuthoriseChange, AuthoriseExpel, AcceptCheck,
                  Serve, OpenForUpdate, LockNextRow, ChangeRole, Expel, Reject,
                  End, AcceptInsert
    <3>2. \/ AuthoriseChange(t) \/ AuthoriseExpel(t) \/ AcceptCheck(t)
          \/ Serve(t)
      BY <3>1 DEF Next, vars, Decides
    <3> QED
      BY <3>2 DEF Decides, AuthoriseChange, AuthoriseExpel, AcceptCheck, Serve,
                  OpenForUpdate, LockNextRow, ChangeRole, MayChange, Reject,
                  AcceptInsert
  <2>2. PICK r \in RowId :
          /\ TargetRow(t, r)
          /\ cmd[t].by = cmd[t].target \/ RequesterMayExpel(t, r)
    BY <2>1 DEF Expel, MayExpel
  <2>3. \A q \in Result(t) : q \in members
    BY DEF IInv, LocksHaveOwners, Result, members
  <2> QED
    BY <2>2, <2>3 DEF TargetRow, RequesterMayExpel
<1> QED
  BY <1>1, Invariance, PTL DEF Spec, ExpelNeedsLiveRequester

-----------------------------------------------------------------------------
(* Requests that do not overlap *)

(* A role is changed, or a member expelled, by one request at a time: the  *)
(* next one is authorised after the last one has ended.  Invitations may   *)
(* be accepted meanwhile.                                                  *)
AtWork(t) == pc[t] \in {"authorised", "locking"}

Apart == \A s, t \in Request : AtWork(s) /\ AtWork(t) => s = t

(* The roles a session holds are the committed ones, its own included. *)
RolesAreCurrent ==
  \A t \in Request, r \in RowId :
    AtWork(t) /\ row[r] # NoRow /\ seen[t][r] # "unloaded" => seen[t][r] = row[r].role

(* What a step does to the rows a request at work has seen. *)
LEMMA RolesStayCurrent ==
  ASSUME IInv, Apart, RolesAreCurrent, [Next]_vars PROVE RolesAreCurrent'
<1> SUFFICES ASSUME NEW t \in Request, NEW r \in RowId,
                    pc'[t] \in {"authorised", "locking"},
                    row'[r] # NoRow, seen'[t][r] # "unloaded"
             PROVE  seen'[t][r] = row'[r].role
  BY DEF RolesAreCurrent, AtWork
<1>0. TypeOK
  BY DEF IInv
<1>1. CASE AuthoriseChange(t) \/ AuthoriseExpel(t)
  <2>1. pc[t] = "idle" /\ row' = row
    BY <1>1 DEF AuthoriseChange, AuthoriseExpel
  <2>2. PICK q \in members : LoadOwnRow(t, q)
    BY <1>1 DEF AuthoriseChange, AuthoriseExpel
  <2>3. seen[t][r] = "unloaded"
    BY <2>1 DEF IInv, OnlyOwnRowLoaded
  <2> QED
    BY <1>0, <2>1, <2>2, <2>3 DEF LoadOwnRow, members, TypeOK
<1>2. CASE LockNextRow(t)
  <2>1. row' = row /\ AtWork(t)
    BY <1>2 DEF LockNextRow, AtWork
  <2>2. seen'[t][r] = seen[t][r] \/ seen'[t][r] = row[r].role
    BY <1>0, <1>2 DEF LockNextRow, TypeOK
  <2> QED
    BY <2>1, <2>2 DEF RolesAreCurrent
<1>3. ASSUME NEW s \in Request, s # t,
             \/ AuthoriseChange(s) \/ AuthoriseExpel(s) \/ OpenForUpdate(s)
             \/ LockNextRow(s) \/ AcceptCheck(s)
      PROVE  row' = row /\ seen'[t] = seen[t] /\ pc'[t] = pc[t]
  BY <1>0, <1>3 DEF AuthoriseChange, AuthoriseExpel, OpenForUpdate, LockNextRow,
                    AcceptCheck, LoadOwnRow, TypeOK
<1>4. ASSUME NEW s \in Request, ChangeRole(s) \/ Expel(s) \/ Reject(s) PROVE FALSE
  <2>1. pc[s] = "locking" /\ pc' = [pc EXCEPT ![s] = "done"]
    BY <1>4, DecisionFrame
  <2>2. pc'[s] = "done" /\ (s # t => pc'[t] = pc[t])
    BY <1>0, <2>1 DEF TypeOK
  <2> QED
    BY <2>1, <2>2 DEF Apart, AtWork
<1>5. ASSUME NEW s \in Request, AcceptInsert(s)
      PROVE  seen'[t] = seen[t] /\ pc'[t] = pc[t] /\ (row'[r] = row[r] \/ r \in unused)
  <2>1. pc' = [pc EXCEPT ![s] = "done"] /\ seen' = seen
    BY <1>5 DEF AcceptInsert
  <2>2. pc'[t] = pc[t]
    BY <1>0, <2>1 DEF TypeOK
  <2>3. row'[r] = row[r] \/ r \in unused
    BY <1>0, <1>5 DEF AcceptInsert, TypeOK
  <2> QED
    BY <2>1, <2>2, <2>3
<1>6. CASE OpenForUpdate(t)
  BY <1>6 DEF OpenForUpdate, RolesAreCurrent, AtWork
<1>7. CASE AcceptCheck(t)
  BY <1>0, <1>7 DEF AcceptCheck, TypeOK
<1>8. CASE row' = row /\ seen'[t] = seen[t] /\ pc'[t] = pc[t]
  BY <1>8 DEF RolesAreCurrent, AtWork
<1>9. CASE seen'[t] = seen[t] /\ pc'[t] = pc[t] /\ (row'[r] = row[r] \/ r \in unused)
  BY <1>9 DEF RolesAreCurrent, AtWork, IInv, UnusedRowsAreBlank
<1>10. CASE UNCHANGED vars
  BY <1>8, <1>10 DEF vars
<1> QED
  BY <1>1, <1>2, <1>3, <1>4, <1>5, <1>6, <1>7, <1>8, <1>9, <1>10 DEF Next, Serve

(* The group never loses its last owner, as the document has it, as long   *)
(* as no two changes of role or expulsions overlap: the lock and the check *)
(* after it are wrong about nobody then, whoever joins meanwhile.          *)
THEOREM GroupAlwaysHasOwnerApart == Spec /\ []Apart => []GroupAlwaysHasOwner
<1>1. Init => HasOwner /\ RolesAreCurrent
  BY DEF Init, RolesAreCurrent
<1>2. IInv /\ Apart /\ RolesAreCurrent /\ [Next]_vars => RolesAreCurrent'
  BY RolesStayCurrent
<1>3. ASSUME IInv, RolesAreCurrent, NEW t \in Request PROVE ~(Decides(t) /\ StaleSelf(t))
  BY <1>3 DEF IInv, LocksHaveOwners, RolesAreCurrent, AtWork, StaleSelf, Decides, Result
<1>4. IInv /\ RolesAreCurrent
        /\ [HasOwner /\ ~HasOwner' => \E t \in Request : Decides(t) /\ StaleSelf(t)]_vars
        /\ HasOwner
        => HasOwner'
  BY <1>3 DEF HasOwner, members, vars
<1> QED
  BY <1>1, <1>2, <1>4, Invariance, LastOwnerSafety, PTL
     DEF Spec, LastOwnerLostOnlyByStaleSelf, GroupAlwaysHasOwner

=============================================================================
