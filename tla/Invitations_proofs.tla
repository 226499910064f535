------------------------- MODULE Invitations_proofs -------------------------
(***************************************************************************)
(* Proofs about Invitations, for any users, workers and invitations.       *)
(*                                                                         *)
(* The inductive invariant IInv says why a request has written what it     *)
(* has: it holds the row alone, the row was there, and what it saw of it   *)
(* was a reason to write.  It does not say that this is still so.          *)
(***************************************************************************)
EXTENDS Invitations, FiniteSetTheorems, WellFoundedInduction, TLAPS

-----------------------------------------------------------------------------
(* The inductive invariant *)

(* What a request has written is there, and no other request has it.       *)
Held ==
  \A w \in Worker : \A i \in Invitation : Wrote(w, i) =>
    /\ pc[w] = "writing"
    /\ draft[w][i] = Written(kind[w])
    /\ HasRow(i)
    /\ \A v \in Worker \ {w} : ~Wrote(v, i)

(* What it saw of an invitation allows it to write there.                  *)
Chosen(w, i) ==
  /\ seen[w][i] \in {"pending", "expired"}
  /\ kind[w] = "accept" => seen[w][i] = "pending" /\ i \notin lateThen[w]

WritesChosen(w) ==
  /\ \A i \in Invitation : Wrote(w, i) => Chosen(w, i)
  /\ \A n \in 1..Len(todo[w]) : Chosen(w, todo[w][n])

ChosenOnly == \A w \in Worker : pc[w] = "writing" => WritesChosen(w)

(* Who accepts is a user. *)
UsersAccept ==
  \A w \in Worker :
    pc[w] = "no member" \/ (pc[w] \in {"looked", "writing"} /\ kind[w] = "accept")
      => user[w] \in User

OnlyAcceptsJoin ==
  \A w \in Worker : joining[w] => pc[w] = "writing" /\ kind[w] = "accept"

LookedAs ==
  \A w \in Worker : pc[w] = "looked" => kind[w] # "refuse"

LateStays == \A w \in Worker : lateThen[w] \subseteq late

UnusedAdmitsNobody ==
  \A i \in Invitation : status[i] = "unused" => admitted[i] = {}

IInv ==
  /\ TypeOK /\ Held /\ ChosenOnly /\ OnlyAcceptsJoin /\ LookedAs /\ LateStays
  /\ UsersAccept /\ UnusedAdmitsNobody /\ AcceptedWithMember

USE InvitationsAssumption

-----------------------------------------------------------------------------
(* Lemmas about data *)

(* A sequence of the invitations of a set, each once. *)
LEMMA OrderedRows ==
  ASSUME NEW S \in SUBSET Invitation, NEW s \in InOrder(S)
  PROVE  /\ s \in Seq(Invitation)
         /\ \A n \in 1..Len(s) : s[n] \in S
<1>1. IsFiniteSet(S)
  <2>1. IsFiniteSet(1..MaxInvitations)
    BY FS_Interval
  <2> QED
    BY <2>1, FS_Subset DEF Invitation
<1>2. Cardinality(S) \in Nat
  BY <1>1, FS_CardinalityType
<1>3. s \in [1..Cardinality(S) -> S]
  BY DEF InOrder
<1>4. s \in Seq(S) /\ Len(s) = Cardinality(S)
  BY <1>2, <1>3
<1>5. s \in Seq(Invitation)
  BY <1>3, <1>2
<1> QED
  BY <1>3, <1>4, <1>5

(* Rows that are written are never made pending or unused. *)
LEMMA WrittenIsStatus ==
  ASSUME NEW k \in Kind
  PROVE  /\ Written(k) \in Status \ {"unused", "pending"}
         /\ Written(k) # "untouched"
         /\ Written(k) = "accepted" <=> k = "accept"
  BY DEF Written, Kind, Status

(* What a request decides to write it has a reason to. *)
LEMMA DecidesWell ==
  ASSUME NEW w \in Worker, TypeOK, LateStays, kind[w] # "refuse"
  PROVE  /\ Decide(w).write \subseteq Invitation
         /\ Decide(w).as \in Kind
         /\ \A i \in Decide(w).write :
              /\ seen[w][i] \in {"pending", "expired"}
              /\ Decide(w).as = "accept" =>
                   seen[w][i] = "pending" /\ i \notin lateThen[w]
<1>1. kind[w] \in {"get", "list", "revoke", "accept"}
  BY DEF TypeOK, Kind
<1>2. CASE kind[w] \in {"get", "list"}
  <2>1. Decide(w) = [write |-> Expired(w), as |-> kind[w]]
    BY <1>2 DEF Decide
  <2> QED
    BY <1>2, <2>1 DEF Expired, Saw, Kind
<1>3. CASE kind[w] = "revoke"
  <2>1. Decide(w) = [write |-> Saw(w, "pending") \cup Saw(w, "expired"), as |-> "revoke"]
    BY <1>3 DEF Decide
  <2> QED
    BY <2>1 DEF Saw, Kind
<1>4. CASE kind[w] = "accept" /\ Expired(w) # {}
  <2>1. Decide(w) = [write |-> Expired(w), as |-> "refuse"]
    BY <1>4 DEF Decide
  <2> QED
    BY <2>1 DEF Expired, Saw, Kind
<1>5. CASE kind[w] = "accept" /\ Expired(w) = {}
  <2>1. Decide(w) = [write |-> Saw(w, "pending"), as |-> "accept"]
    BY <1>5 DEF Decide
  <2>2. \A i \in Saw(w, "pending") : i \notin lateThen[w]
    BY <1>5 DEF Expired, LateStays
  <2> QED
    BY <2>1, <2>2 DEF Saw, Kind
<1> QED
  BY <1>1, <1>2, <1>3, <1>4, <1>5

-----------------------------------------------------------------------------
(* The initial states satisfy the invariant. *)
LEMMA InitIInv == Init => IInv
<1> SUFFICES ASSUME Init PROVE IInv
  OBVIOUS
<1>1. TypeOK
  <2>1. <<>> \in Seq(Invitation)
    OBVIOUS
  <2>2. todo \in [Worker -> Seq(Invitation)]
    BY <2>1 DEF Init
  <2>3. /\ seen \in [Worker -> [Invitation -> Status \cup {"not seen"}]]
        /\ draft \in [Worker -> [Invitation -> Status \cup {"untouched"}]]
    BY DEF Init, NotSeen, Untouched
  <2>4. /\ status \in [Invitation -> Status]
        /\ kind \in [Worker -> Kind]
    BY DEF Init, Status, Kind
  <2> QED
    BY <2>2, <2>3, <2>4 DEF Init, TypeOK
<1>2. \A w \in Worker : \A i \in Invitation : ~Wrote(w, i)
  BY DEF Init, Wrote, Untouched
<1>3. Held /\ ChosenOnly /\ OnlyAcceptsJoin /\ LookedAs /\ LateStays /\ UsersAccept
  BY <1>2 DEF Init, Held, ChosenOnly, OnlyAcceptsJoin, LookedAs, LateStays,
              UsersAccept
<1> QED
  BY <1>1, <1>3 DEF Init, IInv, UnusedAdmitsNobody, AcceptedWithMember

-----------------------------------------------------------------------------
(* The actions preserve the invariant. *)

(* The other requests stay as they are. *)
OthersStay(w) ==
  \A v \in Worker \ {w} :
    /\ pc'[v] = pc[v] /\ kind'[v] = kind[v] /\ seen'[v] = seen[v]
    /\ todo'[v] = todo[v] /\ draft'[v] = draft[v]
    /\ joining'[v] = joining[v] /\ lateThen'[v] = lateThen[v]
    /\ user'[v] = user[v]

Ended(w) ==
  /\ pc'[w] = "idle" /\ kind'[w] = "get" /\ joining'[w] = FALSE /\ lateThen'[w] = {}
  /\ \A i \in Invitation : draft'[w][i] = "untouched"

RequestTypes ==
  /\ pc \in [Worker -> {"idle", "no member", "looked", "writing"}]
  /\ kind \in [Worker -> Kind] /\ user \in [Worker -> User \cup {Nobody}]
  /\ seen \in [Worker -> [Invitation -> Status \cup {"not seen"}]]
  /\ todo \in [Worker -> Seq(Invitation)]
  /\ draft \in [Worker -> [Invitation -> Status \cup {"untouched"}]]
  /\ joining \in [Worker -> BOOLEAN]
  /\ lateThen \in [Worker -> SUBSET Invitation]

(* What the end of a request leaves of it, and of the others.              *)
LEMMA EndOf ==
  ASSUME TypeOK, NEW w \in Worker, End(w)
  PROVE  Ended(w) /\ OthersStay(w) /\ RequestTypes'
<1>1. /\ pc'[w] = "idle" /\ kind'[w] = "get" /\ joining'[w] = FALSE /\ lateThen'[w] = {}
      /\ draft'[w] = Untouched
  BY DEF TypeOK, End
<1>2. OthersStay(w)
  BY DEF TypeOK, End, OthersStay
<1>3. Ended(w)
  BY <1>1 DEF Ended, Untouched
<1>4. /\ pc' \in [Worker -> {"idle", "no member", "looked", "writing"}]
      /\ kind' \in [Worker -> Kind] /\ user' \in [Worker -> User \cup {Nobody}]
  BY DEF TypeOK, End, Kind
<1>5. /\ seen' \in [Worker -> [Invitation -> Status \cup {"not seen"}]]
      /\ draft' \in [Worker -> [Invitation -> Status \cup {"untouched"}]]
  BY DEF TypeOK, End, NotSeen, Untouched
<1>6. todo' \in [Worker -> Seq(Invitation)]
  <2>1. <<>> \in Seq(Invitation)
    OBVIOUS
  <2> QED
    BY <2>1 DEF TypeOK, End
<1>7. /\ joining' \in [Worker -> BOOLEAN]
      /\ lateThen' \in [Worker -> SUBSET Invitation]
  BY DEF TypeOK, End
<1> QED
  BY <1>2, <1>3, <1>4, <1>5, <1>6, <1>7 DEF RequestTypes

(* The parts of the invariant that are about requests only survive the end *)
(* of one.                                                                 *)
LEMMA EndKeeps ==
  ASSUME IInv, NEW w \in Worker, End(w), UNCHANGED late
  PROVE  /\ ChosenOnly' /\ OnlyAcceptsJoin' /\ LookedAs' /\ LateStays'
         /\ UsersAccept'
<1>1. Ended(w) /\ OthersStay(w)
  BY EndOf DEF IInv
<1>2. ChosenOnly'
  <2>1. SUFFICES ASSUME NEW v \in Worker, pc'[v] = "writing"
                 PROVE  WritesChosen(v)'
    BY DEF ChosenOnly
  <2>2. v # w
    BY <1>1, <2>1 DEF Ended
  <2>3. WritesChosen(v)
    BY <1>1, <2>1, <2>2 DEF OthersStay, IInv, ChosenOnly
  <2> QED
    BY <1>1, <2>2, <2>3 DEF OthersStay, WritesChosen, Wrote, Chosen
<1>3. OnlyAcceptsJoin'
  BY <1>1 DEF Ended, OthersStay, IInv, OnlyAcceptsJoin
<1>4. LookedAs'
  BY <1>1 DEF Ended, OthersStay, IInv, LookedAs
<1>5. LateStays'
  BY <1>1 DEF Ended, OthersStay, IInv, LateStays
<1>6. UsersAccept'
  <2>1. UsersAccept
    BY DEF IInv
  <2> QED
    BY <1>1, <2>1 DEF Ended, OthersStay, UsersAccept
<1> QED
  BY <1>2, <1>3, <1>4, <1>5, <1>6

(* A request that is rolled back. *)
LEMMA RollbackIInv ==
  ASSUME IInv, NEW w \in Worker, Rollback(w)
  PROVE  IInv'
<1>1. TypeOK /\ End(w) /\ UNCHANGED <<status, late, members, admitted>>
  BY DEF IInv, Rollback
<1>2. Ended(w) /\ OthersStay(w) /\ RequestTypes'
  BY <1>1, EndOf
<1>3. TypeOK'
  BY <1>1, <1>2 DEF TypeOK, RequestTypes
<1>4. Held'
  BY <1>1, <1>2 DEF Ended, OthersStay, IInv, Held, Wrote, HasRow
<1>5. ChosenOnly' /\ OnlyAcceptsJoin' /\ LookedAs' /\ LateStays' /\ UsersAccept'
  BY <1>1, EndKeeps
<1>6. UnusedAdmitsNobody' /\ AcceptedWithMember'
  BY <1>1 DEF IInv, UnusedAdmitsNobody, AcceptedWithMember
<1> QED
  BY <1>3, <1>4, <1>5, <1>6 DEF IInv

(* What a commit does to an invitation. *)
LEMMA CommitDoes ==
  ASSUME IInv, NEW w \in Worker, Commit(w)
  PROVE  /\ End(w) /\ pc[w] = "writing" /\ kind[w] \in Kind /\ UNCHANGED late
         /\ kind[w] = "accept" <=> joining[w] = TRUE
         /\ joining[w] = TRUE => user[w] \in User
         /\ \A i \in Invitation :
              /\ Wrote(w, i) => /\ status'[i] = Written(kind[w])
                                /\ HasRow(i)
                                /\ \A v \in Worker \ {w} : ~Wrote(v, i)
              /\ ~Wrote(w, i) => status'[i] = status[i]
              /\ Wrote(w, i) /\ kind[w] = "accept" =>
                   admitted'[i] = admitted[i] \cup {user[w]}
              /\ ~Wrote(w, i) \/ kind[w] # "accept" => admitted'[i] = admitted[i]
<1>1. /\ TypeOK /\ End(w) /\ Applied(w) /\ pc[w] = "writing" /\ kind[w] \in Kind
      /\ joining[w] \in BOOLEAN
  BY DEF IInv, Commit, TypeOK
<1>2. kind[w] = "accept" <=> joining[w] = TRUE
  BY <1>1 DEF IInv, Commit, Ready, OnlyAcceptsJoin
<1>3. joining[w] = TRUE => user[w] \in User
  BY <1>1, <1>2 DEF IInv, UsersAccept
<1>4. \A i \in Invitation : Wrote(w, i) =>
        status'[i] = Written(kind[w]) /\ HasRow(i) /\ \A v \in Worker \ {w} : ~Wrote(v, i)
  BY <1>1 DEF IInv, Held, Applied
<1>5. \A i \in Invitation :
        /\ ~Wrote(w, i) => status'[i] = status[i]
        /\ Wrote(w, i) /\ kind[w] = "accept" => admitted'[i] = admitted[i] \cup {user[w]}
        /\ ~Wrote(w, i) \/ kind[w] # "accept" => admitted'[i] = admitted[i]
  BY <1>1, <1>2 DEF Applied
<1> QED
  BY <1>1, <1>2, <1>3, <1>4, <1>5 DEF Applied

LEMMA CommitIInv ==
  ASSUME IInv, NEW w \in Worker, Commit(w)
  PROVE  IInv'
<1>1. TypeOK /\ End(w) /\ kind[w] \in Kind /\ UNCHANGED late
  BY CommitDoes DEF IInv
<1>2. Ended(w) /\ OthersStay(w) /\ RequestTypes'
  BY <1>1, EndOf
<1>3. TypeOK'
  <2>1. status' \in [Invitation -> Status]
    <3>1. \A i \in Invitation : status'[i] \in Status
      BY <1>1, CommitDoes, WrittenIsStatus DEF TypeOK
    <3>2. DOMAIN status' = Invitation /\ status' = [i \in Invitation |-> status'[i]]
      BY DEF Commit, Applied
    <3> QED
      BY <3>1, <3>2
  <2>2. admitted' \in [Invitation -> SUBSET User]
    <3>1. joining[w] = TRUE => user[w] \in User
      BY CommitDoes
    <3> QED
      BY <1>1, <3>1 DEF Commit, Applied, TypeOK
  <2>3. members' \subseteq User
    <3>1. joining[w] = TRUE => user[w] \in User
      BY CommitDoes
    <3> QED
      BY <1>1, <3>1 DEF Commit, Applied, TypeOK
  <2> QED
    BY <1>1, <1>2, <2>1, <2>2, <2>3 DEF TypeOK, RequestTypes
<1>4. Held'
  <2> SUFFICES ASSUME NEW v \in Worker, NEW i \in Invitation, draft'[v][i] # "untouched"
               PROVE  /\ pc'[v] = "writing"
                      /\ draft'[v][i] = Written(kind'[v])
                      /\ status'[i] \notin {"unused", "revoked"}
                      /\ \A u \in Worker \ {v} : draft'[u][i] = "untouched"
    BY DEF Held, Wrote, HasRow
  <2>1. v # w /\ Wrote(v, i)
    BY <1>2 DEF Ended, OthersStay, Wrote
  <2>2. ~Wrote(w, i) /\ status'[i] = status[i]
    BY <2>1, CommitDoes
  <2>3. /\ pc[v] = "writing" /\ draft[v][i] = Written(kind[v])
        /\ status[i] \notin {"unused", "revoked"}
        /\ \A u \in Worker \ {v} : draft[u][i] = "untouched"
    BY <2>1 DEF IInv, Held, Wrote, HasRow
  <2> QED
    BY <1>2, <2>1, <2>2, <2>3 DEF Ended, OthersStay, Written
<1>5. ChosenOnly' /\ OnlyAcceptsJoin' /\ LookedAs' /\ LateStays' /\ UsersAccept'
  BY <1>1, EndKeeps
<1>6. UnusedAdmitsNobody'
  <2> SUFFICES ASSUME NEW i \in Invitation, status'[i] = "unused"
               PROVE  admitted'[i] = {}
    BY DEF UnusedAdmitsNobody
  <2>1. ~Wrote(w, i)
    <3>1. kind[w] \in Kind /\ (Wrote(w, i) => status'[i] = Written(kind[w]))
      BY CommitDoes
    <3>2. Written(kind[w]) # "unused"
      BY <3>1, WrittenIsStatus
    <3> QED
      BY <3>1, <3>2
  <2>2. status'[i] = status[i] /\ admitted'[i] = admitted[i]
    BY <2>1, CommitDoes
  <2> QED
    BY <2>2 DEF IInv, UnusedAdmitsNobody
<1>7. AcceptedWithMember'
  <2> SUFFICES ASSUME NEW i \in Invitation
               PROVE  /\ status'[i] = "accepted" => admitted'[i] # {}
                      /\ admitted'[i] # {} => status'[i] # "pending"
    BY DEF AcceptedWithMember
  <2>1. CASE Wrote(w, i)
    <3>1. status'[i] = Written(kind[w])
      BY <2>1, CommitDoes
    <3>2. kind[w] = "accept" => admitted'[i] # {}
      BY <2>1, CommitDoes
    <3> QED
      BY <1>1, <3>1, <3>2, WrittenIsStatus
  <2>2. CASE ~Wrote(w, i)
    BY <2>2, CommitDoes DEF IInv, AcceptedWithMember
  <2> QED
    BY <2>1, <2>2
<1> QED
  BY <1>3, <1>4, <1>5, <1>6, <1>7 DEF IInv

(* What other requests hold they go on holding. *)
LEMMA HeldStays ==
  ASSUME Held, NEW w \in Worker, OthersStay(w), draft' = draft, status' = status,
         \A i \in Invitation : draft[w][i] = "untouched"
  PROVE  Held'
<1> SUFFICES ASSUME NEW v \in Worker, NEW i \in Invitation, draft'[v][i] # "untouched"
             PROVE  /\ pc'[v] = "writing" /\ draft'[v][i] = Written(kind'[v])
                    /\ status'[i] \notin {"unused", "revoked"}
                    /\ \A u \in Worker \ {v} : draft'[u][i] = "untouched"
  BY DEF Held, Wrote, HasRow
<1>1. v # w
  OBVIOUS
<1>2. /\ pc[v] = "writing" /\ draft[v][i] = Written(kind[v])
      /\ status[i] \notin {"unused", "revoked"}
      /\ \A u \in Worker \ {v} : draft[u][i] = "untouched"
  BY DEF Held, Wrote, HasRow
<1>3. pc'[v] = pc[v] /\ kind'[v] = kind[v]
  BY <1>1 DEF OthersStay
<1> QED
  BY <1>2, <1>3

(* A request that only looks, decides or waits leaves the table, and what  *)
(* it has written, alone.                                                  *)
LEMMA QuietStep ==
  ASSUME IInv, NEW w \in Worker, OthersStay(w), RequestTypes',
         draft' = draft, UNCHANGED <<status, late, members, admitted>>,
         pc'[w] = "writing" => pc[w] = "looked" /\ kind'[w] \in Kind,
         pc[w] # "writing", joining'[w] = joining[w],
         lateThen'[w] \subseteq late,
         pc'[w] = "looked" => kind'[w] # "refuse",
         pc'[w] = "writing" => WritesChosen(w)',
         pc'[w] = "no member" \/ (pc'[w] \in {"looked", "writing"} /\ kind'[w] = "accept")
           => user'[w] \in User
  PROVE  IInv'
<1>1. TypeOK'
  BY DEF IInv, TypeOK, RequestTypes
<1>2. \A i \in Invitation : draft[w][i] = "untouched"
  BY DEF IInv, Held, Wrote
<1>3. joining[w] = FALSE
  BY DEF IInv, TypeOK, OnlyAcceptsJoin
<1>4. Held'
  BY <1>2, HeldStays DEF IInv
<1>5. ChosenOnly'
  <2> SUFFICES ASSUME NEW v \in Worker, pc'[v] = "writing"
               PROVE  WritesChosen(v)'
    BY DEF ChosenOnly
  <2>1. CASE v = w
    BY <2>1
  <2>2. CASE v # w
    <3>1. WritesChosen(v)
      BY <2>2 DEF OthersStay, IInv, ChosenOnly
    <3>2. /\ kind'[v] = kind[v] /\ seen'[v] = seen[v] /\ todo'[v] = todo[v]
          /\ draft'[v] = draft[v] /\ lateThen'[v] = lateThen[v]
      BY <2>2 DEF OthersStay
    <3> QED
      BY <3>1, <3>2, ZenonT(30) DEF WritesChosen, Wrote, Chosen
  <2> QED
    BY <2>1, <2>2
<1>6. OnlyAcceptsJoin'
  BY <1>3 DEF OthersStay, IInv, OnlyAcceptsJoin
<1>7. LookedAs' /\ LateStays' /\ UsersAccept'
  BY DEF OthersStay, IInv, LookedAs, LateStays, UsersAccept
<1>8. UnusedAdmitsNobody' /\ AcceptedWithMember'
  BY DEF IInv, UnusedAdmitsNobody, AcceptedWithMember
<1> QED
  BY <1>1, <1>4, <1>5, <1>6, <1>7, <1>8 DEF IInv

(* Looking. *)
LEMMA LookIInv ==
  ASSUME IInv, NEW w \in Worker, pc[w] \in {"idle", "no member"},
         NEW k \in {"get", "list", "revoke", "accept"}, NEW S \in SUBSET Invitation,
         Look(w, k, S), UNCHANGED user, k = "accept" => pc[w] = "no member"
  PROVE  IInv'
<1>1. TypeOK
  BY DEF IInv
<1>2. /\ pc'[w] = "looked" /\ kind'[w] = k /\ lateThen'[w] = late
      /\ draft' = draft /\ joining' = joining /\ user' = user
      /\ UNCHANGED <<status, late, members, admitted>>
  BY <1>1 DEF Look, TypeOK
<1>3. OthersStay(w)
  BY <1>1 DEF Look, TypeOK, OthersStay
<1>4. RequestTypes'
  <2>1. [i \in Invitation |-> IF i \in S THEN status[i] ELSE "not seen"]
          \in [Invitation -> Status \cup {"not seen"}]
    BY <1>1 DEF TypeOK
  <2>2. seen' \in [Worker -> [Invitation -> Status \cup {"not seen"}]]
    BY <1>1, <2>1 DEF TypeOK, Look
  <2>3. k \in Kind
    BY DEF Kind
  <2>4. /\ pc' \in [Worker -> {"idle", "no member", "looked", "writing"}]
        /\ kind' \in [Worker -> Kind]
        /\ lateThen' \in [Worker -> SUBSET Invitation]
    BY <1>1, <2>3 DEF TypeOK, Look
  <2> QED
    BY <1>1, <1>2, <2>2, <2>4 DEF TypeOK, RequestTypes, Look
<1>5. k = "accept" => user[w] \in User
  BY DEF IInv, UsersAccept
<1> QED
  BY <1>2, <1>3, <1>4, <1>5, QuietStep

(* The requests that begin, and the acceptance that looks. *)
LEMMA RequestIInv ==
  ASSUME IInv, NEW w \in Worker, Request(w)
  PROVE  IInv'
<1>1. CASE Get(w)
  <2>1. PICK i \in Invitation : Look(w, "get", {i})
    BY <1>1 DEF Get
  <2>2. pc[w] = "idle" /\ user' = user
    BY <1>1 DEF Get
  <2>3. {i} \in SUBSET Invitation
    OBVIOUS
  <2> QED
    BY <2>1, <2>2, <2>3, LookIInv, ZenonT(30)
<1>2. CASE List(w)
  BY <1>2, LookIInv DEF List
<1>3. CASE Revoke(w)
  <2>1. PICK i \in Invitation : Look(w, "revoke", {i})
    BY <1>3 DEF Revoke
  <2>2. pc[w] = "idle" /\ user' = user
    BY <1>3 DEF Revoke
  <2>3. {i} \in SUBSET Invitation
    OBVIOUS
  <2> QED
    BY <2>1, <2>2, <2>3, LookIInv, ZenonT(30)
<1>4. CASE CheckMembers(w)
  <2>1. TypeOK
    BY DEF IInv
  <2>2. /\ pc[w] = "idle" /\ pc'[w] = "no member" /\ user'[w] \in User
        /\ UNCHANGED <<status, late, members, admitted, kind, seen, todo, draft,
                       joining, lateThen>>
    BY <1>4, <2>1 DEF CheckMembers, TypeOK
  <2>3. OthersStay(w)
    BY <1>4, <2>1 DEF CheckMembers, TypeOK, OthersStay
  <2>4. RequestTypes'
    <3>1. PICK u \in User : user' = [user EXCEPT ![w] = u]
      BY <1>4 DEF CheckMembers
    <3>2. user' \in [Worker -> User \cup {Nobody}]
      BY <2>1, <3>1 DEF TypeOK
    <3>3. pc' \in [Worker -> {"idle", "no member", "looked", "writing"}]
      BY <1>4, <2>1 DEF CheckMembers, TypeOK
    <3> QED
      BY <2>1, <2>2, <3>2, <3>3 DEF TypeOK, RequestTypes
  <2>5. lateThen'[w] \subseteq late
    BY <2>2 DEF IInv, LateStays
  <2> QED
    BY <2>2, <2>3, <2>4, <2>5, QuietStep
<1> QED
  BY <1>1, <1>2, <1>3, <1>4 DEF Request

LEMMA AcceptIInv ==
  ASSUME IInv, NEW w \in Worker, Accept(w)
  PROVE  IInv'
<1>1. PICK i \in Invitation :
        \/ HasRow(i) /\ Look(w, "accept", {i}) /\ UNCHANGED user
        \/ Rollback(w)
  BY DEF Accept
<1>2. CASE Look(w, "accept", {i}) /\ UNCHANGED user
  <2>1. pc[w] = "no member"
    BY DEF Accept
  <2> QED
    BY <1>2, <2>1, LookIInv
<1>3. CASE Rollback(w)
  BY <1>3, RollbackIInv
<1> QED
  BY <1>1, <1>2, <1>3

LEMMA JudgeIInv ==
  ASSUME IInv, NEW w \in Worker, Judge(w)
  PROVE  IInv'
<1>1. CASE Decide(w).write = {}
  BY <1>1, RollbackIInv DEF Judge
<1>2. CASE Decide(w).write # {}
  <2>1. TypeOK /\ LateStays /\ kind[w] # "refuse" /\ pc[w] = "looked"
    BY DEF IInv, Judge, LookedAs
  <2>2. PICK s \in InOrder(Decide(w).write) : todo' = [todo EXCEPT ![w] = s]
    BY <1>2 DEF Judge
  <2>3. /\ s \in Seq(Invitation)
        /\ \A n \in 1..Len(s) : s[n] \in Decide(w).write
    BY <2>1, OrderedRows, DecidesWell
  <2>4. /\ kind' = [kind EXCEPT ![w] = Decide(w).as]
        /\ pc' = [pc EXCEPT ![w] = "writing"]
        /\ UNCHANGED <<status, late, members, admitted, user, seen, draft, joining,
                       lateThen>>
    BY <1>2 DEF Judge
  <2>5. kind'[w] = Decide(w).as /\ pc'[w] = "writing" /\ todo'[w] = s
    BY <2>1, <2>2, <2>4 DEF TypeOK
  <2>6. OthersStay(w)
    BY <2>1, <2>2, <2>4 DEF TypeOK, OthersStay
  <2>7. RequestTypes'
    <3>1. Decide(w).as \in Kind
      BY <2>1, DecidesWell
    <3> QED
      BY <2>1, <2>2, <2>3, <2>4, <3>1 DEF TypeOK, RequestTypes
  <2>8. \A i \in Invitation : ~Wrote(w, i)'
    BY <2>1, <2>4 DEF IInv, Held, Wrote
  <2>9. WritesChosen(w)'
    <3>1. \A i \in Decide(w).write :
            /\ seen[w][i] \in {"pending", "expired"}
            /\ Decide(w).as = "accept" => seen[w][i] = "pending" /\ i \notin lateThen[w]
      BY <2>1, DecidesWell
    <3>2. \A n \in 1..Len(s) : Chosen(w, s[n])'
      BY <2>3, <2>4, <2>5, <3>1 DEF Chosen
    <3> QED
      BY <2>5, <2>8, <3>2 DEF WritesChosen
  <2>10. Decide(w).as = "accept" => user[w] \in User
    BY <2>1 DEF IInv, UsersAccept, Decide, TypeOK, Kind
  <2>11. lateThen'[w] \subseteq late
    BY <2>1, <2>4 DEF LateStays
  <2>12. kind'[w] \in Kind /\ draft' = draft /\ joining'[w] = joining[w]
         /\ pc'[w] # "looked" /\ pc'[w] # "no member"
    BY <2>1, <2>4, <2>5, DecidesWell
  <2>13. kind'[w] = "accept" => user'[w] \in User
    BY <2>4, <2>5, <2>10
  <2>14. pc[w] # "writing" /\ UNCHANGED <<status, late, members, admitted>>
    BY <2>1, <2>4
  <2> QED
    BY <2>1, <2>6, <2>7, <2>9, <2>11, <2>12, <2>13, <2>14, QuietStep
<1> QED
  BY <1>1, <1>2

LEMMA WriteIInv ==
  ASSUME IInv, NEW w \in Worker, Write(w)
  PROVE  IInv'
<1> DEFINE i == Head(todo[w])
           written == IF StillThere(i) THEN Written(kind[w]) ELSE draft[w][i]
<1>1. TypeOK /\ Held /\ ChosenOnly
  BY DEF IInv
<1>2. /\ pc[w] = "writing" /\ todo[w] # <<>> /\ todo[w] \in Seq(Invitation)
      /\ kind[w] \in Kind /\ \A v \in Worker \ {w} : ~Wrote(v, i)
  BY <1>1 DEF Write, TypeOK
<1>3. /\ i \in Invitation /\ i = todo[w][1] /\ 1 \in 1..Len(todo[w])
      /\ Tail(todo[w]) \in Seq(Invitation)
      /\ Len(Tail(todo[w])) = Len(todo[w]) - 1
      /\ \A n \in 1..Len(Tail(todo[w])) :
           n + 1 \in 1..Len(todo[w]) /\ Tail(todo[w])[n] = todo[w][n + 1]
  BY <1>2
<1>4. CASE Rollback(w)
  BY <1>4, RollbackIInv
<1>5. CASE /\ draft' = [draft EXCEPT ![w][i] = written]
           /\ todo' = [todo EXCEPT ![w] = Tail(@)]
           /\ UNCHANGED <<status, late, members, admitted, pc, kind, user, seen,
                          joining, lateThen>>
  <2> HIDE DEF i
  <2>1. /\ \A v \in Worker \ {w} : draft'[v] = draft[v] /\ todo'[v] = todo[v]
        /\ \A j \in Invitation \ {i} : draft'[w][j] = draft[w][j]
        /\ draft'[w][i] = written
        /\ todo'[w] = Tail(todo[w])
    BY <1>1, <1>3, <1>5 DEF TypeOK
  <2>2. written # "untouched" =>
          /\ written = Written(kind[w])
          /\ status[i] \notin {"unused", "revoked"}
    BY <1>1, <1>3 DEF Held, Wrote, StillThere, HasRow
  <2>3. TypeOK'
    <3>1. written \in Status \cup {"untouched"}
      <4>1. Written(kind[w]) \in Status
        BY <1>2, WrittenIsStatus
      <4>2. draft[w][i] \in Status \cup {"untouched"}
        <5>1. draft \in [Worker -> [Invitation -> Status \cup {"untouched"}]]
          BY <1>1 DEF TypeOK
        <5>2. \A j \in Invitation : draft[w][j] \in Status \cup {"untouched"}
          BY <5>1
        <5>3. i \in Invitation
          BY <1>3
        <5> QED
          BY <5>2, <5>3
      <4> QED
        BY <4>1, <4>2
    <3>2. draft' \in [Worker -> [Invitation -> Status \cup {"untouched"}]]
      BY <1>1, <1>3, <1>5, <3>1 DEF TypeOK
    <3>3. todo' \in [Worker -> Seq(Invitation)]
      BY <1>1, <1>3, <1>5 DEF TypeOK
    <3> QED
      BY <1>1, <1>5, <3>2, <3>3 DEF TypeOK
  <2>4. Held'
    <3> SUFFICES ASSUME NEW v \in Worker, NEW j \in Invitation,
                        draft'[v][j] # "untouched"
                 PROVE  /\ pc[v] = "writing" /\ draft'[v][j] = Written(kind[v])
                        /\ status[j] \notin {"unused", "revoked"}
                        /\ \A u \in Worker \ {v} : draft'[u][j] = "untouched"
      BY <1>5 DEF Held, Wrote, HasRow
    <3> HIDE DEF written
    <3>1. CASE v = w /\ j = i
      BY <1>2, <2>1, <2>2, <3>1 DEF Wrote
    <3>2. CASE v # w \/ j # i
      <4>1. draft'[v][j] = draft[v][j]
        BY <2>1, <3>2
      <4>2. /\ pc[v] = "writing" /\ draft[v][j] = Written(kind[v])
            /\ status[j] \notin {"unused", "revoked"}
            /\ \A u \in Worker \ {v} : draft[u][j] = "untouched"
        BY <1>1, <4>1 DEF Held, Wrote, HasRow
      <4>3. v # w => j # i
        BY <1>2, <4>1 DEF Wrote
      <4> QED
        BY <2>1, <3>2, <4>1, <4>2, <4>3
    <3> QED
      BY <3>1, <3>2
  <2>5. ChosenOnly'
    <3> SUFFICES ASSUME NEW v \in Worker, pc[v] = "writing"
                 PROVE  WritesChosen(v)'
      BY <1>5 DEF ChosenOnly
    <3>1. WritesChosen(v)
      BY <1>1 DEF ChosenOnly
    <3>2. \A j : Chosen(v, j)' <=> Chosen(v, j)
      BY <1>5 DEF Chosen
    <3>3. CASE v # w
      BY <2>1, <3>1, <3>2, <3>3 DEF WritesChosen, Wrote
    <3>4. CASE v = w
      <4>1. Chosen(w, i)
        BY <1>3, <3>1, <3>4 DEF WritesChosen
      <4>2. \A j \in Invitation : Wrote(w, j)' => Chosen(w, j)
        BY <2>1, <3>1, <3>4, <4>1 DEF WritesChosen, Wrote
      <4>3. \A n \in 1..Len(Tail(todo[w])) : Chosen(w, Tail(todo[w])[n])
        BY <1>3, <3>1, <3>4 DEF WritesChosen
      <4> QED
        BY <2>1, <3>2, <3>4, <4>2, <4>3 DEF WritesChosen
    <3> QED
      BY <3>3, <3>4
  <2>6. OnlyAcceptsJoin' /\ LookedAs' /\ LateStays' /\ UsersAccept'
    BY <1>5 DEF IInv, OnlyAcceptsJoin, LookedAs, LateStays, UsersAccept
  <2>7. UnusedAdmitsNobody' /\ AcceptedWithMember'
    BY <1>5 DEF IInv, UnusedAdmitsNobody, AcceptedWithMember
  <2> QED
    BY <2>3, <2>4, <2>5, <2>6, <2>7 DEF IInv
<1> QED
  BY <1>4, <1>5 DEF Write

LEMMA JoinIInv ==
  ASSUME IInv, NEW w \in Worker, Join(w)
  PROVE  IInv'
<1>1. CASE Rollback(w)
  BY <1>1, RollbackIInv
<1>2. CASE /\ joining' = [joining EXCEPT ![w] = TRUE]
           /\ UNCHANGED <<status, late, members, admitted, pc, kind, user, seen, todo,
                          draft, lateThen>>
  <2>1. TypeOK' /\ OnlyAcceptsJoin'
    BY <1>2 DEF IInv, TypeOK, OnlyAcceptsJoin, Join
  <2>2. Held'
    BY <1>2 DEF IInv, Held, Wrote, HasRow
  <2>3. ChosenOnly'
    BY <1>2 DEF IInv, ChosenOnly, WritesChosen, Wrote, Chosen
  <2>4. LookedAs' /\ LateStays' /\ UsersAccept'
    BY <1>2 DEF IInv, LookedAs, LateStays, UsersAccept
  <2>5. UnusedAdmitsNobody' /\ AcceptedWithMember'
    BY <1>2 DEF IInv, UnusedAdmitsNobody, AcceptedWithMember
  <2> QED
    BY <2>1, <2>2, <2>3, <2>4, <2>5 DEF IInv
<1> QED
  BY <1>1, <1>2 DEF Join

(* The rest of the world. *)
LEMMA WorldIInv ==
  ASSUME IInv, \/ \E i \in Invitation : Create(i) \/ Lapse(i)
               \/ \E u \in User : Leave(u)
  PROVE  IInv'
<1>1. UNCHANGED request
  BY DEF Create, Lapse, Leave
<1>2. late \subseteq late' /\ UNCHANGED admitted
  BY DEF Create, Lapse, Leave
<1>3. \A j \in Invitation :
        status'[j] = status[j] \/ (status[j] = "unused" /\ status'[j] = "pending")
  BY DEF Create, Lapse, Leave, IInv, TypeOK
<1>4. TypeOK'
  <2>1. status' \in [Invitation -> Status]
    BY DEF Create, Lapse, Leave, IInv, TypeOK, Status
  <2>2. late' \subseteq Invitation /\ members' \subseteq User
    BY DEF Create, Lapse, Leave, IInv, TypeOK
  <2> QED
    BY <1>1, <1>2, <2>1, <2>2 DEF request, IInv, TypeOK
<1>5. Held'
  BY <1>1, <1>3 DEF request, IInv, Held, Wrote, HasRow
<1>6. ChosenOnly'
  BY <1>1 DEF request, IInv, ChosenOnly, WritesChosen, Wrote, Chosen
<1>7. OnlyAcceptsJoin' /\ LookedAs' /\ LateStays' /\ UsersAccept'
  BY <1>1, <1>2 DEF request, IInv, OnlyAcceptsJoin, LookedAs, LateStays, UsersAccept
<1>8. UnusedAdmitsNobody' /\ AcceptedWithMember'
  BY <1>2, <1>3 DEF IInv, UnusedAdmitsNobody, AcceptedWithMember
<1> QED
  BY <1>4, <1>5, <1>6, <1>7, <1>8 DEF IInv

LEMMA StepIInv == IInv /\ [Next]_vars => IInv'
<1> SUFFICES ASSUME IInv, [Next]_vars PROVE IInv'
  OBVIOUS
<1>1. CASE \/ \E i \in Invitation : Create(i) \/ Lapse(i)
           \/ \E u \in User : Leave(u)
  BY <1>1, WorldIInv
<1>2. ASSUME NEW w \in Worker, Request(w) PROVE IInv'
  BY <1>2, RequestIInv
<1>3. ASSUME NEW w \in Worker, Step(w) PROVE IInv'
  BY <1>3, AcceptIInv, JudgeIInv, WriteIInv, JoinIInv, CommitIInv, RollbackIInv
     DEF Step, Refuse
<1>4. ASSUME NEW w \in Worker, Fail(w) PROVE IInv'
  BY <1>4, RollbackIInv DEF Fail
<1>5. CASE UNCHANGED vars
  <2>1. TypeOK' /\ LookedAs' /\ LateStays' /\ UsersAccept' /\ OnlyAcceptsJoin'
    BY <1>5 DEF vars, request, IInv, TypeOK, LookedAs, LateStays, UsersAccept,
                OnlyAcceptsJoin
  <2>2. Held'
    BY <1>5 DEF vars, request, IInv, Held, Wrote, HasRow
  <2>3. ChosenOnly'
    BY <1>5 DEF vars, request, IInv, ChosenOnly, WritesChosen, Wrote, Chosen
  <2>4. UnusedAdmitsNobody' /\ AcceptedWithMember'
    BY <1>5 DEF vars, request, IInv, UnusedAdmitsNobody, AcceptedWithMember
  <2> QED
    BY <2>1, <2>2, <2>3, <2>4 DEF IInv
<1> QED
  BY <1>1, <1>2, <1>3, <1>4, <1>5 DEF Next

(* The inductive invariant holds. *)
THEOREM InvariantHolds == Spec => []IInv
  BY InitIInv, StepIInv, PTL DEF Spec

-----------------------------------------------------------------------------
(* What follows from it *)

(* Types, for any number of users, workers and invitations. *)
THEOREM TypeCorrect == Spec => []TypeOK
  BY InvariantHolds, PTL DEF IInv

(* An acceptance and its membership are committed together or not at all.  *)
THEOREM AcceptanceIsJoining == Spec => []AcceptedWithMember
  BY InvariantHolds, PTL DEF IInv

(* Only a commit writes to the invitations there are. *)
LEMMA WhoWrites ==
  ASSUME IInv, [Next]_vars, NEW i \in Invitation
  PROVE  \/ status'[i] = status[i] /\ admitted'[i] = admitted[i]
         \/ status[i] = "unused" /\ admitted'[i] = admitted[i]
         \/ \E w \in Worker : Commit(w) /\ Wrote(w, i)
<1>1. CASE \E j \in Invitation : Create(j) \/ Lapse(j)
  BY <1>1 DEF Create, Lapse, IInv, TypeOK
<1>2. CASE \E u \in User : Leave(u)
  BY <1>2 DEF Leave
<1>3. ASSUME NEW w \in Worker, Commit(w)
      PROVE  \/ status'[i] = status[i] /\ admitted'[i] = admitted[i]
             \/ \E v \in Worker : Commit(v) /\ Wrote(v, i)
  BY <1>3, CommitDoes
<1>4. ASSUME NEW w \in Worker, Request(w) \/ Step(w) \/ Fail(w), ~Commit(w)
      PROVE  status' = status /\ admitted' = admitted
  <2>1. CASE Request(w)
    BY <2>1 DEF Request, Get, List, Revoke, CheckMembers, Look
  <2>2. CASE Accept(w)
    BY <2>2 DEF Accept, Look, Rollback
  <2>3. CASE Judge(w)
    BY <2>3 DEF Judge, Rollback
  <2>4. CASE Write(w)
    BY <2>4 DEF Write, Rollback
  <2>5. CASE Join(w) \/ Refuse(w) \/ Fail(w)
    BY <2>5 DEF Join, Refuse, Fail, Rollback
  <2> QED
    BY <1>4, <2>1, <2>2, <2>3, <2>4, <2>5 DEF Step
<1>5. CASE UNCHANGED vars
  BY <1>5 DEF vars
<1> QED
  BY <1>1, <1>2, <1>3, <1>4, <1>5 DEF Next

(* What a commit does was chosen when its request looked. *)
LEMMA CommitWasChosen ==
  ASSUME IInv, NEW w \in Worker, Commit(w), NEW i \in Invitation, Wrote(w, i)
  PROVE  /\ Chosen(w, i)
         /\ HasRow(i)
         /\ admitted'[i] # admitted[i] => kind[w] = "accept"
<1>1. Chosen(w, i)
  BY DEF IInv, ChosenOnly, WritesChosen, Commit
<1> QED
  BY <1>1, CommitDoes

(* Revoking is final, whatever was under way when it happened. *)
THEOREM RevocationIsFinal == Spec => RevokedIsFinal
<1>1. ASSUME IInv, [Next]_vars, NEW i \in Invitation, status[i] = "revoked"
      PROVE  status'[i] = "revoked" /\ admitted'[i] = admitted[i]
  BY <1>1, WhoWrites, CommitWasChosen DEF HasRow
<1>2. IInv /\ [Next]_vars =>
        [\A i \in Invitation : status[i] = "revoked" =>
           status'[i] = "revoked" /\ admitted'[i] = admitted[i]]_vars
  BY <1>1
<1> QED
  BY <1>2, InvariantHolds, PTL DEF Spec, RevokedIsFinal

(* Only a request that was overtaken loses an acceptance or admits once more. *)
THEOREM OvertakenOnly == Spec => OnlyOvertakenErr
<1>1. ASSUME IInv, [Next]_vars, NEW i \in Invitation,
             \/ status[i] = "accepted" /\ status'[i] # "accepted"
             \/ status[i] # "pending" /\ admitted'[i] # admitted[i]
      PROVE  \E w \in Worker : Commit(w) /\ Wrote(w, i) /\ Overtaken(w, i)
  <2>1. PICK w \in Worker : Commit(w) /\ Wrote(w, i)
    BY <1>1, WhoWrites
  <2>2. Chosen(w, i) /\ (admitted'[i] # admitted[i] => kind[w] = "accept")
    BY <1>1, <2>1, CommitWasChosen
  <2> QED
    BY <1>1, <2>1, <2>2 DEF Chosen, Overtaken
<1>2. IInv /\ [Next]_vars =>
        [\A i \in Invitation :
           \/ status[i] = "accepted" /\ status'[i] # "accepted"
           \/ status[i] # "pending" /\ admitted'[i] # admitted[i]
           => \E w \in Worker : Commit(w) /\ Wrote(w, i) /\ Overtaken(w, i)]_vars
  BY <1>1
<1> QED
  BY <1>2, InvariantHolds, PTL DEF Spec, OnlyOvertakenErr

(* What was late when the request looked admits nobody. *)
THEOREM LatenessHolds == Spec => LateAdmitsNobody
<1>1. ASSUME IInv, [Next]_vars, NEW i \in Invitation, admitted'[i] # admitted[i]
      PROVE  \E w \in Worker : Commit(w) /\ Wrote(w, i) /\ i \notin lateThen[w]
  <2>1. PICK w \in Worker : Commit(w) /\ Wrote(w, i)
    BY <1>1, WhoWrites
  <2>2. Chosen(w, i) /\ kind[w] = "accept"
    BY <1>1, <2>1, CommitWasChosen
  <2> QED
    BY <2>1, <2>2 DEF Chosen
<1>2. IInv /\ [Next]_vars =>
        [\A i \in Invitation : admitted'[i] # admitted[i] =>
           \E w \in Worker : Commit(w) /\ Wrote(w, i) /\ i \notin lateThen[w]]_vars
  BY <1>1
<1> QED
  BY <1>2, InvariantHolds, PTL DEF Spec, LateAdmitsNobody

-----------------------------------------------------------------------------
(* Waiting in a circle *)

(* Any numbers have a least one. *)
LEMMA Least ==
  ASSUME NEW T \in SUBSET Nat, T # {}
  PROVE  \E x \in T : \A y \in T : x <= y
<1>1. PICK R : IsWellFoundedOn(R, Nat) /\ R = {p \in Nat \X Nat : p[1] < p[2]}
  <2>1. OpToRel(<, Nat) = {p \in Nat \X Nat : p[1] < p[2]}
    BY Zenon DEF OpToRel
  <2> QED
    BY <2>1, NatLessThanWellFounded, Zenon
<1>2. PICK x \in T : \A y \in T : <<y, x>> \notin R
  BY <1>1, WFMin, Zenon
<1>3. \A y \in Nat, z \in Nat : y < z => <<y, z>> \in R
  BY <1>1
<1>4. ASSUME NEW y \in T PROVE x <= y
  <2>1. x \in Nat /\ y \in Nat
    OBVIOUS
  <2>2. ~(y < x)
    BY <1>2, <1>3, <2>1, Zenon
  <2> QED
    BY <2>1, <2>2
<1> QED
  BY <1>4

(* A request writes from the latest row to the earliest, and joins last. *)
Descends(w) ==
  /\ \A m, n \in 1..Len(todo[w]) : m < n => todo[w][m] > todo[w][n]
  /\ \A i \in Invitation : Wrote(w, i) => \A n \in 1..Len(todo[w]) : i > todo[w][n]
  /\ joining[w] => todo[w] = <<>>

Descending == \A w \in Worker : pc[w] = "writing" => Descends(w)

(* What one request does leaves the order of the others alone. *)
LEMMA OthersDescend ==
  ASSUME Descending, NEW w \in Worker, OthersStay(w), pc'[w] = "writing" => Descends(w)'
  PROVE  Descending'
<1> SUFFICES ASSUME NEW v \in Worker, pc'[v] = "writing" PROVE Descends(v)'
  BY DEF Descending
<1>1. CASE v = w
  BY <1>1
<1>2. CASE v # w
  BY <1>2 DEF Descending, Descends, OthersStay, Wrote
<1> QED
  BY <1>1, <1>2

LEMMA EndDescends ==
  ASSUME IInv, Descending, NEW w \in Worker, End(w)
  PROVE  Descending'
<1>1. Ended(w) /\ OthersStay(w)
  BY EndOf DEF IInv
<1> QED
  BY <1>1, OthersDescend DEF Ended

LEMMA JudgeDescends ==
  ASSUME IInv, Descending, NEW w \in Worker, Judge(w)
  PROVE  Descending'
<1>1. CASE Decide(w).write = {}
  BY <1>1, EndDescends DEF Judge, Rollback
<1>2. CASE Decide(w).write # {}
  <2>1. PICK s \in InOrder(Decide(w).write) : todo' = [todo EXCEPT ![w] = s]
    BY <1>2 DEF Judge
  <2>2. TypeOK /\ pc[w] = "looked" /\ kind[w] # "refuse" /\ LateStays
    BY DEF IInv, Judge, LookedAs
  <2>3. /\ \A v \in Worker \ {w} : pc'[v] = pc[v] /\ todo'[v] = todo[v]
        /\ draft' = draft /\ joining' = joining /\ todo'[w] = s
    BY <1>2, <2>1, <2>2 DEF Judge, TypeOK
  <2>4. /\ \A i \in Invitation : ~Wrote(w, i)
        /\ ~joining[w]
    BY <2>2 DEF IInv, Held, OnlyAcceptsJoin
  <2>5. \A m, n \in 1..Len(s) : m < n => s[m] > s[n]
    <3>1. Decide(w).write \in SUBSET Invitation
      BY <2>2, DecidesWell
    <3>2. s \in Seq(Invitation) /\ DOMAIN s = 1..Len(s)
      BY <3>1, OrderedRows
    <3> QED
      BY <3>2 DEF InOrder
  <2>6. Descends(w)'
    BY <2>3, <2>4, <2>5 DEF Descends, Wrote
  <2> SUFFICES ASSUME NEW v \in Worker, v # w, pc[v] = "writing" PROVE Descends(v)'
    BY <2>3, <2>6 DEF Descending
  <2> QED
    BY <2>3 DEF Descending, Descends, Wrote
<1> QED
  BY <1>1, <1>2

LEMMA WriteDescends ==
  ASSUME IInv, Descending, NEW w \in Worker, Write(w)
  PROVE  Descending'
<1> DEFINE i == Head(todo[w])
<1>1. TypeOK /\ pc[w] = "writing" /\ todo[w] # <<>> /\ todo[w] \in Seq(Invitation)
  BY DEF IInv, TypeOK, Write
<1>2. /\ i \in Invitation /\ i = todo[w][1] /\ 1 \in 1..Len(todo[w])
      /\ Len(Tail(todo[w])) = Len(todo[w]) - 1
      /\ \A n \in 1..Len(Tail(todo[w])) :
           /\ n + 1 \in 1..Len(todo[w]) /\ 1 < n + 1
           /\ Tail(todo[w])[n] = todo[w][n + 1]
  BY <1>1
<1>3. CASE Rollback(w)
  BY <1>3, EndDescends DEF Rollback
<1> DEFINE written == IF StillThere(i) THEN Written(kind[w]) ELSE draft[w][i]
<1>4. CASE /\ draft' = [draft EXCEPT ![w][i] = written]
           /\ todo' = [todo EXCEPT ![w] = Tail(@)]
           /\ UNCHANGED <<pc, joining>>
  <2> HIDE DEF i, written
  <2>1. /\ UNCHANGED <<pc, joining>>
        /\ \A v \in Worker \ {w} : draft'[v] = draft[v] /\ todo'[v] = todo[v]
        /\ \A j \in Invitation \ {i} : draft'[w][j] = draft[w][j]
        /\ todo'[w] = Tail(todo[w])
    BY <1>1, <1>2, <1>4 DEF TypeOK
  <2>2. Descends(w) /\ ~joining[w]
    BY <1>1 DEF Descending, Descends
  <2>3. \A m, n \in 1..Len(todo'[w]) : m < n => todo'[w][m] > todo'[w][n]
    <3> SUFFICES ASSUME NEW m \in 1..Len(Tail(todo[w])), NEW n \in 1..Len(Tail(todo[w])), m < n
                 PROVE  Tail(todo[w])[m] > Tail(todo[w])[n]
      BY <2>1
    <3>1. m + 1 < n + 1
      OBVIOUS
    <3> QED
      BY <1>2, <2>2, <3>1 DEF Descends
  <2>4. \A j \in Invitation : Wrote(w, j)' => \A n \in 1..Len(todo'[w]) : j > todo'[w][n]
    BY <1>2, <2>1, <2>2 DEF Descends, Wrote
  <2>5. Descends(w)'
    BY <2>1, <2>2, <2>3, <2>4 DEF Descends
  <2> SUFFICES ASSUME NEW v \in Worker, v # w, pc[v] = "writing" PROVE Descends(v)'
    BY <2>1, <2>5 DEF Descending
  <2> QED
    BY <2>1 DEF Descending, Descends, Wrote
<1> QED
  BY <1>3, <1>4 DEF Write

LEMMA StepDescends == ASSUME IInv, Descending, [Next]_vars PROVE Descending'
<1>1. CASE \/ \E i \in Invitation : Create(i) \/ Lapse(i)
           \/ \E u \in User : Leave(u)
           \/ UNCHANGED vars
  <2>1. UNCHANGED request
    BY <1>1 DEF Create, Lapse, Leave, vars
  <2> QED
    BY <2>1 DEF request, Descending, Descends, Wrote
<1>2. ASSUME NEW w \in Worker, Request(w) \/ Accept(w) PROVE Descending'
  <2>1. CASE Rollback(w)
    BY <2>1, EndDescends DEF Rollback
  <2>2. CASE ~Rollback(w)
    <3>1. UNCHANGED <<todo, draft, joining>>
      BY <1>2, <2>2 DEF Request, Get, List, Revoke, CheckMembers, Accept, Look
    <3>2. \A v \in Worker : pc'[v] = "writing" => pc[v] = "writing"
      BY <1>2, <2>2 DEF Request, Get, List, Revoke, CheckMembers, Accept, Look, IInv, TypeOK
    <3> QED
      BY <3>1, <3>2 DEF Descending, Descends, Wrote
  <2> QED
    BY <2>1, <2>2
<1>3. ASSUME NEW w \in Worker, Join(w) PROVE Descending'
  <2>1. CASE Rollback(w)
    BY <2>1, EndDescends DEF Rollback
  <2>2. CASE ~Rollback(w)
    <3>1. /\ UNCHANGED <<pc, todo, draft>> /\ todo[w] = <<>>
          /\ \A v \in Worker \ {w} : joining'[v] = joining[v]
      BY <1>3, <2>2 DEF Join, IInv, TypeOK
    <3> QED
      BY <3>1 DEF Descending, Descends, Wrote
  <2> QED
    BY <2>1, <2>2
<1>4. ASSUME NEW w \in Worker, Commit(w) \/ Refuse(w) \/ Fail(w) PROVE Descending'
  BY <1>4, EndDescends DEF Commit, Refuse, Fail, Rollback
<1> QED
  BY <1>1, <1>2, <1>3, <1>4, JudgeDescends, WriteDescends DEF Next, Step

(* If everybody of a set waits for a row, the one who waits for the        *)
(* earliest waits for somebody who is past it; and who waits for a         *)
(* membership waits for somebody who waits for nobody.                     *)
LEMMA SomebodyGoesOn ==
  ASSUME IInv, Descending PROVE NoDeadlock
<1> SUFFICES ASSUME NEW S \in SUBSET Worker, S # {},
                    \A w \in S : \E v \in S : WaitsFor(w, v)
             PROVE  FALSE
  BY DEF NoDeadlock
<1>1. TypeOK
  BY DEF IInv
<1>2. ASSUME NEW w \in S PROVE ~joining[w] /\ pc[w] = "writing"
  <2>1. PICK v \in S : WaitsFor(w, v)
    OBVIOUS
  <2>2. joining[w] => todo[w] = <<>>
    BY <2>1 DEF WaitsFor, Descending, Descends
  <2> QED
    BY <2>1, <2>2 DEF WaitsFor
<1>3. ASSUME NEW w \in S
      PROVE  /\ todo[w] \in Seq(Invitation) /\ todo[w] # <<>>
             /\ \E v \in S : Wrote(v, Head(todo[w]))
  BY <1>1, <1>2 DEF WaitsFor, Joining, TypeOK
<1> DEFINE T == {Head(todo[w]) : w \in S}
<1>4. T \in SUBSET Nat /\ T # {}
  <2>1. \A w \in S : Head(todo[w]) \in Invitation
    BY <1>3
  <2> QED
    BY <2>1 DEF Invitation
<1>5. PICK x \in T : \A y \in T : x <= y
  <2> HIDE DEF T
  <2> QED
    BY <1>4, Least
<1>6. PICK w \in S : x = Head(todo[w])
  BY <1>5
<1>7. PICK v \in S : Wrote(v, Head(todo[w]))
  BY <1>3
<1>8. Head(todo[w]) > Head(todo[v])
  <2>1. Head(todo[w]) \in Invitation /\ Head(todo[v]) = todo[v][1] /\ 1 \in 1..Len(todo[v])
    BY <1>3
  <2> QED
    BY <1>2, <1>7, <2>1 DEF Descending, Descends
<1>9. Head(todo[w]) \in Nat /\ Head(todo[v]) \in Nat /\ Head(todo[w]) <= Head(todo[v])
  BY <1>4, <1>5, <1>6
<1> QED
  BY <1>8, <1>9

(* No circle of requests waits for each other, however many there are.     *)
THEOREM NoCircleOfWaits == Spec => []NoDeadlock
<1>1. Init => Descending
  BY DEF Init, Descending
<1>2. IInv /\ Descending /\ [Next]_vars => Descending'
  BY StepDescends
<1>3. IInv /\ Descending => NoDeadlock
  BY SomebodyGoesOn
<1> QED
  BY <1>1, <1>2, <1>3, InvariantHolds, PTL DEF Spec

-----------------------------------------------------------------------------
(* Requests that do not overlap *)

(* No two requests have looked at one invitation at the same time. *)
Apart ==
  \A v, w \in Worker, i \in Invitation :
    seen[v][i] # "not seen" /\ seen[w][i] # "not seen" => v = w

(* What they saw is still so. *)
UpToDate ==
  \A w \in Worker, i \in Invitation :
    seen[w][i] # "not seen" => seen[w][i] = status[i] /\ HasRow(i)

(* A request sees what is there when it looks, and forgets at its end.     *)
LEMMA SeenChanges ==
  ASSUME IInv, [Next]_vars, NEW v \in Worker, NEW i \in Invitation
  PROVE  /\ \/ seen'[v][i] = seen[v][i]
            \/ seen'[v][i] = "not seen"
            \/ seen'[v][i] = status[i] /\ HasRow(i) /\ status' = status
         /\ Commit(v) => seen'[v][i] = "not seen"
<1>0. seen \in [Worker -> [Invitation -> Status \cup {"not seen"}]]
  BY DEF IInv, TypeOK
<1>1. ASSUME NEW w \in Worker, End(w)
      PROVE  seen'[v][i] \in {seen[v][i], "not seen"} /\ (v = w => seen'[v][i] = "not seen")
  BY <1>0, <1>1 DEF End, NotSeen
<1>2. ASSUME NEW w \in Worker, NEW k, NEW S, \A j \in S : HasRow(j), Look(w, k, S)
      PROVE  \/ seen'[v][i] \in {seen[v][i], "not seen"}
             \/ seen'[v][i] = status[i] /\ HasRow(i) /\ status' = status
  BY <1>0, <1>2 DEF Look
<1>3. ASSUME NEW w \in Worker, Request(w) \/ Accept(w)
      PROVE  \/ seen'[v][i] \in {seen[v][i], "not seen"}
             \/ seen'[v][i] = status[i] /\ HasRow(i) /\ status' = status
  <2>1. ASSUME NEW j \in Invitation, HasRow(j), NEW k, Look(w, k, {j})
        PROVE  \/ seen'[v][i] \in {seen[v][i], "not seen"}
               \/ seen'[v][i] = status[i] /\ HasRow(i) /\ status' = status
    BY <2>1, <1>2
  <2>2. CASE Get(w) \/ Revoke(w)
    BY <2>1, <2>2 DEF Get, Revoke
  <2>3. CASE List(w)
    BY <1>2, <2>3 DEF List
  <2>4. CASE CheckMembers(w)
    BY <2>4 DEF CheckMembers
  <2>5. CASE Accept(w)
    BY <1>1, <2>1, <2>5 DEF Accept, Rollback
  <2> QED
    BY <1>3, <2>2, <2>3, <2>4, <2>5 DEF Request
<1>4. ASSUME NEW w \in Worker, Judge(w) \/ Write(w) \/ Join(w) \/ Refuse(w) \/ Fail(w)
      PROVE  seen'[v][i] \in {seen[v][i], "not seen"}
  BY <1>1, <1>4 DEF Judge, Write, Join, Refuse, Fail, Rollback
<1>5. ASSUME NEW w \in Worker, Commit(w) PROVE End(w)
  BY <1>5 DEF Commit
<1>6. ASSUME \/ \E j \in Invitation : Create(j) \/ Lapse(j)
             \/ \E u \in User : Leave(u)
             \/ UNCHANGED vars
      PROVE  seen' = seen
  BY <1>6 DEF Create, Lapse, Leave, vars, request
<1>7. ASSUME NEW w \in Worker, Request(w) \/ Step(w) \/ Fail(w)
      PROVE  \/ seen'[v][i] = seen[v][i]
             \/ seen'[v][i] = "not seen"
             \/ seen'[v][i] = status[i] /\ HasRow(i) /\ status' = status
  <2>1. CASE Commit(w)
    BY <1>1, <1>5, <2>1
  <2>2. CASE Request(w) \/ Accept(w)
    BY <1>3, <2>2
  <2>3. CASE Judge(w) \/ Write(w) \/ Join(w) \/ Refuse(w) \/ Fail(w)
    BY <1>4, <2>3
  <2> QED
    BY <1>7, <2>1, <2>2, <2>3 DEF Step
<1>8. Commit(v) => seen'[v][i] = "not seen"
  BY <1>1, <1>5
<1>9. \/ seen'[v][i] = seen[v][i]
      \/ seen'[v][i] = "not seen"
      \/ seen'[v][i] = status[i] /\ HasRow(i) /\ status' = status
  BY <1>6, <1>7 DEF Next
<1> QED
  BY <1>8, <1>9

(* So nothing is overtaken. *)
LEMMA StaysUpToDate ==
  ASSUME IInv, Apart, UpToDate, [Next]_vars PROVE UpToDate'
<1> SUFFICES ASSUME NEW v \in Worker, NEW i \in Invitation, seen'[v][i] # "not seen"
             PROVE  seen'[v][i] = status'[i] /\ status'[i] \notin {"unused", "revoked"}
  BY DEF UpToDate, HasRow
<1>1. CASE seen'[v][i] = status[i] /\ HasRow(i) /\ status' = status
  BY <1>1 DEF HasRow
<1>2. CASE seen'[v][i] = seen[v][i]
  <2>1. seen[v][i] # "not seen" /\ seen[v][i] = status[i] /\ HasRow(i)
    BY <1>2 DEF UpToDate
  <2>2. ASSUME NEW w \in Worker, Commit(w), Wrote(w, i) PROVE FALSE
    <3>1. seen[w][i] # "not seen"
      BY <2>2, CommitWasChosen DEF Chosen
    <3>2. v = w
      BY <2>1, <3>1 DEF Apart
    <3> QED
      BY <2>2, <3>2, SeenChanges
  <2>3. status'[i] = status[i]
    BY <2>1, <2>2, WhoWrites DEF HasRow
  <2> QED
    BY <1>2, <2>1, <2>3 DEF HasRow
<1> QED
  BY <1>1, <1>2, SeenChanges

(* An accepted invitation is the record of one joining, for good, as long  *)
(* as no two requests look at one invitation at the same time: what the    *)
(* document says of accept_invitation, revoke_invitation and the lazy      *)
(* expiry is lost by overlapping only, however many requests there are.    *)
THEOREM AcceptedIsFinalApart == Spec /\ []Apart => AcceptedIsFinal
<1>1. Init => UpToDate
  <2> SUFFICES ASSUME Init, NEW w \in Worker, NEW i \in Invitation PROVE seen[w][i] = "not seen"
    BY DEF UpToDate
  <2> QED
    BY DEF Init, NotSeen
<1>2. IInv /\ Apart /\ UpToDate /\ [Next]_vars => UpToDate'
  BY StaysUpToDate
<1>3. ASSUME IInv, UpToDate, [Next]_vars, NEW i \in Invitation, status[i] = "accepted"
      PROVE  status'[i] = "accepted" /\ admitted'[i] = admitted[i]
  <2>1. ASSUME NEW w \in Worker, Commit(w), Wrote(w, i) PROVE FALSE
    BY <1>3, <2>1, CommitWasChosen DEF Chosen, UpToDate
  <2> QED
    BY <1>3, <2>1, WhoWrites
<1>4. IInv /\ UpToDate /\ [Next]_vars =>
        [\A i \in Invitation :
           status[i] = "accepted" => status'[i] = "accepted" /\ admitted'[i] = admitted[i]]_vars
  BY <1>3
<1> QED
  BY <1>1, <1>2, <1>4, InvariantHolds, PTL DEF Spec, AcceptedIsFinal

=============================================================================
