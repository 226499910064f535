--------------------------- MODULE Sessions_proofs ---------------------------
(***************************************************************************)
(* Proofs about the sessions, for any tokens and any number of workers.    *)
(***************************************************************************)
EXTENDS Sessions, TLAPS

(* A worker before its UPDATE has issued nothing; an idle one has no token.*)
Shape ==
  \A w \in Worker :
    /\ pc[w] = "idle" => used[w] = NoToken
    /\ pc[w] \in {"looked", "asked"} => used[w] \in Token
    /\ pc[w] \in {"idle", "looked", "asked"} => new[w] = NoToken

(* No two requests have written one row. *)
Exclusive ==
  \A v, w \in Worker : \A t \in Token : Locks(v, t) /\ Locks(w, t) => v = w

(* A token being issued has no row and one issuer. *)
NewIsNew ==
  \A w \in Worker : new[w] \in Token =>
    /\ row[new[w]] = "none"
    /\ \A v \in Worker : new[v] = new[w] => v = w

(* A token being used has a row, and a live one if a refresh has taken it. *)
UsedIsThere ==
  \A w \in Worker : used[w] \in Token =>
    /\ row[used[w]] # "none"
    /\ new[w] \in Token => row[used[w]] = "live"

(* What became of a revoked token, and of no other. *)
Accounted ==
  \A t \in Token :
    /\ t \in loggedOut => row[t] = "revoked"
    /\ row[t] # "revoked" => next[t] = NoToken
    /\ next[t] \in Token => row[next[t]] # "none"
    /\ row[t] = "revoked" => t \in loggedOut \/ next[t] \in Token

Inv == TypeOK /\ Shape /\ Exclusive /\ NewIsNew /\ UsedIsThere /\ Accounted

USE SessionsAssumption

-----------------------------------------------------------------------------
(* Nothing holds before the first request that would not hold later. *)
LEMMA InitInv == Init => Inv
BY DEF Init, Inv, TypeOK, Shape, Exclusive, NewIsNew, UsedIsThere, Accounted, Locks

(* A request that is rolled back leaves the table and frees its row. *)
LEMMA RollbackInv == ASSUME NEW w \in Worker, Inv, Rollback(w) PROVE Inv'
<1> USE DEF Inv, Rollback, End, table
<1>1. TypeOK'
  BY DEF TypeOK
<1>2. Shape' /\ Exclusive'
  BY DEF TypeOK, Shape, Exclusive, Locks
<1>3. NewIsNew' /\ UsedIsThere'
  BY DEF TypeOK, NewIsNew, UsedIsThere
<1>4. Accounted'
  BY DEF Accounted
<1> QED BY <1>1, <1>2, <1>3, <1>4

(* Steps that leave the table and the tokens of the requests alone. *)
LEMMA QuietInv ==
  ASSUME NEW w \in Worker, Inv, UNCHANGED <<used, new, table>>,
         expired' \subseteq Token, held' \subseteq Token,
         \/ UNCHANGED pc
         \/ pc[w] = "looked" /\ pc' = [pc EXCEPT ![w] = "asked"]
         \/ pc[w] = "done" /\ pc' = [pc EXCEPT ![w] = "answered"]
  PROVE  Inv'
<1> USE DEF Inv, table
<1>1. TypeOK'
  BY DEF TypeOK
<1>2. Shape' /\ Exclusive'
  BY DEF TypeOK, Shape, Exclusive, Locks
<1>3. NewIsNew' /\ UsedIsThere' /\ Accounted'
  BY DEF NewIsNew, UsedIsThere, Accounted
<1> QED BY <1>1, <1>2, <1>3

(* A token is issued by a request that has not issued one, and that has    *)
(* used none or holds a live row nobody else has written.                  *)
LEMMA IssueInv ==
  ASSUME NEW w \in Worker, NEW t \in Token, Inv, Fresh(t),
         pc[w] \in {"idle", "asked"},
         pc[w] = "asked" => /\ row[used[w]] = "live"
                            /\ \A v \in Worker \ {w} : ~Locks(v, used[w]),
         new' = [new EXCEPT ![w] = t], pc' = [pc EXCEPT ![w] = "done"],
         UNCHANGED <<expired, held, used, table>>
  PROVE  Inv'
<1> USE DEF Inv, table
<1>1. TypeOK'
  BY DEF TypeOK
<1>2. Shape'
  BY DEF TypeOK, Shape
<1>3. used[w] = NoToken \/ pc[w] = "asked"
  BY DEF Shape
<1>4. Exclusive'
  BY <1>3 DEF TypeOK, Exclusive, Locks
<1>5. NewIsNew'
  BY DEF TypeOK, NewIsNew, Fresh
<1>6. UsedIsThere'
  BY <1>3 DEF TypeOK, UsedIsThere
<1>7. Accounted'
  BY DEF Accounted
<1> QED BY <1>1, <1>2, <1>4, <1>5, <1>6, <1>7

(* A refresh has found its token live. *)
LEMMA LookUpInv == ASSUME NEW w \in Worker, Inv, LookUp(w) PROVE Inv'
<1> USE DEF Inv, LookUp, table
<1>1. PICK t \in held : row[t] = "live" /\ used' = [used EXCEPT ![w] = t]
  OBVIOUS
<1>2. t \in Token
  BY DEF TypeOK
<1>3. new[w] = NoToken
  BY DEF Shape
<1>4. TypeOK'
  BY <1>1, <1>2 DEF TypeOK
<1>5. Shape'
  BY <1>1, <1>2 DEF TypeOK, Shape
<1>6. Exclusive'
  BY <1>1 DEF TypeOK, Exclusive, Locks
<1>7. NewIsNew' /\ UsedIsThere' /\ Accounted'
  BY <1>1, <1>2, <1>3 DEF TypeOK, NewIsNew, UsedIsThere, Accounted
<1> QED BY <1>4, <1>5, <1>6, <1>7

(* A log-out takes a row nobody else has written, or none. *)
LEMMA LogoutInv == ASSUME NEW w \in Worker, Inv, Logout(w) PROVE Inv'
<1> USE DEF Inv, Logout, table
<1>1. PICK t \in held :
         /\ \A v \in Worker : ~Locks(v, t)
         /\ used' = [used EXCEPT ![w] = IF row[t] = "none" THEN NoToken ELSE t]
  OBVIOUS
<1>2. t \in Token
  BY DEF TypeOK
<1>3. new[w] = NoToken
  BY DEF Shape
<1>4. TypeOK'
  BY <1>1, <1>2 DEF TypeOK
<1>5. Shape'
  BY <1>1, <1>3 DEF TypeOK, Shape
<1>6. Exclusive'
  BY <1>1 DEF TypeOK, Exclusive, Locks
<1>7. NewIsNew' /\ UsedIsThere' /\ Accounted'
  BY <1>1, <1>2, <1>3 DEF TypeOK, NewIsNew, UsedIsThere, Accounted
<1> QED BY <1>4, <1>5, <1>6, <1>7

-----------------------------------------------------------------------------
(* The commit *)

(* Which rows a commit changes, and that only it may. *)
LEMMA CommitRows ==
  ASSUME NEW w \in Worker, Inv, Commit(w)
  PROVE  /\ \A t \in Token : row'[t] = IF t = used[w] THEN "revoked"
                                       ELSE IF t = new[w] THEN "live" ELSE row[t]
         /\ \A t \in Token : next'[t] = IF t = used[w] /\ new[w] # NoToken THEN new[w]
                                        ELSE next[t]
         /\ loggedOut' = IF used[w] # NoToken /\ new[w] = NoToken
                         THEN loggedOut \cup {used[w]} ELSE loggedOut
         /\ \A v \in Worker \ {w} : /\ used'[v] = used[v] /\ new'[v] = new[v]
                                    /\ pc'[v] = pc[v]
         /\ used'[w] = NoToken /\ new'[w] = NoToken /\ pc'[w] = "idle"
         /\ pc[w] = "answered"
         /\ used[w] \in Token => Locks(w, used[w]) /\ row[used[w]] # "none"
         /\ used[w] \in Token /\ new[w] \in Token => row[used[w]] = "live"
         /\ new[w] \in Token => row[new[w]] = "none"
         /\ used[w] \in Token \cup {NoToken} /\ new[w] \in Token \cup {NoToken}
BY DEF Inv, TypeOK, UsedIsThere, NewIsNew, Commit, Rows, End, Locks

LEMMA CommitType == ASSUME NEW w \in Worker, Inv, Commit(w) PROVE TypeOK'
BY DEF Inv, TypeOK, Commit, Rows, End

LEMMA CommitInv == ASSUME NEW w \in Worker, Inv, Commit(w) PROVE Inv'
<1>1. TypeOK'
  BY CommitType
<1>2. Shape'
  BY CommitRows DEF Inv, Shape
<1>3. Exclusive'
  BY CommitRows DEF Inv, Exclusive, Locks
<1>4. NewIsNew'
  <2> SUFFICES ASSUME NEW v \in Worker, new'[v] \in Token
               PROVE  /\ row'[new'[v]] = "none"
                      /\ \A u \in Worker : new'[u] = new'[v] => u = v
    BY DEF NewIsNew
  <2>1. v # w /\ new'[v] = new[v] /\ new[v] # new[w]
    BY CommitRows DEF Inv, NewIsNew
  <2>2. row[new[v]] = "none" /\ new[v] # used[w]
    BY <2>1, CommitRows DEF Inv, NewIsNew
  <2> QED BY <2>1, <2>2, CommitRows DEF Inv, NewIsNew
<1>5. UsedIsThere'
  <2> SUFFICES ASSUME NEW v \in Worker, used'[v] \in Token
               PROVE  /\ row'[used'[v]] # "none"
                      /\ new'[v] \in Token => row'[used'[v]] = "live"
    BY DEF UsedIsThere
  <2>1. v # w /\ used'[v] = used[v] /\ new'[v] = new[v] /\ row[used[v]] # "none"
    BY CommitRows DEF Inv, UsedIsThere
  <2>2. row'[used[v]] # "none"
    BY <2>1, CommitRows
  <2>3. ASSUME new[v] \in Token PROVE row'[used[v]] = "live"
    <3>1. pc[v] \in {"done", "answered"} /\ row[used[v]] = "live"
      BY <2>1, <2>3 DEF Inv, TypeOK, Shape, UsedIsThere
    <3>2. Locks(v, used[v])
      BY <3>1 DEF Locks
    <3>3. used[v] # used[w]
      BY <2>1, <3>2, CommitRows DEF Inv, Exclusive
    <3> QED BY <2>1, <3>1, <3>3, CommitRows
  <2> QED BY <2>1, <2>2, <2>3
<1>6. Accounted'
  <2> SUFFICES ASSUME NEW t \in Token
               PROVE  /\ t \in loggedOut' => row'[t] = "revoked"
                      /\ row'[t] # "revoked" => next'[t] = NoToken
                      /\ next'[t] \in Token => row'[next'[t]] # "none"
                      /\ row'[t] = "revoked" => t \in loggedOut' \/ next'[t] \in Token
    BY DEF Accounted
  <2>1. /\ t \in loggedOut => row[t] = "revoked"
        /\ row[t] # "revoked" => next[t] = NoToken
        /\ next[t] \in Token => row[next[t]] # "none"
        /\ row[t] = "revoked" => t \in loggedOut \/ next[t] \in Token
    BY DEF Inv, Accounted
  <2>2. next'[t] \in Token => row'[next'[t]] # "none"
    <3>1. \A s \in Token : row[s] # "none" \/ s = new[w] => row'[s] # "none"
      BY CommitRows
    <3> QED BY <2>1, <3>1, CommitRows
  <2>3. CASE t = used[w]
    BY <2>1, <2>2, <2>3, CommitRows
  <2>4. CASE t # used[w]
    BY <2>1, <2>2, <2>4, CommitRows
  <2> QED BY <2>3, <2>4
<1> QED BY <1>1, <1>2, <1>3, <1>4, <1>5, <1>6 DEF Inv

-----------------------------------------------------------------------------
LEMMA NextInv == ASSUME Inv, [Next]_vars PROVE Inv'
<1>1. CASE UNCHANGED vars
  BY <1>1 DEF Inv, vars, TypeOK, Shape, Exclusive, NewIsNew, UsedIsThere, Accounted, Locks
<1>2. ASSUME NEW t \in Token, Expire(t) PROVE Inv'
  <2>1. UNCHANGED <<pc, used, new, held, row, next, loggedOut>> /\ expired' \subseteq Token
    BY <1>2 DEF Expire, request, table, Inv, TypeOK
  <2> QED
    BY <2>1 DEF Inv, TypeOK, Shape, Exclusive, NewIsNew, UsedIsThere, Accounted, Locks
<1>3. ASSUME NEW w \in Worker, Grant(w) PROVE Inv'
  BY <1>3, IssueInv DEF Grant
<1>4. ASSUME NEW w \in Worker, LookUp(w) PROVE Inv'
  BY <1>4, LookUpInv
<1>5. ASSUME NEW w \in Worker, Logout(w) PROVE Inv'
  BY <1>5, LogoutInv
<1>6. ASSUME NEW w \in Worker, Ask(w) PROVE Inv'
  <2>1. expired \subseteq Token /\ held \subseteq Token
    BY DEF Inv, TypeOK
  <2> QED BY <1>6, <2>1, QuietInv, RollbackInv DEF Ask
<1>7. ASSUME NEW w \in Worker, Consume(w) PROVE Inv'
  <2>1. row[used[w]] = "live" /\ \A v \in Worker \ {w} : ~Locks(v, used[w])
    BY <1>7 DEF Consume, Outcome
  <2> QED BY <1>7, <2>1, IssueInv DEF Consume
<1>8. ASSUME NEW w \in Worker, Refuse(w) \/ Fail(w) PROVE Inv'
  BY <1>8, RollbackInv DEF Refuse, Fail
<1>9. ASSUME NEW w \in Worker, Answer(w) PROVE Inv'
  <2>1. held' \subseteq Token /\ expired' \subseteq Token
    BY <1>9 DEF Answer, Inv, TypeOK
  <2> QED BY <1>9, <2>1, QuietInv DEF Answer
<1>10. ASSUME NEW w \in Worker, Commit(w) PROVE Inv'
  BY <1>10, CommitInv
<1>11. CASE Next
  <2>1. CASE \E t \in Token : Expire(t)
    BY <2>1, <1>2
  <2>2. CASE \E w \in Worker : \/ Grant(w) \/ LookUp(w) \/ Logout(w) \/ Step(w)
                               \/ Fail(w)
    BY <2>2, <1>3, <1>4, <1>5, <1>6, <1>7, <1>8, <1>9, <1>10 DEF Step
  <2> QED BY <1>11, <2>1, <2>2 DEF Next
<1> QED BY <1>1, <1>11

LEMMA AlwaysInv == Spec => []Inv
BY InitInv, NextInv, PTL DEF Spec

(* The rows and what requests know of them keep their types. *)
THEOREM TypeCorrect == Spec => []TypeOK
<1>1. Inv => TypeOK
  BY DEF Inv
<1> QED BY <1>1, AlwaysInv, PTL

(* A token is revoked only for its successor or by a log-out. *)
THEOREM NothingEaten == Spec => []RotationKeepsSession
<1>1. Inv => RotationKeepsSession
  BY DEF Inv, Accounted, RotationKeepsSession
<1> QED BY <1>1, AlwaysInv, PTL

-----------------------------------------------------------------------------
(* Steps that are not commits leave the table alone. *)
LEMMA OnlyCommits ==
  ASSUME [Next]_vars, \A w \in Worker : ~Commit(w) PROVE UNCHANGED table
BY DEF Next, Step, vars, table, Expire, Grant, LookUp, Logout, Ask, Consume, Refuse,
       Answer, Fail, Rollback

(* A log-out ends what can be bought with a token. *)
THEOREM LogoutEnds == Spec => LogoutIsFinal
<1> DEFINE Final == \A t \in loggedOut : row'[t] = "revoked" /\ next'[t] = next[t]
<1>1. ASSUME Inv, [Next]_vars PROVE Final
  <2> SUFFICES ASSUME NEW t \in loggedOut
               PROVE  row'[t] = "revoked" /\ next'[t] = next[t]
    OBVIOUS
  <2>1. t \in Token /\ row[t] = "revoked"
    BY <1>1 DEF Inv, TypeOK, Accounted
  <2>2. CASE \A w \in Worker : ~Commit(w)
    BY <1>1, <2>1, <2>2, OnlyCommits DEF table
  <2>3. ASSUME NEW w \in Worker, Commit(w) PROVE row'[t] = "revoked" /\ next'[t] = next[t]
    BY <1>1, <2>1, <2>3, CommitRows
  <2> QED BY <2>2, <2>3
<1>2. Inv /\ [Next]_vars => [Final]_vars
  BY <1>1
<1> QED BY <1>2, AlwaysInv, PTL DEF Spec, LogoutIsFinal

(* A refresh is refused for a reason that has been committed. *)
THEOREM RefusalHasCause == Spec => RefusedForCause
<1> DEFINE Cause == \A w \in Worker : Ask(w) \/ Refuse(w) =>
                      \/ pc'[w] = "asked"
                      \/ used[w] \in expired \cup loggedOut
                      \/ next[used[w]] \in Token
<1>1. ASSUME Inv PROVE Cause
  <2> SUFFICES ASSUME NEW w \in Worker, Ask(w) \/ Refuse(w)
               PROVE  \/ pc'[w] = "asked"
                      \/ used[w] \in expired \cup loggedOut
                      \/ next[used[w]] \in Token
    OBVIOUS
  <2>1. CASE Ask(w)
    BY <1>1, <2>1 DEF Ask, Inv, TypeOK
  <2>2. CASE Refuse(w)
    <3>1. used[w] \in Token /\ row[used[w]] # "live"
      BY <1>1, <2>2 DEF Refuse, Outcome, Inv, Shape
    <3>2. row[used[w]] = "revoked"
      BY <1>1, <3>1 DEF Inv, TypeOK, UsedIsThere
    <3> QED BY <1>1, <3>1, <3>2 DEF Inv, Accounted
  <2> QED BY <2>1, <2>2
<1>2. Inv /\ [Next]_vars => [Cause]_vars
  BY <1>1
<1> QED BY <1>2, AlwaysInv, PTL DEF Spec, RefusedForCause

-----------------------------------------------------------------------------
(* Rotation implements the chain of tokens *)

(* A commit is a grant, an exchange, a revocation or nothing. *)
LEMMA CommitRefines ==
  ASSUME NEW w \in Worker, Inv, Commit(w) PROVE [Chain!Next]_(Chain!vars)
<1> DEFINE u == used[w]
           n == new[w]
<1>1. /\ u \in Token \cup {NoToken} /\ n \in Token \cup {NoToken}
      /\ \A t \in Token : row'[t] = IF t = u THEN "revoked"
                                    ELSE IF t = n THEN "live" ELSE row[t]
      /\ u \in Token => row[u] # "none"
      /\ u \in Token /\ n \in Token => row[u] = "live"
      /\ n \in Token => row[n] = "none"
  BY CommitRows
<1>2. next' = [t \in Token |-> IF t = u /\ n # NoToken THEN n ELSE next[t]]
  BY DEF Commit
<1>3. next = [t \in Token |-> next[t]] /\ (u \in Token /\ n \in Token => next[u] = NoToken)
  BY <1>1 DEF Inv, TypeOK, Accounted
<1> HIDE DEF u, n
<1>4. CASE u = NoToken /\ n = NoToken
  <2>1. \A t \in Token : row'[t] = row[t]
    BY <1>1, <1>4
  <2>2. next' = next
    BY <1>2, <1>3, <1>4
  <2> QED BY <2>1, <2>2 DEF Chain!vars, Alive, Known
<1>5. CASE u = NoToken /\ n \in Token
  <2>1. next' = next
    BY <1>2, <1>3, <1>5
  <2>2. Alive' = Alive \cup {n} /\ Known' = Known \cup {n} /\ n \notin Known
    BY <1>1, <1>5 DEF Alive, Known
  <2>3. Chain!Grant(n)
    BY <2>1, <2>2 DEF Chain!Grant
  <2> QED BY <1>5, <2>3 DEF Chain!Next
<1>6. CASE u \in Token /\ n = NoToken
  <2>1. next' = next
    BY <1>2, <1>3, <1>6
  <2>2. Alive' = Alive \ {u} /\ Known' = Known
    BY <1>1, <1>6 DEF Alive, Known
  <2>3. CASE u \in Alive
    <3>1. Chain!Revoke(u)
      BY <2>1, <2>2, <2>3 DEF Chain!Revoke
    <3> QED BY <1>6, <3>1 DEF Chain!Next
  <2>4. CASE u \notin Alive
    BY <2>1, <2>2, <2>4 DEF Chain!vars
  <2> QED BY <2>3, <2>4
<1>7. CASE u \in Token /\ n \in Token
  <2>1. next' = [next EXCEPT ![u] = n]
    BY <1>2, <1>3, <1>7
  <2>2. u \in Alive /\ n \notin Known /\ u # n
    BY <1>1, <1>7 DEF Alive, Known
  <2>3. Alive' = (Alive \ {u}) \cup {n}
    BY <1>1, <1>7, <2>2 DEF Alive
  <2>4. Known' = Known \cup {n}
    BY <1>1, <1>7, <2>2 DEF Known
  <2>5. Chain!Exchange(u, n)
    BY <1>3, <1>7, <2>1, <2>2, <2>3, <2>4 DEF Chain!Exchange
  <2> QED BY <1>7, <2>5 DEF Chain!Next
<1> QED BY <1>1, <1>4, <1>5, <1>6, <1>7

(* Every behaviour of the service is one of a chain of tokens. *)
THEOREM ImplementsTokenChain == Spec => IsTokenChain
<1>1. Init => Chain!Init
  BY DEF Init, Chain!Init, Alive, Known
<1>2. ASSUME Inv, [Next]_vars PROVE [Chain!Next]_(Chain!vars)
  <2>1. CASE \A w \in Worker : ~Commit(w)
    BY <1>2, <2>1, OnlyCommits DEF table, Chain!vars, Alive, Known
  <2>2. ASSUME NEW w \in Worker, Commit(w) PROVE [Chain!Next]_(Chain!vars)
    BY <1>2, <2>2, CommitRefines
  <2> QED BY <2>1, <2>2
<1> QED BY <1>1, <1>2, AlwaysInv, PTL DEF Spec, IsTokenChain, Chain!Spec

=============================================================================
