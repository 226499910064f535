------------------------------ MODULE Sessions ------------------------------
(***************************************************************************)
(* The table sessions: one row for each refresh token. A log-in or a       *)
(* registration adds one; a refresh reads the row of the token it is shown,*)
(* consumes it by a conditional UPDATE and adds another; a log-out revokes *)
(* the row whatever its state. The answer, with the new token in a cookie, *)
(* is sent before the transaction commits, so a client may show a token of *)
(* which the table knows nothing yet, or never will.                       *)
(***************************************************************************)
EXTENDS Naturals

CONSTANTS
  Token,      (* every refresh token there may ever be (its jti is unique) *)
  NoToken,    (* none                                                      *)
  Worker      (* threads that serve requests, one after another            *)

ASSUME SessionsAssumption == NoToken \notin Token

VARIABLES
  row,        (* the rows of the table: "none", "live" or "revoked"        *)
  expired,    (* tokens past expires_at                                    *)
  held,       (* tokens some answer has carried to a client                *)
  pc,         (* how far the request of each worker is                     *)
  used,       (* the token it consumes or revokes                          *)
  new,        (* the token it issues                                       *)
  next,       (* history: what a token was exchanged for                   *)
  loggedOut   (* history: tokens whose row a log-out has revoked           *)

request == <<pc, used, new>>
table   == <<row, next, loggedOut>>
vars    == <<row, expired, held, pc, used, new, next, loggedOut>>

Init ==
  /\ row = [t \in Token |-> "none"]
  /\ expired = {} /\ held = {} /\ loggedOut = {}
  /\ next = [t \in Token |-> NoToken]
  /\ pc = [w \in Worker |-> "idle"]
  /\ used = [w \in Worker |-> NoToken]
  /\ new = [w \in Worker |-> NoToken]

-----------------------------------------------------------------------------
(* Seven days after it was issued. *)
Expire(t) ==
  /\ row[t] # "none" /\ t \notin expired
  /\ expired' = expired \cup {t}
  /\ UNCHANGED <<held, request, table>>

(* The end of a request, and of a transaction that is rolled back. *)
End(w) ==
  /\ pc' = [pc EXCEPT ![w] = "idle"]
  /\ used' = [used EXCEPT ![w] = NoToken]
  /\ new' = [new EXCEPT ![w] = NoToken]
  /\ UNCHANGED <<expired, held>>

Rollback(w) == End(w) /\ UNCHANGED table

(* A token nobody has been issued. *)
Fresh(t) == row[t] = "none" /\ t \notin held /\ \A v \in Worker : new[v] # t

(* A log-in with the right password, or a registration. The session is     *)
(* added, and written by the flush of the commit.                          *)
Grant(w) ==
  /\ pc[w] = "idle"
  /\ \E t \in Token : Fresh(t) /\ new' = [new EXCEPT ![w] = t]
  /\ pc' = [pc EXCEPT ![w] = "done"]
  /\ UNCHANGED <<expired, held, used, table>>

-----------------------------------------------------------------------------
(* A refresh *)

(* It finds the row of its token, neither revoked nor past its date, or    *)
(* else it is refused at once.                                             *)
LookUp(w) ==
  /\ pc[w] = "idle"
  /\ \E t \in held :
       /\ row[t] = "live" /\ t \notin expired
       /\ used' = [used EXCEPT ![w] = t]
  /\ pc' = [pc EXCEPT ![w] = "looked"]
  /\ UNCHANGED <<expired, held, new, table>>

(* The UPDATE goes by the clock as it is when it is sent. *)
Ask(w) ==
  /\ pc[w] = "looked"
  /\ IF used[w] \in expired
     THEN Rollback(w)
     ELSE pc' = [pc EXCEPT ![w] = "asked"] /\ UNCHANGED <<expired, held, used, new, table>>

(* An uncommitted UPDATE of the row of t. *)
Locks(w, t) == used[w] = t /\ pc[w] \in {"done", "answered"}

(* Faulty variant: a row that is locked is skipped. *)
SkipLocked(w) ==
  IF \E v \in Worker \ {w} : Locks(v, used[w]) THEN "refused"
  ELSE IF row[used[w]] = "live" THEN "consumed" ELSE "refused"

(* Faulty variant: the row is not locked. *)
ConsumeUnlocked(w) == IF row[used[w]] = "live" THEN "consumed" ELSE "refused"

(* consume_active_session_by_refresh_token_hash: it waits for the lock of  *)
(* the row, then takes it if it is still live, or finds zero rows.         *)
Outcome(w) ==
  IF \E v \in Worker \ {w} : Locks(v, used[w]) THEN "wait"
  ELSE IF row[used[w]] = "live" THEN "consumed" ELSE "refused"

(* The new token is issued in the same transaction. *)
Consume(w) ==
  /\ pc[w] = "asked" /\ Outcome(w) = "consumed"
  /\ \E t \in Token : Fresh(t) /\ new' = [new EXCEPT ![w] = t]
  /\ pc' = [pc EXCEPT ![w] = "done"]
  /\ UNCHANGED <<expired, held, used, table>>

(* Another request was faster: 401. *)
Refuse(w) == pc[w] = "asked" /\ Outcome(w) = "refused" /\ Rollback(w)

-----------------------------------------------------------------------------
(* A log-out: the UPDATE waits for the row, has no condition, and may find *)
(* no row at all.                                                          *)
Logout(w) ==
  /\ pc[w] = "idle"
  /\ \E t \in held :
       /\ \A v \in Worker : ~Locks(v, t)
       /\ used' = [used EXCEPT ![w] = IF row[t] = "none" THEN NoToken ELSE t]
  /\ pc' = [pc EXCEPT ![w] = "done"]
  /\ UNCHANGED <<expired, held, new, table>>

-----------------------------------------------------------------------------
(* The answer, then the commit *)

Answer(w) ==
  /\ pc[w] = "done"
  /\ held' = IF new[w] = NoToken THEN held ELSE held \cup {new[w]}
  /\ pc' = [pc EXCEPT ![w] = "answered"]
  /\ UNCHANGED <<expired, used, new, table>>

(* Faulty variant: a refresh adds no session. *)
RowsWithoutNew(w) ==
  [t \in Token |-> IF t = used[w] THEN "revoked"
                   ELSE IF t = new[w] /\ used[w] = NoToken THEN "live" ELSE row[t]]

(* The rows as its statements leave them. *)
Rows(w) ==
  [t \in Token |-> IF t = used[w] THEN "revoked" ELSE IF t = new[w] THEN "live"
                   ELSE row[t]]

Commit(w) ==
  /\ pc[w] = "answered"
  /\ row' = Rows(w)
  /\ next' = [t \in Token |-> IF t = used[w] /\ new[w] # NoToken THEN new[w] ELSE next[t]]
  /\ loggedOut' = IF used[w] # NoToken /\ new[w] = NoToken THEN loggedOut \cup {used[w]}
                  ELSE loggedOut
  /\ End(w)

(* Any error, at any time: the commit itself may fail. *)
Fail(w) == pc[w] # "idle" /\ Rollback(w)

-----------------------------------------------------------------------------
Step(w) == Ask(w) \/ Consume(w) \/ Refuse(w) \/ Answer(w) \/ Commit(w)

Next ==
  \/ \E t \in Token : Expire(t)
  \/ \E w \in Worker : Grant(w) \/ LookUp(w) \/ Logout(w) \/ Step(w) \/ Fail(w)

Spec == Init /\ [][Next]_vars

-----------------------------------------------------------------------------
(* Properties *)

(* Type invariant. *)
TypeOK ==
  /\ row \in [Token -> {"none", "live", "revoked"}]
  /\ expired \subseteq Token /\ held \subseteq Token /\ loggedOut \subseteq Token
  /\ pc \in [Worker -> {"idle", "looked", "asked", "done", "answered"}]
  /\ used \in [Worker -> Token \cup {NoToken}] /\ new \in [Worker -> Token \cup {NoToken}]
  /\ next \in [Token -> Token \cup {NoToken}]

Alive == {t \in Token : row[t] = "live"}
Known == {t \in Token : row[t] # "none"}

Chain == INSTANCE TokenChain WITH Token <- Token, NoToken <- NoToken, alive <- Alive,
                                  granted <- Known, next <- next

(***************************************************************************)
(* Read, conditional UPDATE, insertion, answer and commit come down to one *)
(* exchange: of the requests that show one token at once, and of those that*)
(* fail half-way, at most one leaves a successor.                          *)
(***************************************************************************)
IsTokenChain == Chain!Spec

(***************************************************************************)
(* A rotation never eats a session: a token is revoked only together with  *)
(* the arrival of its successor, or because its client logged out.         *)
(***************************************************************************)
RotationKeepsSession ==
  \A t \in Token : row[t] = "revoked" =>
    \/ t \in loggedOut
    \/ next[t] \in Token /\ row[next[t]] # "none"

(***************************************************************************)
(* Once a log-out that found the row has committed, its token gets no      *)
(* successor any more, not even by a refresh that read the row before.     *)
(***************************************************************************)
LogoutIsFinal ==
  [][\A t \in loggedOut : row'[t] = "revoked" /\ next'[t] = next[t]]_vars

(***************************************************************************)
(* A refresh that found its token good is refused only if the token was    *)
(* exchanged or logged out meanwhile by a request that has committed, or   *)
(* has expired; a rival that fails does not cost the client his session.   *)
(***************************************************************************)
RefusedForCause ==
  [][\A w \in Worker : Ask(w) \/ Refuse(w) =>
       \/ pc'[w] = "asked"
       \/ used[w] \in expired \cup loggedOut
       \/ next[used[w]] \in Token]_vars

=============================================================================
