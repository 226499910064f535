------------------------------- MODULE Users -------------------------------
(***************************************************************************)
(* Users, their e-mails and their passwords. A request looks at the tables *)
(* by plain SELECTs and writes later: a registration and a change of e-mail*)
(* rely on the unique index for what they could not see, and a change of   *)
(* password goes by the password it has read. No user is ever deleted.     *)
(***************************************************************************)
EXTENDS Naturals, FiniteSets

CONSTANTS
  User,       (* every user there may ever be                              *)
  Email,      (* e-mails, as normalised by the schema of the request       *)
  Password,   (* what the hashes of passwords stand for                    *)
  None,       (* no user, no e-mail or no password                         *)
  Worker      (* threads that serve requests, one after another            *)

(* None is none of the others. *)

VARIABLES
  email,      (* users.email of the committed rows, None for no row        *)
  password,   (* auth_providers.password_hash of the local provider        *)
  pc,         (* how far the request of each worker is                     *)
  user,       (* the user it is about                                      *)
  toEmail,    (* the e-mail it writes, if any                              *)
  proved,     (* the password it has verified                              *)
  toPassword, (* the password it writes, if any                            *)
  overtaken   (* history: that user's password has changed since it looked *)

tables == <<email, password>>
data   == <<user, toEmail, proved, toPassword, overtaken>>
vars   == <<email, password, pc, user, toEmail, proved, toPassword, overtaken>>

Init ==
  /\ email = [u \in User |-> None]
  /\ password = [u \in User |-> None]
  /\ pc = [w \in Worker |-> "idle"]
  /\ user = [w \in Worker |-> None]
  /\ toEmail = [w \in Worker |-> None]
  /\ proved = [w \in Worker |-> None]
  /\ toPassword = [w \in Worker |-> None]
  /\ overtaken = [w \in Worker |-> FALSE]

Registered == {u \in User : email[u] # None}

Holders(e) == {u \in User : email[u] = e}

-----------------------------------------------------------------------------
(* Requests *)

Begin(w, next, u, e, old, p) ==
  /\ pc[w] = "idle"
  /\ pc' = [pc EXCEPT ![w] = next]
  /\ user' = [user EXCEPT ![w] = u]
  /\ toEmail' = [toEmail EXCEPT ![w] = e]
  /\ proved' = [proved EXCEPT ![w] = old]
  /\ toPassword' = [toPassword EXCEPT ![w] = p]
  /\ UNCHANGED <<tables, overtaken>>

End(w) ==
  /\ pc' = [pc EXCEPT ![w] = "idle"]
  /\ user' = [user EXCEPT ![w] = None]
  /\ toEmail' = [toEmail EXCEPT ![w] = None]
  /\ proved' = [proved EXCEPT ![w] = None]
  /\ toPassword' = [toPassword EXCEPT ![w] = None]

Rollback(w) ==
  End(w) /\ overtaken' = [overtaken EXCEPT ![w] = FALSE] /\ UNCHANGED tables

GoOn(w, next) == pc' = [pc EXCEPT ![w] = next] /\ UNCHANGED <<tables, data>>

(* A registration that finds the e-mail free, with a row of its own. *)
Register(w) ==
  \E u \in User \ Registered, e \in Email, p \in Password :
    /\ Holders(e) = {} /\ \A v \in Worker : user[v] # u
    /\ Begin(w, "insert", u, e, None, p)

(* PATCH /me with an e-mail that is free, or the user's own. *)
ChangeEmail(w) ==
  \E u \in Registered, e \in Email :
    Holders(e) \subseteq {u} /\ Begin(w, "update", u, e, None, None)

(* PATCH /me with a name alone: the row is written, the e-mail is not. *)
Rename(w) == \E u \in Registered : Begin(w, "write", u, None, None, None)

(* Faulty variant: any password is taken for the current one. *)
ChangeUnverified(w) ==
  \E u \in Registered, old, p \in Password : Begin(w, "write", u, None, old, p)

(* PATCH /auth/change_password: _verify_local_password lets only the       *)
(* current password pass.                                                  *)
ChangePassword(w) ==
  \E u \in Registered, p \in Password : Begin(w, "write", u, None, password[u], p)

-----------------------------------------------------------------------------
(* Statements *)

Wrote(v) == pc[v] \in {"hash", "done"}

(* PATCH /me locks a row of users, a change of password one of             *)
(* auth_providers.                                                         *)
Locked(w) ==
  \E v \in Worker \ {w} :
    Wrote(v) /\ user[v] = user[w] /\ (proved[v] = None) = (proved[w] = None)

(* Uncommitted entries of the unique index, removed and added. *)
Changing(v, e) ==
  Wrote(v) /\ toEmail[v] # None /\ e \in {toEmail[v], email[user[v]]}

(* Faulty variant: an index that is not unique until the commit. *)
NeverWaits(w) == TRUE

(* Whoever enters an e-mail waits for those who are changing the same one. *)
IndexFree(w) == \A v \in Worker \ {w} : ~Changing(v, toEmail[w])

Taken(w) == Holders(toEmail[w]) \ {user[w]} # {}

(* The flush of a new user. The hash of the password is computed while the *)
(* entry of the index is held.                                             *)
Insert(w) == pc[w] = "insert" /\ IndexFree(w) /\ ~Taken(w) /\ GoOn(w, "hash")

Hash(w) == pc[w] = "hash" /\ GoOn(w, "done")

(* An e-mail that stays the same enters no index. *)
Update(w) ==
  /\ pc[w] = "update" /\ ~Locked(w)
  /\ \/ email[user[w]] = toEmail[w]
     \/ IndexFree(w) /\ ~Taken(w)
  /\ GoOn(w, "done")

(* unique_violation: 409. *)
Conflict(w) ==
  /\ pc[w] = "insert" \/ (pc[w] = "update" /\ ~Locked(w))
  /\ IndexFree(w) /\ Taken(w)
  /\ Rollback(w)

Write(w) == pc[w] = "write" /\ ~Locked(w) /\ GoOn(w, "done")

(* Faulty variant: the provider of a new user is never flushed. *)
WithoutProvider(w) ==
  IF proved[w] = None THEN password
  ELSE [password EXCEPT ![user[w]] = toPassword[w]]

Passwords(w) ==
  IF toPassword[w] = None THEN password
  ELSE [password EXCEPT ![user[w]] = toPassword[w]]

Emails(w) ==
  IF toEmail[w] = None THEN email ELSE [email EXCEPT ![user[w]] = toEmail[w]]

(* User and provider of a registration arrive together. *)
Commit(w) ==
  /\ pc[w] = "done"
  /\ email' = Emails(w)
  /\ password' = Passwords(w)
  /\ overtaken' = [v \in Worker |-> v # w /\
        (overtaken[v] \/ (user[v] = user[w] /\ toPassword[w] # None))]
  /\ End(w)

(* Any error, at any time. *)
Fail(w) == pc[w] # "idle" /\ Rollback(w)

-----------------------------------------------------------------------------
Request(w) == Register(w) \/ ChangeEmail(w) \/ Rename(w) \/ ChangePassword(w)

Step(w) ==
  \/ Insert(w) \/ Hash(w) \/ Update(w) \/ Conflict(w)
  \/ Write(w) \/ Commit(w) \/ Fail(w)

Next == \E w \in Worker : Request(w) \/ Step(w)

Spec == Init /\ [][Next]_vars

-----------------------------------------------------------------------------
(* Properties *)

(* Type invariant; a user has a row and a password, or neither. *)
TypeOK ==
  /\ email \in [User -> Email \cup {None}]
  /\ password \in [User -> Password \cup {None}]
  /\ \A u \in User : email[u] = None <=> password[u] = None
  /\ pc \in [Worker -> {"idle", "insert", "hash", "update", "write", "done"}]
  /\ user \in [Worker -> User \cup {None}]
  /\ toEmail \in [Worker -> Email \cup {None}]
  /\ proved \in [Worker -> Password \cup {None}]
  /\ toPassword \in [Worker -> Password \cup {None}]
  /\ overtaken \in [Worker -> BOOLEAN]

(***************************************************************************)
(* Two users never have one e-mail, whatever registrations and changes of  *)
(* e-mail found it free at once, and whichever of them are rolled back.    *)
(***************************************************************************)
OneUserPerEmail == \A e \in Email : Cardinality(Holders(e)) <= 1

(***************************************************************************)
(* A password is replaced by a request that knew it. The exception is one  *)
(* that verified the password before it, and was overtaken by another      *)
(* change: the second then writes over a password nobody showed it.        *)
(***************************************************************************)
ChangedByItsKnower ==
  [][\A w \in Worker : Commit(w) /\ toPassword[w] # None /\ user[w] \in Registered =>
       overtaken[w] \/ proved[w] = password[user[w]]]_vars

=============================================================================
