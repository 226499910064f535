---------------------------- MODULE Domains_proofs ----------------------------
(***************************************************************************)
(* Proofs about the domains, for any values of their constants: first of   *)
(* each domain on its own, then of all of them together.                   *)
(***************************************************************************)
EXTENDS Domains, Budgets_proofs, Operators_proofs

USE DomainsAssumption

-----------------------------------------------------------------------------
(* Users *)

(* A registration has a row of its own, which no other request is about.   *)
Registering(w) ==
  /\ user[w] \in User \ U!Registered
  /\ \A v \in Worker \ {w} : user[v] # user[w]
  /\ toEmail[w] \in Email /\ proved[w] = None /\ toPassword[w] \in Password

ChangingEmail(w) ==
  /\ user[w] \in U!Registered
  /\ toEmail[w] \in Email /\ proved[w] = None /\ toPassword[w] = None

Renaming(w) ==
  user[w] \in U!Registered /\ toEmail[w] = None /\ proved[w] = None /\ toPassword[w] = None

ChangingPassword(w) ==
  /\ user[w] \in U!Registered /\ toEmail[w] = None
  /\ proved[w] \in Password /\ toPassword[w] \in Password
  /\ overtaken[w] \/ proved[w] = password[user[w]]

(* What the request of each worker is about. *)
UserRequests ==
  \A w \in Worker :
    \/ userPc[w] = "idle" /\ user[w] = None
    \/ userPc[w] \in {"insert", "hash", "done"} /\ Registering(w)
    \/ userPc[w] \in {"update", "done"} /\ ChangingEmail(w)
    \/ userPc[w] \in {"write", "done"} /\ (Renaming(w) \/ ChangingPassword(w))

(* No e-mail is held twice, or held while another is about to have it, or  *)
(* about to be had twice.                                                  *)
EmailsApart ==
  /\ \A u, v \in User : email[u] # None /\ email[u] = email[v] => u = v
  /\ \A w \in Worker : U!Wrote(w) /\ toEmail[w] # None =>
       /\ \A u \in User : email[u] = toEmail[w] => u = user[w]
       /\ \A v \in Worker \ {w} : U!Wrote(v) => toEmail[v] # toEmail[w]

UInv == U!TypeOK /\ UserRequests /\ EmailsApart

(* A request that ends leaves nothing behind. *)
LEMMA UserRollback ==
  ASSUME UInv, NEW w \in Worker, U!Rollback(w) PROVE UInv'
<1>1. /\ userPc'[w] = "idle" /\ user'[w] = None
      /\ \A v \in Worker \ {w} :
           /\ userPc'[v] = userPc[v] /\ user'[v] = user[v] /\ toEmail'[v] = toEmail[v]
           /\ proved'[v] = proved[v] /\ toPassword'[v] = toPassword[v]
           /\ overtaken'[v] = overtaken[v]
      /\ email' = email /\ password' = password
  BY DEF UInv, U!TypeOK, U!Rollback, U!End, U!tables
<1>2. U!TypeOK'
  BY DEF UInv, U!TypeOK, U!Rollback, U!End, U!tables
<1>3. UserRequests'
  BY <1>1 DEF UInv, UserRequests, Registering, ChangingEmail, Renaming,
              ChangingPassword, U!Registered
<1>4. EmailsApart'
  BY <1>1 DEF UInv, EmailsApart, U!Wrote
<1> QED
  BY <1>2, <1>3, <1>4 DEF UInv

(* A request begins without having written anything. *)
LEMMA UserBegin ==
  ASSUME UInv, NEW w \in Worker, NEW u, NEW next, NEW e, NEW old, NEW p,
         U!Begin(w, next, u, e, old, p),
         \/ /\ next = "insert" /\ u \in User \ U!Registered
            /\ \A v \in Worker : user[v] # u
            /\ e \in Email /\ old = None /\ p \in Password
         \/ /\ next = "update" /\ u \in U!Registered
            /\ e \in Email /\ old = None /\ p = None
         \/ /\ next = "write" /\ u \in U!Registered /\ e = None
            /\ \/ old = None /\ p = None
               \/ old = password[u] /\ p \in Password
  PROVE  UInv'
<1>1. /\ userPc'[w] = next /\ user'[w] = u /\ toEmail'[w] = e /\ proved'[w] = old
      /\ toPassword'[w] = p
      /\ \A v \in Worker \ {w} :
           /\ userPc'[v] = userPc[v] /\ user'[v] = user[v] /\ toEmail'[v] = toEmail[v]
           /\ proved'[v] = proved[v] /\ toPassword'[v] = toPassword[v]
      /\ overtaken' = overtaken /\ email' = email /\ password' = password
  BY DEF UInv, U!TypeOK, U!Begin, U!tables
<1>2. u \in U!Registered => password[u] \in Password
  BY DEF UInv, U!TypeOK, U!Registered
<1>3. U!TypeOK'
  <2>1. u \in User /\ e \in Email \cup {None} /\ old \in Password \cup {None}
        /\ p \in Password \cup {None}
    BY <1>2 DEF U!Registered
  <2> QED
    BY <2>1 DEF UInv, U!TypeOK, U!Begin, U!tables
<1>4. UserRequests'
  <2>1. U!Registered' = U!Registered
    BY <1>1 DEF U!Registered
  <2>2. ASSUME NEW v \in Worker \ {w}, Registering(v) PROVE Registering(v)'
    <3>1. user[v] # u
      BY <2>2 DEF Registering
    <3> QED
      BY <1>1, <2>1, <2>2, <3>1 DEF Registering
  <2>3. ASSUME NEW v \in Worker \ {w}
        PROVE  /\ ChangingEmail(v) => ChangingEmail(v)'
               /\ Renaming(v) => Renaming(v)'
               /\ ChangingPassword(v) => ChangingPassword(v)'
    BY <1>1, <2>1 DEF ChangingEmail, Renaming, ChangingPassword
  <2>4. ASSUME NEW v \in Worker \ {w}
        PROVE  \/ userPc'[v] = "idle" /\ user'[v] = None
               \/ userPc'[v] \in {"insert", "hash", "done"} /\ Registering(v)'
               \/ userPc'[v] \in {"update", "done"} /\ ChangingEmail(v)'
               \/ userPc'[v] \in {"write", "done"} /\ (Renaming(v)' \/ ChangingPassword(v)')
    BY <1>1, <2>2, <2>3 DEF UInv, UserRequests
  <2>5. next = "insert" => Registering(w)'
    BY <1>1, <2>1 DEF Registering
  <2>6. next = "update" => ChangingEmail(w)'
    BY <1>1, <2>1 DEF ChangingEmail
  <2>7. next = "write" => Renaming(w)' \/ ChangingPassword(w)'
    BY <1>1, <1>2, <2>1 DEF Renaming, ChangingPassword
  <2> QED
    BY <1>1, <2>4, <2>5, <2>6, <2>7 DEF UserRequests
<1>5. EmailsApart'
  BY <1>1 DEF UInv, EmailsApart, U!Wrote
<1> QED
  BY <1>3, <1>4, <1>5 DEF UInv

(* A request goes on; what it writes now is free.                          *)
LEMMA UserGoesOn ==
  ASSUME UInv, NEW w \in Worker, NEW next, U!GoOn(w, next),
         \/ userPc[w] = "insert" /\ next = "hash"
         \/ userPc[w] \in {"hash", "update", "write"} /\ next = "done",
         U!Wrote(w) \/ toEmail[w] = None \/
           /\ \A u \in User : email[u] = toEmail[w] => u = user[w]
           /\ \A v \in Worker \ {w} : U!Wrote(v) => toEmail[v] # toEmail[w]
  PROVE  UInv'
<1>1. /\ userPc'[w] = next /\ \A v \in Worker \ {w} : userPc'[v] = userPc[v]
      /\ email' = email /\ password' = password /\ user' = user /\ toEmail' = toEmail
      /\ proved' = proved /\ toPassword' = toPassword /\ overtaken' = overtaken
  BY DEF UInv, U!TypeOK, U!GoOn, U!tables, U!data
<1>2. U!TypeOK'
  BY DEF UInv, U!TypeOK, U!GoOn, U!tables, U!data
<1>3. UserRequests'
  <2>1. ASSUME NEW v \in Worker
        PROVE  /\ Registering(v)' <=> Registering(v)
               /\ ChangingEmail(v)' <=> ChangingEmail(v)
               /\ Renaming(v)' <=> Renaming(v)
               /\ ChangingPassword(v)' <=> ChangingPassword(v)
    BY <1>1 DEF Registering, ChangingEmail, Renaming, ChangingPassword, U!Registered
  <2> QED
    BY <1>1, <2>1 DEF UInv, UserRequests
<1>4. EmailsApart'
  BY <1>1 DEF UInv, EmailsApart, U!Wrote
<1> QED
  BY <1>2, <1>3, <1>4 DEF UInv

(* Whoever enters an e-mail in the index is alone in wanting it.           *)
LEMMA IndexKeepsApart ==
  ASSUME UInv, NEW w \in Worker, userPc[w] \in {"insert", "update"},
         U!IndexFree(w), ~U!Taken(w)
  PROVE  /\ \A u \in User : email[u] = toEmail[w] => u = user[w]
         /\ \A v \in Worker \ {w} : U!Wrote(v) => toEmail[v] # toEmail[w]
<1>1. \A u \in User : email[u] = toEmail[w] => u = user[w]
  BY DEF U!Taken, U!Holders
<1>2. toEmail[w] \in Email
  BY DEF UInv, UserRequests, Registering, ChangingEmail
<1>3. ASSUME NEW v \in Worker \ {w}, U!Wrote(v) PROVE toEmail[v] # toEmail[w]
  BY <1>2, <1>3 DEF U!IndexFree, U!Changing
<1> QED
  BY <1>1, <1>3

(* An e-mail that stays is nobody else's either: only a request that has   *)
(* the row locked could be about to give it away.                          *)
LEMMA SameEmailApart ==
  ASSUME UInv, NEW w \in Worker, userPc[w] = "update", ~U!Locked(w),
         email[user[w]] = toEmail[w]
  PROVE  /\ \A u \in User : email[u] = toEmail[w] => u = user[w]
         /\ \A v \in Worker \ {w} : U!Wrote(v) => toEmail[v] # toEmail[w]
<1>1. ChangingEmail(w)
  BY DEF UInv, UserRequests
<1>2. user[w] \in User /\ toEmail[w] # None /\ proved[w] = None
  BY <1>1 DEF ChangingEmail, U!Registered
<1>3. \A u \in User : email[u] = toEmail[w] => u = user[w]
  BY <1>2 DEF UInv, EmailsApart
<1>4. ASSUME NEW v \in Worker \ {w}, U!Wrote(v), toEmail[v] = toEmail[w] PROVE FALSE
  <2>1. user[v] = user[w]
    BY <1>2, <1>4 DEF UInv, EmailsApart
  <2>2. proved[v] = None
    BY <1>2, <1>4 DEF UInv, UserRequests, U!Wrote, Registering, ChangingEmail,
                     Renaming, ChangingPassword
  <2> QED
    BY <1>2, <1>4, <2>1, <2>2 DEF U!Locked
<1> QED
  BY <1>3, <1>4

(* A commit hands over an e-mail nobody else has or is about to have.      *)
LEMMA UserCommit ==
  ASSUME UInv, NEW w \in Worker, U!Commit(w) PROVE UInv'
<1>1. /\ userPc[w] = "done"
      /\ userPc'[w] = "idle" /\ user'[w] = None
      /\ \A v \in Worker \ {w} :
           /\ userPc'[v] = userPc[v] /\ user'[v] = user[v] /\ toEmail'[v] = toEmail[v]
           /\ proved'[v] = proved[v] /\ toPassword'[v] = toPassword[v]
           /\ overtaken'[v] = (overtaken[v] \/ (user[v] = user[w] /\ toPassword[w] # None))
  BY DEF UInv, U!TypeOK, U!Commit, U!End
<1>2. Registering(w) \/ ChangingEmail(w) \/ Renaming(w) \/ ChangingPassword(w)
  BY <1>1 DEF UInv, UserRequests
<1>3. user[w] \in User
  BY <1>2 DEF Registering, ChangingEmail, Renaming, ChangingPassword, U!Registered
<1>4. /\ \A u \in User \ {user[w]} : email'[u] = email[u] /\ password'[u] = password[u]
      /\ email'[user[w]] = IF toEmail[w] = None THEN email[user[w]] ELSE toEmail[w]
      /\ password'[user[w]] =
           IF toPassword[w] = None THEN password[user[w]] ELSE toPassword[w]
  BY <1>3 DEF UInv, U!TypeOK, U!Commit, U!Emails, U!Passwords
<1>5. email'[user[w]] # None
  BY <1>2, <1>4 DEF Registering, ChangingEmail, Renaming, ChangingPassword, U!Registered
<1>6. U!TypeOK'
  <2>1. \A u \in User : email'[u] = None <=> password'[u] = None
    <3>1. password'[user[w]] # None
      BY <1>2, <1>4 DEF Registering, ChangingEmail, Renaming, ChangingPassword,
                        U!Registered, UInv, U!TypeOK
    <3> QED
      BY <1>4, <1>5, <3>1 DEF UInv, U!TypeOK
  <2>2. /\ email' \in [User -> Email \cup {None}]
        /\ password' \in [User -> Password \cup {None}]
    BY <1>3 DEF UInv, U!TypeOK, U!Commit, U!Emails, U!Passwords
  <2>3. overtaken' \in [Worker -> BOOLEAN]
    BY DEF UInv, U!TypeOK, U!Commit
  <2> QED
    BY <2>1, <2>2, <2>3 DEF UInv, U!TypeOK, U!Commit, U!End
<1>7. U!Registered' = U!Registered \cup {user[w]}
  BY <1>3, <1>4, <1>5 DEF U!Registered
<1>8. UserRequests'
  <2>1. ASSUME NEW v \in Worker \ {w}, Registering(v) PROVE Registering(v)'
    <3>1. user[v] # user[w] /\ user[v] # None
      BY <2>1 DEF Registering
    <3> QED
      BY <1>1, <1>7, <2>1, <3>1 DEF Registering
  <2>2. ASSUME NEW v \in Worker \ {w}
        PROVE  /\ ChangingEmail(v) => ChangingEmail(v)'
               /\ Renaming(v) => Renaming(v)'
    BY <1>1, <1>7 DEF ChangingEmail, Renaming
  <2>3. ASSUME NEW v \in Worker \ {w}, ChangingPassword(v) PROVE ChangingPassword(v)'
    <3>1. user[v] # user[w] => password'[user[v]] = password[user[v]]
      BY <1>4, <2>3 DEF ChangingPassword, U!Registered
    <3>2. toPassword[w] = None => password'[user[w]] = password[user[w]]
      BY <1>4
    <3> QED
      BY <1>1, <1>7, <2>3, <3>1, <3>2 DEF ChangingPassword
  <2> QED
    BY <1>1, <2>1, <2>2, <2>3 DEF UInv, UserRequests
<1>9. EmailsApart'
  <2>1. U!Wrote(w)
    BY <1>1 DEF U!Wrote
  <2>2. \A v \in Worker \ {w} : U!Wrote(v)' <=> U!Wrote(v)
    BY <1>1 DEF U!Wrote
  <2>3. ~U!Wrote(w)'
    BY <1>1 DEF U!Wrote
  <2>4. ASSUME NEW u \in User, NEW v \in User, email'[u] # None, email'[u] = email'[v]
        PROVE  u = v
    BY <1>3, <1>4, <2>1, <2>4 DEF UInv, EmailsApart
  <2>5. ASSUME NEW v \in Worker \ {w}, U!Wrote(v), toEmail[v] # None,
               NEW u \in User, email'[u] = toEmail[v]
        PROVE  u = user[v]
    BY <1>3, <1>4, <2>1, <2>5 DEF UInv, EmailsApart
  <2> QED
    BY <1>1, <2>2, <2>3, <2>4, <2>5 DEF UInv, EmailsApart
<1> QED
  BY <1>6, <1>8, <1>9 DEF UInv

(* Users start with nobody registered, and keep apart.                     *)
LEMMA UserSteps == /\ U!Init => UInv
                   /\ UInv /\ [U!Next]_(U!vars) => UInv'
<1>1. U!Init => UInv
  BY DEF U!Init, UInv, U!TypeOK, UserRequests, EmailsApart, U!Wrote
<1>2. ASSUME UInv, NEW w \in Worker, U!Request(w) PROVE UInv'
  <2>1. ASSUME U!Register(w) PROVE UInv'
    BY <1>2, <2>1, UserBegin DEF U!Register
  <2>2. ASSUME U!ChangeEmail(w) PROVE UInv'
    BY <1>2, <2>2, UserBegin DEF U!ChangeEmail
  <2>3. ASSUME U!Rename(w) PROVE UInv'
    BY <1>2, <2>3, UserBegin DEF U!Rename
  <2>4. ASSUME U!ChangePassword(w) PROVE UInv'
    BY <1>2, <2>4, UserBegin DEF U!ChangePassword
  <2> QED
    BY <1>2, <2>1, <2>2, <2>3, <2>4 DEF U!Request
<1>3. ASSUME UInv, NEW w \in Worker, U!Step(w) PROVE UInv'
  <2>1. CASE U!Insert(w)
    BY <1>3, <2>1, UserGoesOn, IndexKeepsApart DEF U!Insert
  <2>2. CASE U!Hash(w)
    BY <1>3, <2>2, UserGoesOn DEF U!Hash, U!Wrote
  <2>3. CASE U!Update(w)
    BY <1>3, <2>3, UserGoesOn, IndexKeepsApart, SameEmailApart DEF U!Update
  <2>4. CASE U!Write(w)
    <3>1. toEmail[w] = None
      BY <1>3, <2>4 DEF U!Write, UInv, UserRequests, Renaming, ChangingPassword
    <3> QED
      BY <1>3, <2>4, <3>1, UserGoesOn DEF U!Write
  <2>5. CASE U!Conflict(w) \/ U!Fail(w)
    BY <1>3, <2>5, UserRollback DEF U!Conflict, U!Fail
  <2>6. CASE U!Commit(w)
    BY <1>3, <2>6, UserCommit
  <2> QED
    BY <1>3, <2>1, <2>2, <2>3, <2>4, <2>5, <2>6 DEF U!Step
<1>4. ASSUME UInv, UNCHANGED U!vars PROVE UInv'
  BY <1>4 DEF UInv, U!vars, U!TypeOK, UserRequests, Registering, ChangingEmail, Renaming,
              ChangingPassword, U!Registered, EmailsApart, U!Wrote
<1> QED
  BY <1>1, <1>2, <1>3, <1>4 DEF U!Next

(* The invariant of Users. *)
LEMMA UserInvariant == U!Spec => []UInv
  BY UserSteps, PTL DEF U!Spec

(* A set has as many elements in Users as here. *)
LEMMA SameCardinality == \A T : U!Cardinality(T) = Cardinality(T)
  BY DEF Cardinality, U!Cardinality

(* No two users have one e-mail. *)
LEMMA EmailsAreUnique == U!Spec => []OneUserPerEmail
<1>1. ASSUME UInv PROVE OneUserPerEmail
  <2> SUFFICES ASSUME NEW e \in Email PROVE Cardinality(U!Holders(e)) <= 1
    BY SameCardinality DEF OneUserPerEmail, U!OneUserPerEmail
  <2>1. CASE U!Holders(e) = {}
    BY <2>1, FS_EmptySet
  <2>2. CASE U!Holders(e) # {}
    <3>1. PICK u \in User : email[u] = e
      BY <2>2 DEF U!Holders
    <3>2. U!Holders(e) = {u}
      <4>1. e # None
        OBVIOUS
      <4>2. \A v \in User : email[v] = e => v = u
        BY <1>1, <3>1, <4>1 DEF UInv, EmailsApart
      <4> QED
        BY <3>1, <4>2 DEF U!Holders
    <3>3. Cardinality(U!Holders(e)) = 1
      BY ONLY <3>2, FS_Singleton, Zenon
    <3> QED
      BY <3>3
  <2> QED
    BY <2>1, <2>2
<1> QED
  BY <1>1, UserInvariant, PTL

(* A password is changed by who knew it. *)
LEMMA PasswordsAreKnown == U!Spec => ChangedByItsKnower
<1> DEFINE Known == \A w \in Worker :
             U!Commit(w) /\ toPassword[w] # None /\ user[w] \in U!Registered =>
               overtaken[w] \/ proved[w] = password[user[w]]
<1>1. UInv => Known
  BY DEF UInv, UserRequests, U!Commit, Registering, ChangingEmail, Renaming,
         ChangingPassword
<1> QED
  BY <1>1, UserInvariant, PTL DEF ChangedByItsKnower, U!ChangedByItsKnower

-----------------------------------------------------------------------------
(* Categories *)

(* Whom a category may have for a parent, its levels apart.                *)
Family(x) == {d \in C!Existing : GroupOf[d] = GroupOf[x]} \cup {None}

(* What the request of each worker is about. *)
CategoryRequests ==
  \A w \in Worker :
    \/ catPc[w] = "idle"
    \/ /\ catPc[w] = "write the rest"
       /\ category[w] \in C!Existing /\ wanted[w] = None
    \/ /\ catPc[w] \in {"parent is good", "write", "done"}
       /\ category[w] \in Category /\ wanted[w] \in Family(category[w])
       /\ wanted[w] # category[w]
       /\ catPc[w] = "parent is good" => category[w] \in C!Existing /\ wanted[w] # None

HasNoChildren(x) == \A d \in C!Existing : parent[d] # x

(* What a request nobody has overtaken knows about the parent it wants.    *)
AsChecked ==
  C!TwoLevels => \A w \in Worker : ~catRaced[w] /\ wanted[w] # None =>
    /\ catPc[w] \in {"parent is good", "write", "done"} => C!IsRoot(wanted[w])
    /\ catPc[w] = "write" => HasNoChildren(category[w])
    /\ catPc[w] = "done" => \/ HasNoChildren(category[w])
                            \/ category[w] \in C!Existing /\ parent[category[w]] = wanted[w]

CInv == C!TypeOK /\ CategoryRequests /\ AsChecked

(* What a worker does before it commits only matters to itself.            *)
LEMMA CategoryLocal ==
  ASSUME CInv, NEW w \in Worker, parent' = parent,
         NEW next \in {"idle", "parent is good", "write", "write the rest", "done"},
         catPc' = [catPc EXCEPT ![w] = next],
         NEW x \in Category \cup {None}, category' = [category EXCEPT ![w] = x],
         NEW p \in Category \cup {None}, wanted' = [wanted EXCEPT ![w] = p],
         NEW r \in BOOLEAN, catRaced' = [catRaced EXCEPT ![w] = r],
         \/ next = "idle"
         \/ next = "write the rest" /\ x \in C!Existing /\ p = None
         \/ /\ next \in {"parent is good", "write", "done"}
            /\ x \in Category /\ p \in Family(x) /\ p # x
            /\ next = "parent is good" => x \in C!Existing /\ p # None,
         C!TwoLevels /\ ~r /\ p # None =>
           /\ next \in {"parent is good", "write", "done"} => C!IsRoot(p)
           /\ next = "write" => HasNoChildren(x)
           /\ next = "done" => HasNoChildren(x) \/ (x \in C!Existing /\ parent[x] = p)
  PROVE  CInv'
<1>1. /\ catPc'[w] = next /\ category'[w] = x /\ wanted'[w] = p /\ catRaced'[w] = r
      /\ \A v \in Worker \ {w} :
           /\ catPc'[v] = catPc[v] /\ category'[v] = category[v]
           /\ wanted'[v] = wanted[v] /\ catRaced'[v] = catRaced[v]
  BY DEF CInv, C!TypeOK
<1>2. /\ C!Existing' = C!Existing /\ \A d : C!IsRoot(d)' <=> C!IsRoot(d)
      /\ \A y : Family(y)' = Family(y)
      /\ \A y : HasNoChildren(y)' <=> HasNoChildren(y)
      /\ C!TwoLevels' <=> C!TwoLevels
  BY DEF C!Existing, C!IsRoot, Family, HasNoChildren, C!TwoLevels
<1>3. C!TypeOK'
  <2>1. \A v \in Worker : catPc'[v] # "idle" => wanted'[v] # category'[v]
    <3>1. next # "idle" => p # x
      BY DEF CInv, C!TypeOK, C!Existing
    <3> QED
      BY <1>1, <3>1 DEF CInv, C!TypeOK
  <2> QED
    BY <1>1, <1>2, <2>1 DEF CInv, C!TypeOK
<1>4. CategoryRequests'
  <2> SUFFICES ASSUME NEW v \in Worker, catPc'[v] # "idle"
               PROVE  \/ /\ catPc'[v] = "write the rest"
                         /\ category'[v] \in C!Existing /\ wanted'[v] = None
                      \/ /\ catPc'[v] \in {"parent is good", "write", "done"}
                         /\ category'[v] \in Category
                         /\ wanted'[v] \in {d \in C!Existing :
                              GroupOf[d] = GroupOf[category'[v]]} \cup {None}
                         /\ wanted'[v] # category'[v]
                         /\ catPc'[v] = "parent is good" =>
                              category'[v] \in C!Existing /\ wanted'[v] # None
    BY <1>2 DEF CategoryRequests, Family, C!Existing
  <2>1. CASE v = w
    <3>1. catPc'[v] = next /\ category'[v] = x /\ wanted'[v] = p /\ next # "idle"
      BY <1>1, <2>1
    <3>2. \/ next = "write the rest" /\ x \in C!Existing /\ p = None
          \/ /\ next \in {"parent is good", "write", "done"}
             /\ x \in Category
             /\ p \in {d \in C!Existing : GroupOf[d] = GroupOf[x]} \cup {None}
             /\ p # x
             /\ next = "parent is good" => x \in C!Existing /\ p # None
      BY <3>1 DEF Family
    <3> QED
      BY <3>1, <3>2
  <2>2. CASE v # w
    BY <1>1, <2>2 DEF CInv, CategoryRequests, Family
  <2> QED
    BY <2>1, <2>2
<1>5. ASSUME C!TwoLevels, NEW v \in Worker, ~catRaced'[v], wanted'[v] # None
      PROVE  /\ catPc'[v] \in {"parent is good", "write", "done"} => C!IsRoot(wanted'[v])
             /\ catPc'[v] = "write" => HasNoChildren(category'[v])
             /\ catPc'[v] = "done" =>
                  \/ HasNoChildren(category'[v])
                  \/ category'[v] \in C!Existing /\ parent[category'[v]] = wanted'[v]
  <2>1. CASE v = w
    <3>1. ~r
      BY <1>1, <1>5, <2>1, Zenon
    <3>2. p # None
      BY <1>1, <1>5, <2>1
    <3>3. /\ next \in {"parent is good", "write", "done"} => C!IsRoot(p)
          /\ next = "write" => HasNoChildren(x)
          /\ next = "done" => HasNoChildren(x) \/ (x \in C!Existing /\ parent[x] = p)
      BY <1>5, <3>1, <3>2
    <3>4. /\ catPc'[v] = next /\ category'[v] = x /\ wanted'[v] = p
      BY <1>1, <2>1
    <3> QED
      BY <3>3, <3>4
  <2>2. CASE v # w
    <3>1. ~catRaced[v]
      BY <1>1, <1>5, <2>2, Zenon
    <3> QED
      BY <1>1, <1>5, <2>2, <3>1 DEF CInv, AsChecked
  <2> QED
    BY <2>1, <2>2
<1>6. AsChecked'
  <2> SUFFICES ASSUME C!TwoLevels, NEW v \in Worker, ~catRaced'[v], wanted'[v] # None
               PROVE  /\ catPc'[v] \in {"parent is good", "write", "done"} =>
                           C!IsRoot(wanted[v])'
                      /\ catPc'[v] = "write" => HasNoChildren(category[v])'
                      /\ catPc'[v] = "done" =>
                           \/ HasNoChildren(category[v])'
                           \/ (category[v] \in C!Existing)'
                              /\ parent'[category'[v]] = wanted'[v]
    BY <1>2, Zenon DEF AsChecked
  <2>1. /\ C!IsRoot(wanted[v])' <=> C!IsRoot(wanted'[v])
        /\ HasNoChildren(category[v])' <=> HasNoChildren(category'[v])
        /\ (category[v] \in C!Existing)' <=> category'[v] \in C!Existing
    BY DEF C!IsRoot, HasNoChildren, C!Existing
  <2> QED
    BY <1>5, <2>1
<1> QED
  BY <1>3, <1>4, <1>6 DEF CInv

(* A request that ends leaves nothing behind. *)
LEMMA CategoryRollback ==
  ASSUME CInv, NEW w \in Worker, C!Rollback(w) PROVE CInv'
  BY CategoryLocal DEF C!Rollback, C!End

(* What a request begins with. *)
LEMMA CategoryBegin ==
  ASSUME CInv, NEW w \in Worker, NEW x \in Category, NEW p, NEW next, C!Begin(w, x, p, next),
         \/ next = "write the rest" /\ x \in C!Existing /\ p = None
         \/ /\ next = "write"
            /\ p = None \/ (p \in C!Existing /\ C!GoodParent(x, p) /\ x \notin C!Existing)
         \/ /\ next = "parent is good" /\ x \in C!Existing
            /\ p \in C!Existing /\ C!GoodParent(x, p)
  PROVE  CInv'
<1>1. /\ catPc' = [catPc EXCEPT ![w] = next] /\ category' = [category EXCEPT ![w] = x]
      /\ wanted' = [wanted EXCEPT ![w] = p] /\ parent' = parent
      /\ catRaced' = [catRaced EXCEPT ![w] = catRaced[w]] /\ catRaced[w] \in BOOLEAN
  BY DEF C!Begin, CInv, C!TypeOK
<1>2. C!Existing \subseteq Category
  BY DEF CInv, C!TypeOK
<1>3. x \notin C!Existing => HasNoChildren(x)
  BY <1>2 DEF HasNoChildren, CInv, C!TypeOK
<1>4. p \in Family(x) /\ p # x /\ (p # None => C!IsRoot(p))
  BY <1>2 DEF Family, C!GoodParent
<1>5. p \in Category \cup {None}
  BY <1>2
<1>6. next # "write the rest" /\ p # None =>
        next = "parent is good" \/ (next = "write" /\ HasNoChildren(x))
  BY <1>3
<1>7. next = "parent is good" => x \in C!Existing /\ p # None
  BY <1>2
<1> QED
  BY <1>1, <1>2, <1>4, <1>5, <1>6, <1>7, CategoryLocal

(* The children are looked at after the parent. *)
LEMMA CategoryCheck ==
  ASSUME CInv, NEW w \in Worker, C!CheckChildren(w) PROVE CInv'
<1>1. CASE C!Rollback(w)
  BY <1>1, CategoryRollback
<1>2. CASE ~C!Rollback(w)
  <2>1. /\ catPc[w] = "parent is good" /\ ~C!HasChildren(category[w])
        /\ catPc' = [catPc EXCEPT ![w] = "write"]
        /\ category' = [category EXCEPT ![w] = category[w]]
        /\ wanted' = [wanted EXCEPT ![w] = wanted[w]] /\ parent' = parent
        /\ catRaced' = [catRaced EXCEPT ![w] = catRaced[w]]
        /\ catRaced[w] \in BOOLEAN /\ wanted[w] \in Category \cup {None}
    BY <1>2 DEF C!CheckChildren, CInv, C!TypeOK
  <2>2. /\ category[w] \in Category /\ wanted[w] \in Family(category[w])
        /\ wanted[w] # category[w]
    BY <2>1 DEF CInv, CategoryRequests
  <2>3. C!TwoLevels /\ ~catRaced[w] /\ wanted[w] # None => C!IsRoot(wanted[w])
    BY <2>1 DEF CInv, AsChecked
  <2>4. HasNoChildren(category[w])
    BY <2>1 DEF HasNoChildren, C!HasChildren
  <2> QED
    BY <2>1, <2>2, <2>3, <2>4, CategoryLocal
<1> QED
  BY <1>1, <1>2

(* The row is written with the parent it is to have, or has. *)
LEMMA CategoryWrite ==
  ASSUME CInv, NEW w \in Worker, C!Write(w) PROVE CInv'
<1> DEFINE x == category[w]
           p == C!NewParent(w)
<1>1. /\ catPc[w] \in {"write", "write the rest"} /\ ~C!TriggerRefuses(x, p)
      /\ catPc' = [catPc EXCEPT ![w] = "done"]
      /\ category' = [category EXCEPT ![w] = x]
      /\ wanted' = [wanted EXCEPT ![w] = p] /\ parent' = parent
      /\ catRaced' = [catRaced EXCEPT ![w] = catRaced[w]]
      /\ catRaced[w] \in BOOLEAN
  BY DEF C!Write, C!Writing, CInv, C!TypeOK
<1>2. C!Existing \subseteq Category
  BY DEF CInv, C!TypeOK
<1>3. x \in Category /\ p \in Family(x)
  <2>1. CASE catPc[w] = "write"
    BY <2>1 DEF CInv, CategoryRequests, C!NewParent
  <2>2. CASE catPc[w] = "write the rest"
    <3>1. x \in C!Existing /\ p = parent[x]
      BY <2>2 DEF CInv, CategoryRequests, C!NewParent
    <3> QED
      BY <1>2, <3>1 DEF CInv, C!TypeOK, Family
  <2> QED
    BY <1>1, <2>1, <2>2
<1>4. p \in Category \cup {None} /\ p # x /\ (p # None => C!IsRoot(p))
  BY <1>1, <1>2, <1>3 DEF Family, C!TriggerRefuses
<1>5. C!TwoLevels /\ ~catRaced[w] /\ p # None =>
        HasNoChildren(x) \/ (x \in C!Existing /\ parent[x] = p)
  <2>1. CASE catPc[w] = "write"
    BY <2>1 DEF CInv, AsChecked, C!NewParent
  <2>2. CASE catPc[w] = "write the rest"
    BY <2>2 DEF CInv, CategoryRequests, C!NewParent
  <2> QED
    BY <1>1, <2>1, <2>2
<1> HIDE DEF x, p
<1> QED
  BY <1>1, <1>3, <1>4, <1>5, CategoryLocal

(* A commit adds or replaces one row, and tells the others. *)
LEMMA CategoryCommit ==
  ASSUME CInv, NEW w \in Worker, C!Commit(w)
  PROVE  /\ CInv'
         /\ C!TwoLevels /\ ~catRaced[w] => C!TwoLevels'
<1> DEFINE x == category[w]
<1>1. /\ catPc[w] = "done"
      /\ parent' = [d \in C!Existing \cup {x} |-> IF d = x THEN wanted[w] ELSE parent[d]]
      /\ catRaced' = [v \in Worker |-> v # w /\ catPc[v] # "idle"]
      /\ catPc'[w] = "idle"
      /\ \A v \in Worker \ {w} :
           catPc'[v] = catPc[v] /\ category'[v] = category[v] /\ wanted'[v] = wanted[v]
  BY DEF C!Commit, C!End, CInv, C!TypeOK
<1>2. x \in Category /\ wanted[w] \in Family(x) /\ wanted[w] # x
  BY <1>1 DEF CInv, CategoryRequests
<1>3. C!Existing \subseteq Category
  BY DEF CInv, C!TypeOK
<1>4. C!Existing' = C!Existing \cup {x}
  BY <1>1 DEF C!Existing
<1>5. \A y : Family(y) \subseteq Family(y)'
  BY <1>4 DEF Family
<1>6. C!TypeOK'
  <2>1. C!Existing' \subseteq Category
    BY <1>2, <1>3, <1>4
  <2>2. ASSUME NEW d \in C!Existing' PROVE parent'[d] \in Family(d)'
    <3>1. CASE d = x
      BY <1>1, <1>2, <1>5, <3>1
    <3>2. CASE d # x
      <4>1. parent'[d] = parent[d] /\ d \in C!Existing
        BY <1>1, <1>4, <3>2
      <4>2. parent[d] \in Family(d)
        BY <4>1 DEF CInv, C!TypeOK, Family
      <4> QED
        BY <1>5, <4>1, <4>2
    <3> QED
      BY <3>1, <3>2
  <2>3. /\ catPc' = [catPc EXCEPT ![w] = "idle"] /\ category' = [category EXCEPT ![w] = None]
        /\ wanted' = [wanted EXCEPT ![w] = None]
    BY DEF C!Commit, C!End
  <2>4. catRaced' \in [Worker -> BOOLEAN]
    BY <1>1
  <2> QED
    BY <1>1, <2>1, <2>2, <2>3, <2>4 DEF CInv, C!TypeOK, Family
<1>7. CategoryRequests'
  BY <1>1, <1>4, <1>5 DEF CInv, CategoryRequests
<1>8. AsChecked'
  BY <1>1 DEF AsChecked
<1>9. ASSUME C!TwoLevels, ~catRaced[w], NEW d \in C!Existing', parent'[d] # None
      PROVE  parent'[parent'[d]] = None
  <2>1. wanted[w] # None =>
          /\ C!IsRoot(wanted[w])
          /\ HasNoChildren(x) \/ (x \in C!Existing /\ parent[x] = wanted[w])
    BY <1>1, <1>9 DEF CInv, AsChecked
  <2>2. CASE d = x
    <3>1. parent'[d] = wanted[w] /\ wanted[w] # None
      BY <1>1, <1>4, <1>9, <2>2
    <3>2. wanted[w] \in C!Existing /\ wanted[w] # x
      BY <1>2, <3>1 DEF Family
    <3>3. parent'[wanted[w]] = None
      BY <1>1, <2>1, <3>1, <3>2 DEF C!IsRoot
    <3> QED
      BY <3>1, <3>3
  <2>3. CASE d # x
    <3>1. d \in C!Existing /\ parent'[d] = parent[d] /\ parent[d] # None
      BY <1>1, <1>4, <1>9, <2>3
    <3>2. parent[parent[d]] = None /\ parent[d] \in C!Existing
      BY <1>9, <3>1 DEF C!TwoLevels, C!IsRoot, CInv, C!TypeOK
    <3>3. CASE parent[d] # x
      BY <1>1, <3>1, <3>2, <3>3
    <3>4. CASE parent[d] = x
      <4>1. ~HasNoChildren(x)
        BY <3>1, <3>4 DEF HasNoChildren
      <4>2. wanted[w] = None
        BY <2>1, <3>2, <3>4, <4>1
      <4> QED
        BY <1>1, <1>4, <3>1, <3>2, <3>4, <4>2
    <3> QED
      BY <3>3, <3>4
  <2> QED
    BY <2>2, <2>3
<1> QED
  BY <1>6, <1>7, <1>8, <1>9 DEF CInv, C!TwoLevels, C!IsRoot

(* Categories start with none, and what is known of them stays known.      *)
LEMMA CategorySteps == /\ C!Init => CInv
                       /\ CInv /\ [C!Next]_(C!vars) => CInv'
<1>1. C!Init => CInv
  BY DEF C!Init, CInv, C!TypeOK, CategoryRequests, AsChecked, C!Existing
<1>2. ASSUME CInv, NEW w \in Worker, C!Step(w) PROVE CInv'
  <2>1. C!Existing \subseteq Category
    BY <1>2 DEF CInv, C!TypeOK
  <2>2. CASE C!Create(w)
    <3>1. PICK x \in Category, p \in C!Existing \cup {None} :
            /\ x \notin C!Existing
            /\ p # None => C!GoodParent(x, p)
            /\ C!Begin(w, x, p, "write")
      BY <2>2 DEF C!Create, C!NotYet
    <3> QED
      BY <1>2, <3>1, CategoryBegin
  <2>3. CASE C!Move(w)
    BY <1>2, <2>1, <2>3, CategoryBegin DEF C!Move
  <2>4. CASE C!Promote(w)
    BY <1>2, <2>1, <2>4, CategoryBegin DEF C!Promote
  <2>5. CASE C!Edit(w)
    BY <1>2, <2>1, <2>5, CategoryBegin DEF C!Edit
  <2>6. CASE C!CheckChildren(w) \/ C!Write(w) \/ C!Commit(w)
    BY <1>2, <2>6, CategoryCheck, CategoryWrite, CategoryCommit
  <2>7. CASE C!Refuse(w) \/ C!Fail(w)
    BY <1>2, <2>7, CategoryRollback DEF C!Refuse, C!Fail
  <2> QED
    BY <1>2, <2>2, <2>3, <2>4, <2>5, <2>6, <2>7 DEF C!Step
<1>3. ASSUME CInv, UNCHANGED C!vars PROVE CInv'
  BY <1>3 DEF CInv, C!vars, C!request, C!TypeOK, CategoryRequests, AsChecked, C!Existing,
              C!IsRoot, Family, HasNoChildren, C!TwoLevels
<1> QED
  BY <1>1, <1>2, <1>3 DEF C!Next

(* The invariant of Categories. *)
LEMMA CategoryInvariant == C!Spec => []CInv
  BY CategorySteps, PTL DEF C!Spec

(* The three statements count a category alike, and the lines of the roots *)
(* hold all of them exactly if there are two levels.                       *)
LEMMA FiguresAgree == C!Spec => []SameFigures
<1> DEFINE Lines == UNION {C!SummaryLine(r) : r \in {d \in C!Existing : C!IsRoot(d)}}
<1>1. ASSUME C!TypeOK, NEW x \in C!Existing
      PROVE  /\ C!CountedBy(x) = C!FilterOf(x)
             /\ C!IsRoot(x) => C!SummaryLine(x) = C!FilterOf(x)
             /\ C!TwoLevels /\ ~C!IsRoot(x) => C!FilterOf(x) = {x}
  <2>1. x # None
    BY <1>1 DEF C!TypeOK
  <2>2. C!CountedBy(x) = C!FilterOf(x)
    BY <2>1 DEF C!CountedBy, C!FilterOf, C!RootId, C!IsRoot
  <2>3. C!IsRoot(x) => C!SummaryLine(x) = C!FilterOf(x)
    BY DEF C!SummaryLine, C!FilterOf, C!RootId
  <2>4. C!TwoLevels /\ ~C!IsRoot(x) => C!FilterOf(x) = {x}
    <3>1. ASSUME C!TwoLevels, ~C!IsRoot(x), NEW d \in C!Existing, C!RootId(d) = x
          PROVE  d = x
      BY <1>1, <3>1 DEF C!TwoLevels, C!RootId
    <3> QED
      BY <3>1 DEF C!FilterOf
  <2> QED
    BY <2>2, <2>3, <2>4
<1>2. ASSUME C!TypeOK, C!TwoLevels, NEW x \in C!Existing PROVE x \in Lines
  <2>1. C!RootId(x) \in C!Existing /\ C!IsRoot(C!RootId(x))
    BY <1>2 DEF C!TypeOK, C!TwoLevels, C!RootId, C!IsRoot
  <2>2. x \in C!SummaryLine(C!RootId(x))
    BY DEF C!SummaryLine
  <2> QED
    BY <2>1, <2>2
<1>3. ASSUME C!Existing = Lines, NEW x \in C!Existing, ~C!IsRoot(x)
      PROVE  C!IsRoot(parent[x])
  <2>1. PICK r \in C!Existing : C!IsRoot(r) /\ x \in C!SummaryLine(r)
    BY <1>3
  <2> QED
    BY <1>3, <2>1 DEF C!SummaryLine, C!RootId
<1>4. Lines \subseteq C!Existing
  BY DEF C!SummaryLine
<1>5. C!TypeOK => (C!TwoLevels <=> C!Existing = Lines)
  <2>1. C!TypeOK /\ C!TwoLevels => C!Existing = Lines
    BY <1>2, <1>4
  <2>2. C!Existing = Lines => C!TwoLevels
    BY <1>3 DEF C!TwoLevels
  <2> QED
    BY <2>1, <2>2
<1>6. CInv => SameFigures
  BY <1>1, <1>5 DEF CInv, SameFigures, C!SameFigures
<1> QED
  BY <1>6, CategoryInvariant, PTL

(* A third level, or a refusal of the trigger, has a cause.                *)
LEMMA LevelsHaveCause == C!Spec => LevelsForCause
<1> DEFINE Cause ==
      /\ C!TwoLevels /\ ~C!TwoLevels' => \E w \in Worker : C!Commit(w) /\ catRaced[w]
      /\ \A w \in Worker : C!Refuse(w) => catRaced[w] \/ ~C!TwoLevels
<1>1. ASSUME CInv, C!Next, C!TwoLevels, ~C!TwoLevels'
      PROVE  \E w \in Worker : C!Commit(w) /\ catRaced[w]
  <2>1. PICK w \in Worker : C!Step(w)
    BY <1>1 DEF C!Next
  <2>2. CASE C!Commit(w)
    BY <1>1, <2>2, CategoryCommit
  <2>3. CASE ~C!Commit(w)
    <3>1. parent' = parent
      BY <2>1, <2>3 DEF C!Step, C!Create, C!Move, C!CheckChildren, C!Promote, C!Edit,
                        C!Begin, C!Write, C!Refuse, C!Fail, C!Rollback
    <3> QED
      BY <1>1, <3>1 DEF C!TwoLevels, C!Existing, C!IsRoot
  <2> QED
    BY <2>2, <2>3
<1>2. ASSUME CInv, NEW w \in Worker, C!Refuse(w), ~catRaced[w], C!TwoLevels PROVE FALSE
  <2>1. /\ catPc[w] \in {"write", "write the rest"}
        /\ C!TriggerRefuses(category[w], C!NewParent(w))
    BY <1>2 DEF C!Refuse, C!Writing
  <2>2. CASE catPc[w] = "write"
    <3>1. wanted[w] # category[w] /\ (wanted[w] # None => C!IsRoot(wanted[w]))
      BY <1>2, <2>2 DEF CInv, CategoryRequests, AsChecked
    <3> QED
      BY <2>1, <2>2, <3>1 DEF C!NewParent, C!TriggerRefuses
  <2>3. CASE catPc[w] = "write the rest"
    <3>1. category[w] \in C!Existing /\ category[w] # None
      BY <1>2, <2>3 DEF CInv, C!TypeOK, CategoryRequests
    <3>2. C!NewParent(w) = parent[category[w]]
      BY <2>3 DEF C!NewParent
    <3> QED
      BY <1>2, <2>1, <3>1, <3>2 DEF C!TriggerRefuses, C!TwoLevels, C!IsRoot
  <2> QED
    BY <2>1, <2>2, <2>3
<1>3. CInv /\ [C!Next]_(C!vars) => [Cause]_(C!vars)
  BY <1>1, <1>2
<1> QED
  BY <1>3, CategoryInvariant, PTL DEF C!Spec, LevelsForCause, C!LevelsForCause

(* Requests for categories that are served one after another.              *)
CategoriesApart ==
  \A v, w \in Worker : catPc[v] # "idle" /\ catPc[w] # "idle" => v = w

NobodyOvertaken == \A w \in Worker : ~catRaced[w]

(* Nobody is overtaken then. *)
LEMMA NobodyIsOvertaken ==
  ASSUME CInv, CategoriesApart, NobodyOvertaken, [C!Next]_(C!vars) PROVE NobodyOvertaken'
<1>1. catRaced \in [Worker -> BOOLEAN]
  BY DEF CInv, C!TypeOK
<1>2. ASSUME NEW w \in Worker, C!Commit(w) PROVE NobodyOvertaken'
  <2>1. catRaced' = [v \in Worker |-> v # w /\ catPc[v] # "idle"]
    BY <1>2 DEF C!Commit
  <2>2. \A v \in Worker : ~(v # w /\ catPc[v] # "idle")
    BY <1>2 DEF C!Commit, CategoriesApart
  <2> QED
    BY <2>1, <2>2, Zenon DEF NobodyOvertaken
<1>3. ASSUME NEW w \in Worker, C!Step(w), ~C!Commit(w)
      PROVE  catRaced' = catRaced \/ catRaced' = [catRaced EXCEPT ![w] = FALSE]
  BY <1>3 DEF C!Step, C!Create, C!Move, C!CheckChildren, C!Promote, C!Edit, C!Begin,
              C!Write, C!Refuse, C!Fail, C!Rollback
<1>4. ASSUME NEW w \in Worker, catRaced' = [catRaced EXCEPT ![w] = FALSE]
      PROVE  NobodyOvertaken'
  BY <1>1, <1>4 DEF NobodyOvertaken
<1>5. ASSUME catRaced' = catRaced PROVE NobodyOvertaken'
  BY <1>5 DEF NobodyOvertaken
<1> QED
  BY <1>2, <1>3, <1>4, <1>5 DEF C!Next, C!vars, C!request

(* So the tree stays as the document has it.                               *)
LEMMA LevelsStayTwo == C!Spec /\ []CategoriesApart => []C!TwoLevels
<1>1. C!Init => NobodyOvertaken /\ C!TwoLevels
  BY DEF C!Init, NobodyOvertaken, C!TwoLevels, C!Existing
<1>2. CInv /\ CategoriesApart /\ NobodyOvertaken /\ [C!Next]_(C!vars) => NobodyOvertaken'
  BY NobodyIsOvertaken
<1>3. ASSUME NobodyOvertaken, C!TwoLevels, UNCHANGED C!vars PROVE C!TwoLevels'
  BY <1>3 DEF C!vars, C!TwoLevels, C!Existing, C!IsRoot
<1>4. /\ NobodyOvertaken /\ C!TwoLevels
      /\ [/\ C!TwoLevels /\ ~C!TwoLevels' => \E w \in Worker : C!Commit(w) /\ catRaced[w]
          /\ \A w \in Worker : C!Refuse(w) => catRaced[w] \/ ~C!TwoLevels]_(C!vars)
      => C!TwoLevels'
  BY <1>3, Zenon DEF NobodyOvertaken
<1> QED
  BY <1>1, <1>2, <1>4, CategoryInvariant, LevelsHaveCause, PTL
     DEF C!Spec, LevelsForCause, C!LevelsForCause

-----------------------------------------------------------------------------
(* Accounts *)

(* A creation is about an account without a row, and no other request is.  *)
Opening(w) ==
  /\ account[w] \in Account \ A!Row
  /\ \A v \in Worker \ {w} : account[v] # account[w]

(* What the request of each worker is about. *)
AccountRequests ==
  \A w \in Worker :
    \/ accPc[w] = "idle"
    \/ /\ accPc[w] = "insert" /\ writes[w] \in A!Chosen /\ Opening(w)
    \/ /\ accPc[w] = "done" /\ writes[w] \in Currency /\ Opening(w)
    \/ /\ accPc[w] \in {"update", "done"} /\ account[w] \in A!Row
       /\ writes[w] \in {"archived", "active", "the rest"}

(* The currency of a creation nobody has overtaken is still in use.        *)
StillFits ==
  \A w \in Worker :
    ~accRaced[w] /\ accPc[w] \in {"insert", "done"} /\ writes[w] \in A!Chosen
      /\ A!InUse # {} => A!Effective(writes[w]) \in A!InUse

(* Until something lets a second currency in, all rows have the currency of*)
(* those in use, and some are in use.                                      *)
OneCurrency ==
  ~excused =>
    /\ \A a, b \in A!Row : currency[a] = currency[b]
    /\ A!Row # {} => inUse # {}

AInv == A!TypeOK /\ AccountRequests /\ StillFits /\ OneCurrency

(* What a worker does before it commits only matters to itself.            *)
LEMMA AccountLocal ==
  ASSUME AInv, NEW w \in Worker, currency' = currency, inUse' = inUse, excused' = excused,
         NEW next \in {"idle", "insert", "update", "done"},
         accPc' = [accPc EXCEPT ![w] = next],
         NEW x \in Account \cup {None}, account' = [account EXCEPT ![w] = x],
         NEW c \in Currency \cup {None} \cup Flags, writes' = [writes EXCEPT ![w] = c],
         NEW r \in BOOLEAN, accRaced' = [accRaced EXCEPT ![w] = r],
         \/ next = "idle" /\ x = None
         \/ /\ next = "insert" /\ c \in A!Chosen /\ x \in Account \ A!Row
            /\ \A v \in Worker \ {w} : account[v] # x
         \/ /\ next = "done" /\ c \in Currency /\ x \in Account \ A!Row
            /\ \A v \in Worker \ {w} : account[v] # x
         \/ /\ next \in {"update", "done"} /\ x \in A!Row
            /\ c \in {"archived", "active", "the rest"},
         ~r /\ next \in {"insert", "done"} /\ c \in A!Chosen /\ A!InUse # {} =>
           A!Effective(c) \in A!InUse
  PROVE  AInv'
<1>1. /\ accPc'[w] = next /\ account'[w] = x /\ writes'[w] = c /\ accRaced'[w] = r
      /\ \A v \in Worker \ {w} :
           /\ accPc'[v] = accPc[v] /\ account'[v] = account[v]
           /\ writes'[v] = writes[v] /\ accRaced'[v] = accRaced[v]
  BY DEF AInv, A!TypeOK
<1>2. A!Row' = A!Row /\ A!InUse' = A!InUse
  BY DEF A!Row, A!InUse
<1>3. A!TypeOK'
  BY <1>1, <1>2 DEF AInv, A!TypeOK, A!Chosen, Flags
<1>4. AccountRequests'
  <2> SUFFICES ASSUME NEW u \in Worker, accPc'[u] # "idle"
               PROVE  \/ /\ accPc'[u] = "insert" /\ writes'[u] \in A!Chosen
                         /\ account'[u] \in Account \ A!Row
                         /\ \A v \in Worker \ {u} : account'[v] # account'[u]
                      \/ /\ accPc'[u] = "done" /\ writes'[u] \in Currency
                         /\ account'[u] \in Account \ A!Row
                         /\ \A v \in Worker \ {u} : account'[v] # account'[u]
                      \/ /\ accPc'[u] \in {"update", "done"} /\ account'[u] \in A!Row
                         /\ writes'[u] \in {"archived", "active", "the rest"}
    BY <1>2 DEF AccountRequests, Opening, A!Chosen
  <2>1. CASE u = w
    <3>1. accPc'[u] = next /\ account'[u] = x /\ writes'[u] = c /\ next # "idle"
      BY <1>1, <2>1
    <3>2. \/ /\ next = "insert" /\ c \in A!Chosen /\ x \in Account \ A!Row
             /\ \A v \in Worker \ {u} : account[v] # x
          \/ /\ next = "done" /\ c \in Currency /\ x \in Account \ A!Row
             /\ \A v \in Worker \ {u} : account[v] # x
          \/ /\ next \in {"update", "done"} /\ x \in A!Row
             /\ c \in {"archived", "active", "the rest"}
      BY <2>1, <3>1
    <3>3. \A v \in Worker \ {u} : account'[v] = account[v]
      BY <1>1, <2>1
    <3> QED
      BY <3>1, <3>2, <3>3
  <2>2. CASE u # w
    <3>2. Opening(u) => x # account[u]
      <4>1. next \in {"insert", "done"} /\ x \notin A!Row => x # account[u]
        BY <2>2
      <4>2. ~(x \in A!Row \/ x = None) \/ ~Opening(u) \/ x # account[u]
        BY DEF Opening, AInv, A!TypeOK
      <4> QED
        BY <4>1, <4>2
    <3>3. Opening(u) => \A v \in Worker \ {u} : account'[v] # account'[u]
      BY <1>1, <2>2, <3>2 DEF Opening
    <3> QED
      BY <1>1, <2>2, <3>3 DEF AInv, AccountRequests, Opening
  <2> QED
    BY <2>1, <2>2
<1>5. StillFits'
  <2>1. ASSUME NEW u \in Worker, ~accRaced'[u], accPc'[u] \in {"insert", "done"},
               writes'[u] \in A!Chosen, A!InUse # {}
        PROVE  A!Effective(writes'[u]) \in A!InUse
    <3>1. CASE u = w
      <4>1. ~r
        BY <1>1, <2>1, <3>1, Zenon
      <4> QED
        BY <1>1, <2>1, <3>1, <4>1
    <3>2. CASE u # w
      <4>1. ~accRaced[u]
        BY <1>1, <2>1, <3>2, Zenon
      <4> QED
        BY <1>1, <2>1, <3>2, <4>1 DEF AInv, StillFits
    <3> QED
      BY <3>1, <3>2
  <2>2. \A u \in Worker : A!Effective(writes[u])' = A!Effective(writes'[u])
    BY DEF A!Effective
  <2> QED
    BY <1>2, <2>1, <2>2 DEF StillFits, A!Chosen
<1>6. OneCurrency'
  BY <1>2 DEF AInv, OneCurrency
<1> QED
  BY <1>3, <1>4, <1>5, <1>6 DEF AInv

(* What a commit leaves.                                                   *)
LEMMA AccountCommit ==
  ASSUME AInv, NEW w \in Worker, A!Commit(w)
  PROVE  AInv'
<1> USE DEF A!Chosen
<1>1. /\ currency \in [Account -> A!Chosen] /\ inUse \subseteq A!Row
      /\ accPc[w] = "done"
      /\ accPc' = [accPc EXCEPT ![w] = "idle"]
      /\ account' = [account EXCEPT ![w] = None]
      /\ writes' = [writes EXCEPT ![w] = "nothing"]
      /\ accRaced' = [v \in Worker |-> v # w /\ accPc[v] # "idle"]
  BY DEF AInv, A!TypeOK, A!Commit, A!End
<1>2. \/ writes[w] \in Currency /\ Opening(w)
      \/ account[w] \in A!Row /\ writes[w] \in {"archived", "active", "the rest"}
  BY <1>1 DEF AInv, AccountRequests
<1>3. ASSUME writes[w] \in Currency, Opening(w)
      PROVE  /\ currency' = [currency EXCEPT ![account[w]] = writes[w]]
             /\ inUse' = inUse \cup {account[w]}
             /\ account[w] \in Account \ A!Row
             /\ A!Row' = A!Row \cup {account[w]}
             /\ \A a \in A!Row : currency'[a] = currency[a]
             /\ currency'[account[w]] = writes[w]
  <2>1. writes[w] \notin Flags
    BY <1>3
  <2>2. currency' = [currency EXCEPT ![account[w]] = writes[w]]
    BY <1>3 DEF A!Commit, A!CurrencyAfter
  <2>3. inUse' = inUse \cup {account[w]}
    BY <2>1 DEF A!Commit, A!ActiveAfter, Flags
  <2>4. account[w] \in Account \ A!Row
    BY <1>3 DEF Opening
  <2>5. A!Row' = A!Row \cup {account[w]}
    BY <1>1, <1>3, <2>2, <2>4 DEF A!Row
  <2>6. \A a \in A!Row : currency'[a] = currency[a]
    BY <1>1, <2>2, <2>4 DEF A!Row
  <2>7. currency'[account[w]] = writes[w]
    BY <1>1, <2>2, <2>4
  <2> QED
    BY <2>2, <2>3, <2>4, <2>5, <2>6, <2>7
<1>4. ASSUME account[w] \in A!Row, writes[w] \in {"archived", "active", "the rest"}
      PROVE  /\ currency' = currency /\ A!Row' = A!Row /\ inUse' \subseteq A!Row
  <2>1. writes[w] \notin Currency
    BY <1>4 DEF Flags
  <2>2. currency' = currency
    BY <2>1 DEF A!Commit, A!CurrencyAfter
  <2>3. /\ writes[w] # "active" => inUse' \subseteq inUse
        /\ writes[w] = "active" => inUse' = inUse \cup {account[w]}
    BY <1>4 DEF A!Commit, A!ActiveAfter
  <2> QED
    BY <1>1, <1>4, <2>2, <2>3 DEF A!Row
<1>5. /\ currency' \in [Account -> A!Chosen] /\ inUse' \subseteq A!Row'
      /\ \/ A!Row' = A!Row
         \/ A!Row' = A!Row \cup {account[w]} /\ Opening(w)
  <2>1. CASE writes[w] \in Currency /\ Opening(w)
    BY <1>1, <1>3, <2>1
  <2>2. CASE account[w] \in A!Row /\ writes[w] \in {"archived", "active", "the rest"}
    BY <1>1, <1>4, <2>2
  <2> QED
    BY <1>2, <2>1, <2>2
<1>6. A!TypeOK'
  <2>1. excused \in BOOLEAN /\ excused' = (excused \/ A!Excuses(w))
    BY Zenon DEF AInv, A!TypeOK, A!Commit
  <2>2. excused' \in BOOLEAN
    BY <2>1, Zenon
  <2> QED
    BY <1>1, <1>5, <2>2 DEF AInv, A!TypeOK
<1>7. /\ accPc'[w] = "idle" /\ account'[w] = None
      /\ \A v \in Worker \ {w} : /\ accPc'[v] = accPc[v] /\ account'[v] = account[v]
                                 /\ writes'[v] = writes[v]
  BY <1>1 DEF AInv, A!TypeOK
<1>8. ASSUME NEW u \in Worker \ {w}, Opening(u) PROVE Opening(u)'
  <2>1. account[w] # account[u] /\ account[u] \in Account \ A!Row
    BY <1>8 DEF Opening
  <2>2. account'[u] \in Account \ A!Row'
    BY <1>5, <1>7, <2>1
  <2>3. \A v \in Worker \ {u} : account'[v] # account'[u]
    BY <1>7, <1>8, <2>1 DEF Opening
  <2> QED
    BY <2>2, <2>3 DEF Opening
<1>9. AccountRequests'
  <2>1. \A u \in Worker \ {w} : account[u] \in A!Row => account'[u] \in A!Row'
    BY <1>5, <1>7
  <2> QED
    BY <1>7, <1>8, <2>1 DEF AInv, AccountRequests
<1>10. StillFits'
  <2>1. \A u \in Worker : ~accRaced'[u] => accPc'[u] = "idle"
    BY <1>1, <1>7
  <2> QED
    BY <2>1 DEF StillFits
<1>11. OneCurrency'
  <2> SUFFICES ASSUME ~excused'
               PROVE  /\ \A a, b \in A!Row' : currency'[a] = currency'[b]
                      /\ A!Row' # {} => inUse' # {}
    BY DEF OneCurrency
  <2>1. ~excused /\ ~A!Excuses(w)
    BY Zenon DEF A!Commit
  <2>2. inUse' # {}
    BY <2>1 DEF A!Excuses, A!Commit
  <2>3. \A a, b \in A!Row : currency[a] = currency[b]
    BY <2>1 DEF AInv, OneCurrency
  <2>4. ASSUME writes[w] \in Currency, Opening(w), NEW a \in A!Row
        PROVE  currency[a] = writes[w]
    <3>1. ~accRaced[w]
      BY <2>1, <2>4, Zenon DEF A!Excuses
    <3>2. A!InUse # {}
      BY <2>1, <2>4 DEF AInv, OneCurrency, A!InUse
    <3>3. writes[w] # Blank
      BY <2>1, <3>2 DEF A!Excuses
    <3>4. A!Effective(writes[w]) = writes[w]
      BY <2>4, <3>3, DomainsAssumption DEF A!Effective
    <3>5. writes[w] \in A!InUse
      BY <1>1, <2>4, <3>1, <3>2, <3>4 DEF AInv, StillFits
    <3>6. PICK b \in inUse : writes[w] = currency[b]
      BY <3>5 DEF A!InUse
    <3> QED
      BY <1>1, <2>3, <2>4, <3>6
  <2>5. CASE writes[w] \in Currency /\ Opening(w)
    BY <1>3, <2>2, <2>4, <2>5
  <2>6. CASE account[w] \in A!Row /\ writes[w] \in {"archived", "active", "the rest"}
    BY <1>4, <2>2, <2>3, <2>6
  <2> QED
    BY <1>2, <2>5, <2>6
<1> QED
  BY <1>6, <1>9, <1>10, <1>11 DEF AInv

(* Accounts start without any, and what is known of them stays known. *)
LEMMA AccountSteps == /\ A!Init => AInv
                      /\ AInv /\ [A!Next]_(A!vars) => AInv'
<1> USE DEF A!Chosen
<1>1. A!Init => AInv
  BY DEF A!Init, AInv, A!TypeOK, AccountRequests, StillFits, OneCurrency, A!Row
<1>2. ASSUME AInv, NEW w \in Worker,
             A!Create(w) \/ A!Insert(w) \/ A!Patch(w) \/ A!Update(w) \/ A!Commit(w) \/ A!Fail(w)
      PROVE  AInv'
  <2>0. accRaced[w] \in BOOLEAN /\ accRaced = [accRaced EXCEPT ![w] = accRaced[w]]
        /\ account = [account EXCEPT ![w] = account[w]]
        /\ writes = [writes EXCEPT ![w] = writes[w]]
        /\ account[w] \in Account \cup {None}
        /\ writes[w] \in Currency \cup {None} \cup Flags
    BY <1>2 DEF AInv, A!TypeOK, Flags
  <2>1. CASE A!Create(w)
    <3>1. PICK x \in Account \ A!Row, c \in Currency \cup {None} :
            (\A v \in Worker : account[v] # x) /\ A!Fits(c) /\ A!Begin(w, "insert", x, c)
      BY <2>1 DEF A!Create
    <3>2. A!InUse # {} => A!Effective(c) \in A!InUse
      BY <3>1 DEF A!Fits
    <3> QED
      BY <1>2, <2>0, <3>1, <3>2, AccountLocal DEF A!Begin
  <2>2. CASE A!Insert(w)
    <3>1. writes[w] \in A!Chosen /\ Opening(w)
      BY <1>2, <2>2 DEF A!Insert, AInv, AccountRequests
    <3>2. /\ A!Inserted(writes[w]) \in Currency
          /\ A!Effective(A!Inserted(writes[w])) = A!Effective(writes[w])
      BY <3>1, DomainsAssumption DEF A!Inserted, A!Effective
    <3>3. writes' = [writes EXCEPT ![w] = A!Inserted(writes[w])]
      BY <2>2 DEF A!Insert
    <3>4. ~accRaced[w] /\ A!InUse # {} => A!Effective(writes[w]) \in A!InUse
      BY <1>2, <2>2, <3>1 DEF AInv, StillFits, A!Insert
    <3>5. /\ account[w] \in Account \ A!Row
          /\ \A v \in Worker \ {w} : account[v] # account[w]
      BY <3>1 DEF Opening
    <3> HIDE DEF A!Chosen
    <3>6. /\ currency' = currency /\ inUse' = inUse
          /\ accPc' = [accPc EXCEPT ![w] = "done"]
          /\ account' = [account EXCEPT ![w] = account[w]]
          /\ accRaced' = [accRaced EXCEPT ![w] = accRaced[w]] /\ excused' = excused
      BY <2>0, <2>2 DEF A!Insert
    <3> QED
      BY <1>2, <2>0, <3>2, <3>3, <3>4, <3>5, <3>6, AccountLocal
  <2>3. CASE A!Patch(w)
    <3>1. PICK x \in A!Row, c \in {"archived", "active", "the rest"} :
            A!Begin(w, "update", x, c)
      BY <2>3 DEF A!Patch
    <3>2. x \in Account \cup {None} /\ c \in Currency \cup {None} \cup Flags
      BY DEF A!Row, Flags
    <3> QED
      BY <1>2, <2>0, <3>1, <3>2, AccountLocal DEF A!Begin
  <2>4. CASE A!Update(w)
    <3>1. account[w] \in A!Row /\ writes[w] \in {"archived", "active", "the rest"}
      BY <1>2, <2>4 DEF A!Update, AInv, AccountRequests
    <3>2. writes[w] \notin A!Chosen
      BY <3>1 DEF Flags
    <3> QED
      BY <1>2, <2>0, <2>4, <3>1, <3>2, AccountLocal DEF A!Update
  <2>5. CASE A!Commit(w)
    BY <1>2, <2>5, AccountCommit
  <2>6. CASE A!Fail(w)
    <3>1. "nothing" \in Currency \cup {None} \cup Flags
      BY DEF Flags
    <3> QED
      BY <1>2, <2>6, <3>1, AccountLocal DEF A!Fail, A!Rollback, A!End
  <2> QED
    BY <1>2, <2>1, <2>2, <2>3, <2>4, <2>5, <2>6
<1>3. ASSUME AInv, UNCHANGED A!vars PROVE AInv'
  <2>1. /\ currency' = currency /\ inUse' = inUse /\ accPc' = accPc
        /\ account' = account /\ writes' = writes /\ accRaced' = accRaced
        /\ excused' = excused
    BY <1>3 DEF A!vars
  <2>2. A!Row' = A!Row /\ A!InUse' = A!InUse
    BY <2>1 DEF A!Row, A!InUse
  <2>3. A!TypeOK'
    BY <1>3, <2>1, <2>2 DEF AInv, A!TypeOK
  <2>4. AccountRequests'
    BY <1>3, <2>1, <2>2 DEF AInv, AccountRequests, Opening
  <2>5. StillFits'
    BY <1>3, <2>1, <2>2 DEF AInv, StillFits, A!Effective
  <2>6. OneCurrency'
    BY <1>3, <2>1, <2>2 DEF AInv, OneCurrency
  <2> QED
    BY <2>3, <2>4, <2>5, <2>6 DEF AInv
<1> QED
  BY <1>1, <1>2, <1>3 DEF A!Next

(* The invariant of Accounts. *)
LEMMA AccountInvariant == A!Spec => []AInv
  BY AccountSteps, PTL DEF A!Spec

(* A second currency has a cause. *)
LEMMA CurrenciesHaveCause == A!Spec => []MixedForCause
<1>1. AInv => MixedForCause
  BY DEF AInv, OneCurrency, MixedForCause, A!MixedForCause
<1> QED
  BY <1>1, AccountInvariant, PTL

-----------------------------------------------------------------------------
(* Plans nobody edits *)

(* The calendar of PlanSchedule is the one of PlanCalendar. *)
LEMMA SameCalendar ==
  /\ S!Dates = Dates /\ S!Frequencies = Frequencies /\ S!Monthly = Monthly
  /\ \A x : S!Day(x) = Day(x) /\ S!Month(x) = Month(x)
  /\ \A x : S!MonthLength(x) = MonthLength(x) /\ S!MonthsPer(x) = MonthsPer(x)
  /\ \A x : S!DayNumber(x) = DayNumber(x)
  /\ \A x, f, d : S!AdvanceScheduledDate(x, f, d) = AdvanceScheduledDate(x, f, d)
<1>1. /\ \A x : S!Day(x) = Day(x) /\ S!Month(x) = Month(x)
      /\ \A x : S!LeapYear(x) = LeapYear(x)
      /\ \A x, y : S!On(x, y) = On(x, y) /\ S!Earlier(x, y) = Earlier(x, y)
      /\ S!Monthly = Monthly /\ S!Units = Units /\ S!NoAnchor = NoAnchor
      /\ \A x : S!MonthsPer(x) = MonthsPer(x) /\ S!DaysPer(x) = DaysPer(x)
  BY Zenon DEF S!Day, Day, S!Month, Month, S!LeapYear, LeapYear, S!On, On, S!Earlier, Earlier,
         S!Monthly, Monthly, S!Units, Units, S!NoAnchor, NoAnchor,
         S!MonthsPer, MonthsPer, S!DaysPer, DaysPer
<1>2. \A x : S!MonthLength(x) = MonthLength(x)
  BY Zenon DEF S!MonthLength, MonthLength, S!LeapYear, LeapYear
<1>3. S!Dates = Dates /\ S!Frequencies = Frequencies
  BY Zenon DEF S!Dates, Dates, S!Frequencies, Frequencies, S!Units, Units, S!Day, Day, S!Month, Month,
      S!MonthLength, MonthLength, S!LeapYear, LeapYear
<1>4. \A x : S!DayNumber(x) = DayNumber(x)
  BY Zenon DEF S!DayNumber, DayNumber, S!DaysBeforeMonth, DaysBeforeMonth,
         S!DaysBeforeYear, DaysBeforeYear, S!Day, Day, S!Month, Month, S!LeapYear, LeapYear
<1>5. \A x, n : S!AddDays(x, n) = AddDays(x, n)
  BY Zenon DEF S!AddDays, AddDays, S!Tomorrow, Tomorrow, S!Day, Day, S!Month, Month, S!On, On,
         S!MonthLength, MonthLength, S!LeapYear, LeapYear
<1>6. \A x, d : S!Clipped(x, d) = Clipped(x, d)
  BY <1>1, <1>2 DEF S!Clipped, Clipped
<1>7. \A x, f, d : S!AdvanceScheduledDate(x, f, d) = AdvanceScheduledDate(x, f, d)
  BY <1>1, <1>5, <1>6 DEF S!AdvanceScheduledDate, AdvanceScheduledDate
<1> QED
  BY <1>1, <1>2, <1>3, <1>4, <1>7

(* The n-th due date of a plan that starts on x, as a closed form for      *)
(* months and years.                                                       *)
OnSchedule(x, f, d, n) ==
  /\ f.unit \in Monthly => d = Clipped(Month(x) + n * MonthsPer(f), Day(x))
  /\ f.unit \notin Monthly => DayNumber(d) = DayNumber(x) + n * DaysPer(f)

ScheduleInv ==
  /\ first \in FirstDates \cap Dates
  /\ frequency \in PlanFrequencies \cap Frequencies
  /\ anchor = Day(first)
  /\ nextDue \in Dates
  /\ occurrences \in Nat
  /\ OnSchedule(first, frequency, nextDue, occurrences)

(* The first due date is on schedule. *)
LEMMA StartsOnSchedule ==
  ASSUME NEW x \in Dates, NEW f \in Frequencies PROVE OnSchedule(x, f, x, 0)
<1>1. MonthsPer(f) \in Nat /\ DaysPer(f) \in Nat
  BY DEF Frequencies, MonthsPer, DaysPer
<1>2. Month(x) \in Nat /\ Clipped(Month(x), Day(x)) = x
  BY DateOfParts, MonthLengthRange DEF Clipped, Earlier
<1>3. Month(x) + 0 * MonthsPer(f) = Month(x) /\ DayNumber(x) + 0 * DaysPer(f) = DayNumber(x)
  BY <1>1, <1>2, TomorrowIsNext
<1> QED
  BY <1>2, <1>3 DEF OnSchedule

(* And so is the one after a due date that is. *)
LEMMA StaysOnSchedule ==
  ASSUME NEW x \in Dates, NEW f \in Frequencies, NEW d \in Dates, NEW n \in Nat,
         OnSchedule(x, f, d, n)
  PROVE  OnSchedule(x, f, AdvanceScheduledDate(d, f, Day(x)), n + 1)
<1>1. Month(x) \in Nat /\ Day(x) \in 1..31
  BY DateOfParts
<1>2. /\ MonthsPer(f) \in Nat /\ n * MonthsPer(f) \in Nat
      /\ DaysPer(f) \in Nat /\ n * DaysPer(f) \in Nat
  BY DEF Frequencies, MonthsPer, DaysPer
<1>3. /\ (n + 1) * MonthsPer(f) = n * MonthsPer(f) + MonthsPer(f)
      /\ (n + 1) * DaysPer(f) = n * DaysPer(f) + DaysPer(f)
  BY <1>2
<1>4. CASE f.unit \in Monthly
  <2>1. Month(d) = Month(x) + n * MonthsPer(f)
    BY <1>1, <1>2, <1>4, ClippedIsDate DEF OnSchedule
  <2>2. AdvanceScheduledDate(d, f, Day(x)) = Clipped(Month(d) + MonthsPer(f), Day(x))
    BY <1>1, <1>4 DEF AdvanceScheduledDate, NoAnchor
  <2>3. Month(d) + MonthsPer(f) = Month(x) + (n + 1) * MonthsPer(f)
    BY <1>1, <1>2, <1>3, <2>1
  <2> QED
    BY <1>4, <2>2, <2>3 DEF OnSchedule
<1>5. CASE f.unit \notin Monthly
  <2>1. AdvanceScheduledDate(d, f, Day(x)) = AddDays(d, DaysPer(f))
    BY <1>5 DEF AdvanceScheduledDate
  <2>2. DayNumber(AddDays(d, DaysPer(f))) = DayNumber(d) + DaysPer(f)
    BY <1>2, AddDaysCounts
  <2>3. DayNumber(d) = DayNumber(x) + n * DaysPer(f) /\ DayNumber(x) \in Int
    BY <1>5, TomorrowIsNext DEF OnSchedule
  <2> QED
    BY <1>2, <1>3, <1>5, <2>1, <2>2, <2>3 DEF OnSchedule
<1> QED
  BY <1>4, <1>5

(* What an advanced plan becomes. *)
LEMMA ScheduleAdvances ==
  ASSUME ScheduleInv, S!Advance PROVE ScheduleInv' /\ nextDue' > nextDue
<1>1. /\ nextDue' = AdvanceScheduledDate(nextDue, frequency, Day(first))
      /\ occurrences' = occurrences + 1
      /\ first' = first /\ frequency' = frequency /\ anchor' = anchor
  BY SameCalendar DEF S!Advance, ScheduleInv
<1>2. first \in Dates /\ frequency \in Frequencies /\ nextDue \in Dates /\ Day(first) \in 0..31
  BY DateOfParts DEF ScheduleInv
<1>3. nextDue' \in Dates /\ nextDue' > nextDue
  BY <1>1, <1>2, AdvanceIsLater
<1>4. OnSchedule(first, frequency, nextDue', occurrences')
  BY <1>1, <1>2, StaysOnSchedule DEF ScheduleInv
<1>5. OnSchedule(first, frequency, nextDue, occurrences)'
  BY <1>1, <1>4 DEF OnSchedule
<1> QED
  BY <1>1, <1>3, <1>5 DEF ScheduleInv

(* The invariant of PlanSchedule. *)
LEMMA ScheduleInvariant == S!Spec => []ScheduleInv
<1>1. S!Init => ScheduleInv
  BY SameCalendar, StartsOnSchedule DEF S!Init, ScheduleInv
<1>2. ASSUME ScheduleInv, UNCHANGED S!vars PROVE ScheduleInv'
  BY <1>2 DEF ScheduleInv, OnSchedule, S!vars
<1> QED
  BY <1>1, <1>2, ScheduleAdvances, PTL DEF S!Spec, S!Next

(* Every due date exists, and is where the first one and the frequency     *)
(* put it.                                                                 *)
LEMMA DatesAreOnSchedule == S!Spec => [](S!TypeOK /\ DueOnSchedule)
<1>1. ASSUME ScheduleInv PROVE S!TypeOK
  <2>1. Day(first) \in 1..31
    BY <1>1, DateOfParts DEF ScheduleInv
  <2> QED
    BY <1>1, <2>1, SameCalendar DEF ScheduleInv, S!TypeOK
<1>2. ASSUME ScheduleInv PROVE S!DueOnAnchor
  <2> SUFFICES ASSUME frequency.unit \in Monthly
               PROVE  /\ Month(nextDue) = Month(first) + occurrences * MonthsPer(frequency)
                      /\ Day(nextDue) <= Day(first)
                      /\ Day(nextDue) < Day(first) => Day(nextDue) = MonthLength(Month(nextDue))
    BY SameCalendar DEF S!DueOnAnchor
  <2> DEFINE m == Month(first) + occurrences * MonthsPer(frequency)
  <2>1. Month(first) \in Nat /\ Day(first) \in 1..31
    BY <1>2, DateOfParts DEF ScheduleInv
  <2>2. m \in Nat
    <3>1. MonthsPer(frequency) \in Nat /\ occurrences \in Nat
      BY <1>2, MonthsPerPositive DEF ScheduleInv
    <3>2. occurrences * MonthsPer(frequency) \in Nat
      BY <3>1
    <3> QED
      BY <2>1, <3>2
  <2>3. nextDue = Clipped(m, Day(first))
    BY <1>2 DEF ScheduleInv, OnSchedule
  <2> HIDE DEF m
  <2>4. Month(nextDue) = m /\ Day(nextDue) = Earlier(Day(first), MonthLength(m))
    BY <2>1, <2>2, <2>3, ClippedIsDate
  <2>5. MonthLength(m) \in 28..31
    BY <2>2, MonthLengthRange
  <2> QED
    BY <2>1, <2>4, <2>5 DEF Earlier, m
<1>3. ASSUME ScheduleInv PROVE S!DueKeepsDistance
  <2> DEFINE days == IF frequency.unit = "week" THEN 7 ELSE 1
  <2>1. frequency \in Frequencies /\ occurrences \in Nat /\ first \in Dates
    BY <1>3 DEF ScheduleInv
  <2>2. frequency.interval \in Nat /\ frequency.unit \in Units
    BY <2>1 DEF Frequencies
  <2> SUFFICES ASSUME frequency.unit \notin Monthly
               PROVE  DayNumber(nextDue) = DayNumber(first) + occurrences * frequency.interval * days
    BY SameCalendar DEF S!DueKeepsDistance
  <2>3. frequency.unit \in {"day", "week"}
    BY <2>2 DEF Units, Monthly
  <2>4. DaysPer(frequency) = frequency.interval * days
    BY <2>2, <2>3 DEF DaysPer
  <2>5. days \in Nat
    OBVIOUS
  <2> HIDE DEF days
  <2>6. occurrences * (frequency.interval * days) = occurrences * frequency.interval * days
    BY <2>1, <2>2, <2>5
  <2> QED
    BY <1>3, <2>4, <2>6 DEF ScheduleInv, OnSchedule
<1> QED
  BY <1>1, <1>2, <1>3, ScheduleInvariant, PTL DEF DueOnSchedule

(* And later than the one before. *)
LEMMA DatesMoveForward == S!Spec => S!DueMovesForward
<1>1. ScheduleInv /\ [S!Next]_(S!vars) => [nextDue' > nextDue]_(S!vars)
  BY ScheduleAdvances DEF S!Next
<1> QED
  BY <1>1, ScheduleInvariant, PTL DEF S!Spec, S!DueMovesForward

-----------------------------------------------------------------------------
(* The overview *)

(* Sums are the same in Overview and here. *)
LEMMA SameSums == \A f, T : O!SumFunctionOnSet(f, T) = SumFunctionOnSet(f, T)
  BY DEF SumFunctionOnSet, O!SumFunctionOnSet, FoldFunctionOnSet, O!FoldFunctionOnSet,
         MapThenFoldSet, O!MapThenFoldSet

(* What accounts hold, and the next payday, of given rows. *)
Held(b, o) == SumFunctionOnSet(b, o \cap Spendable)

Salaries(act) == {p \in act \cap Income : PlanPeriod[p] > 0}

Soonest(act, d) ==
  {p \in Salaries(act) : \A q \in Salaries(act) :
     d[p] < d[q] \/ (d[p] = d[q] /\ PlanAmount[p] >= PlanAmount[q])}

NextSalary(act, d) ==
  IF Salaries(act) = {} THEN None ELSE CHOOSE p \in Soonest(act, d) : TRUE

(* The plans that are expenses. *)
Costs == Plan \ (Income \cup Transfer)

Expenses(act, d, until) == {p \in act \cap Costs : d[p] <= until}

(* What the statements return, in the words of this module. *)
LEMMA OverviewReads ==
  /\ O!Available = Held(balance, open)
  /\ O!Available' = Held(balance', open')
  /\ O!Payday = NextSalary(planned, due)
  /\ O!Payday' = NextSalary(planned', due')
  /\ \A until : O!Pending(until) = Expenses(planned, due, until)
<1>1. /\ O!Available = Held(balance, open)
      /\ O!Available' = Held(balance', open')
  BY SameSums DEF O!Available, Held
<1>2. O!Payday = NextSalary(planned, due)
  BY Zenon DEF O!Payday, O!First, O!Candidates, O!Before, NextSalary, Soonest, Salaries
<1>3. O!Payday' = NextSalary(planned', due')
  BY Zenon DEF O!Payday, O!First, O!Candidates, O!Before, NextSalary, Soonest, Salaries
<1>4. \A until : O!Pending(until) = Expenses(planned, due, until)
  BY DEF O!Pending, O!Expense, Expenses, Costs
<1> QED
  BY <1>1, <1>2, <1>3, <1>4

(* The next payday is the plan of an income, if there is any; and only     *)
(* depends on these.                                                       *)
LEMMA NextSalaryIs ==
  ASSUME NEW act, act \subseteq Plan, NEW d \in [Plan -> Nat], NextSalary(act, d) # None
  PROVE  NextSalary(act, d) \in Salaries(act)
<1>1. Salaries(act) # {} /\ Salaries(act) \subseteq act /\ Salaries(act) \subseteq Plan
  BY DEF NextSalary, Salaries
<1>2. IsFiniteSet(Salaries(act))
  BY <1>1, FS_Subset, OverviewAssumption
<1>3. \A p \in Salaries(act) : d[p] \in Int /\ PlanAmount[p] \in Int
  BY <1>1, OverviewAssumption
<1>4. \E p \in Salaries(act) : \A q \in Salaries(act) :
        d[p] < d[q] \/ (d[p] = d[q] /\ PlanAmount[p] >= PlanAmount[q])
  <2> DEFINE T == Salaries(act)
  <2> HIDE DEF T
  <2>1. IsFiniteSet(T) /\ T # {} /\ \A p \in T : d[p] \in Int /\ PlanAmount[p] \in Int
    BY <1>1, <1>2, <1>3 DEF T
  <2>2. \E p \in T : \A q \in T :
          d[p] < d[q] \/ (d[p] = d[q] /\ PlanAmount[p] >= PlanAmount[q])
    BY <2>1, FirstOfSome
  <2> QED
    BY <2>2 DEF T
<1>5. Soonest(act, d) # {} /\ Soonest(act, d) \subseteq Salaries(act)
  BY <1>4 DEF Soonest
<1> QED
  BY <1>5, <1>1 DEF NextSalary

(* The next payday stays as long as the incomes and their dates do. *)
LEMMA SameNextSalary ==
  ASSUME NEW act, NEW d, NEW act2, NEW d2, act2 \cap Income = act \cap Income,
         \A p \in act \cap Income : d2[p] = d[p]
  PROVE  NextSalary(act2, d2) = NextSalary(act, d)
<1>1. Salaries(act2) = Salaries(act) /\ \A p \in Salaries(act) : d2[p] = d[p]
  BY DEF Salaries
<1>2. Soonest(act2, d2) = Soonest(act, d)
  BY <1>1 DEF Soonest
<1> QED
  BY <1>1, <1>2 DEF NextSalary

(* What a request has read, and what of it is still so if nothing but      *)
(* expenses and transfers of plans has been committed.                     *)
Reading ==
  /\ read.step = "idle" => read = O!Nothing /\ slipped = 0 /\ ~disturbed
  /\ read.step # "idle" => read.today \in 0..overToday /\ read.available \in Int
  /\ read.step = "payday" => read.horizon \in Nat

StillSo ==
  /\ read.step # "idle" /\ ~disturbed => read.available = Held(balance, open) + slipped
  /\ read.step = "payday" /\ ~disturbed =>
       /\ read.payday = NextSalary(planned, due)
       /\ read.horizon = O!Horizon(read.today, read.payday)

(* What an answer with a payday is made of. *)
AnswerMade ==
  O!Pays(answer) =>
    /\ answer.today \in Nat /\ answer.horizon \in Nat /\ answer.today <= answer.horizon
    /\ answer.available \in Int
    /\ DOMAIN answer.pending \subseteq Costs
    /\ \A p \in DOMAIN answer.pending :
         answer.pending[p] \in Nat /\ answer.pending[p] <= answer.horizon

(* The expenses of an answer that are still to be posted.                  *)
Unposted(a, act, d) == {p \in DOMAIN a.pending : p \in act /\ d[p] = a.pending[p]}

(* Until the cycle is over, the expenses of an answer leave the balance one*)
(* by one, and once each, beside what is transferred.                      *)
PostedOnce ==
  exact /\ O!Pays(answer) /\ O!Foreseen(answer) /\ overToday <= answer.horizon =>
    /\ \A p \in (planned \cap Costs) \ Unposted(answer, planned, due) : due[p] > answer.horizon
    /\ Held(balance, open) = answer.available - transferred
         - SumFunctionOnSet(PlanAmount, DOMAIN answer.pending \ Unposted(answer, planned, due))

OInv == O!TypeOK /\ Reading /\ StillSo /\ AnswerMade /\ PostedOnce

(* What accounts hold is a number. *)
LEMMA HeldIsInteger ==
  ASSUME NEW b \in [Holding -> Int], NEW o, o \subseteq Holding PROVE Held(b, o) \in Int
<1>1. IsFiniteSet(o \cap Spendable)
  BY FS_Subset, OverviewAssumption
<1> QED
  BY <1>1, SumIsInteger DEF Held

(* What one account less takes out of the balance. *)
LEMMA HeldAfter ==
  ASSUME NEW b \in [Holding -> Int], NEW o, o \subseteq Holding, NEW x \in Holding,
         NEW n \in Int, NEW c \in [Holding -> Int], c[x] = b[x] - n,
         \A y \in Holding \ {x} : c[y] = b[y]
  PROVE  Held(c, o) = Held(b, o) - (IF x \in o \cap Spendable THEN n ELSE 0)
<1> DEFINE T == o \cap Spendable
<1>1. IsFiniteSet(T) /\ \A y \in T : b[y] \in Int /\ c[y] \in Int
  BY FS_Subset, OverviewAssumption
<1>2. c[x] = b[x] - n /\ c[x] \in Int /\ b[x] \in Int /\ \A y \in T \ {x} : c[y] = b[y]
  OBVIOUS
<1>3. SumFunctionOnSet(b, T) \in Int
  BY <1>1, SumIsInteger
<1> HIDE DEF T
<1>4. CASE x \in T
  <2>1. SumFunctionOnSet(c, T) = SumFunctionOnSet(b, T) - b[x] + c[x]
    BY <1>1, <1>2, <1>4, SumOneChanged
  <2>2. x \in o \cap Spendable
    BY <1>4 DEF T
  <2> QED
    BY <1>2, <1>3, <2>1, <2>2 DEF Held, T
<1>5. CASE x \notin T
  <2>1. \A y \in T : c[y] = b[y]
    BY <1>2, <1>5
  <2>2. SumFunctionOnSet(c, T) = SumFunctionOnSet(b, T)
    BY <1>1, <2>1, SameSum
  <2>3. x \notin o \cap Spendable
    BY <1>5 DEF T
  <2> QED
    BY <1>3, <2>2, <2>3 DEF Held, T
<1> QED
  BY <1>4, <1>5

(* What an expense or a transfer takes out of it. *)
LEMMA HeldAfterPosting ==
  ASSUME NEW p \in Plan \ Income, balance \in [Holding -> Int], open \subseteq Holding,
         balance' = O!After(p)
  PROVE  /\ balance' \in [Holding -> Int] /\ O!Out(p) \in Int
         /\ p \in Costs => O!Out(p) = IF HoldingOf[p] \in open \cap Spendable
                                      THEN PlanAmount[p] ELSE 0
         /\ Held(balance', open) = Held(balance, open) - O!Out(p)
<1> DEFINE x == HoldingOf[p]
           n == PlanAmount[p]
           y == HoldingTo[p]
<1>1. x \in Holding /\ n \in Nat /\ n \in Int /\ -n \in Int
  BY OverviewAssumption
<1>2. Held(balance, open) \in Int
  BY HeldIsInteger
<1>3. CASE p \in Costs
  <2>1. balance' = [balance EXCEPT ![x] = @ - n]
    BY <1>3 DEF O!After, O!Expense, Costs
  <2>2. O!Out(p) = IF x \in open \cap Spendable THEN n ELSE 0
    BY <1>1, <1>3 DEF O!Out, Costs
  <2>3. /\ balance' \in [Holding -> Int] /\ balance'[x] = balance[x] - n
        /\ \A z \in Holding \ {x} : balance'[z] = balance[z]
    BY <1>1, <2>1
  <2> HIDE DEF x, n
  <2>4. Held(balance', open) = Held(balance, open) - (IF x \in open \cap Spendable THEN n ELSE 0)
    BY <1>1, <2>3, HeldAfter
  <2> QED
    BY <1>1, <2>2, <2>3, <2>4 DEF x, n
<1>4. CASE p \notin Costs
  <2>1. p \in Transfer
    BY <1>4 DEF Costs
  <2>2. y \in Holding /\ y # x
    BY <2>1, OverviewAssumption
  <2>3. balance' = [balance EXCEPT ![x] = @ - n, ![y] = @ + n]
    BY <2>1 DEF O!After, O!Expense
  <2>4. O!Out(p) = (IF x \in open \cap Spendable THEN n ELSE 0)
                     - (IF y \in open \cap Spendable THEN n ELSE 0)
    BY <2>1 DEF O!Out
  <2> DEFINE c == [balance EXCEPT ![x] = @ - n]
  <2>5. /\ c \in [Holding -> Int] /\ c[x] = balance[x] - n
        /\ \A z \in Holding \ {x} : c[z] = balance[z]
    BY <1>1
  <2>6. /\ balance' \in [Holding -> Int] /\ balance'[y] = c[y] - (-n)
        /\ \A z \in Holding \ {y} : balance'[z] = c[z]
    BY <1>1, <2>2, <2>3
  <2> HIDE DEF x, n, y, c
  <2>7. Held(c, open) = Held(balance, open) - (IF x \in open \cap Spendable THEN n ELSE 0)
    BY <1>1, <2>5, HeldAfter
  <2>8. Held(balance', open) = Held(c, open) - (IF y \in open \cap Spendable THEN -n ELSE 0)
    BY <1>1, <2>2, <2>5, <2>6, HeldAfter
  <2> QED
    BY <1>1, <1>2, <1>4, <2>4, <2>6, <2>7, <2>8
<1> QED
  BY <1>3, <1>4

(* What is not an answer, or gone, promises nothing. *)
LEMMA NoAnswerLeft == answer' = None => AnswerMade' /\ PostedOnce'
  BY DEF AnswerMade, PostedOnce, O!Pays

(* Nothing is read or promised at first. *)
LEMMA OverviewInit == O!Init => OInv
<1> SUFFICES ASSUME O!Init PROVE OInv
  OBVIOUS
<1>1. /\ read.step = "idle" /\ read = O!Nothing /\ slipped = 0 /\ disturbed = FALSE
      /\ exact = FALSE /\ answer = None /\ transferred = 0
  BY DEF O!Init, O!Nothing
<1>2. O!TypeOK
  <2>1. 0 \in 0..LastOverview /\ 0 \in 0..MaxEdits
    BY OverviewAssumption
  <2>2. due \in [Plan -> Nat]
    BY OverviewAssumption DEF O!Init
  <2>3. balance \in [Holding -> Int]
    BY DEF O!Init
  <2>4. overToday = 0 /\ edits = 0 /\ open = Holding /\ planned \subseteq Plan
    BY DEF O!Init
  <2>5. disturbed \in BOOLEAN /\ exact \in BOOLEAN
    BY <1>1
  <2> QED
    BY <1>1, <2>1, <2>2, <2>3, <2>4, <2>5 DEF O!TypeOK
<1>3. Reading /\ StillSo
  BY <1>1 DEF Reading, StillSo
<1>4. AnswerMade /\ PostedOnce
  BY <1>1 DEF AnswerMade, PostedOnce, O!Pays
<1> QED
  BY <1>2, <1>3, <1>4 DEF OInv

(* A new day changes no row and no answer. *)
LEMMA OverviewMidnight == ASSUME OInv, O!Midnight PROVE OInv'
<1>1. /\ overToday' = overToday + 1 /\ overToday < LastOverview
      /\ balance' = balance /\ open' = open /\ planned' = planned /\ due' = due
      /\ edits' = edits /\ read' = read /\ answer' = answer /\ slipped' = slipped
      /\ disturbed' = disturbed /\ exact' = exact /\ transferred' = transferred
  BY DEF O!Midnight, O!group, O!history
<1>2. overToday \in 0..LastOverview /\ overToday \in Int
  BY OverviewAssumption DEF OInv, O!TypeOK
<1>3. O!TypeOK'
  BY <1>1, <1>2, OverviewAssumption DEF OInv, O!TypeOK
<1>4. Reading'
  BY <1>1, <1>2 DEF OInv, Reading, O!Nothing
<1>5. StillSo'
  BY <1>1 DEF OInv, StillSo, O!Horizon
<1>6. AnswerMade'
  BY <1>1 DEF OInv, AnswerMade, O!Pays
<1>7. PostedOnce'
  <2> SUFFICES ASSUME exact', O!Pays(answer)', O!Foreseen(answer)', overToday' <= answer'.horizon
               PROVE  /\ \A p \in (planned \cap Costs) \ Unposted(answer, planned, due) :
                           due[p] > answer.horizon
                      /\ Held(balance, open) = answer.available - transferred
                           - SumFunctionOnSet(PlanAmount,
                               DOMAIN answer.pending \ Unposted(answer, planned, due))
    BY <1>1 DEF PostedOnce
  <2>1. exact /\ O!Pays(answer) /\ O!Foreseen(answer)
    BY <1>1 DEF O!Pays, O!Foreseen
  <2>2. answer.horizon \in Nat
    BY <2>1 DEF OInv, AnswerMade
  <2>3. overToday <= answer.horizon
    BY <1>1, <1>2, <2>2
  <2> QED
    BY <2>1, <2>3 DEF OInv, PostedOnce
<1> QED
  BY <1>3, <1>4, <1>5, <1>6, <1>7 DEF OInv

(* What disturbs leaves a request no promise to keep. *)
LEMMA OverviewDisturb ==
  ASSUME OInv, O!Disturb, balance' \in [Holding -> Int], open' \subseteq Holding,
         planned' \subseteq Plan, due' \in [Plan -> Nat], edits' \in 0..MaxEdits
  PROVE  OInv'
<1>1. /\ disturbed' = (read # O!Nothing) /\ answer' = None
      /\ overToday' = overToday /\ read' = read /\ slipped' = slipped /\ exact' = exact
      /\ transferred' = 0
  BY DEF O!Disturb
<1>2. read.step # "idle" => disturbed'
  <2>1. read.step # "idle" => read # O!Nothing
    BY DEF O!Nothing
  <2> QED
    BY <1>1, <2>1, Zenon
<1>3. read.step = "idle" => ~disturbed'
  BY <1>1 DEF OInv, Reading
<1>4. disturbed' \in BOOLEAN
  BY <1>1
<1>5. O!TypeOK'
  BY <1>1, <1>4 DEF OInv, O!TypeOK
<1>6. Reading'
  BY <1>1, <1>3 DEF OInv, Reading, O!Nothing
<1>7. StillSo'
  BY <1>1, <1>2 DEF StillSo
<1> QED
  BY <1>1, <1>5, <1>6, <1>7, NoAnswerLeft DEF OInv

(* The daily run posts an expense or a transfer. *)
LEMMA OverviewPosting == ASSUME OInv, NEW p \in Plan \ Income, O!Post(p) PROVE OInv'
<1> DEFINE x == HoldingOf[p]
           n == PlanAmount[p]
           out == O!Out(p)
<1>1. /\ p \in planned /\ due[p] <= overToday /\ x \in open
      /\ balance' = O!After(p)
      /\ \/ PlanPeriod[p] = 0 /\ planned' = planned \ {p} /\ due' = due
         \/ /\ PlanPeriod[p] # 0 /\ planned' = planned
            /\ due' = [due EXCEPT ![p] = due[p] + PlanPeriod[p]]
      /\ slipped' = IF read # O!Nothing THEN slipped + out ELSE slipped
      /\ transferred' = IF answer # None /\ p \in Transfer THEN transferred + out ELSE transferred
      /\ overToday' = overToday /\ read' = read /\ answer' = answer
      /\ disturbed' = disturbed /\ exact' = exact /\ open' = open /\ edits' = edits
  BY DEF O!Post
<1>2. /\ overToday \in 0..LastOverview /\ overToday \in Int
      /\ balance \in [Holding -> Int] /\ open \subseteq Holding /\ planned \subseteq Plan
      /\ due \in [Plan -> Nat] /\ slipped \in Int /\ transferred \in Int
  BY OverviewAssumption DEF OInv, O!TypeOK
<1>3. x \in Holding /\ n \in Nat /\ PlanPeriod[p] \in Nat
  BY OverviewAssumption
<1>4. /\ balance' \in [Holding -> Int] /\ out \in Int
      /\ p \in Costs => out = IF x \in open \cap Spendable THEN n ELSE 0
      /\ Held(balance', open) = Held(balance, open) - out
  BY <1>1, <1>2, HeldAfterPosting
<1> HIDE DEF x, n, out
<1>5. /\ planned' \subseteq Plan /\ due' \in [Plan -> Nat]
      /\ slipped' \in Int /\ transferred' \in Int
      /\ Held(balance', open') = Held(balance, open) - out
  BY <1>1, <1>2, <1>3, <1>4
<1>6. Held(balance, open) \in Int
  BY <1>2, HeldIsInteger
<1>7. O!TypeOK'
  BY <1>1, <1>4, <1>5 DEF OInv, O!TypeOK
<1>8. Reading'
  BY <1>1, <1>2 DEF OInv, Reading, O!Nothing
<1>9. StillSo'
  <2>1. ASSUME read.step # "idle", ~disturbed'
        PROVE  read.available = Held(balance', open') + slipped'
    <3>1. ~disturbed
      BY <1>1, <2>1, Zenon
    <3>2. read.available = Held(balance, open) + slipped /\ read # O!Nothing
      BY <2>1, <3>1 DEF OInv, StillSo, O!Nothing
    <3> QED
      BY <1>1, <1>2, <1>4, <1>5, <1>6, <3>2
  <2>2. ASSUME read.step = "payday", ~disturbed'
        PROVE  /\ read.payday = NextSalary(planned', due')
               /\ read.horizon = IF due'[read.payday] < read.today THEN read.today
                                 ELSE due'[read.payday]
    <3>1. ~disturbed
      BY <1>1, <2>2, Zenon
    <3>2. /\ read.payday = NextSalary(planned, due)
          /\ read.horizon = IF due[read.payday] < read.today THEN read.today
                            ELSE due[read.payday]
      BY <2>2, <3>1 DEF OInv, StillSo, O!Horizon
    <3>3. planned' \cap Income = planned \cap Income
      BY <1>1
    <3>4. \A q \in Plan \ {p} : due'[q] = due[q]
      BY <1>1, <1>2
    <3>5. NextSalary(planned', due') = NextSalary(planned, due)
      BY <1>2, <3>3, <3>4, SameNextSalary
    <3>6. read.payday \in planned /\ read.payday # p
      <4>1. read.payday \in Plan /\ read.payday # None
        BY <2>2, OverviewAssumption DEF OInv, O!TypeOK
      <4>2. read.payday \in Salaries(planned)
        BY <1>2, <3>2, <4>1, NextSalaryIs
      <4> QED
        BY <4>2 DEF Salaries
    <3> QED
      BY <1>2, <3>2, <3>4, <3>5, <3>6
  <2> QED
    BY <1>1, <2>1, <2>2 DEF StillSo, O!Horizon
<1>10. AnswerMade'
  BY <1>1 DEF OInv, AnswerMade, O!Pays
<1>11. PostedOnce'
  <2> SUFFICES ASSUME exact', O!Pays(answer)', O!Foreseen(answer)', overToday' <= answer'.horizon
               PROVE  /\ \A q \in (planned' \cap Costs) \ Unposted(answer, planned', due') :
                           due'[q] > answer.horizon
                      /\ Held(balance', open') = answer.available - transferred'
                           - SumFunctionOnSet(PlanAmount,
                               DOMAIN answer.pending \ Unposted(answer, planned', due'))
    BY <1>1 DEF PostedOnce
  <2> DEFINE D == DOMAIN answer.pending
             E == Unposted(answer, planned, due)
             G == Unposted(answer, planned', due')
             Posted(T) == SumFunctionOnSet(PlanAmount, D \ T)
  <2>1. /\ exact /\ O!Pays(answer) /\ O!Foreseen(answer) /\ overToday <= answer.horizon
        /\ answer # None
    BY <1>1 DEF O!Pays, O!Foreseen
  <2>2. /\ \A q \in (planned \cap Costs) \ E : due[q] > answer.horizon
        /\ Held(balance, open) = answer.available - transferred - Posted(E)
    BY <2>1 DEF OInv, PostedOnce
  <2>3. /\ answer.horizon \in Nat /\ D \subseteq Costs /\ answer.available \in Int
    BY <2>1 DEF OInv, AnswerMade
  <2>4. Costs \subseteq Plan /\ Costs \cap Transfer = {}
    BY DEF Costs
  <2>5. /\ \A q \in Plan \ {p} : due'[q] = due[q] /\ (q \in planned' <=> q \in planned)
        /\ p \in planned' => due'[p] = due[p] + PlanPeriod[p] /\ PlanPeriod[p] # 0
    BY <1>1, <1>2
  <2>6. \A q \in D \ {p} : q \in G <=> q \in E
    BY <2>3, <2>4, <2>5 DEF Unposted
  <2>7. G \subseteq D /\ E \subseteq D
    BY DEF Unposted
  <2>8. Posted(E) \in Int
    <3> HIDE DEF D, E
    <3>1. IsFiniteSet(D \ E) /\ \A q \in D \ E : PlanAmount[q] \in Int
      BY <2>3, <2>4, FS_Subset, OverviewAssumption
    <3> QED
      BY <3>1, SumIsInteger
  <2>9. CASE p \in Costs
    <3>1. p \in E
      BY <1>1, <1>2, <2>1, <2>2, <2>3, <2>9
    <3>2. /\ p \in D /\ due[p] = answer.pending[p] /\ x \in Spendable
          /\ PlanPeriod[p] = 0 \/ due[p] + PlanPeriod[p] > answer.horizon
      BY <2>1, <3>1 DEF Unposted, O!Foreseen, x
    <3>3. G = E \ {p}
      <4>1. p \notin G
        BY <1>2, <1>3, <2>5, <3>2 DEF Unposted
      <4> QED
        BY <2>6, <2>7, <4>1
    <3>4. \A q \in (planned' \cap Costs) \ G : due'[q] > answer.horizon
      <4> SUFFICES ASSUME NEW q \in (planned' \cap Costs) \ G PROVE due'[q] > answer.horizon
        OBVIOUS
      <4>1. CASE q = p
        BY <2>5, <3>2, <4>1
      <4>2. CASE q # p
        <5>1. q \in Plan \ {p} /\ q \in (planned \cap Costs) \ E
          BY <2>4, <2>5, <3>3, <4>2
        <5> QED
          BY <2>2, <2>5, <5>1
      <4> QED
        BY <4>1, <4>2
    <3>5. Posted(G) = n + Posted(E)
      <4> HIDE DEF D, E, G
      <4>1. IsFiniteSet(D \ G) /\ \A q \in D \ G : PlanAmount[q] \in Int
        BY <2>3, <2>4, FS_Subset, OverviewAssumption
      <4>2. p \in D \ G /\ (D \ G) \ {p} = D \ E
        BY <3>1, <3>2, <3>3
      <4>3. SumFunctionOnSet(PlanAmount, D \ G)
              = PlanAmount[p] + SumFunctionOnSet(PlanAmount, (D \ G) \ {p})
        BY <4>1, <4>2, SumWithoutOne
      <4> QED
        BY <4>2, <4>3 DEF n
    <3>6. out = n /\ transferred' = transferred
      BY <1>1, <1>4, <2>4, <2>9, <3>2
    <3>7. Held(balance', open') = answer.available - transferred' - Posted(G)
      <4> HIDE DEF D, E, G, Posted
      <4> QED
        BY <1>2, <1>3, <1>5, <2>2, <2>3, <2>8, <3>5, <3>6
    <3> QED
      BY <3>4, <3>7
  <2>10. CASE p \notin Costs
    <3>1. p \in Transfer /\ p \notin D
      BY <2>3, <2>10 DEF Costs
    <3>2. G = E
      BY <2>6, <2>7, <3>1
    <3>3. \A q \in (planned' \cap Costs) \ G : due'[q] > answer.horizon
      <4> SUFFICES ASSUME NEW q \in (planned' \cap Costs) \ G PROVE due'[q] > answer.horizon
        OBVIOUS
      <4>1. q \in Plan \ {p} /\ q \in (planned \cap Costs) \ E
        BY <2>4, <2>5, <2>10, <3>2
      <4> QED
        BY <2>2, <2>5, <4>1
    <3>4. transferred' = transferred + out
      BY <1>1, <2>1, <3>1
    <3>5. Held(balance', open') = answer.available - transferred' - Posted(G)
      <4>1. Posted(G) = Posted(E)
        BY <3>2
      <4> HIDE DEF D, E, G, Posted
      <4> QED
        BY <1>2, <1>4, <1>5, <2>2, <2>3, <2>8, <3>4, <4>1
    <3> QED
      BY <3>3, <3>5
  <2> QED
    BY <2>9, <2>10
<1> QED
  BY <1>7, <1>8, <1>9, <1>10, <1>11 DEF OInv

(* The statements of a request. *)
LEMMA OverviewReadBalance == ASSUME OInv, O!ReadBalance PROVE OInv'
<1>1. /\ read = O!Nothing
      /\ read' = [step |-> "balance", today |-> overToday, available |-> O!Available]
      /\ answer' = None /\ overToday' = overToday /\ balance' = balance /\ open' = open
      /\ planned' = planned /\ due' = due /\ edits' = edits /\ slipped' = slipped
      /\ disturbed' = disturbed /\ exact' = exact /\ transferred' = 0
  BY DEF O!ReadBalance, O!group
<1>2. /\ overToday \in 0..LastOverview /\ overToday \in Nat
      /\ balance \in [Holding -> Int] /\ open \subseteq Holding
  BY OverviewAssumption DEF OInv, O!TypeOK
<1>3. O!Available = Held(balance, open) /\ Held(balance, open) \in Int
  BY <1>2, OverviewReads, HeldIsInteger
<1>4. /\ read'.step = "balance" /\ read'.today = overToday
      /\ read'.available = Held(balance, open)
  BY <1>1, <1>3
<1>5. read.step = "idle" /\ slipped = 0
  BY <1>1 DEF OInv, Reading, O!Nothing
<1>6. O!TypeOK'
  BY <1>1, <1>4 DEF OInv, O!TypeOK
<1>7. Reading'
  BY <1>1, <1>2, <1>3, <1>4 DEF Reading
<1>8. StillSo'
  BY <1>1, <1>3, <1>4, <1>5 DEF StillSo
<1> QED
  BY <1>1, <1>6, <1>7, <1>8, NoAnswerLeft DEF OInv

(* The second statement finds the payday. *)
LEMMA OverviewReadPayday == ASSUME OInv, O!ReadPayday PROVE OInv'
<1>1. /\ read.step = "balance" /\ O!Payday # None
      /\ read' = [step |-> "payday", today |-> read.today, available |-> read.available,
                  payday |-> O!Payday, horizon |-> O!Horizon(read.today, O!Payday)]
      /\ overToday' = overToday /\ balance' = balance /\ open' = open
      /\ planned' = planned /\ due' = due /\ edits' = edits /\ answer' = answer
      /\ slipped' = slipped /\ disturbed' = disturbed /\ exact' = exact
      /\ transferred' = transferred
  BY DEF O!ReadPayday, O!group, O!history
<1>2. /\ planned \subseteq Plan /\ due \in [Plan -> Nat] /\ overToday \in Int
  BY OverviewAssumption DEF OInv, O!TypeOK
<1>3. O!Payday = NextSalary(planned, due) /\ O!Payday \in Plan
  <2>1. O!Payday \in Salaries(planned)
    BY <1>1, <1>2, OverviewReads, NextSalaryIs
  <2> QED
    BY <1>2, <2>1, OverviewReads DEF Salaries
<1>4. /\ read.today \in 0..overToday /\ read.today \in Nat /\ read.available \in Int
  BY <1>1, <1>2 DEF OInv, Reading
<1>5. /\ O!Horizon(read.today, O!Payday) \in Nat
      /\ O!Horizon(read.today, O!Payday) >= read.today
  BY <1>2, <1>3, <1>4 DEF O!Horizon
<1>6. /\ read'.step = "payday" /\ read'.today = read.today /\ read'.available = read.available
      /\ read'.payday = O!Payday /\ read'.horizon = O!Horizon(read.today, O!Payday)
  BY <1>1
<1>7. O!TypeOK'
  BY <1>1, <1>3, <1>5, <1>6 DEF OInv, O!TypeOK
<1>8. Reading'
  BY <1>1, <1>4, <1>5, <1>6 DEF Reading
<1>9. StillSo'
  <2>1. ASSUME ~disturbed' PROVE read'.available = Held(balance', open') + slipped'
    <3>1. ~disturbed
      BY <1>1, <2>1, Zenon
    <3> QED
      BY <1>1, <1>6, <3>1 DEF OInv, StillSo
  <2>2. /\ read'.payday = NextSalary(planned', due')
        /\ read'.horizon = O!Horizon(read.today, read.payday)'
    BY <1>1, <1>3, <1>6 DEF O!Horizon
  <2> QED
    BY <1>6, <2>1, <2>2 DEF StillSo, O!Horizon
<1>10. AnswerMade'
  BY <1>1 DEF OInv, AnswerMade, O!Pays
<1>11. PostedOnce'
  BY <1>1 DEF OInv, PostedOnce, O!Pays, O!Foreseen
<1> QED
  BY <1>7, <1>8, <1>9, <1>10, <1>11 DEF OInv

(* What an answer leaves of the request. *)
LEMMA OverviewAnswered ==
  ASSUME OInv, NEW a, O!Answered(a)
  PROVE  /\ O!TypeOK' /\ Reading' /\ StillSo'
         /\ answer' = a /\ overToday' = overToday /\ balance' = balance /\ open' = open
         /\ planned' = planned /\ due' = due
         /\ exact' = (~disturbed /\ slipped = 0) /\ transferred' = 0
<1>1. /\ read' = O!Nothing /\ answer' = a
      /\ exact' = (~disturbed /\ slipped = 0) /\ slipped' = 0 /\ disturbed' = FALSE
      /\ transferred' = 0
      /\ overToday' = overToday /\ balance' = balance /\ open' = open
      /\ planned' = planned /\ due' = due /\ edits' = edits
  BY DEF O!Answered, O!group
<1>2. read'.step = "idle" /\ exact' \in BOOLEAN /\ disturbed' \in BOOLEAN
  BY <1>1 DEF O!Nothing
<1>3. O!TypeOK'
  BY <1>1, <1>2 DEF OInv, O!TypeOK
<1>4. Reading'
  BY <1>1, <1>2 DEF Reading, O!Nothing
<1>5. StillSo'
  BY <1>2 DEF StillSo
<1> QED
  BY <1>1, <1>3, <1>4, <1>5

(* Or finds none, and the answer has no more to say. *)
LEMMA OverviewReadNoPayday == ASSUME OInv, O!ReadNoPayday PROVE OInv'
<1>1. /\ O!TypeOK' /\ Reading' /\ StillSo'
      /\ answer' = [today |-> read.today, available |-> read.available, payday |-> None]
  BY OverviewAnswered DEF O!ReadNoPayday
<1>2. answer'.payday = None
  BY <1>1
<1>3. AnswerMade' /\ PostedOnce'
  BY <1>2 DEF AnswerMade, PostedOnce, O!Pays
<1> QED
  BY <1>1, <1>3 DEF OInv

(* The third one makes the answer. *)
LEMMA OverviewReadUpcoming == ASSUME OInv, O!ReadUpcoming PROVE OInv'
<1> DEFINE D == Expenses(planned, due, read.horizon)
<1>1. read.step = "payday"
  BY DEF O!ReadUpcoming
<1>2. /\ O!TypeOK' /\ Reading' /\ StillSo'
      /\ overToday' = overToday /\ balance' = balance /\ open' = open
      /\ planned' = planned /\ due' = due
      /\ exact' = (~disturbed /\ slipped = 0) /\ transferred' = 0
      /\ answer' = [today |-> read.today, available |-> read.available,
                    payday |-> read.payday, horizon |-> read.horizon,
                    pending |-> [p \in O!Pending(read.horizon) |-> due[p]]]
  BY OverviewAnswered DEF O!ReadUpcoming
<1>3. O!Pending(read.horizon) = D
  BY OverviewReads
<1>4. /\ answer'.today = read.today /\ answer'.available = read.available
      /\ answer'.horizon = read.horizon /\ answer'.pending = [p \in D |-> due[p]]
  BY <1>2, <1>3
<1>5. /\ planned \subseteq Plan /\ due \in [Plan -> Nat] /\ overToday \in Int
      /\ balance \in [Holding -> Int] /\ open \subseteq Holding
      /\ read.horizon >= read.today
  BY <1>1, OverviewAssumption DEF OInv, O!TypeOK
<1>6. /\ read.today \in Nat /\ read.available \in Int /\ read.horizon \in Nat
  BY <1>1, <1>5 DEF OInv, Reading
<1>7. /\ DOMAIN answer'.pending = D /\ D \subseteq Costs
      /\ \A p \in D : p \in planned /\ due[p] <= read.horizon /\ answer'.pending[p] = due[p]
      /\ \A p \in (planned \cap Costs) \ D : due[p] > read.horizon
  BY <1>4, <1>5, <1>6 DEF Expenses
<1> HIDE DEF D
<1>8. AnswerMade'
  <2>1. \A p \in D : answer'.pending[p] \in Nat /\ answer'.pending[p] <= answer'.horizon
    BY <1>4, <1>5, <1>7
  <2> QED
    BY <1>4, <1>5, <1>6, <1>7, <2>1 DEF AnswerMade
<1>9. PostedOnce'
  <2> SUFFICES ASSUME exact'
               PROVE  /\ \A p \in (planned \cap Costs) \ Unposted(answer', planned, due) :
                           due[p] > answer'.horizon
                      /\ Held(balance, open) = answer'.available - transferred'
                           - SumFunctionOnSet(PlanAmount,
                               DOMAIN answer'.pending \ Unposted(answer', planned, due))
    BY <1>2 DEF PostedOnce
  <2>1. Unposted(answer', planned, due) = D
    BY <1>7 DEF Unposted
  <2>2. ~disturbed /\ slipped = 0
    BY <1>2, Zenon
  <2>3. read.available = Held(balance, open) + slipped
    BY <1>1, <2>2 DEF OInv, StillSo
  <2>4. Held(balance, open) \in Int
    BY <1>5, HeldIsInteger
  <2>5. SumFunctionOnSet(PlanAmount, DOMAIN answer'.pending \ D) = 0
    <3>1. DOMAIN answer'.pending \ D = {}
      BY <1>7
    <3> QED
      BY <3>1, SumOfNothing
  <2>6. Held(balance, open) = answer'.available - transferred' - 0
    BY <1>2, <1>4, <1>6, <2>2, <2>3, <2>4
  <2> QED
    BY <1>4, <1>7, <2>1, <2>5, <2>6
<1> QED
  BY <1>2, <1>8, <1>9 DEF OInv

(* The invariant of Overview. *)
LEMMA OverviewInvariant == O!Spec => []OInv
<1>1. ASSUME OInv, NEW p \in Plan, O!Post(p) PROVE OInv'
  <2>1. CASE p \in Income
    <3>0. O!After(p) = [balance EXCEPT ![HoldingOf[p]] = @ + PlanAmount[p]]
      BY <2>1, OverviewAssumption DEF O!After, O!Expense
    <3>1. /\ O!Disturb /\ balance' = [balance EXCEPT ![HoldingOf[p]] = @ + PlanAmount[p]]
          /\ open' = open /\ edits' = edits
          /\ \/ planned' = planned \ {p} /\ due' = due
             \/ planned' = planned /\ due' = [due EXCEPT ![p] = due[p] + PlanPeriod[p]]
      BY <1>1, <2>1, <3>0 DEF O!Post
    <3>2. HoldingOf[p] \in Holding /\ PlanAmount[p] \in Nat /\ PlanPeriod[p] \in Nat
      BY OverviewAssumption
    <3>3. /\ balance \in [Holding -> Int] /\ open \subseteq Holding /\ planned \subseteq Plan
          /\ due \in [Plan -> Nat] /\ edits \in 0..MaxEdits
      BY <1>1 DEF OInv, O!TypeOK
    <3>4. balance' \in [Holding -> Int]
      BY <3>1, <3>2, <3>3
    <3>5. due' \in [Plan -> Nat] /\ planned' \subseteq Plan
      BY <3>1, <3>2, <3>3
    <3> QED
      BY <1>1, <3>1, <3>3, <3>4, <3>5, OverviewDisturb
  <2>2. CASE p \notin Income
    BY <1>1, <2>2, OverviewPosting
  <2> QED
    BY <2>1, <2>2
<1>2. ASSUME OInv, O!Edit PROVE O!Disturb /\ edits' \in 0..MaxEdits
  BY <1>2, OverviewAssumption DEF O!Edit, OInv, O!TypeOK
<1>3. ASSUME OInv, NEW x \in Holding, O!Spend(x) \/ O!ToggleAccount(x) PROVE OInv'
  <2>1. /\ balance \in [Holding -> Int] /\ open \subseteq Holding /\ planned \subseteq Plan
        /\ due \in [Plan -> Nat]
    BY <1>3 DEF OInv, O!TypeOK
  <2>2. O!Edit /\ planned' = planned /\ due' = due
    BY <1>3 DEF O!Spend, O!ToggleAccount
  <2>3. \/ open' = open /\ balance' = [balance EXCEPT ![x] = @ - 1]
        \/ /\ balance' = balance
           /\ open' = IF x \in open THEN open \ {x} ELSE open \cup {x}
    BY <1>3 DEF O!Spend, O!ToggleAccount
  <2>4. open' \subseteq Holding
    BY <2>1, <2>3
  <2>5. balance' \in [Holding -> Int]
    BY <2>1, <2>3
  <2> QED
    BY <1>2, <1>3, <2>1, <2>2, <2>4, <2>5, OverviewDisturb
<1>4. ASSUME OInv, NEW p \in Plan, O!TogglePlan(p) PROVE OInv'
  <2>1. /\ balance \in [Holding -> Int] /\ open \subseteq Holding /\ planned \subseteq Plan
        /\ due \in [Plan -> Nat]
    BY <1>4 DEF OInv, O!TypeOK
  <2>2. O!Edit /\ balance' = balance /\ open' = open /\ due' = due /\ planned' \subseteq Plan
    BY <1>4, <2>1 DEF O!TogglePlan
  <2> QED
    BY <1>2, <1>4, <2>1, <2>2, OverviewDisturb
<1>5. ASSUME OInv, UNCHANGED O!vars PROVE OInv'
  <2>1. /\ overToday' = overToday /\ balance' = balance /\ open' = open /\ planned' = planned
        /\ due' = due /\ edits' = edits /\ read' = read /\ answer' = answer
        /\ slipped' = slipped /\ disturbed' = disturbed /\ exact' = exact
        /\ transferred' = transferred
    BY <1>5 DEF O!vars
  <2>2. O!TypeOK' /\ Reading'
    BY <1>5, <2>1 DEF OInv, O!TypeOK, Reading, O!Nothing
  <2>3. StillSo'
    BY <1>5, <2>1 DEF OInv, StillSo, O!Horizon
  <2>4. AnswerMade' /\ PostedOnce'
    BY <1>5, <2>1 DEF OInv, AnswerMade, PostedOnce, O!Pays, O!Foreseen
  <2> QED
    BY <2>2, <2>3, <2>4 DEF OInv
<1>6. ASSUME OInv, O!Next PROVE OInv'
  BY <1>1, <1>3, <1>4, <1>6, OverviewMidnight, OverviewReadBalance, OverviewReadNoPayday,
     OverviewReadPayday, OverviewReadUpcoming DEF O!Next
<1> QED
  BY <1>5, <1>6, OverviewInit, PTL DEF O!Spec

(* The arithmetic of an answer. *)
LEMMA SpendSafely ==
  ASSUME NEW r \in Int, NEW n \in Nat \ {0}
  PROVE  n * (r \div n) <= r /\ n * (r \div n + 1) > r
  OBVIOUS

(* The blocks of an answer agree, whatever came between its statements. *)
LEMMA AnswersAddUp == O!Spec => []AnswerAddsUp
<1>1. ASSUME OInv, O!Pays(answer)
      PROVE  LET curve == O!Projection(answer)
                 days  == O!DaysRemaining(answer)
                 n     == IF days = 0 THEN 1 ELSE days
             IN  /\ days >= 0
                 /\ curve[answer.horizon] = O!RealBalance(answer)
                 /\ \A d \in DOMAIN curve : d < answer.horizon => curve[d + 1] <= curve[d]
                 /\ n * O!DailySafeSpend(answer) <= O!RealBalance(answer)
                 /\ n * (O!DailySafeSpend(answer) + 1) > O!RealBalance(answer)
  <2> DEFINE D == DOMAIN answer.pending
             t == answer.today
             h == answer.horizon
             Left(d) == {p \in D : O!StepDate(answer, p) \in t..d}
             Spent(T) == SumFunctionOnSet(PlanAmount, T)
             days == h - t
             n == IF days = 0 THEN 1 ELSE days
  <2>1. /\ t \in Nat /\ h \in Nat /\ t <= h /\ answer.available \in Int
        /\ D \subseteq Plan
        /\ \A p \in D : answer.pending[p] \in Nat /\ answer.pending[p] <= h
    BY <1>1 DEF OInv, AnswerMade, Costs
  <2>2. \A T \in SUBSET D : /\ IsFiniteSet(T) /\ \A p \in T : PlanAmount[p] \in Nat
                            /\ Spent(T) \in Int
    <3> SUFFICES ASSUME NEW T \in SUBSET D
                 PROVE  /\ IsFiniteSet(T) /\ \A p \in T : PlanAmount[p] \in Nat
                        /\ Spent(T) \in Int
      OBVIOUS
    <3>1. T \in SUBSET Plan
      BY <2>1
    <3>2. IsFiniteSet(T) /\ \A p \in T : PlanAmount[p] \in Nat
      BY <3>1, FS_Subset, OverviewAssumption
    <3> QED
      BY <3>2, SumIsInteger
  <2>3. O!Projection(answer) = [d \in t..h |-> answer.available - Spent(Left(d))]
    BY SameSums DEF O!Projection
  <2>4. O!RealBalance(answer) = answer.available - Spent(D) /\ O!DaysRemaining(answer) = days
    BY SameSums DEF O!RealBalance, O!DaysRemaining
  <2>5. Left(h) = D
    BY <2>1 DEF O!StepDate
  <2>6. days \in Nat /\ n \in Nat \ {0}
    BY <2>1
  <2>7. ASSUME NEW d \in t..h, d < h
        PROVE  answer.available - Spent(Left(d + 1)) <= answer.available - Spent(Left(d))
    <3> DEFINE E == Left(d)
               F == Left(d + 1)
    <3>1. \A p \in D : O!StepDate(answer, p) \in Int
      BY <2>1 DEF O!StepDate
    <3>2. E \in SUBSET F /\ E \in SUBSET D /\ F \in SUBSET D
      BY <2>1, <3>1
    <3> HIDE DEF E, F, D
    <3>3. Spent(E) <= Spent(F)
      BY <2>2, <3>2, SumOfMore
    <3>4. Spent(E) \in Int /\ Spent(F) \in Int
      BY <2>2, <3>2
    <3> HIDE DEF Spent
    <3>5. answer.available - Spent(F) <= answer.available - Spent(E)
      BY <2>1, <3>3, <3>4
    <3> QED
      BY <3>5 DEF E, F
  <2>8. Spent(D) \in Int
    BY <2>2
  <2> DEFINE r == answer.available - Spent(D)
  <2>9. r \in Int
    BY <2>1, <2>8
  <2>10. O!DailySafeSpend(answer) = r \div n
    <3>1. O!DailySafeSpend(answer) = r \div (IF days < 1 THEN 1 ELSE days)
      BY <2>4 DEF O!DailySafeSpend
    <3>2. (IF days < 1 THEN 1 ELSE days) = n
      BY <2>6
    <3> QED
      BY <3>1, <3>2
  <2>11. n * (r \div n) <= r /\ n * (r \div n + 1) > r
    <3> HIDE DEF n, r
    <3> QED
      BY <2>6, <2>9, SpendSafely
  <2>12. O!Projection(answer)[h] = r
    <3>1. h \in t..h
      BY <2>1
    <3> QED
      BY <2>3, <2>5, <3>1
  <2>13. \A d \in DOMAIN O!Projection(answer) :
           d < h => O!Projection(answer)[d + 1] <= O!Projection(answer)[d]
    <3> HIDE DEF Left, Spent
    <3>1. DOMAIN O!Projection(answer) = t..h
      BY <2>3
    <3> SUFFICES ASSUME NEW d \in t..h, d < h
                 PROVE  O!Projection(answer)[d + 1] <= O!Projection(answer)[d]
      BY <3>1
    <3>2. d + 1 \in t..h
      BY <2>1
    <3>3. /\ O!Projection(answer)[d + 1] = answer.available - Spent(Left(d + 1))
          /\ O!Projection(answer)[d] = answer.available - Spent(Left(d))
      BY <2>3, <3>2
    <3> QED
      BY <2>7, <3>3
  <2>14. O!RealBalance(answer) = r /\ O!DaysRemaining(answer) = days /\ days >= 0
    BY <2>4, <2>6
  <2> HIDE DEF r, days
  <2> QED
    BY <2>10, <2>11, <2>12, <2>13, <2>14
<1>2. OInv => AnswerAddsUp
  BY <1>1 DEF AnswerAddsUp, O!AnswerAddsUp
<1> QED
  BY <1>2, OverviewInvariant, PTL

(* What an answer shows is one snapshot, plus what was overlooked. *)
LEMMA SnapshotsShown == O!Spec => OverlookedNotDoubled
<1> DEFINE Exact ==
      (O!ReadNoPayday \/ O!ReadUpcoming) /\ ~disturbed =>
        O!Shown(answer') = O!Snapshot(read.today) + slipped
<1>1. ASSUME OInv PROVE /\ planned \subseteq Plan /\ due \in [Plan -> Nat] /\ slipped \in Int
                        /\ Held(balance, open) \in Int
  BY <1>1, HeldIsInteger DEF OInv, O!TypeOK
<1>2. ASSUME OInv, O!ReadNoPayday, ~disturbed
      PROVE  O!Shown(answer') = O!Snapshot(read.today) + slipped
  <2>1. /\ read.step = "balance" /\ O!Payday = None
        /\ answer' = [today |-> read.today, available |-> read.available, payday |-> None]
    BY <1>2 DEF O!ReadNoPayday, O!Answered
  <2>2. O!Shown(answer') = read.available
    BY <2>1 DEF O!Shown
  <2>3. O!Snapshot(read.today) = Held(balance, open)
    BY <2>1, OverviewReads DEF O!Snapshot
  <2>4. read.available = Held(balance, open) + slipped
    BY <1>2, <2>1 DEF OInv, StillSo
  <2> QED
    BY <2>2, <2>3, <2>4
<1>3. ASSUME OInv, O!ReadUpcoming, ~disturbed
      PROVE  O!Shown(answer') = O!Snapshot(read.today) + slipped
  <2> DEFINE D == O!Pending(read.horizon)
             spent == SumFunctionOnSet(PlanAmount, D)
  <2>1. /\ read.step = "payday"
        /\ answer' = [today |-> read.today, available |-> read.available,
                      payday |-> read.payday, horizon |-> read.horizon,
                      pending |-> [p \in D |-> due[p]]]
    BY <1>3 DEF O!ReadUpcoming, O!Answered
  <2>2. read.payday \in Plan /\ read.payday # None
    BY <1>3, <2>1, OverviewAssumption DEF OInv, O!TypeOK
  <2>3. /\ read.payday = O!Payday /\ read.horizon = O!Horizon(read.today, read.payday)
        /\ read.available = Held(balance, open) + slipped
    BY <1>3, <2>1, OverviewReads DEF OInv, StillSo
  <2>4. /\ answer'.payday = read.payday /\ answer'.available = read.available
        /\ DOMAIN answer'.pending = D
    BY <2>1
  <2>5. O!Shown(answer') = read.available - spent
    BY <2>2, <2>4, SameSums DEF O!Shown, O!RealBalance
  <2>6. O!Snapshot(read.today) = Held(balance, open) - spent
    BY <2>2, <2>3, OverviewReads, SameSums DEF O!Snapshot
  <2>7. spent \in Int
    <3>1. D \in SUBSET Plan
      BY <1>1, <1>3 DEF O!Pending
    <3>2. IsFiniteSet(D) /\ \A p \in D : PlanAmount[p] \in Int
      BY <3>1, FS_Subset, OverviewAssumption
    <3> HIDE DEF D
    <3> QED
      BY <3>2, SumIsInteger
  <2> HIDE DEF spent
  <2> QED
    BY <1>1, <1>3, <2>3, <2>5, <2>6, <2>7
<1>4. OInv => Exact
  BY <1>2, <1>3
<1> QED
  BY <1>4, OverviewInvariant, PTL DEF OverlookedNotDoubled, O!OverlookedNotDoubled

(* When all expenses have been posted, what was promised is left, but for  *)
(* what was transferred.                                                   *)
LEMMA PromisesKept == O!Spec => []PromiseKept
<1>1. ASSUME OInv, exact, O!Pays(answer), O!Foreseen(answer), overToday <= answer.horizon,
             \A p \in planned \cap Costs : due[p] > answer.horizon
      PROVE  O!Available = O!RealBalance(answer) - transferred
  <2> DEFINE D == DOMAIN answer.pending
             sum == SumFunctionOnSet(PlanAmount, D)
  <2>1. /\ answer.horizon \in Nat /\ D \subseteq Costs /\ answer.available \in Int
        /\ \A p \in D : answer.pending[p] \in Nat /\ answer.pending[p] <= answer.horizon
    BY <1>1 DEF OInv, AnswerMade
  <2>2. D \ Unposted(answer, planned, due) = D
    BY <1>1, <2>1 DEF Unposted
  <2>3. Held(balance, open) = answer.available - transferred
          - SumFunctionOnSet(PlanAmount, D \ Unposted(answer, planned, due))
    BY <1>1 DEF OInv, PostedOnce
  <2>4. sum \in Int
    <3>1. IsFiniteSet(D) /\ \A p \in D : PlanAmount[p] \in Int
      BY <2>1, FS_Subset, OverviewAssumption DEF Costs
    <3> HIDE DEF D
    <3> QED
      BY <3>1, SumIsInteger
  <2>5. O!Available = answer.available - transferred - sum
    BY <2>2, <2>3, OverviewReads
  <2>6. O!RealBalance(answer) = answer.available - sum
    BY SameSums DEF O!RealBalance
  <2>7. transferred \in Int
    BY <1>1 DEF OInv, O!TypeOK
  <2> HIDE DEF sum
  <2> QED
    BY <2>1, <2>4, <2>5, <2>6, <2>7
<1>2. OInv => PromiseKept
  BY <1>1 DEF PromiseKept, O!PromiseKept, O!Expense, Costs
<1> QED
  BY <1>2, OverviewInvariant, PTL

-----------------------------------------------------------------------------
(* The list of transactions *)

(* Counts and sums are the same in TransactionPages and here. *)
LEMMA SameCounts == /\ \A T : P!Cardinality(T) = Cardinality(T)
                    /\ \A f : P!SumFunction(f) = SumFunctionOnSet(f, DOMAIN f)
  BY DEF P!Cardinality, Cardinality, P!SumFunction, P!SumFunctionOnSet, P!FoldFunctionOnSet,
         SumFunctionOnSet, FoldFunctionOnSet, P!MapThenFoldSet, MapThenFoldSet

(* The place of a row in the list of the rows with dates d. *)
Ahead(d, r) == {s \in DOMAIN d : d[s] > d[r]}

Rank(d, r) == Cardinality(Ahead(d, r))

DatesApart(d) == \A r, s \in DOMAIN d : r # s => d[r] # d[s]

(* Nothing the client has been shown comes again, nothing it has not been  *)
(* shown is behind it, and at the end there is nothing ahead.              *)
PagesSoFar ==
  /\ ~tied => DatesApart(date)
  /\ ~tied /\ ~inserted => \A r \in steady :
       shown[r] = 0 \/ (shown[r] = 1 /\ Rank(date, r) < offset)
  /\ ~tied /\ ~removed => \A r \in steady : shown[r] = 0 => Rank(date, r) >= offset
  /\ step = "page" /\ ~removed /\ ~between => total = Cardinality(DOMAIN date)
  /\ step = "done" /\ ~tied /\ ~removed /\ ~between => \A r \in steady : shown[r] > 0

PInv == P!TypeOK /\ PagesSoFar

(* What ranks are. *)
LEMMA RankIsNumber ==
  ASSUME NEW d, DOMAIN d \subseteq Transaction
  PROVE  /\ IsFiniteSet(DOMAIN d)
         /\ \A r \in DOMAIN d : /\ IsFiniteSet(Ahead(d, r))
                                /\ Rank(d, r) \in Nat
<1>1. IsFiniteSet(DOMAIN d)
  BY FS_Subset, PagesAssumption
<1>2. \A r \in DOMAIN d : Ahead(d, r) \in SUBSET DOMAIN d
  BY DEF Ahead
<1> QED
  BY <1>1, <1>2, FS_Subset, FS_CardinalityType DEF Rank

(* No row is further down the list than there are rows. *)
LEMMA RankBelowAll ==
  ASSUME NEW d, DOMAIN d \subseteq Transaction, \A s \in DOMAIN d : d[s] \in Int,
         NEW r \in DOMAIN d
  PROVE  Rank(d, r) < Cardinality(DOMAIN d)
<1>1. Ahead(d, r) \in SUBSET DOMAIN d /\ r \notin Ahead(d, r)
  BY DEF Ahead
<1>2. IsFiniteSet(DOMAIN d)
  BY RankIsNumber
<1>3. /\ Rank(d, r) <= Cardinality(DOMAIN d)
      /\ Rank(d, r) # Cardinality(DOMAIN d)
  <2>1. Cardinality(DOMAIN d) = Cardinality(Ahead(d, r)) => DOMAIN d = Ahead(d, r)
    BY <1>1, <1>2, FS_Subset
  <2>2. Cardinality(Ahead(d, r)) <= Cardinality(DOMAIN d)
    BY <1>1, <1>2, FS_Subset
  <2> QED
    BY <1>1, <2>1, <2>2 DEF Rank
<1>4. Rank(d, r) \in Nat /\ Cardinality(DOMAIN d) \in Nat
  BY <1>2, RankIsNumber, FS_CardinalityType
<1> QED
  BY <1>3, <1>4

(* A page has the rows of its ranks, if no two have one date. *)
LEMMA PageHasRanks ==
  ASSUME P!TypeOK, NEW R \in SUBSET P!Live, P!IsPage(R)
  PROVE  /\ IsFiniteSet(R) /\ Cardinality(R) \in Nat /\ Cardinality(R) <= Limit
         /\ DatesApart(date) => \A r \in P!Live :
              /\ r \in R => offset <= Rank(date, r) /\ Rank(date, r) < offset + Limit
              /\ r \notin R => Rank(date, r) < offset \/ Rank(date, r) >= offset + Limit
<1> DEFINE L == P!Live
<1>1. /\ L = DOMAIN date /\ L \subseteq Transaction /\ \A r \in L : date[r] \in Int
      /\ offset \in Nat
  BY PagesAssumption DEF P!TypeOK, P!Live
<1>2. IsFiniteSet(L) /\ \A T \in SUBSET L : IsFiniteSet(T) /\ Cardinality(T) \in Nat
  <2>1. IsFiniteSet(L)
    BY <1>1, RankIsNumber
  <2> HIDE DEF L
  <2> QED
    BY <2>1, FS_Subset, FS_CardinalityType
<1>3. PICK skipped \in SUBSET (L \ R) :
        /\ P!NotBefore(skipped, R) /\ P!NotBefore(skipped \cup R, L \ (R \cup skipped))
        /\ Cardinality(skipped) = offset \/ (skipped = L /\ Cardinality(L) < offset)
        /\ Cardinality(R) = Limit \/ (Cardinality(R) < Limit /\ L \ (R \cup skipped) = {})
  BY SameCounts DEF P!IsPage
<1> DEFINE rest == L \ (R \cup skipped)
<1>4. /\ \A r \in skipped, s \in R : date[r] >= date[s]
      /\ \A r \in skipped \cup R, s \in rest : date[r] >= date[s]
  BY <1>3 DEF P!NotBefore
<1>5. /\ skipped \in SUBSET L /\ R \in SUBSET L /\ skipped \cap R = {} /\ rest \in SUBSET L
      /\ Cardinality(R) <= Limit /\ Cardinality(R) \in Nat
  BY <1>2, <1>3, PagesAssumption
<1> HIDE DEF L
<1>6. ASSUME DatesApart(date), NEW r \in R
      PROVE  offset <= Rank(date, r) /\ Rank(date, r) < offset + Limit
  <2>1. skipped \in SUBSET Ahead(date, r)
    BY <1>1, <1>4, <1>5, <1>6 DEF DatesApart, Ahead
  <2>2. Ahead(date, r) \in SUBSET (skipped \cup (R \ {r}))
    <3>1. \A s \in rest : ~(date[s] > date[r])
      BY <1>1, <1>4, <1>5
    <3>2. ~(date[r] > date[r])
      BY <1>1, <1>5
    <3> QED
      BY <1>1, <3>1, <3>2 DEF Ahead
  <2>3. IsFiniteSet(Ahead(date, r)) /\ Rank(date, r) \in Nat
    BY <1>1, <1>5, RankIsNumber
  <2>4. Cardinality(skipped) <= Rank(date, r)
    BY <2>1, <2>3, FS_Subset DEF Rank
  <2>5. IsFiniteSet(skipped) /\ IsFiniteSet(R) /\ Cardinality(skipped) \in Nat
    BY <1>2, <1>5
  <2>6. IsFiniteSet(R \ {r}) /\ Cardinality(R \ {r}) = Cardinality(R) - 1
    BY <2>5, FS_RemoveElement
  <2>7. /\ IsFiniteSet(skipped \cup (R \ {r}))
        /\ Cardinality(skipped \cup (R \ {r})) = Cardinality(skipped) + Cardinality(R \ {r})
    <3>1. skipped \cap (R \ {r}) = {}
      BY <1>5
    <3> QED
      BY <2>5, <2>6, <3>1, ApartTogether
  <2>8. Rank(date, r) <= Cardinality(skipped \cup (R \ {r}))
    BY <2>2, <2>7, FS_Subset DEF Rank
  <2>9. Cardinality(skipped) = offset
    BY <1>3, <1>5, <1>6
  <2> QED
    BY <1>1, <1>5, <2>3, <2>4, <2>6, <2>7, <2>8, <2>9, PagesAssumption
<1>7. ASSUME NEW r \in skipped PROVE Rank(date, r) < offset
  <2>1. Ahead(date, r) \in SUBSET (skipped \ {r})
    <3>1. \A s \in L \ skipped : ~(date[s] > date[r])
      BY <1>1, <1>4, <1>5
    <3>2. ~(date[r] > date[r])
      BY <1>1, <1>5
    <3> QED
      BY <1>1, <3>1, <3>2 DEF Ahead
  <2>2. IsFiniteSet(skipped) /\ Cardinality(skipped) \in Nat /\ Cardinality(skipped) <= offset
    <3>1. IsFiniteSet(skipped) /\ Cardinality(skipped) \in Nat
      BY <1>2, <1>5
    <3> QED
      BY <1>1, <1>3, <3>1
  <2>3. IsFiniteSet(skipped \ {r}) /\ Cardinality(skipped \ {r}) = Cardinality(skipped) - 1
    BY <2>2, FS_RemoveElement
  <2>4. Rank(date, r) <= Cardinality(skipped \ {r})
    BY <2>1, <2>3, FS_Subset DEF Rank
  <2>5. Rank(date, r) \in Nat
    BY <1>1, <1>5, RankIsNumber
  <2> QED
    BY <1>1, <2>2, <2>3, <2>4, <2>5
<1>8. ASSUME DatesApart(date), NEW r \in rest PROVE Rank(date, r) >= offset + Limit
  <2>1. skipped \cup R \in SUBSET Ahead(date, r)
    BY <1>1, <1>4, <1>5, <1>8 DEF DatesApart, Ahead
  <2>2. Cardinality(R) = Limit /\ Cardinality(skipped) = offset
    BY <1>3, <1>8
  <2>3. IsFiniteSet(skipped) /\ IsFiniteSet(R)
    BY <1>2, <1>5
  <2>4. Cardinality(skipped \cup R) = offset + Limit
    BY <1>5, <2>2, <2>3, ApartTogether
  <2>5. IsFiniteSet(Ahead(date, r)) /\ Rank(date, r) \in Nat
    BY <1>1, <1>5, RankIsNumber
  <2>6. Cardinality(skipped \cup R) <= Rank(date, r)
    BY <2>1, <2>5, FS_Subset DEF Rank
  <2> QED
    BY <1>1, <2>4, <2>5, <2>6, PagesAssumption
<1>9. \A r \in L \ R : r \in skipped \/ r \in rest
  OBVIOUS
<1> HIDE DEF rest
<1> QED
  BY <1>2, <1>5, <1>6, <1>7, <1>8, <1>9 DEF L

(* The types of the variables, and what a write does to the history. *)
LEMMA PagesTyped ==
  ASSUME P!TypeOK
  PROVE  /\ DOMAIN date \subseteq Transaction /\ \A s \in DOMAIN date : date[s] \in Date /\ date[s] \in Int
         /\ unused \subseteq Transaction \ DOMAIN date /\ steady \subseteq DOMAIN date
         /\ offset \in Nat /\ shown \in [Transaction -> Nat]
         /\ tied \in BOOLEAN /\ inserted \in BOOLEAN /\ removed \in BOOLEAN /\ between \in BOOLEAN
  BY PagesAssumption DEF P!TypeOK, P!Live

(* What every write has in common. *)
LEMMA PagesWrite ==
  ASSUME P!TypeOK, NEW r, P!Write(r)
  PROVE  /\ inserts' \in 0..MaxWrites /\ tied' \in BOOLEAN /\ steady' = steady \ {r}
         /\ step' = step /\ offset' = offset /\ total' = total /\ shown' = shown
         /\ ~tied' => ~tied /\ DatesApart(date')
<1>1. /\ inserts < MaxWrites /\ inserts' = inserts + 1 /\ steady' = steady \ {r}
      /\ tied' = (tied \/ P!Ties')
      /\ step' = step /\ offset' = offset /\ total' = total /\ shown' = shown
  BY DEF P!Write, P!client
<1>2. inserts' \in 0..MaxWrites
  BY <1>1, PagesAssumption DEF P!TypeOK
<1>3. ~tied' => ~tied /\ ~P!Ties'
  BY <1>1
<1>4. ~P!Ties' => DatesApart(date')
  BY DEF P!Ties, P!Live, DatesApart
<1> QED
  BY <1>1, <1>2, <1>3, <1>4

(* A new row moves what is behind it one place down. *)
LEMMA PagesRecord == ASSUME PInv, NEW r \in Transaction, P!Record(r) PROVE PInv'
<1>1. PICK d \in Date : date' = [s \in DOMAIN date \cup {r} |-> IF s = r THEN d ELSE date[s]]
  BY DEF P!Record, P!Live
<1>2. /\ r \in unused /\ unused' = unused \ {r} /\ inserted' = TRUE
      /\ between' = (between \/ step = "page") /\ removed' = removed /\ P!Write(r)
  BY DEF P!Record
<1>3. P!TypeOK
  BY DEF PInv
<1>4. DOMAIN date' = DOMAIN date \cup {r} /\ r \notin DOMAIN date
  BY <1>1, <1>2, <1>3, PagesTyped
<1>5. /\ \A s \in DOMAIN date : date'[s] = date[s]
      /\ \A s \in DOMAIN date' : date'[s] \in Date /\ date'[s] \in Int
  BY <1>1, <1>3, <1>4, PagesTyped, PagesAssumption
<1>6. between' \in BOOLEAN /\ (~between' => ~between /\ step # "page")
  BY <1>2
<1>7. P!TypeOK'
  <2>1. DOMAIN date' \subseteq Transaction /\ unused' \subseteq Transaction \ DOMAIN date'
        /\ steady' \subseteq DOMAIN date'
    BY <1>2, <1>3, <1>4, PagesTyped, PagesWrite
  <2>2. {tied', inserted', removed', between'} \subseteq BOOLEAN
    BY <1>2, <1>3, <1>6, PagesTyped, PagesWrite
  <2> QED
    BY <1>2, <1>3, <1>5, <2>1, <2>2, PagesWrite DEF P!TypeOK, P!Live
<1>8. ASSUME NEW s \in steady' PROVE s \in steady /\ Rank(date', s) >= Rank(date, s)
  <2>1. s \in steady /\ s \in DOMAIN date
    BY <1>2, <1>3, PagesTyped, PagesWrite
  <2>2. Ahead(date, s) \in SUBSET Ahead(date', s)
    BY <1>4, <1>5, <2>1 DEF Ahead
  <2>3. DOMAIN date' \subseteq Transaction /\ s \in DOMAIN date'
    BY <1>3, <1>4, <2>1, PagesTyped
  <2>4. IsFiniteSet(Ahead(date', s))
    BY <2>3, RankIsNumber
  <2>5. Rank(date, s) <= Rank(date', s)
    BY <2>2, <2>4, FS_Subset DEF Rank
  <2>6. Rank(date, s) \in Nat /\ Rank(date', s) \in Nat
    BY <1>3, <2>1, <2>3, PagesTyped, RankIsNumber
  <2> QED
    BY <2>1, <2>5, <2>6
<1>9. ASSUME ~tied', ~removed', NEW s \in steady', shown'[s] = 0
      PROVE  Rank(date', s) >= offset'
  <2>1. ~tied /\ shown' = shown /\ offset' = offset /\ s \in steady
    BY <1>2, <1>3, <1>8, <1>9, PagesWrite
  <2>2. ~removed
    BY <1>2, <1>9, Zenon
  <2>3. Rank(date, s) >= offset
    BY <1>9, <2>1, <2>2 DEF PInv, PagesSoFar
  <2>4. /\ Rank(date, s) \in Nat /\ Rank(date', s) \in Nat /\ offset \in Nat
    <3>1. s \in DOMAIN date /\ s \in DOMAIN date' /\ DOMAIN date' \subseteq Transaction
      BY <1>3, <1>4, <2>1, PagesTyped
    <3> QED
      BY <1>3, <3>1, PagesTyped, RankIsNumber
  <2> QED
    BY <1>8, <2>1, <2>3, <2>4
<1>10. ASSUME step' = "done", ~tied', ~removed', ~between', NEW s \in steady' PROVE shown'[s] > 0
  <2>1. step = "done" /\ ~tied /\ shown' = shown /\ s \in steady
    BY <1>2, <1>3, <1>8, <1>10, PagesWrite
  <2>2. ~removed /\ ~between
    BY <1>2, <1>6, <1>10, Zenon
  <2> QED
    BY <2>1, <2>2 DEF PInv, PagesSoFar
<1>11. step' = step /\ (~tied' => DatesApart(date'))
  BY <1>2, <1>3, PagesWrite
<1>12. PagesSoFar'
  <2>1. inserted'
    BY <1>2
  <2>2. ~(step' = "page" /\ ~between')
    BY <1>6, <1>11
  <2>3. (~tied => DatesApart(date))' /\ (step = "page" /\ ~removed /\ ~between => total = Cardinality(DOMAIN date))'
    BY <1>11, <2>2
  <2> QED
    BY <1>9, <1>10, <2>1, <2>3 DEF PagesSoFar
<1> QED
  BY <1>7, <1>12 DEF PInv

(* A deleted one moves it one place up. *)
LEMMA PagesDelete == ASSUME PInv, NEW r \in Transaction, P!Delete(r) PROVE PInv'
<1>1. /\ r \in DOMAIN date /\ date' = [s \in DOMAIN date \ {r} |-> date[s]]
      /\ unused' = unused /\ inserted' = inserted /\ between' = between
      /\ removed' = TRUE /\ P!Write(r)
  BY DEF P!Delete, P!Live
<1>2. P!TypeOK
  BY DEF PInv
<1>3. /\ DOMAIN date' = DOMAIN date \ {r}
      /\ \A s \in DOMAIN date' : date'[s] = date[s] /\ date'[s] \in Date
  BY <1>1, <1>2, PagesTyped
<1>4. P!TypeOK'
  <2>1. DOMAIN date' \subseteq Transaction /\ unused' \subseteq Transaction \ DOMAIN date'
        /\ steady' \subseteq DOMAIN date'
    BY <1>1, <1>2, <1>3, PagesTyped, PagesWrite
  <2>2. {tied', inserted', removed', between'} \subseteq BOOLEAN
    BY <1>1, <1>2, PagesTyped, PagesWrite
  <2> QED
    BY <1>1, <1>2, <1>3, <2>1, <2>2, PagesWrite DEF P!TypeOK, P!Live
<1>5. ASSUME NEW s \in steady' PROVE s \in steady /\ Rank(date', s) <= Rank(date, s)
                                      /\ Rank(date', s) \in Nat /\ Rank(date, s) \in Nat
  <2>1. s \in steady /\ s \in DOMAIN date /\ s \in DOMAIN date'
    BY <1>1, <1>2, <1>3, PagesTyped, PagesWrite
  <2>2. Ahead(date', s) \in SUBSET Ahead(date, s)
    BY <1>3, <2>1 DEF Ahead
  <2>3. DOMAIN date' \subseteq Transaction /\ DOMAIN date \subseteq Transaction
    BY <1>2, <1>3, PagesTyped
  <2>4. IsFiniteSet(Ahead(date, s)) /\ Rank(date', s) \in Nat /\ Rank(date, s) \in Nat
    BY <2>1, <2>3, RankIsNumber
  <2>5. Rank(date', s) <= Rank(date, s)
    BY <2>2, <2>4, FS_Subset DEF Rank
  <2> QED
    BY <2>1, <2>4, <2>5
<1>6. ASSUME ~tied', ~inserted', NEW s \in steady'
      PROVE  shown'[s] = 0 \/ (shown'[s] = 1 /\ Rank(date', s) < offset')
  <2>1. ~tied /\ shown' = shown /\ offset' = offset /\ s \in steady /\ offset \in Nat
    BY <1>1, <1>2, <1>5, <1>6, PagesTyped, PagesWrite
  <2>2. ~inserted
    BY <1>1, <1>6, Zenon
  <2>3. shown[s] = 0 \/ (shown[s] = 1 /\ Rank(date, s) < offset)
    BY <2>1, <2>2 DEF PInv, PagesSoFar
  <2> QED
    BY <1>5, <2>1, <2>3
<1>7. PagesSoFar'
  <2>1. removed' /\ (~tied' => DatesApart(date'))
    BY <1>1, <1>2, PagesWrite
  <2> QED
    BY <1>6, <2>1 DEF PagesSoFar
<1> QED
  BY <1>4, <1>7 DEF PInv

(* A row that changes its date is not steady any more. *)
LEMMA PagesMove == ASSUME PInv, NEW r \in Transaction, P!Move(r) PROVE PInv'
<1>1. PICK d \in Date : date' = [date EXCEPT ![r] = d]
  BY DEF P!Move
<1>2. /\ r \in DOMAIN date /\ unused' = unused /\ inserted' = TRUE /\ removed' = TRUE
      /\ between' = (between \/ step = "page") /\ P!Write(r)
  BY DEF P!Move, P!Live
<1>3. P!TypeOK
  BY DEF PInv
<1>4. /\ DOMAIN date' = DOMAIN date
      /\ \A s \in DOMAIN date' : date'[s] \in Date
  BY <1>1, <1>2, <1>3, PagesTyped
<1>5. P!TypeOK'
  <2>1. DOMAIN date' \subseteq Transaction /\ unused' \subseteq Transaction \ DOMAIN date'
        /\ steady' \subseteq DOMAIN date'
    BY <1>2, <1>3, <1>4, PagesTyped, PagesWrite
  <2>2. {tied', inserted', removed', between'} \subseteq BOOLEAN
    BY <1>2, <1>3, PagesTyped, PagesWrite
  <2> QED
    BY <1>2, <1>3, <1>4, <2>1, <2>2, PagesWrite DEF P!TypeOK, P!Live
<1>6. PagesSoFar'
  <2>1. inserted' /\ removed' /\ (~tied' => DatesApart(date'))
    BY <1>2, <1>3, PagesWrite
  <2> QED
    BY <2>1 DEF PagesSoFar
<1> QED
  BY <1>5, <1>6 DEF PInv

(* What the client does leaves the table alone. *)
LEMMA PagesReadTotal == ASSUME PInv, P!ReadTotal PROVE PInv'
<1>1. /\ step' = "page" /\ total' = Cardinality(DOMAIN date)
      /\ date' = date /\ unused' = unused /\ inserts' = inserts /\ offset' = offset
      /\ shown' = shown /\ steady' = steady /\ tied' = tied /\ inserted' = inserted
      /\ removed' = removed /\ between' = between
  BY SameCounts DEF P!ReadTotal, P!table, P!history, P!Live
<1>2. total' \in 0..Cardinality(Transaction)
  <2>1. DOMAIN date \in SUBSET Transaction
    BY PagesTyped DEF PInv
  <2>2. /\ Cardinality(DOMAIN date) <= Cardinality(Transaction)
        /\ Cardinality(DOMAIN date) \in Nat /\ Cardinality(Transaction) \in Nat
    BY <2>1, FS_Subset, FS_CardinalityType, PagesAssumption
  <2> QED
    BY <1>1, <2>2
<1>3. P!TypeOK'
  BY <1>1, <1>2, SameCounts DEF PInv, P!TypeOK, P!Live
<1>4. PagesSoFar'
  BY <1>1 DEF PInv, PagesSoFar, DatesApart
<1> QED
  BY <1>3, <1>4 DEF PInv

(* A page shows the rows of its ranks. *)
LEMMA PagesReadPage == ASSUME PInv, P!ReadPage PROVE PInv'
<1>1. PICK R \in SUBSET P!Live :
        P!IsPage(R) /\ shown' = [r \in Transaction |-> shown[r] + IF r \in R THEN 1 ELSE 0]
  BY DEF P!ReadPage
<1>2. /\ step = "page" /\ offset' = offset + Limit
      /\ step' = (IF offset' < total THEN "total" ELSE "done")
      /\ date' = date /\ unused' = unused /\ inserts' = inserts /\ total' = total
      /\ steady' = steady /\ tied' = tied /\ inserted' = inserted
      /\ removed' = removed /\ between' = between
  BY DEF P!ReadPage, P!table, P!history
<1>3. P!TypeOK
  BY DEF PInv
<1>4. /\ P!Live = DOMAIN date /\ DOMAIN date \subseteq Transaction /\ steady \subseteq DOMAIN date
      /\ offset \in Nat /\ Limit \in Nat \ {0} /\ shown \in [Transaction -> Nat]
      /\ \A r \in DOMAIN date : date[r] \in Int
  BY <1>3, PagesTyped, PagesAssumption DEF P!Live
<1>5. \A r \in Transaction : shown'[r] = shown[r] + (IF r \in R THEN 1 ELSE 0)
  BY <1>1
<1>6. Cardinality(R) \in Nat /\ Cardinality(R) <= Limit
  BY <1>1, <1>3, PageHasRanks
<1>7. P!TypeOK'
  <2>1. DOMAIN shown = Transaction /\ DOMAIN shown' = Transaction
    BY <1>1, <1>4
  <2>2. SumFunctionOnSet(shown', Transaction)
          = SumFunctionOnSet(shown, Transaction) + Cardinality(R)
    <3>1. /\ IsFiniteSet(Transaction) /\ R \in SUBSET Transaction
          /\ \A r \in Transaction : shown[r] \in Int
      BY <1>1, <1>4, PagesAssumption
    <3> QED
      BY <1>5, <3>1, SumCounts
  <2>3. SumFunctionOnSet(shown, Transaction) \in Int
    BY <1>4, PagesAssumption, SumIsInteger
  <2>4. SumFunctionOnSet(shown, Transaction) <= offset
    BY <1>3, <2>1, SameCounts DEF P!TypeOK
  <2>5. SumFunctionOnSet(shown', Transaction) <= offset + Limit
    BY <1>4, <1>6, <2>2, <2>3, <2>4
  <2>6. P!SumFunction(shown)' <= offset'
    BY <1>2, <2>1, <2>5, SameCounts
  <2>7. shown' \in [Transaction -> Nat]
    <3>1. \A r \in Transaction : shown'[r] \in Nat
      BY <1>4, <1>5
    <3> QED
      BY <1>1, <3>1
  <2>8. step' \in {"total", "page", "done"} /\ offset' \in Nat
    BY <1>2, <1>4
  <2> QED
    BY <1>2, <1>3, <2>6, <2>7, <2>8 DEF P!TypeOK, P!Live
<1>8. ASSUME ~tied, ~inserted, NEW r \in steady
      PROVE  shown'[r] = 0 \/ (shown'[r] = 1 /\ Rank(date, r) < offset')
  <2>1. shown[r] = 0 \/ (shown[r] = 1 /\ Rank(date, r) < offset)
    BY <1>8 DEF PInv, PagesSoFar
  <2>2. DatesApart(date)
    BY <1>8 DEF PInv, PagesSoFar
  <2>3. r \in DOMAIN date /\ r \in Transaction /\ Rank(date, r) \in Nat
    BY <1>4, RankIsNumber
  <2>4. r \in R => offset <= Rank(date, r) /\ Rank(date, r) < offset + Limit
    BY <1>1, <1>3, <1>4, <2>2, <2>3, PageHasRanks
  <2> QED
    BY <1>2, <1>4, <1>5, <2>1, <2>3, <2>4
<1>9. ASSUME ~tied, ~removed, NEW r \in steady, shown'[r] = 0
      PROVE  Rank(date, r) >= offset'
  <2>1. DatesApart(date)
    BY <1>9 DEF PInv, PagesSoFar
  <2>2. r \in DOMAIN date /\ r \in Transaction /\ Rank(date, r) \in Nat /\ shown[r] \in Nat
    BY <1>4, RankIsNumber
  <2>3. shown[r] = 0 /\ r \notin R
    BY <1>5, <1>9, <2>2
  <2>4. Rank(date, r) >= offset
    BY <1>9, <2>3 DEF PInv, PagesSoFar
  <2>5. Rank(date, r) < offset \/ Rank(date, r) >= offset + Limit
    BY <1>1, <1>3, <1>4, <2>1, <2>2, <2>3, PageHasRanks
  <2> QED
    BY <1>2, <1>4, <2>2, <2>4, <2>5
<1>10. ASSUME step' = "done", ~tied, ~removed, ~between, NEW r \in steady PROVE shown'[r] > 0
  <2>1. total = Cardinality(DOMAIN date)
    BY <1>2, <1>10 DEF PInv, PagesSoFar
  <2>2. ~(offset' < total)
    BY <1>2, <1>10
  <2>3. r \in DOMAIN date /\ r \in Transaction /\ Rank(date, r) \in Nat
    BY <1>4, RankIsNumber
  <2>4. Rank(date, r) < total
    BY <1>4, <2>1, <2>3, RankBelowAll
  <2>5. total \in Nat
    <3>1. IsFiniteSet(DOMAIN date)
      BY <1>4, RankIsNumber
    <3> QED
      BY <2>1, <3>1, FS_CardinalityType
  <2>6. shown'[r] # 0
    <3> SUFFICES ASSUME shown'[r] = 0 PROVE FALSE
      OBVIOUS
    <3>1. Rank(date, r) >= offset'
      BY <1>9, <1>10
    <3> QED
      BY <1>2, <1>4, <2>2, <2>3, <2>4, <2>5, <3>1
  <2>7. shown'[r] \in Nat
    BY <1>4, <1>5, <2>3
  <2> QED
    BY <2>6, <2>7
<1>11. /\ (~tied' => ~tied) /\ (~inserted' => ~inserted) /\ (~removed' => ~removed)
       /\ (~between' => ~between)
  BY <1>2, Zenon
<1>12. PagesSoFar'
  <2>1. ~tied' => DatesApart(date')
    BY <1>2, <1>11 DEF PInv, PagesSoFar
  <2>2. step' # "page"
    BY <1>2
  <2>3. ~tied' /\ ~inserted' => \A r \in steady' :
          shown'[r] = 0 \/ (shown'[r] = 1 /\ Rank(date', r) < offset')
    BY <1>2, <1>8, <1>11
  <2>4. ~tied' /\ ~removed' => \A r \in steady' : shown'[r] = 0 => Rank(date', r) >= offset'
    BY <1>2, <1>9, <1>11
  <2>5. step' = "done" /\ ~tied' /\ ~removed' /\ ~between' => \A r \in steady' : shown'[r] > 0
    BY <1>2, <1>10, <1>11
  <2> QED
    BY <2>1, <2>2, <2>3, <2>4, <2>5 DEF PagesSoFar
<1> QED
  BY <1>7, <1>12 DEF PInv

(* Nothing has been shown at first. *)
LEMMA PagesInit == P!Init => PInv
<1> SUFFICES ASSUME P!Init PROVE PInv
  OBVIOUS
<1>1. PICK R \in SUBSET Transaction : date \in [R -> Date] /\ unused = Transaction \ R
  BY DEF P!Init
<1>2. /\ inserts = 0 /\ step = "total" /\ offset = 0 /\ total = 0
      /\ shown = [r \in Transaction |-> 0]
      /\ steady = DOMAIN date /\ tied = P!Ties
      /\ inserted = FALSE /\ removed = FALSE /\ between = FALSE
  BY DEF P!Init, P!Live
<1>3. DOMAIN date = R /\ \A r \in R : date[r] \in Date
  BY <1>1
<1>4. SumFunctionOnSet(shown, Transaction) = 0
  BY <1>2, SumOfZeros, PagesAssumption
<1>5. Cardinality(Transaction) \in Nat
  BY PagesAssumption, FS_CardinalityType
<1>6. P!TypeOK
  <2>1. P!SumFunction(shown) <= offset
    <3>1. DOMAIN shown = Transaction
      BY <1>2
    <3> QED
      BY <1>2, <1>4, <3>1, SameCounts
  <2>2. {tied, inserted, removed, between} \subseteq BOOLEAN
    BY <1>2 DEF P!Ties
  <2>3. shown \in [Transaction -> Nat] /\ inserts \in 0..MaxWrites
    BY <1>2, PagesAssumption
  <2>4. total \in 0..Cardinality(Transaction)
    BY <1>2, <1>5, SameCounts
  <2> QED
    BY <1>1, <1>2, <1>3, <2>1, <2>2, <2>3, <2>4, SameCounts DEF P!TypeOK, P!Live
<1>7. PagesSoFar
  <2>1. ~tied => DatesApart(date)
    BY <1>2 DEF P!Ties, P!Live, DatesApart
  <2>2. \A r \in steady : shown[r] = 0
    BY <1>1, <1>2, <1>3
  <2>3. \A r \in steady : Rank(date, r) >= offset
    BY <1>1, <1>2, <1>3, RankIsNumber
  <2> QED
    BY <1>2, <2>1, <2>2, <2>3 DEF PagesSoFar
<1> QED
  BY <1>6, <1>7 DEF PInv

(* The invariant of TransactionPages. *)
LEMMA PagesInvariant == P!Spec => []PInv
<1>1. ASSUME PInv, UNCHANGED P!vars PROVE PInv'
  <2>1. /\ date' = date /\ unused' = unused /\ inserts' = inserts /\ step' = step
        /\ offset' = offset /\ total' = total /\ shown' = shown /\ steady' = steady
        /\ tied' = tied /\ inserted' = inserted /\ removed' = removed /\ between' = between
    BY <1>1 DEF P!vars
  <2>2. P!TypeOK'
    BY <1>1, <2>1, SameCounts DEF PInv, P!TypeOK, P!Live
  <2>3. PagesSoFar'
    BY <1>1, <2>1 DEF PInv, PagesSoFar
  <2> QED
    BY <2>2, <2>3 DEF PInv
<1>2. ASSUME PInv, P!Next PROVE PInv'
  BY <1>2, PagesRecord, PagesDelete, PagesMove, PagesReadTotal, PagesReadPage DEF P!Next
<1> QED
  BY <1>1, <1>2, PagesInit, PTL DEF P!Spec

(* No row is missed or repeated without a cause. *)
LEMMA PagesHaveCause == P!Spec => []PagesForCause
<1>1. ASSUME PInv, NEW r \in steady
      PROVE  /\ step = "done" /\ shown[r] = 0 => tied \/ removed \/ between
             /\ shown[r] > 1 => tied \/ inserted
  <2>1. shown[r] \in Nat
    BY <1>1, PagesTyped DEF PInv
  <2>2. ASSUME step = "done", shown[r] = 0, ~tied, ~removed, ~between PROVE FALSE
    BY <1>1, <2>2 DEF PInv, PagesSoFar
  <2>3. ASSUME shown[r] > 1, ~tied, ~inserted PROVE FALSE
    BY <1>1, <2>1, <2>3 DEF PInv, PagesSoFar
  <2> QED
    BY <2>2, <2>3
<1>2. PInv => PagesForCause
  BY <1>1 DEF PagesForCause, P!PagesForCause
<1> QED
  BY <1>2, PagesInvariant, PTL

-----------------------------------------------------------------------------
(* All of them together *)

(* A step of one domain is a step, or no step, of each.                    *)
LEMMA StepsAlone ==
  [DomainsNext]_domainsVars =>
    /\ [Next]_vars /\ [C!Next]_(C!vars) /\ [A!Next]_(A!vars) /\ [U!Next]_(U!vars)
    /\ [O!Next]_(O!vars) /\ [P!Next]_(P!vars) /\ [S!Next]_(S!vars)
<1> SUFFICES ASSUME [DomainsNext]_domainsVars
             PROVE  /\ [Next]_vars /\ [C!Next]_(C!vars) /\ [A!Next]_(A!vars)
                    /\ [U!Next]_(U!vars) /\ [O!Next]_(O!vars) /\ [P!Next]_(P!vars)
                    /\ [S!Next]_(S!vars)
  OBVIOUS
<1>1. /\ UNCHANGED categories => UNCHANGED C!vars
      /\ UNCHANGED accounts => UNCHANGED A!vars
      /\ UNCHANGED users => UNCHANGED U!vars
  BY DEF categories, C!vars, C!request, accounts, A!vars, users, U!vars
<1>2. /\ UNCHANGED overview => UNCHANGED O!vars
      /\ UNCHANGED pages => UNCHANGED P!vars
      /\ UNCHANGED schedule => UNCHANGED S!vars
  BY DEF overview, O!vars, pages, P!vars, schedule, S!vars
<1>3. CASE DomainsNext
  BY <1>1, <1>2, <1>3 DEF DomainsNext, BudgetsStep, CategoriesStep, AccountsStep, UsersStep,
                          OverviewStep, PagesStep, ScheduleStep
<1>4. CASE UNCHANGED domainsVars
  BY <1>1, <1>2, <1>4 DEF domainsVars
<1> QED
  BY <1>3, <1>4

(* So each behaves as if it were alone. *)
LEMMA DomainsAlone ==
  DomainsSpec => Spec /\ C!Spec /\ A!Spec /\ U!Spec /\ O!Spec /\ P!Spec /\ S!Spec
<1>1. DomainsInit => Init /\ C!Init /\ A!Init /\ U!Init /\ O!Init /\ P!Init /\ S!Init
  BY DEF DomainsInit
<1> QED
  BY <1>1, StepsAlone, PTL DEF DomainsSpec, Spec, C!Spec, A!Spec, U!Spec, O!Spec, P!Spec, S!Spec

-----------------------------------------------------------------------------
(* The theorems, of the seven domains side by side: every property of the  *)
(* run of MCDomains, for any constants that meet the three assumptions.    *)

(* The variables of the seven domains keep their types; in particular a    *)
(* user has an e-mail and a password or neither, the rows a client has been*)
(* shown fit the pages it asked for, the horizon of an overview is not     *)
(* before its day, and every due date is a date of the calendar.           *)
THEOREM DomainTypesCorrect == DomainsSpec => []DomainTypesOK
<1>1. /\ UInv => U!TypeOK
      /\ CInv => C!TypeOK
      /\ AInv => A!TypeOK
      /\ OInv => O!TypeOK
      /\ PInv => P!TypeOK
  BY DEF UInv, CInv, AInv, OInv, PInv
<1>2. TypeOK /\ C!TypeOK /\ A!TypeOK /\ U!TypeOK /\ O!TypeOK /\ P!TypeOK /\ S!TypeOK
        => DomainTypesOK
  BY DEF DomainTypesOK
<1> QED
  BY <1>1, <1>2, DomainsAlone, TypeCorrect, UserInvariant, CategoryInvariant,
     AccountInvariant, OverviewInvariant, PagesInvariant, DatesAreOnSchedule, PTL

(* In every tree that any number of requests may leave, however deep, the  *)
(* line of a root in the summary, the list filtered by it and its budget   *)
(* count the same categories (_root_category_id, build_filter_conditions,  *)
(* get_budget_progress); and a category is on the line of no root if and   *)
(* only if requests that raced have left a third level.                    *)
THEOREM FiguresAlwaysAgree == DomainsSpec => []SameFigures
  BY DomainsAlone, FiguresAgree, PTL

(* A third level comes only of a request another one overtook between      *)
(* _check_parent and its COMMIT; and the trigger check_category_depth      *)
(* refuses only such a request, or one that finds a third level already.   *)
THEOREM LevelsAlwaysHaveCause == DomainsSpec => LevelsForCause
  BY DomainsAlone, LevelsHaveCause, PTL

(* A third level never comes, as the document has it, as long as requests  *)
(* for categories do not overlap: the checks of the application, with the  *)
(* trigger, leave no other way to nest a category twice.                   *)
THEOREM TwoLevelsApart == DomainsSpec /\ []CategoriesApart => []C!TwoLevels
  BY DomainsAlone, LevelsStayTwo, PTL

(* All accounts of a group, archived ones too, have one currency until a   *)
(* creation is overtaken, an empty currency is written beside another, or  *)
(* all accounts are archived: for any accounts, currencies and requests    *)
(* (create_account, update_account).                                       *)
THEOREM CurrenciesAlwaysHaveCause == DomainsSpec => []MixedForCause
  BY DomainsAlone, CurrenciesHaveCause, PTL

(* No two users have one e-mail, although register and update_me look for  *)
(* it before they write: the unique index decides at the write.            *)
THEOREM EmailsAlwaysUnique == DomainsSpec => []OneUserPerEmail
  BY DomainsAlone, EmailsAreUnique, PTL

(* A password is changed only by a request that proved the one in force,   *)
(* or that another change overtook (change_password).                      *)
THEOREM PasswordsAlwaysKnown == DomainsSpec => ChangedByItsKnower
  BY DomainsAlone, PasswordsAreKnown, PTL

(* Whatever is posted, spent or edited between its statements, the days,   *)
(* real balance, daily safe spend and projection of an answer of           *)
(* get_group_overview agree, for any plans, amounts, periods and accounts. *)
THEOREM AnswersAlwaysAddUp == DomainsSpec => []AnswerAddsUp
  BY DomainsAlone, AnswersAddUp, PTL

(* What an answer promises to be left before payday is left once the       *)
(* expenses due by then are posted, less what transfers have moved out of  *)
(* the spendable accounts since, for any plans, amounts and accounts, if   *)
(* the answer was exact, nobody has acted since, and its expenses are      *)
(* Foreseen: none due twice before payday, none of an account that is not  *)
(* counted (get_group_overview, process_due_plan).                         *)
THEOREM PromisesAlwaysKept == DomainsSpec => []PromiseKept
  BY DomainsAlone, PromisesKept, PTL

(* The statements of one overview may overlook an expense or a transfer    *)
(* the daily run posts between them, and count nothing twice: the balance  *)
(* is read first.                                                          *)
THEOREM NothingCountedTwice == DomainsSpec => OverlookedNotDoubled
  BY DomainsAlone, SnapshotsShown, PTL

(* A list read page by page (LIMIT, OFFSET, ORDER BY date) misses a row    *)
(* that stays only if dates tie, a row before it left, or one came between *)
(* a total and its page, and repeats one only if dates tie or a row came   *)
(* before it, for any rows, dates and size of a page.                      *)
THEOREM PagesAlwaysHaveCause == DomainsSpec => []PagesForCause
  BY DomainsAlone, PagesHaveCause, PTL

(* No drift: a monthly or yearly plan is due on its anchor day, or on the  *)
(* last day of a shorter month, in the month its frequency says, and a     *)
(* daily or weekly one at its distance in days, whatever the first date,   *)
(* the frequency and the number of periods (advance_scheduled_date).       *)
THEOREM NoDrift == DomainsSpec => []DueOnSchedule
<1>1. S!TypeOK /\ DueOnSchedule => DueOnSchedule
  OBVIOUS
<1> QED
  BY <1>1, DomainsAlone, DatesAreOnSchedule, PTL

(* Every due date is later than the one before, so that the daily run never*)
(* meets a plan it cannot move on.                                         *)
THEOREM MovesForward == DomainsSpec => S!DueMovesForward
  BY DomainsAlone, DatesMoveForward, PTL

=============================================================================
