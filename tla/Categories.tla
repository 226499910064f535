----------------------------- MODULE Categories -----------------------------
(***************************************************************************)
(* The categories of two groups and their parents. A request that gives a  *)
(* category a parent reads the parent, then asks whether the category has  *)
(* children of its own, then writes; a trigger of the table looks at the   *)
(* parent once more. All of them see committed rows only, and a row is     *)
(* locked only by whoever writes it. No category is ever deleted.          *)
(***************************************************************************)
EXTENDS Naturals, FiniteSets

CONSTANTS
  Category,     (* every category there may ever be                        *)
  GroupOf,      (* the group in which each is created, for good            *)
  NoParent,     (* the parent of a root                                    *)
  Worker        (* threads that serve requests, one after another          *)

VARIABLES
  parent,       (* the committed rows: existing categories and their parent*)
  pc,           (* how far the request of each worker is                   *)
  category,     (* the category it creates or updates                      *)
  wanted,       (* the parent its row will have                            *)
  raced         (* history: others have committed since it began           *)

request == <<pc, category, wanted, raced>>
vars    == <<parent, request>>

Existing == DOMAIN parent
IsRoot(c) == parent[c] = NoParent

Init ==
  /\ parent = [c \in {} |-> NoParent]
  /\ pc = [w \in Worker |-> "idle"]
  /\ category = [w \in Worker |-> NoParent]
  /\ wanted = [w \in Worker |-> NoParent]
  /\ raced = [w \in Worker |-> FALSE]

(* The end of a request, and of a transaction that is rolled back. *)
End(w) ==
  /\ pc' = [pc EXCEPT ![w] = "idle"]
  /\ category' = [category EXCEPT ![w] = NoParent]
  /\ wanted' = [wanted EXCEPT ![w] = NoParent]

Rollback(w) == End(w) /\ raced' = [raced EXCEPT ![w] = FALSE] /\ UNCHANGED parent

Begin(w, c, p, next) ==
  /\ pc[w] = "idle"
  /\ pc' = [pc EXCEPT ![w] = next]
  /\ category' = [category EXCEPT ![w] = c]
  /\ wanted' = [wanted EXCEPT ![w] = p]
  /\ UNCHANGED <<parent, raced>>

-----------------------------------------------------------------------------
(* Requests *)

(* _check_parent: what can be read off the parent. *)
GoodParent(c, p) == p # c /\ GroupOf[p] = GroupOf[c] /\ IsRoot(p)

NotYet(c) == c \notin Existing /\ \A v \in Worker : category[v] # c

(* A category is created as a root or below one. *)
Create(w) ==
  \E c \in Category : NotYet(c) /\
    \E p \in Existing \cup {NoParent} :
      /\ p # NoParent => GoodParent(c, p)
      /\ Begin(w, c, p, "write")

(* A PATCH that names a parent. *)
Move(w) ==
  \E c \in Existing, p \in Existing : GoodParent(c, p) /\ Begin(w, c, p, "parent is good")

(* Faulty variant: the application trusts the trigger. *)
TrustTrigger(c) == FALSE

HasChildren(c) == \E d \in Existing : parent[d] = c

CheckChildren(w) ==
  /\ pc[w] = "parent is good"
  /\ IF HasChildren(category[w])
     THEN Rollback(w)
     ELSE pc' = [pc EXCEPT ![w] = "write"] /\ UNCHANGED <<parent, category, wanted, raced>>

(* A PATCH that makes a root of a category is not checked. *)
Promote(w) == \E c \in Existing : Begin(w, c, NoParent, "write")

(* One that only renames, archives or reactivates it keeps the parent.     *)
Edit(w) == \E c \in Existing : Begin(w, c, NoParent, "write the rest")

-----------------------------------------------------------------------------
(* It writes *)

(* check_category_depth *)
TriggerRefuses(c, p) == p # NoParent /\ (p = c \/ ~IsRoot(p))

(* The parent in the row that is written: an UPDATE that does not name the *)
(* column finds it in the row, once nobody else is writing that.           *)
NewParent(w) == IF pc[w] = "write the rest" THEN parent[category[w]] ELSE wanted[w]

Locked(w) == \E v \in Worker \ {w} : pc[v] = "done" /\ category[v] = category[w]

Writing(w) == pc[w] \in {"write", "write the rest"} /\ ~Locked(w)

Write(w) ==
  /\ Writing(w) /\ ~TriggerRefuses(category[w], NewParent(w))
  /\ wanted' = [wanted EXCEPT ![w] = NewParent(w)]
  /\ pc' = [pc EXCEPT ![w] = "done"]
  /\ UNCHANGED <<parent, category, raced>>

(* The exception of the trigger. *)
Refuse(w) == Writing(w) /\ TriggerRefuses(category[w], NewParent(w)) /\ Rollback(w)

Commit(w) ==
  /\ pc[w] = "done"
  /\ parent' = [c \in Existing \cup {category[w]} |->
                  IF c = category[w] THEN wanted[w] ELSE parent[c]]
  /\ raced' = [v \in Worker |-> v # w /\ pc[v] # "idle"]
  /\ End(w)

(* Any error, at any time. *)
Fail(w) == pc[w] # "idle" /\ Rollback(w)

-----------------------------------------------------------------------------
Step(w) ==
  \/ Create(w) \/ Move(w) \/ CheckChildren(w) \/ Promote(w) \/ Edit(w)
  \/ Write(w) \/ Refuse(w) \/ Commit(w) \/ Fail(w)

Next == \E w \in Worker : Step(w)

Spec == Init /\ [][Next]_vars

-----------------------------------------------------------------------------
(* What reads the tree: categories whose transactions a statement counts   *)

(* Faulty variant: the parent, even of a root. *)
ParentId(c) == parent[c]

(* _root_category_id *)
RootId(c) == IF IsRoot(c) THEN c ELSE parent[c]

(* The line of category r in the summary. *)
SummaryLine(r) == {c \in Existing : RootId(c) = r}

(* The list, or a summary, filtered by category r. *)
FilterOf(r) == {c \in Existing : RootId(c) = r \/ c = r}

(* The budget of category r: two branches, its own and its children's.     *)
CountedBy(r) == {c \in Existing : c = r \/ parent[c] = r}

-----------------------------------------------------------------------------
(* Properties *)

(* Type invariant; a parent is of the same group, which nothing but the    *)
(* application asks, and nobody comes to write a category below itself.    *)
TypeOK ==
  /\ Existing \subseteq Category
  /\ \A c \in Existing : parent[c] \in {d \in Existing : GroupOf[d] = GroupOf[c]} \cup {NoParent}
  /\ pc \in [Worker -> {"idle", "parent is good", "write", "write the rest", "done"}]
  /\ category \in [Worker -> Category \cup {NoParent}]
  /\ wanted \in [Worker -> Category \cup {NoParent}]
  /\ \A w \in Worker : pc[w] # "idle" => wanted[w] # category[w]
  /\ raced \in [Worker -> BOOLEAN]

(***************************************************************************)
(* docs/domains/categories.md, section 5, and docs/domains/budgets.md,     *)
(* section 5: there are two levels, and the application cannot get round it*)
(* even by mistake; the sums of a budget rely on it.                       *)
(***************************************************************************)
TwoLevels == \A c \in Existing : ~IsRoot(c) => IsRoot(parent[c])

(***************************************************************************)
(* Alone, every request leaves two levels: a third one, or a circle, only  *)
(* comes of a request during which another one committed. And the trigger  *)
(* fails a request only if another one committed while it was at work, or  *)
(* if there is a third level already.                                      *)
(***************************************************************************)
LevelsForCause ==
  [][/\ TwoLevels /\ ~TwoLevels' => \E w \in Worker : Commit(w) /\ raced[w]
     /\ \A w \in Worker : Refuse(w) => raced[w] \/ ~TwoLevels]_vars

(***************************************************************************)
(* Three statements count the same transactions for a root, at any depth:  *)
(* its line of the summary, the list filtered by it, and its budget; the   *)
(* last two also do for a subcategory. What they rely on two levels for    *)
(* (docs/domains/budgets.md, section 5) is that nothing is left out: the   *)
(* lines of the roots hold every category if and only if there are two     *)
(* levels, and then a subcategory counts its own transactions only.        *)
(***************************************************************************)
SameFigures ==
  /\ \A c \in Existing :
       /\ CountedBy(c) = FilterOf(c)
       /\ IsRoot(c) => SummaryLine(c) = FilterOf(c)
       /\ TwoLevels /\ ~IsRoot(c) => FilterOf(c) = {c}
  /\ TwoLevels <=> Existing = UNION {SummaryLine(r) : r \in {d \in Existing : IsRoot(d)}}

=============================================================================
