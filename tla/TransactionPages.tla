-------------------------- MODULE TransactionPages --------------------------
(***************************************************************************)
(* A client goes through the list of transactions page by page, by offset, *)
(* while transactions are recorded, deleted and moved to other dates. Each *)
(* answer is two SELECTs with a snapshot each, the total and the page; the *)
(* page is ordered by date alone, and rows of one date come in any order.  *)
(***************************************************************************)
EXTENDS Integers, FiniteSets, Functions

CONSTANTS
  Row,          (* ids of transactions                                     *)
  Date,         (* dates they may have, numbers                            *)
  Limit,        (* rows in a page                                          *)
  MaxWrites     (* bound: writes                                           *)

VARIABLES
  date,         (* of the rows that are committed and not deleted          *)
  unused,       (* ids that have never had a row                           *)
  writes,       (* how many writes there have been                         *)
  step,         (* what the client does next: total, page, or it is done   *)
  offset,       (* of the next page                                        *)
  total,        (* the last total                                          *)
  shown,        (* how many times the client has been shown each row       *)
  steady,       (* history: rows that are where they were all the time     *)
  tied,         (* history: two rows had one date                          *)
  inserted,     (* history: a row has taken a place, by record or move     *)
  removed,      (* history: a row has left its place, by deletion or move  *)
  between       (* history: one took a place between a total and its page  *)

table   == <<date, unused, writes>>
client  == <<step, offset, total, shown>>
history == <<steady, tied, inserted, removed, between>>
vars    == <<date, unused, writes, step, offset, total, shown,
             steady, tied, inserted, removed, between>>

Live == DOMAIN date

Ties == \E r, s \in Live : r # s /\ date[r] = date[s]

Init ==
  /\ \E S \in SUBSET Row : date \in [S -> Date] /\ unused = Row \ S
  /\ writes = 0
  /\ step = "total" /\ offset = 0 /\ total = 0
  /\ shown = [r \in Row |-> 0]
  /\ steady = Live /\ tied = Ties
  /\ inserted = FALSE /\ removed = FALSE /\ between = FALSE

-----------------------------------------------------------------------------
(* Commits of others; an amended row may keep its date. *)

Write(r) ==
  /\ writes < MaxWrites /\ writes' = writes + 1
  /\ steady' = steady \ {r}
  /\ tied' = (tied \/ Ties')
  /\ UNCHANGED client

Record(r) ==
  /\ r \in unused /\ unused' = unused \ {r}
  /\ \E d \in Date : date' = [s \in Live \cup {r} |-> IF s = r THEN d ELSE date[s]]
  /\ Write(r)
  /\ inserted' = TRUE /\ between' = (between \/ step = "page") /\ UNCHANGED removed

(* A deleted row stays in the table, out of every list. *)
Delete(r) ==
  /\ r \in Live /\ date' = [s \in Live \ {r} |-> date[s]]
  /\ Write(r)
  /\ removed' = TRUE /\ UNCHANGED <<unused, inserted, between>>

Move(r) ==
  /\ r \in Live /\ \E d \in Date : date' = [date EXCEPT ![r] = d]
  /\ Write(r)
  /\ inserted' = TRUE /\ removed' = TRUE /\ between' = (between \/ step = "page")
  /\ UNCHANGED unused

-----------------------------------------------------------------------------
(* The list *)

ReadTotal ==
  /\ step = "total"
  /\ step' = "page" /\ total' = Cardinality(Live)
  /\ UNCHANGED <<table, offset, shown, history>>

NotBefore(S, T) == \A r \in S, s \in T : date[r] >= date[s]

(* Faulty variant: no ORDER BY. *)
AnyRows(S) ==
  Cardinality(S) = IF Cardinality(Live) <= offset THEN 0
                   ELSE IF Cardinality(Live) - offset < Limit
                        THEN Cardinality(Live) - offset ELSE Limit

(* S may be the page at the offset: what comes before fills the offset, or *)
(* is all there is; and the page is full, or nothing comes after.          *)
IsPage(S) ==
  \E skipped \in SUBSET (Live \ S) :
    LET rest == Live \ (S \cup skipped)
    IN  /\ NotBefore(skipped, S) /\ NotBefore(skipped \cup S, rest)
        /\ Cardinality(skipped) = offset \/ (skipped = Live /\ Cardinality(Live) < offset)
        /\ Cardinality(S) = Limit \/ (Cardinality(S) < Limit /\ rest = {})

(* The client goes on while the total says there is more. *)
ReadPage ==
  /\ step = "page"
  /\ \E S \in SUBSET Live :
       IsPage(S) /\ shown' = [r \in Row |-> shown[r] + IF r \in S THEN 1 ELSE 0]
  /\ offset' = offset + Limit
  /\ step' = IF offset' < total THEN "total" ELSE "done"
  /\ UNCHANGED <<table, total, history>>

Next ==
  \/ \E r \in Row : Record(r) \/ Delete(r) \/ Move(r)
  \/ ReadTotal \/ ReadPage

Spec == Init /\ [][Next]_vars

-----------------------------------------------------------------------------
(* Properties *)

(* Type invariant; no page has more rows than its limit. *)
TypeOK ==
  /\ Live \subseteq Row /\ \A r \in Live : date[r] \in Date
  /\ unused \subseteq Row \ Live
  /\ writes \in 0..MaxWrites
  /\ step \in {"total", "page", "done"}
  /\ offset \in Nat /\ total \in 0..Cardinality(Row)
  /\ shown \in [Row -> Nat] /\ SumFunction(shown) <= offset
  /\ steady \subseteq Live
  /\ {tied, inserted, removed, between} \subseteq BOOLEAN

(***************************************************************************)
(* A client who has gone through the list has been shown every row that    *)
(* stayed where it was, unless rows had one date, a row before it left its *)
(* place, or one took a place before it between a total and its page: that *)
(* total then ends the list one row early. It has been shown no such row   *)
(* twice, unless rows had one date or a row took a place before it: a      *)
(* deletion alone never repeats one.                                       *)
(***************************************************************************)
PagesForCause ==
  \A r \in steady :
    /\ step = "done" /\ shown[r] = 0 => tied \/ removed \/ between
    /\ shown[r] > 1 => tied \/ inserted

=============================================================================
