----------------------------- MODULE TokenChain -----------------------------
(***************************************************************************)
(* What the refresh tokens of a device promise, without transactions: each *)
(* token is granted once and exchanged at most once, for one successor, and*)
(* only while it is alive. So a log-in is a chain of tokens of which at    *)
(* most the last is good for anything.                                     *)
(***************************************************************************)
CONSTANTS
  Token,      (* every refresh token there may ever be                     *)
  NoToken     (* no successor                                              *)

VARIABLES
  alive,      (* tokens that still buy something                           *)
  granted,    (* tokens that are or were alive                             *)
  next        (* what each was exchanged for                               *)

vars == <<alive, granted, next>>

Init == alive = {} /\ granted = {} /\ next = [t \in Token |-> NoToken]

(* A log-in or a registration. *)
Grant(t) ==
  /\ t \notin granted
  /\ alive' = alive \cup {t} /\ granted' = granted \cup {t}
  /\ UNCHANGED next

Exchange(s, t) ==
  /\ s \in alive /\ t \notin granted /\ next[s] = NoToken
  /\ alive' = (alive \ {s}) \cup {t} /\ granted' = granted \cup {t}
  /\ next' = [next EXCEPT ![s] = t]

(* A log-out. *)
Revoke(t) == t \in alive /\ alive' = alive \ {t} /\ UNCHANGED <<granted, next>>

Next == \E t \in Token : Grant(t) \/ Revoke(t) \/ \E s \in Token : Exchange(s, t)

Spec == Init /\ [][Next]_vars

=============================================================================
