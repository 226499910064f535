-------------------------- MODULE MCGroupMembers --------------------------
(* Small instances of GroupMembers for TLC.                              *)
EXTENDS GroupMembers, TLC

CONSTANTS ana, bea, cal, t1, t2, t3

MCUser3   == {ana, bea, cal}
MCUser2   == {ana, bea}
MCRequest3 == {t1, t2, t3}
MCRequest2 == {t1, t2}
MCRowId3  == 1..3
MCRowId4  == 1..4

Symmetry  == Permutations(MCUser3) \cup Permutations(MCRequest2)
=============================================================================
