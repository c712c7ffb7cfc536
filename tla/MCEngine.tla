------------------------------ MODULE MCEngine ------------------------------
EXTENDS Engine

CONSTANTS c1, l1, s1, s2, t1, t2

(* The logfile l1 records console c1.                                      *)
MCLogOf == [l \in {l1} |-> c1]
=============================================================================
