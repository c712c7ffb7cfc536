----------------------------- MODULE MCObjGraph -----------------------------
EXTENDS ObjGraph

CONSTANTS c1, l1, s1, s2, s3

(* The logfile l1 records console c1.                                      *)
MCLogOf == [l \in {l1} |-> c1]
=============================================================================
