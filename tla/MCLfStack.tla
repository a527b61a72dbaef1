------------------------------- MODULE MCLfStack -------------------------------
(* Small instances of LfStack for TLC.                                      *)
EXTENDS LfStack, TLC

CONSTANTS t1, t2, t3, n1, n2, n3

\* One thread that may be overtaken, one that runs many operations.
Uneven == [t \in Threads |-> IF t = t1 THEN 2 ELSE 4]
=============================================================================
