---------------------------- MODULE MCHazardChain ----------------------------
(* Small instances of HazardChain for TLC.                                  *)
EXTENDS HazardChain

CONSTANTS t1, t2, s1, g1, g2, g3

TwoLives == [t \in Threads |-> 2]
=============================================================================
