----------------------------- MODULE MCHazardSlots -----------------------------
(***************************************************************************)
(* A small instance of HazardSlots: a reader with three hazard_ptr and two *)
(* slots in a group, and a thread that takes objects and deletes them.     *)
(***************************************************************************)
EXTENDS HazardSlots, TLC

CONSTANTS reader, taker, a, b, c, o1, o2

ReaderMay ==
  reader :> {"construct", "destroy", "copy", "move", "verify", "cas"}
    @@ taker :> {"take", "check"}
ReaderCalls == reader :> 5 @@ taker :> 3

Symmetric == Permutations(Names) \cup Permutations(Objects)
=============================================================================
