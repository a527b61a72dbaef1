-------------------------- MODULE MCHazardChainStale --------------------------
(* HazardChain from a state in the middle of three thread exits, which its   *)
(* initial state leads to: the chain was g1, g2, g3, owned by t1, t2, t3.    *)
(* t3 has passed g1 in the first walk of its exit and loaded g1's successor  *)
(* g2; then t1 and t2 have marked and unlinked their groups.  t1 waits for   *)
(* t3's accesser on g1; nobody holds one on g2.                              *)
EXTENDS HazardChain

CONSTANTS t1, t2, t3, g1, g2, g3

\* t1 binds a group twice more, t2 once more.
Lives == [t \in Threads |-> CASE t = t1 -> 3 [] t = t2 -> 2 [] t = t3 -> 1]

\* f(t3) = v and the value d for the other threads.
At3(v, d) == [t \in Threads |-> IF t = t3 THEN v ELSE d]

MidExit ==
  /\ chainTop = g1
  /\ chainNext = [g \in Groups |-> CASE g = g1 -> g2 [] g = g2 -> g3 [] g = g3 -> Null]
  /\ allocated = Groups
  /\ using = [g \in Groups |-> TRUE]
  /\ top = g3
  /\ next = [g \in Groups |-> [ptr |-> chainNext[g], mark |-> g # g3]]
  /\ cnt = [g \in Groups |-> IF g = g1 THEN 1 ELSE 0]
  /\ pc = At3("acquire", "wait")
  /\ phase = At3("check", "remove")
  /\ own = [t \in Threads |-> CASE t = t1 -> g1 [] t = t2 -> g2 [] t = t3 -> g3]
  /\ expect = At3(Null, Null)
  /\ pre = At3(g1, Top)
  /\ accPre = At3(g1, Null)
  /\ focus = At3(g2, Null)
  /\ accCur = At3(Null, Null)
  /\ nxt = At3(Null, Null)
  /\ lives = At3(1, 1)
  /\ scanAt = [s \in Scanners |-> Null]
  /\ scanning = [s \in Scanners |-> FALSE]
  /\ must = [s \in Scanners |-> {}]
  /\ scans = [s \in Scanners |-> 0]

MidExitSpec == MidExit /\ [][Next]_vars
=============================================================================
