-------------------------------- MODULE MCLfFifo --------------------------------
(* Instances of LfFifo for TLC. *)
EXTENDS LfFifo, TLC

CONSTANTS t1, t2, v1, v2

GivesOf == t1 :> {v1} @@ t2 :> {v2}

\* How often each thread calls push, push_head and pop.
CallsOf(push, pushHead, pop) ==
  [k \in Kinds |-> CASE k = "push" -> push [] k = "pushHead" -> pushHead [] k = "pop" -> pop]

PushAndPop    == t1 :> CallsOf(1, 0, 1) @@ t2 :> CallsOf(1, 0, 2)
HeadOvertaken == t1 :> CallsOf(0, 1, 0) @@ t2 :> CallsOf(1, 0, 2)

Races == {PushAndPop, HeadOvertaken}
=============================================================================
