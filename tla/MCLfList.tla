-------------------------------- MODULE MCLfList --------------------------------
(* Instances of LfList for TLC. *)
EXTENDS LfList, TLC

CONSTANTS t1, t2

\* How often a thread calls what it calls at all.
CallsOf(f) == [k \in Kinds |-> IF k \in DOMAIN f THEN f[k] ELSE 0]

Inserting  == t1 :> CallsOf("insert" :> 1) @@ t2 :> CallsOf("insert" :> 1 @@ "remove" :> 1)
Removing   == t1 :> CallsOf("insert" :> 1 @@ "removeAll" :> 1) @@ t2 :> CallsOf("remove" :> 1)
Walked     == t1 :> CallsOf("walk" :> 1) @@ t2 :> CallsOf("insert" :> 1 @@ "remove" :> 1)
BothEnds   == t1 :> CallsOf("pushFront" :> 1) @@ t2 :> CallsOf("popFront" :> 1 @@ "popBack" :> 1)
OneElement == t1 :> CallsOf("popFront" :> 1 @@ "pushFront" :> 1) @@ t2 :> CallsOf("popBack" :> 1)
Clears     == t1 :> CallsOf("clear" :> 1 @@ "pushFront" :> 1) @@ t2 :> CallsOf("clear" :> 1)

Races      == {Inserting, Removing, Walked, BothEnds, OneElement, Clears}
WalkedOver == {t1 :> CallsOf("walk" :> 1) @@ t2 :> CallsOf("popFront" :> 2 @@ "popBack" :> 1)}

\* An insertion before the first greater value, which is at the end of the
\* list for the greatest.
Sorted == {[pred |-> {w \in Values : w > v}, arg |-> v] : v \in Values}
Each   == {{v} : v \in Values}

One    == <<1>>
OneTwo == <<1, 2>>

\* What the theorems about the list suppose of its users holds of these.
ASSUME UsersKeepToIt == ClearIsAlone /\ SortedUse

Symmetry == Permutations(Nodes)
=============================================================================
