------------------------------ MODULE MCDynamicTls ------------------------------
(* Instances of DynamicTls for TLC. *)
EXTENDS DynamicTls, TLC

CONSTANTS t1, t2, t3, v1, v2, v3

\* The deallocator of v3 asks for the content of v2.
V3UsesV2 == v1 :> None @@ v2 :> None @@ v3 :> v2

Get(v) == <<"get", v>>
Put(v) == <<"set", v>>
End(v) == <<"destroy", v>>

\* Two threads use a new object for the first time at once; it is destroyed
\* while they end, and its key goes to another object.
FirstUses  == t1 :> <<Get(v1)>> @@ t2 :> <<Get(v1)>> @@ t3 :> <<End(v1), Get(v2)>>
\* Heads and contents pass from thread to thread.
InTurn     == t1 :> <<Get(v1)>> @@ t2 :> <<Put(v2), Get(v2)>> @@ t3 :> <<>>
\* A deallocator that asks for another object is run by the destructor.
ByDestroy  == t1 :> <<Get(v3), End(v3)>> @@ t2 :> <<Get(v2)>> @@ t3 :> <<>>
\* It is run by the end of the thread, while both objects are destroyed: the
\* content of v2, whose turn is over, is created again.  No other thread takes
\* over the head, where it would find that content as its own.
AtThreadEnd == t1 :> <<Get(v2), Get(v3)>> @@ t2 :> <<>> @@ t3 :> <<End(v3), End(v2)>>
Together == {FirstUses, InTurn, ByDestroy, AtThreadEnd}
=============================================================================
