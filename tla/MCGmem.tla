--------------------------------- MODULE MCGmem ---------------------------------
(* Instances of Gmem for TLC. *)
EXTENDS Gmem, TLC

CONSTANTS t1, t2, t3, b1, b2

AllSlots == SmallSlot \cup BigSlot

Small == <<"small", 1>>
Big(n) == <<"big", n>>
Free == <<"free", 0>>
FreeAndKeep == <<"leave", 0>>
FreeAgain == <<"again", 0>>
AwaitCalls(n) == <<"await", n>>

\* t3 makes no calls unless a history says so.
History(first, memory, calls) ==
  [first |-> first, groups |-> memory, calls |-> calls @@ t3 :> <<>>]

\* Slots of one class go from thread to thread.
Passed == History(1, 2, t1 :> <<Small, Free, Small>> @@ t2 :> <<Small, Free, Small>>)
\* A thread takes all slots and gives them back while another one is within
\* a pop; it ends with a slot still in hazard.
Overtaken == History(3, 1, t1 :> <<Small, Small, Small, Free, Free, Free,
                                   Small, Small, Small, Free, Free>> @@ t2 :> <<Small>>)
\* Two threads free the same slot and allocate again: the second free is
\* refused, or comes late and takes the slot from its new user.
Freed2 == History(1, 2, t1 :> <<Small, FreeAndKeep, Small>> @@ t2 :> <<FreeAgain, Small>>)
Freed2Big == History(1, 0, t1 :> <<Big(1), FreeAndKeep, Big(1)>> @@ t2 :> <<FreeAgain, Big(1)>>)
\* A thread ends with a slot that another one has in hazard, and a third one
\* finds the slot in the list it inherits.
Inherited == History(3, 1, t1 :> <<Small, Small, Free, Free, AwaitCalls(1), Small, Small>>
                           @@ t2 :> <<AwaitCalls(4), Small, Free>> @@ t3 :> <<AwaitCalls(6), Small>>)
\* A slot that is too small for a request is kept aside.
Bigger == History(1, 0, t1 :> <<Big(1), Free, Big(2), Free>> @@ t2 :> <<Big(2), Free, Big(1)>>)
\* The class has no memory left; a request goes on to the big slots.
Fallen == History(1, 2, t1 :> <<Small>> @@ t2 :> <<Small, Small, Small>>)
\* A slot above the threshold is unmapped while others wait in the lists.
Unkept == History(1, 0, t1 :> <<Big(3), Free, Big(1), Free>> @@ t2 :> <<Big(1), Free, Big(1)>>)
Together == {Passed, Overtaken, Freed2, Freed2Big, Inherited, Bigger, Fallen, Unkept}

-----------------------------------------------------------------------------
(* What AllocOnlyChamber_proofs proves of all slots, evaluated for some.   *)

Layout == INSTANCE SlotLayout

SomeSlots ==
  {<<i, base, bytes, k>> \in {0, 7, 63, 64, 111, 127} \X {4096, 4200} \X
                            {4096, 8192, 36864, 65536, 528384, 1048576, 2105344, 4194304} \X (0 .. 6) :
     Layout!IsSlot(i, base, bytes, k)}
SomeRequests == {<<0, 8>>, <<7, 1>>, <<56, 8>>, <<63, 64>>, <<511, 8>>, <<512, 64>>,
                 <<30720, 8>>, <<30720, 64>>, <<131071, 8>>, <<126000, 4096>>}

ASSUME LayoutHolds ==
  \A s \in SomeSlots, r \in SomeRequests :
    Layout!Takes(s[1], r[1], r[2]) =>
      /\ Layout!MemoryInSlot(s[1], s[2], s[3], s[4], r[1], r[2])
      /\ Layout!SlotIsFound(s[1], s[2], s[4], r[1], r[2])
=============================================================================
