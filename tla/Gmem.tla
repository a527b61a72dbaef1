---------------------------------- MODULE Gmem ----------------------------------
(***************************************************************************)
(* gmem_allocate and gmem_deallocate (src_mem/mem_gmem_allocator.cpp): one *)
(* class of small slots, and the big slots a request goes to when it is    *)
(* too large for the classes or when they have no memory left.             *)
(*                                                                         *)
(* A slot may be given back by another thread than the one that asked for  *)
(* it, and, where a history says so, a second time by another thread.  The *)
(* code reports a second free when it sees one; a second free that comes   *)
(* when the slot has a new user, or comes to its compare_exchange by then, *)
(* takes the slot from that user, and "torn" remembers the slot.           *)
(***************************************************************************)
EXTENDS SmallSlots, BigSlots
LOCAL INSTANCE FiniteSetsExt

CONSTANTS
  Histories \* bound: what each thread calls, how many slots the first group
            \* has and how many groups there is memory for

Ops == {"small", "big", "free", "leave", "again", "await"}

ASSUME GmemAssumption ==
  /\ Lists = {"small", "big"}
  /\ Slots = SmallSlot \cup BigSlot
  /\ SmallSlot \cap BigSlot = {}
  /\ \A h \in Histories : /\ h.calls \in [Threads -> Seq(Ops \X Nat)]
                          /\ h.first \in 1 .. LimitSlots
                          /\ h.groups \in 0 .. MaxGroups

VARIABLES
  held,   \* history: the slots users hold; the one held longest is freed first
  stale,  \* history: slots that are freed, and will be freed once more
  torn,   \* history: slots taken from their user by the second free of an earlier one
  script  \* bound: the calls left

userVars == <<held, stale, script>>
vars == <<poolVars, smallVars, bigVars, userVars, torn, loc>>

Init ==
  /\ PoolInit /\ BigInit
  /\ held = <<>> /\ stale = <<>> /\ torn = {}
  /\ \E h \in Histories : SmallInit(h.first, h.groups) /\ script = h.calls
  /\ loc = [t \in Threads |-> [Idle EXCEPT !.pc = IF script[t] = <<>> THEN "ended" ELSE "idle"]]

\* gmem_allocate_impl: a request for a small slot or for so many pages.
Allocate(t) ==
  /\ At(t, "idle") /\ script[t] # <<>> /\ Head(script[t])[1] \in {"small", "big"}
  /\ LET op == Head(script[t])[1]
         n == Head(script[t])[2]
     IN loc' = [loc EXCEPT ![t] = [IF op = "big" THEN CallReuse(t, "big", "judge")
                                   ELSE CallReuse(t, "small", "small")
                                   EXCEPT !.size = n]]
  /\ UNCHANGED <<userVars, poolVars, smallVars, bigVars>>

\* Both attempts at the class have failed; the next candidates are big slots.
FallThrough(t) ==
  /\ At(t, "none") /\ loc[t].try = 2
  /\ loc' = [loc EXCEPT ![t] = [CallReuse(t, "big", "judge") EXCEPT !.grp = Null, !.new = Null]]
  /\ UNCHANGED <<userVars, poolVars, smallVars, bigVars>>

\* The slot the call returns, or Null.
Result(t) == IF At(t, "smallDone") THEN P(t) ELSE loc[t].got

\* The call is about to return.
Returns(t) == At(t, "smallDone") \/ At(t, "bigDone")

Deliver(t) ==
  /\ Returns(t)
  /\ held' = IF Result(t) = Null THEN held ELSE Append(held, Result(t))
  /\ script' = [script EXCEPT ![t] = Tail(@)]
  /\ loc' = [loc EXCEPT ![t] = Rest(t)]
  /\ UNCHANGED <<stale, poolVars, smallVars, bigVars>>

\* The slots thread t can free now: those users hold or, when it is to free
\* a slot again, those that have been freed.
ToFree(t) == IF Head(script[t])[1] = "again" THEN stale ELSE held

\* gmem_deallocate finds the kind of the slot in its header; deallocate looks
\* at the used flag.
Deallocate(t) ==
  /\ At(t, "idle") /\ script[t] # <<>> /\ Head(script[t])[1] \in {"free", "leave", "again"}
  /\ ToFree(t) # <<>>
  /\ CASE Head(script[t])[1] = "free"  -> held' = Tail(held) /\ stale' = stale
       [] Head(script[t])[1] = "leave" -> held' = Tail(held) /\ stale' = Append(stale, Head(held))
       [] Head(script[t])[1] = "again" -> held' = held /\ stale' = Tail(stale)
  /\ LET s == Head(ToFree(t))
         to == IF s \in SmallSlot THEN CheckSmall(s) ELSE CheckBig(s)
     IN loc' = [loc EXCEPT ![t].pc = to, ![t].slot = IF to = "idle" THEN Null ELSE s]
  /\ script' = [script EXCEPT ![t] = Tail(@)]
  /\ UNCHANGED <<poolVars, smallVars, bigVars>>

\* A call of the script for which there is nothing to free is not made.
Skip(t) ==
  /\ At(t, "idle") /\ script[t] # <<>> /\ Head(script[t])[1] \in {"free", "leave", "again"}
  /\ ToFree(t) = <<>>
  /\ script' = [script EXCEPT ![t] = Tail(@)]
  /\ UNCHANGED <<held, stale, loc, poolVars, smallVars, bigVars>>

\* The user waits until the other threads have together no more than so many
\* calls left.
Await(t) ==
  /\ At(t, "idle") /\ script[t] # <<>> /\ Head(script[t])[1] = "await"
  /\ MapThenSumSet(LAMBDA u : Len(script[u]), Threads \ {t}) <= Head(script[t])[2]
  /\ script' = [script EXCEPT ![t] = Tail(@)]
  /\ UNCHANGED <<held, stale, loc, poolVars, smallVars, bigVars>>

\* The thread ends; its lists go to the others.
BeginExit(t) ==
  /\ At(t, "idle") /\ script[t] = <<>>
  /\ Goto(t, "exit")
  /\ UNCHANGED <<userVars, poolVars, smallVars, bigVars>>

\* A user has the slot, or is about to get it.
InUse(s) == s \in Listed(held) \/ \E u \in Threads : Returns(u) /\ Result(u) = s

\* The slot a compare_exchange of thread t takes from its user.
Torn(t) == {s \in {P(t)} : (At(t, "smallClaim") \/ At(t, "bigClaim")) /\ InUse(s)}

Act(t) ==
  \/ Allocate(t) \/ FallThrough(t) \/ Deliver(t) \/ Deallocate(t) \/ Skip(t) \/ Await(t)
  \/ BeginExit(t)
  \/ PoolStep(t) /\ UNCHANGED <<userVars, smallVars, bigVars>>
  \/ SmallStep(t) /\ UNCHANGED <<userVars, bigVars>>
  \/ BigStep(t) /\ UNCHANGED <<userVars, smallVars>>

Step(t) == Act(t) /\ torn' = torn \cup Torn(t)
Next == \E t \in Threads : Step(t)
Spec == Init /\ [][Next]_vars
FairSpec == Spec /\ \A t \in Threads : WF_vars(Step(t))

-----------------------------------------------------------------------------

TypeOK ==
  /\ PoolTypeOK /\ SmallTypeOK /\ BigTypeOK
  /\ Listed(held) \cup Listed(stale) \cup torn \subseteq Slots
  /\ \A t \in Threads : loc[t].slot \in Slots \cup {Null}

Used(s) == IF s \in SmallSlot THEN smallUsed[s] ELSE bigUsed[s]

\* Slots that exist: assigned from their group, or mapped.
Existing == {s \in SmallSlot : s[2] <= assigned[s[1]]} \cup mapped

\* A thread has the slot on the way from one place to another.
Moves(t, s) ==
  \/ s = P(t) /\ loc[t].pc \notin {"smallClaim", "bigClaim", "smallDone", "bigDone"}
  \/ s \in Listed(loc[t].kept)
  \/ s = loc[t].got /\ ~At(t, "bigDone")

Times(seq, s) == Cardinality({i \in 1 .. Len(seq) : seq[i] = s})
Places(s) ==
  {<<l, "stack">> : l \in {k \in Lists : s \in Stacked(k)}}
    \cup UNION {{<<l, i>> : i \in 1 .. Times(globalHaz[l], s)} : l \in Lists}
    \cup UNION {{<<l, t, "free", i>> : i \in 1 .. Times(localFree[t][l], s)} : t \in Threads, l \in Lists}
    \cup UNION {{<<l, t, "haz", i>> : i \in 1 .. Times(localHaz[t][l], s)} : t \in Threads, l \in Lists}
    \cup {<<"moves", t>> : t \in {u \in Threads : Moves(u, s)}}

\* A slot whose flag says that it is in use is in none of the lists, and any
\* other one is in exactly one of them or on its way: no slot is lost or put
\* into two lists, whenever and however often it is freed.
UnusedSlotsInOnePlace ==
  \A s \in Existing : Cardinality(Places(s)) = IF Used(s) THEN 0 ELSE 1

\* A slot is not handed to a user while another one has it, as long as no
\* second free has come upon a new user of the slot (mem_small_memory_slot.cpp:159,
\* mem_big_memory_slot.cpp:109: the exchange looks at the flag, which is that
\* of whoever uses the slot now).
OneUser ==
  \A t \in Threads :
    Returns(t) /\ Result(t) \notin torn \cup {Null} =>
      /\ Result(t) \notin Listed(held)
      /\ \A u \in Threads \ {t} : Returns(u) => Result(u) # Result(t)

\* When a pop is about to replace the head, the link it has read is still
\* that of the slot at the head: the slot has not come back in between.
LinkIsFresh ==
  \A t \in Threads :
    At(t, "popCas") /\ head[L(t)] = loc[t].cur => next[loc[t].cur] = loc[t].succ

\* A slot has one place at a time, in spite of the lock-free stack, of slots
\* freed twice, and of lists inherited from threads that end; and one user, but
\* for slots that a second free has taken from a later user.
SlotsAreApart == TypeOK /\ UnusedSlotsInOnePlace /\ OneUser /\ LinkIsFresh

\* unused_retrieved_memory_bytes_ is the size of the big slots that wait.
UnusedIsCounted == unused = Pages(Counted)

\* Every group is on the list, or is about to be pushed by its thread.
GroupsAreLinked ==
  /\ \A g \in GroupIds : numSlots[g] > 0 =>
       (\E t \in Threads : At(t, "pushGroup") /\ loc[t].new = g) \/ g \in Listed(groups)
  /\ current = Null \/ current \in Listed(groups)

\* What the allocator knows of its memory is right: no bytes of slots that wait
\* are forgotten or counted twice, and no group is lost.
MemoryIsKnown == UnusedIsCounted /\ GroupsAreLinked

\* Every call returns, and every thread ends.
AllEnd == <>(\A t \in Threads : At(t, "ended"))
=============================================================================
