----------------------------- MODULE RetrievedSlots -----------------------------
(***************************************************************************)
(* retrieved_slots_stack_array_mgr                                         *)
(* (src_mem/mem_retrieved_slot_array_mgr.hpp): where slots that a user has *)
(* given back wait for the next request.  A slot without a hazard pointer  *)
(* goes to the thread's own list or to a lock-free stack of all threads; a *)
(* slot in hazard goes to a second list of the thread.  At its end a       *)
(* thread leaves both lists to the others.                                 *)
(*                                                                         *)
(* The allocators of small and of big slots have one list each here, "l";  *)
(* they extend this module and call CallRetrieve and CallReuse.  One       *)
(* action is one access to shared memory with the thread-local work around *)
(* it.  A scan for hazard pointers is one step: HazardChain and LfStack    *)
(* take it slot by slot.                                                   *)
(***************************************************************************)
EXTENDS Naturals, Sequences, FiniteSets

CONSTANTS
  Threads, \* the threads
  Lists,   \* the entries of the arrays that are in use
  Slots,   \* the slots, by their addresses
  Null     \* nullptr

ASSUME SlotsAssumption == Null \notin Slots /\ Null \notin Threads

VARIABLES
  head,      \* hph_head_unused_memory_slot_stack_ of each list
  next,      \* ap_slot_next_ of each slot
  hazard,    \* the hazard pointer of each thread, hp_cur_head
  localFree, \* non_hazard_retrieved_slots_stack_ of each thread, top first
  localHaz,  \* in_hazard_retrieved_slots_stack_ of each thread, top first
  globalHaz, \* global_in_hazard_retrieved_slots_lockable_stack_, top first
  mutex,     \* mtx_ of that stack
  loc        \* control point and locals of each thread

poolVars == <<head, next, hazard, localFree, localHaz, globalHaz, mutex>>

Idle == [pc   |-> "idle",
         list |-> Null,   \* idx
         slot |-> Null,   \* p
         cur  |-> Null,   \* p_cur_head
         succ |-> Null,   \* p_new_head
         back |-> "idle", \* where retrieve or request_reuse returns to
         size |-> 0,      \* requested_allocatable_size, in the units of buffer_size_
         kept |-> <<>>,   \* p_tmp_head of reuse_allocate
         got  |-> Null,   \* p_ans of reuse_allocate
         grp  |-> Null,   \* p_cur_memory_slot_group_target
         new  |-> Null,   \* p_new_memory_slot_group_target, p_new_group
         seen |-> <<>>,   \* p_cur_head of the groups
         bytes |-> 0,     \* cur_allocating_buffer_bytes, in slots
         try  |-> 1,      \* the first or the second allocate() of gmem_allocate_impl
         exit |-> <<>>]   \* the lists whose tls_data_ the thread has built, last first

PoolInit ==
  /\ head = [l \in Lists |-> Null]
  /\ next = [s \in Slots |-> Null]
  /\ hazard = [t \in Threads |-> Null]
  /\ localFree = [t \in Threads |-> [l \in Lists |-> <<>>]]
  /\ localHaz = [t \in Threads |-> [l \in Lists |-> <<>>]]
  /\ globalHaz = [l \in Lists |-> <<>>]
  /\ mutex = [l \in Lists |-> Null]

At(t, p) == loc[t].pc = p
Goto(t, p) == loc' = [loc EXCEPT ![t].pc = p]
L(t) == loc[t].list
P(t) == loc[t].slot

\* The locals of a thread whose call has returned.
Rest(t) == [Idle EXCEPT !.exit = loc[t].exit]

\* Each kind of slot has a tls_data_ of its own, which a thread builds when it
\* first comes to it; they are destroyed at its end, the last one first.
Built(t, l) == IF \E i \in 1 .. Len(loc[t].exit) : loc[t].exit[i] = l THEN loc[t].exit
               ELSE <<l>> \o loc[t].exit

\* CheckPtrIsHazardPtr
InHazard(s) == \E u \in Threads : hazard[u] = s

-----------------------------------------------------------------------------
(* retrieve                                                                *)

\* The locals of a thread that has called retrieve( l, s ).
CallRetrieve(t, l, s, back) ==
  [loc[t] EXCEPT !.pc = "retrieve", !.list = l, !.slot = s, !.back = back, !.exit = Built(t, l)]

\* retrieve returns.
Retrieved(t) ==
  loc' = [loc EXCEPT ![t] = IF @.back = "idle" THEN Rest(t)
                            ELSE [@ EXCEPT !.pc = loc[t].back, !.slot = Null, !.cur = Null]]

\* Faulty: the list of slots in hazard is never used.
RetrieveUnscanned(t) ==
  /\ At(t, "retrieve")
  /\ IF localFree[t][L(t)] = <<>>
     THEN localFree' = [localFree EXCEPT ![t][L(t)] = <<P(t)>>] /\ Retrieved(t)
     ELSE localFree' = localFree /\ Goto(t, "tryLoad")
  /\ UNCHANGED <<head, next, hazard, localHaz, globalHaz, mutex>>

Retrieve(t) ==
  /\ At(t, "retrieve")
  /\ IF InHazard(P(t))
     THEN /\ localHaz' = [localHaz EXCEPT ![t][L(t)] = <<P(t)>> \o @]
          /\ localFree' = localFree
          /\ Retrieved(t)
     ELSE /\ localHaz' = localHaz
          /\ IF localFree[t][L(t)] = <<>>
             THEN localFree' = [localFree EXCEPT ![t][L(t)] = <<P(t)>>] /\ Retrieved(t)
             ELSE localFree' = localFree /\ Goto(t, "tryLoad")
  /\ UNCHANGED <<head, next, hazard, globalHaz, mutex>>

\* try_push, and push of ~tls_data: load the head and link to it, ...
LoadToPush(t) ==
  /\ At(t, "tryLoad") \/ At(t, "exitLoad")
  /\ next' = [next EXCEPT ![P(t)] = head[L(t)]]
  /\ loc' = [loc EXCEPT ![t].cur = head[L(t)],
                        ![t].pc = IF @ = "tryLoad" THEN "tryCas" ELSE "exitCas"]
  /\ UNCHANGED <<head, hazard, localFree, localHaz, globalHaz, mutex>>

\* ... and compare and exchange, once.
TryPush(t) ==
  /\ At(t, "tryCas")
  /\ IF head[L(t)] = loc[t].cur
     THEN head' = [head EXCEPT ![L(t)] = P(t)] /\ localFree' = localFree
     ELSE head' = head /\ localFree' = [localFree EXCEPT ![t][L(t)] = <<P(t)>> \o @]
  /\ Retrieved(t)
  /\ UNCHANGED <<next, hazard, localHaz, globalHaz, mutex>>

-----------------------------------------------------------------------------
(* request_reuse                                                           *)

\* The locals of a thread that has called request_reuse( l ).
CallReuse(t, l, back) ==
  [loc[t] EXCEPT !.pc = "reuse", !.list = l, !.slot = Null, !.back = back, !.exit = Built(t, l)]

\* request_reuse returns s.
Reused(t, s) ==
  loc' = [loc EXCEPT ![t].pc = loc[t].back, ![t].slot = s, ![t].cur = Null, ![t].succ = Null]

TakeLocal(t) ==
  /\ At(t, "reuse")
  /\ IF localFree[t][L(t)] # <<>>
     THEN /\ localFree' = [localFree EXCEPT ![t][L(t)] = Tail(@)]
          /\ loc' = [loc EXCEPT ![t].pc = loc[t].back, ![t].slot = Head(localFree[t][L(t)])]
     ELSE localFree' = localFree /\ Goto(t, "popLoad")
  /\ UNCHANGED <<head, next, hazard, localHaz, globalHaz, mutex>>

\* get_to_verify_exchange: load the head, ...
PopLoad(t) ==
  /\ At(t, "popLoad")
  /\ loc' = [loc EXCEPT ![t].cur = head[L(t)], ![t].pc = "popHazard"]
  /\ UNCHANGED poolVars

\* ... and publish it as hazard pointer.
PopHazard(t) ==
  /\ At(t, "popHazard")
  /\ hazard' = [hazard EXCEPT ![t] = loc[t].cur]
  /\ Goto(t, "popVerify")
  /\ UNCHANGED <<head, next, localFree, localHaz, globalHaz, mutex>>

\* verify_exchange; another head, and an empty stack, end the attempt.  The
\* hazard pointer takes the other head over before it goes out of scope.
PopVerify(t) ==
  /\ At(t, "popVerify")
  /\ Goto(t, IF head[L(t)] = loc[t].cur /\ loc[t].cur # Null THEN "popNext" ELSE "popDrop")
  /\ hazard' = [hazard EXCEPT ![t] = head[L(t)]]
  /\ UNCHANGED <<head, next, localFree, localHaz, globalHaz, mutex>>

\* The link of the slot at the head.
PopNext(t) ==
  /\ At(t, "popNext")
  /\ loc' = [loc EXCEPT ![t].succ = next[loc[t].cur], ![t].pc = "popCas"]
  /\ UNCHANGED poolVars

PopCas(t) ==
  /\ At(t, "popCas")
  /\ hazard' = [hazard EXCEPT ![t] = head[L(t)]]
  /\ IF head[L(t)] = loc[t].cur
     THEN /\ head' = [head EXCEPT ![L(t)] = loc[t].succ]
          /\ loc' = [loc EXCEPT ![t].slot = loc[t].cur, ![t].pc = "popDrop"]
     ELSE head' = head /\ Goto(t, "popDrop")
  /\ UNCHANGED <<next, localFree, localHaz, globalHaz, mutex>>

\* hp_cur_head goes out of scope.
PopDrop(t) ==
  /\ At(t, "popDrop")
  /\ hazard' = [hazard EXCEPT ![t] = Null]
  /\ IF P(t) # Null THEN Reused(t, P(t))
     ELSE loc' = [loc EXCEPT ![t].pc = "ownHaz", ![t].cur = Null, ![t].succ = Null]
  /\ UNCHANGED <<head, next, localFree, localHaz, globalHaz, mutex>>

\* The slot that was in hazard last: scanned for again, and put back if it
\* still is.
TakeOwnHaz(t) ==
  /\ At(t, "ownHaz")
  /\ LET mine == localHaz[t][L(t)] IN
       IF mine # <<>> /\ ~InHazard(Head(mine))
       THEN localHaz' = [localHaz EXCEPT ![t][L(t)] = Tail(@)] /\ Reused(t, Head(mine))
       ELSE localHaz' = localHaz /\ Goto(t, "lockHaz")
  /\ UNCHANGED <<head, next, hazard, localFree, globalHaz, mutex>>

\* try_pop of the lockable stack: another thread may have the mutex.
TryLockHaz(t) ==
  /\ At(t, "lockHaz")
  /\ IF mutex[L(t)] = Null
     THEN mutex' = [mutex EXCEPT ![L(t)] = t] /\ Goto(t, "popHaz")
     ELSE mutex' = mutex /\ Reused(t, Null)
  /\ UNCHANGED <<head, next, hazard, localFree, localHaz, globalHaz>>

PopHaz(t) ==
  /\ At(t, "popHaz")
  /\ mutex' = [mutex EXCEPT ![L(t)] = Null]
  /\ IF globalHaz[L(t)] = <<>> THEN globalHaz' = globalHaz /\ Reused(t, Null)
     ELSE /\ globalHaz' = [globalHaz EXCEPT ![L(t)] = Tail(@)]
          /\ loc' = [loc EXCEPT ![t].slot = Head(globalHaz[L(t)]), ![t].pc = "scanHaz"]
  /\ UNCHANGED <<head, next, hazard, localFree, localHaz>>

ScanHaz(t) ==
  /\ At(t, "scanHaz")
  /\ IF InHazard(P(t))
     THEN localHaz' = [localHaz EXCEPT ![t][L(t)] = <<P(t)>> \o @] /\ Reused(t, Null)
     ELSE localHaz' = localHaz /\ Reused(t, P(t))
  /\ UNCHANGED <<head, next, hazard, localFree, globalHaz, mutex>>

-----------------------------------------------------------------------------
(* ~tls_data: the lists of a thread that ends                              *)

\* The next slot of the thread's own list; then the list of slots in hazard.
ExitEach(t) ==
  /\ At(t, "exit")
  /\ IF loc[t].exit = <<>> THEN localFree' = localFree /\ Goto(t, "ended")
     ELSE LET l == Head(loc[t].exit)
              mine == localFree[t][l]
          IN IF mine = <<>>
             THEN localFree' = localFree /\ loc' = [loc EXCEPT ![t].list = l, ![t].pc = "exitLock"]
             ELSE /\ localFree' = [localFree EXCEPT ![t][l] = Tail(@)]
                  /\ loc' = [loc EXCEPT ![t].list = l, ![t].slot = Head(mine), ![t].pc = "exitLoad"]
  /\ UNCHANGED <<head, next, hazard, localHaz, globalHaz, mutex>>

ExitPush(t) ==
  /\ At(t, "exitCas")
  /\ IF head[L(t)] = loc[t].cur
     THEN /\ head' = [head EXCEPT ![L(t)] = P(t)]
          /\ next' = next
          /\ loc' = [loc EXCEPT ![t].pc = "exit", ![t].slot = Null, ![t].cur = Null]
     ELSE /\ head' = head
          /\ next' = [next EXCEPT ![P(t)] = head[L(t)]]
          /\ loc' = [loc EXCEPT ![t].cur = head[L(t)]]
  /\ UNCHANGED <<hazard, localFree, localHaz, globalHaz, mutex>>

\* lock_guard of merge
ExitLock(t) ==
  /\ At(t, "exitLock") /\ mutex[L(t)] = Null
  /\ mutex' = [mutex EXCEPT ![L(t)] = t]
  /\ Goto(t, "exitMerge")
  /\ UNCHANGED <<head, next, hazard, localFree, localHaz, globalHaz>>

\* Faulty: the mutex is kept.
ExitMergeLocked(t) ==
  /\ At(t, "exitMerge")
  /\ globalHaz' = [globalHaz EXCEPT ![L(t)] = localHaz[t][L(t)] \o @]
  /\ localHaz' = [localHaz EXCEPT ![t][L(t)] = <<>>]
  /\ loc' = [loc EXCEPT ![t].pc = "exit", ![t].exit = Tail(@)]
  /\ UNCHANGED <<head, next, hazard, localFree, mutex>>

ExitMerge(t) ==
  /\ At(t, "exitMerge")
  /\ globalHaz' = [globalHaz EXCEPT ![L(t)] = localHaz[t][L(t)] \o @]
  /\ localHaz' = [localHaz EXCEPT ![t][L(t)] = <<>>]
  /\ mutex' = [mutex EXCEPT ![L(t)] = Null]
  /\ loc' = [loc EXCEPT ![t].pc = "exit", ![t].exit = Tail(@)]
  /\ UNCHANGED <<head, next, hazard, localFree>>

PoolStep(t) ==
  \/ Retrieve(t) \/ LoadToPush(t) \/ TryPush(t)
  \/ TakeLocal(t) \/ PopLoad(t) \/ PopHazard(t) \/ PopVerify(t) \/ PopNext(t) \/ PopCas(t)
  \/ PopDrop(t) \/ TakeOwnHaz(t) \/ TryLockHaz(t) \/ PopHaz(t) \/ ScanHaz(t)
  \/ ExitEach(t) \/ ExitPush(t) \/ ExitLock(t) \/ ExitMerge(t)

-----------------------------------------------------------------------------
(* What the pool holds                                                     *)

Listed(seq) == {seq[i] : i \in 1 .. Len(seq)}

\* The slots on the lock-free stack of a list: those its links reach.
Stacked(l) ==
  LET n == Cardinality(Slots)
      walk[i \in 0 .. n] ==
        IF i = 0 THEN <<head[l]>>
        ELSE LET w == walk[i - 1] IN IF w[Len(w)] = Null THEN w ELSE Append(w, next[w[Len(w)]])
  IN Listed(walk[n]) \ {Null}

\* The slots of a list that wait for a request.
Waiting(l) ==
  Stacked(l) \cup Listed(globalHaz[l])
    \cup UNION {Listed(localFree[t][l]) \cup Listed(localHaz[t][l]) : t \in Threads}

PoolTypeOK ==
  /\ head \in [Lists -> Slots \cup {Null}]
  /\ next \in [Slots -> Slots \cup {Null}]
  /\ hazard \in [Threads -> Slots \cup {Null}]
  /\ \A t \in Threads, l \in Lists :
       /\ Listed(localFree[t][l]) \subseteq Slots
       /\ Listed(localHaz[t][l]) \subseteq Slots
       /\ Listed(globalHaz[l]) \subseteq Slots
       /\ mutex[l] \in Threads \cup {Null}
=============================================================================
