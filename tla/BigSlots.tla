-------------------------------- MODULE BigSlots --------------------------------
(***************************************************************************)
(* big_memory_slot_list (src_mem/mem_big_memory_slot.cpp): memory from     *)
(* mmap, kept for another request when it is given back, up to a limit of  *)
(* bytes; above the limit, and above a size, it is unmapped at once.       *)
(***************************************************************************)
EXTENDS RetrievedSlots
LOCAL INSTANCE FiniteSetsExt

CONSTANTS
  BigSlot,  \* the addresses mmap can return
  Limit,    \* limit_bytes_of_unused_retrieved_memory_, in pages
  TooBig    \* too_big_memory_slot_buffer_size_threshold_, in pages

ASSUME BigAssumption ==
  /\ BigSlot \subseteq Slots
  /\ Limit \in Nat /\ TooBig \in Nat

VARIABLES
  mapped,   \* the addresses that are mapped
  size,     \* buffer_size_ of each slot
  bigUsed,  \* the used flag in link_to_big_memory_slot_ of each slot
  unused    \* unused_retrieved_memory_bytes_

bigVars == <<mapped, size, bigUsed, unused>>

BigInit ==
  /\ mapped = {}
  /\ size = [b \in BigSlot |-> 0]
  /\ bigUsed = [b \in BigSlot |-> FALSE]
  /\ unused = 0

-----------------------------------------------------------------------------
(* reuse_allocate and allocate_newly                                       *)

\* A slot that is too small is kept aside until the search ends.
Judge(t) ==
  /\ At(t, "judge")
  /\ loc' = [loc EXCEPT ![t] = IF P(t) # Null /\ size[P(t)] < @.size
                               THEN [CallReuse(t, "big", "judge") EXCEPT !.kept = <<P(t)>> \o @]
                               ELSE [@ EXCEPT !.pc = "putBack", !.slot = Null, !.got = P(t)]]
  /\ UNCHANGED <<bigVars, poolVars>>

\* The slots kept aside go back, one retrieve after the other.
PutBack(t) ==
  /\ At(t, "putBack")
  /\ loc' = [loc EXCEPT ![t] =
       IF @.kept # <<>> THEN [CallRetrieve(t, "big", Head(loc[t].kept), "putBack") EXCEPT !.kept = Tail(@)]
       ELSE [@ EXCEPT !.pc = IF loc[t].got = Null THEN "newly" ELSE "subtract"]]
  /\ UNCHANGED <<bigVars, poolVars>>

\* fetch_sub of unused_retrieved_memory_bytes_
SubtractUnused(t) ==
  /\ At(t, "subtract")
  /\ unused' = unused - size[loc[t].got]
  /\ Goto(t, "flag")
  /\ UNCHANGED <<mapped, size, bigUsed, poolVars>>

FlagBig(t) ==
  /\ At(t, "flag")
  /\ bigUsed' = [bigUsed EXCEPT ![loc[t].got] = TRUE]
  /\ Goto(t, "bigDone")
  /\ UNCHANGED <<mapped, size, unused, poolVars>>

\* allocate_by_mmap with the slot's constructor; there may be no memory.
AllocateNewly(t) ==
  /\ At(t, "newly")
  /\ \/ \E b \in BigSlot \ mapped :
          /\ mapped' = mapped \cup {b}
          /\ size' = [size EXCEPT ![b] = loc[t].size]
          /\ bigUsed' = [bigUsed EXCEPT ![b] = TRUE]
          /\ next' = [next EXCEPT ![b] = Null]
          /\ loc' = [loc EXCEPT ![t].got = b, ![t].pc = "bigDone"]
     \/ /\ BigSlot \subseteq mapped
        /\ Goto(t, "bigDone")
        /\ UNCHANGED <<mapped, size, bigUsed, next>>
  /\ UNCHANGED <<unused, head, hazard, localFree, localHaz, globalHaz, mutex>>

-----------------------------------------------------------------------------
(* deallocate                                                              *)

\* The first look at the flag: an unused slot has been freed already.
CheckBig(s) == IF bigUsed[s] THEN "bigClaim" ELSE "idle"

\* compare_and_exchange_used_flag: of two threads that free a slot one goes
\* on.  mem_type is BIG_MEM or OVER_BIG_MEM by the size of the buffer.
ClaimBig(t) ==
  /\ At(t, "bigClaim")
  /\ IF bigUsed[P(t)]
     THEN /\ bigUsed' = [bigUsed EXCEPT ![P(t)] = FALSE]
          /\ Goto(t, IF size[P(t)] < TooBig THEN "limit" ELSE "unmap")
     ELSE bigUsed' = bigUsed /\ loc' = [loc EXCEPT ![t] = Rest(t)]
  /\ UNCHANGED <<mapped, size, unused, poolVars>>

\* The limit is compared with one load, and the bytes are added later.
CheckLimit(t) ==
  /\ At(t, "limit")
  /\ Goto(t, IF unused + size[P(t)] > Limit THEN "unmap" ELSE "add")
  /\ UNCHANGED <<bigVars, poolVars>>

\* deallocate_by_munmap, whoever has a hazard pointer to the slot
Unmap(t) ==
  /\ At(t, "unmap")
  /\ mapped' = mapped \ {P(t)}
  /\ loc' = [loc EXCEPT ![t] = Rest(t)]
  /\ UNCHANGED <<size, bigUsed, unused, poolVars>>

AddUnused(t) ==
  /\ At(t, "add")
  /\ unused' = unused + size[P(t)]
  /\ loc' = [loc EXCEPT ![t] = CallRetrieve(t, "big", P(t), "idle")]
  /\ UNCHANGED <<mapped, size, bigUsed, poolVars>>

BigStep(t) ==
  \/ Judge(t) \/ PutBack(t) \/ SubtractUnused(t) \/ FlagBig(t) \/ AllocateNewly(t)
  \/ ClaimBig(t) \/ CheckLimit(t) \/ Unmap(t) \/ AddUnused(t)

-----------------------------------------------------------------------------

BigTypeOK ==
  /\ mapped \subseteq BigSlot
  /\ size \in [BigSlot -> Nat]
  /\ bigUsed \in [BigSlot -> BOOLEAN]
  /\ unused \in Nat

Pages(S) == MapThenSumSet(LAMBDA b : size[b], S)

\* The big slots whose bytes count as unused: they wait in the lists of the
\* pool, or a thread has them on the way into or out of it.
Counted == {b \in mapped :
  \/ b \in Waiting("big")
  \/ \E t \in Threads :
       \/ L(t) = "big" /\ b = P(t) /\ ~ \E p \in {"bigClaim", "limit", "unmap", "add"} : At(t, p)
       \/ b \in Listed(loc[t].kept)
       \/ b = loc[t].got /\ loc[t].pc \notin {"flag", "bigDone"}}
=============================================================================
