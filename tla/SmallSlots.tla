------------------------------- MODULE SmallSlots -------------------------------
(***************************************************************************)
(* memory_slot_group_list (src_mem/mem_small_memory_slot.cpp): slots of    *)
(* one size, cut from groups.  A group gives out its slots in order; when  *)
(* the current group is full, a thread moves on along the list of groups,  *)
(* and from its end back to its head, where new groups are pushed.         *)
(***************************************************************************)
EXTENDS RetrievedSlots

CONSTANTS
  LimitSlots,  \* limit_bytes_for_one_memory_slot_group_, in slots
  MaxGroups    \* bound: how many groups there can be memory for

GroupIds == 1 .. MaxGroups
SmallSlot == GroupIds \X (1 .. LimitSlots)

ASSUME SmallAssumption ==
  /\ MaxGroups \in Nat /\ LimitSlots \in Nat
  /\ SmallSlot \subseteq Slots

VARIABLES
  groups,     \* the groups from ap_head_memory_slot_group_ on
  left,       \* bound: how many more groups there is memory for
  current,    \* ap_cur_assigning_memory_slot_group_
  numSlots,   \* num_slots_ of each group
  assigned,   \* ap_unassigned_slot_ of each group
  nextSlots,  \* next_allocating_buffer_bytes_, in slots
  smallUsed   \* the used flag in link_to_memory_slot_group_ of each slot

smallVars == <<groups, left, current, numSlots, assigned, nextSlots, smallUsed>>

\* first: how many slots the first group gets; memory: for how many groups
\* there is memory
SmallInit(first, memory) ==
  /\ groups = <<>>
  /\ left = memory
  /\ current = Null
  /\ numSlots = [g \in GroupIds |-> 0]
  /\ assigned = [g \in GroupIds |-> 0]
  /\ nextSlots = first
  /\ smallUsed = [s \in SmallSlot |-> FALSE]

\* is_assigned_all_slots
Full(g) == assigned[g] = numSlots[g]

\* ap_next_group_; the last group is followed by the head.
GroupAfter(g) ==
  LET i == CHOOSE i \in 1 .. Len(groups) : groups[i] = g
  IN IF i < Len(groups) THEN groups[i + 1] ELSE groups[1]

-----------------------------------------------------------------------------
(* allocate                                                                *)

FlagSmall(t) ==
  /\ At(t, "small") /\ P(t) # Null
  /\ smallUsed' = [smallUsed EXCEPT ![P(t)] = TRUE]
  /\ Goto(t, "smallDone")
  /\ UNCHANGED <<groups, left, current, numSlots, assigned, nextSlots, poolVars>>

LoadCurrent(t) ==
  /\ At(t, "small") /\ P(t) = Null
  /\ loc' = [loc EXCEPT ![t].grp = current, ![t].pc = IF current = Null THEN "none" ELSE "look"]
  /\ UNCHANGED <<smallVars, poolVars>>

LookAtGroup(t) ==
  /\ At(t, "look")
  /\ Goto(t, IF Full(loc[t].grp) THEN "after" ELSE "assign")
  /\ UNCHANGED <<smallVars, poolVars>>

LoadAfter(t) ==
  /\ At(t, "after")
  /\ loc' = [loc EXCEPT ![t].new = GroupAfter(loc[t].grp), ![t].pc = "move"]
  /\ UNCHANGED <<smallVars, poolVars>>

\* compare_exchange of the current group; a thread that loses goes on with
\* the group it finds.
MoveCurrent(t) ==
  /\ At(t, "move")
  /\ IF current = loc[t].grp
     THEN current' = loc[t].new /\ Goto(t, "lookNew")
     ELSE current' = current /\ loc' = [loc EXCEPT ![t].grp = current, ![t].pc = "look"]
  /\ UNCHANGED <<groups, left, numSlots, assigned, nextSlots, smallUsed, poolVars>>

\* When there is room in the new group, the code goes on to assign from the
\* old one, in vain, and looks again.
LookAtNew(t) ==
  /\ At(t, "lookNew")
  /\ Goto(t, IF Full(loc[t].new) THEN "atHead" ELSE "assign")
  /\ UNCHANGED <<smallVars, poolVars>>

\* A full group at the head is taken to mean that all groups are full.
CheckHead(t) ==
  /\ At(t, "atHead")
  /\ Goto(t, IF loc[t].new = groups[1] THEN "none" ELSE "toHead")
  /\ UNCHANGED <<smallVars, poolVars>>

GoToHead(t) ==
  /\ At(t, "toHead")
  /\ loc' = [loc EXCEPT ![t].grp = groups[1], ![t].pc = "look"]
  /\ UNCHANGED <<smallVars, poolVars>>

\* assign_new_slot: its loop ends with the one compare_exchange that counts.
AssignSlot(t) ==
  /\ At(t, "assign")
  /\ LET g == loc[t].grp IN
       IF Full(g) THEN assigned' = assigned /\ Goto(t, "look")
       ELSE /\ assigned' = [assigned EXCEPT ![g] = @ + 1]
            /\ loc' = [loc EXCEPT ![t].slot = <<g, assigned[g] + 1>>, ![t].pc = "emplace"]
  /\ UNCHANGED <<groups, left, current, numSlots, nextSlots, smallUsed, poolVars>>

\* The constructor of the slot.
EmplaceSlot(t) ==
  /\ At(t, "emplace")
  /\ smallUsed' = [smallUsed EXCEPT ![P(t)] = TRUE]
  /\ next' = [next EXCEPT ![P(t)] = Null]
  /\ Goto(t, "smallDone")
  /\ UNCHANGED <<groups, left, current, numSlots, assigned, nextSlots,
                 head, hazard, localFree, localHaz, globalHaz, mutex>>

-----------------------------------------------------------------------------
(* request_allocate_memory_slot_group                                      *)

\* A new group, of memory that is never given back; there may be none.
AllocateGroup(t) ==
  /\ At(t, "none") /\ loc[t].try = 1
  /\ IF left > 0
     THEN /\ left' = left - 1
          /\ numSlots' = [numSlots EXCEPT ![left] = nextSlots]
          /\ loc' = [loc EXCEPT ![t].new = left, ![t].bytes = nextSlots,
                                ![t].seen = groups, ![t].pc = "pushGroup"]
     ELSE /\ UNCHANGED <<left, numSlots>>
          /\ loc' = [loc EXCEPT ![t] = [CallReuse(t, "small", "small") EXCEPT !.try = 2]]
  /\ UNCHANGED <<groups, current, assigned, nextSlots, smallUsed, poolVars>>

\* Faulty: what another thread has pushed in between is dropped.
PushGroupOver(t) ==
  /\ At(t, "pushGroup")
  /\ groups' = <<loc[t].new>> \o loc[t].seen
  /\ loc' = [loc EXCEPT ![t].seen = <<>>, ![t].pc = "grow"]
  /\ UNCHANGED <<left, current, numSlots, assigned, nextSlots, smallUsed, poolVars>>

PushGroup(t) ==
  /\ At(t, "pushGroup")
  /\ IF groups = loc[t].seen
     THEN /\ groups' = <<loc[t].new>> \o groups
          /\ loc' = [loc EXCEPT ![t].seen = <<>>, ![t].pc = "grow"]
     ELSE groups' = groups /\ loc' = [loc EXCEPT ![t].seen = groups]
  /\ UNCHANGED <<left, current, numSlots, assigned, nextSlots, smallUsed, poolVars>>

\* clac_next_expected_buffer_size: the next group has twice the slots.
GrowNext(t) ==
  /\ At(t, "grow")
  /\ nextSlots' = IF nextSlots # loc[t].bytes THEN nextSlots
                  ELSE IF LimitSlots < 2 * nextSlots THEN LimitSlots ELSE 2 * nextSlots
  /\ Goto(t, "setCurrent")
  /\ UNCHANGED <<groups, left, current, numSlots, assigned, smallUsed, poolVars>>

\* The first group becomes the current one; then allocate is tried again.
SetCurrent(t) ==
  /\ At(t, "setCurrent")
  /\ current' = IF current = Null THEN loc[t].new ELSE current
  /\ loc' = [loc EXCEPT ![t] = [CallReuse(t, "small", "small") EXCEPT !.try = 2, !.new = Null,
                                                                   !.bytes = 0]]
  /\ UNCHANGED <<groups, left, numSlots, assigned, nextSlots, smallUsed, poolVars>>

-----------------------------------------------------------------------------
(* deallocate                                                              *)

\* The first look at the flag: an unused slot has been freed already.
CheckSmall(s) == IF smallUsed[s] THEN "smallClaim" ELSE "idle"

ClaimSmall(t) ==
  /\ At(t, "smallClaim")
  /\ IF smallUsed[P(t)]
     THEN /\ smallUsed' = [smallUsed EXCEPT ![P(t)] = FALSE]
          /\ loc' = [loc EXCEPT ![t] = CallRetrieve(t, "small", P(t), "idle")]
     ELSE smallUsed' = smallUsed /\ loc' = [loc EXCEPT ![t] = Rest(t)]
  /\ UNCHANGED <<groups, left, current, numSlots, assigned, nextSlots, poolVars>>

SmallStep(t) ==
  \/ FlagSmall(t) \/ LoadCurrent(t) \/ LookAtGroup(t) \/ LoadAfter(t) \/ MoveCurrent(t)
  \/ LookAtNew(t) \/ CheckHead(t) \/ GoToHead(t) \/ AssignSlot(t) \/ EmplaceSlot(t)
  \/ AllocateGroup(t) \/ PushGroup(t) \/ GrowNext(t) \/ SetCurrent(t)
  \/ ClaimSmall(t)

-----------------------------------------------------------------------------

SmallTypeOK ==
  /\ Listed(groups) \subseteq GroupIds
  /\ left \in 0 .. MaxGroups
  /\ current \in GroupIds \cup {Null}
  /\ numSlots \in [GroupIds -> 0 .. LimitSlots]
  /\ \A g \in GroupIds : assigned[g] \in 0 .. numSlots[g]
  /\ nextSlots \in 1 .. LimitSlots
  /\ smallUsed \in [SmallSlot -> BOOLEAN]
=============================================================================
