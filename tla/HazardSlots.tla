------------------------------ MODULE HazardSlots ------------------------------
(***************************************************************************)
(* The slots in which threads announce the pointers they use, and the      *)
(* operations on them: hazard_ptr and hazard_ptr_handler                   *)
(* (inc/alconcurrent/hazard_ptr.hpp), the assignment of slots and the scan *)
(* (src/hazard_ptr.cpp).                                                   *)
(*                                                                         *)
(* Threads take the object that a handler points to out of it, look for it *)
(* in all slots, and delete it when they have not found it.  Others read   *)
(* it through hazard pointers, which they verify, copy, move and swap.     *)
(* A group of slots belongs to one thread here and stays with it: how      *)
(* groups change hands is the matter of HazardChain.  One action is one    *)
(* access to what threads share.                                           *)
(***************************************************************************)
EXTENDS Naturals, Sequences, FiniteSets

CONSTANTS
  Threads, \* the threads
  Names,   \* the hazard_ptr objects each thread may have
  Objects, \* the addresses of objects
  Null,    \* nullptr
  One,     \* 1U: what the slot of a hazard_ptr on nullptr contains
  Width,   \* kArraySize: the slots of a group
  Weak,    \* whether compare_exchange_weak may fail spuriously
  May,     \* bound: the kinds of calls each thread makes
  MaxCalls \* bound: how many calls each thread makes

ASSUME SlotsAssumption ==
  /\ Null \notin Objects \cup Names /\ One \notin Objects /\ Null # One
  /\ Width \in Nat \ {0}
  /\ Weak \in BOOLEAN
  /\ MaxCalls \in [Threads -> Nat]

VARIABLES
  target, \* ap_target_p_ of the handler
  live,   \* the objects that exist
  slot,   \* the slots of each thread: a sequence of groups
  hint,   \* next_assign_hint_it_ of each group
  hp,     \* the hazard_ptr objects of each thread
  taken,  \* the objects a thread has taken out and not deleted yet
  calls,  \* the calls each thread has still to make
  loc     \* where each thread is in its call, and its local variables

vars == <<target, live, slot, hint, hp, taken, calls, loc>>

\* p: p_; os: os_, the group and the index of the slot.  History: by is
\* "verified" when the handler has held p since p was in the slot, "copied"
\* when a later slot got p from such a pointer, "spent" after a failed
\* compare_exchange that consumes the hazard_ptr, and "loaded" otherwise.
Gone == [p |-> Null, os |-> <<>>, by |-> "loaded"]

\* x, y: the destination and the source; p: the loaded pointer; then: what
\* follows; u, at: the group and the slot the scan is at; unseen: the threads
\* whose slots the scan has not come to.
Idle == [pc |-> "idle", x |-> Null, y |-> Null, p |-> Null, then |-> "end",
         u |-> Null, at |-> <<>>, unseen |-> {}]

Init ==
  /\ live \in {{o} : o \in Objects}
  /\ target \in live
  /\ slot = [t \in Threads |-> <<>>]
  /\ hint = [t \in Threads |-> <<>>]
  /\ hp = [t \in Threads |-> [x \in Names |-> Gone]]
  /\ taken = [t \in Threads |-> {}]
  /\ calls = MaxCalls
  /\ loc = [t \in Threads |-> Idle]

Become(t, l) == loc' = [loc EXCEPT ![t] = l]
At(t, p) == loc[t].pc = p
Call(t, kind) ==
  /\ At(t, "idle") /\ calls[t] > 0 /\ kind \in May[t]
  /\ calls' = [calls EXCEPT ![t] = @ - 1]

Built(t, x) == hp[t][x].os # <<>>
Usable(t, x) == Built(t, x) /\ hp[t][x].by # "spent"
Content(t, os) == slot[t][os[1]][os[2]]
\* The slot is stored; nullptr is stored as 1.
Mark(p) == IF p = Null THEN One ELSE p
Put(t, os, v) == slot' = [slot EXCEPT ![t][os[1]][os[2]] = v]
Set(t, x, h) == hp' = [hp EXCEPT ![t][x] = h]

-----------------------------------------------------------------------------
(* The assignment of a slot                                                *)

\* Faulty: the slots before the one of the hint are not looked at.
UnusedAfterHint(group, h) == {i \in h .. Width : group[i] = Null}

\* Where try_assign looks for a slot: at the hint and after it, or everywhere.
Unused(group, h) ==
  LET later == {i \in h .. Width : group[i] = Null}
  IN  IF later # {} THEN later ELSE {i \in 1 .. h - 1 : group[i] = Null}

Full(t, g) == Unused(slot[t][g], hint[t][g]) = {}

\* A scan comes to slot r before slot s.
Before(r, s) == r[1] < s[1] \/ (r[1] = s[1] /\ r[2] < s[2])
CopyOf(h, os) ==
  IF h.by \in {"verified", "copied"} /\ Before(h.os, os) THEN "copied" ELSE "loaded"

\* try_assign on group g of the thread: the pointer is in the slot, and the
\* hazard_ptr x of the thread owns it.
TryAssign(t, g, x, y, p) ==
  LET from == Unused(slot[t][g], hint[t][g])
      i    == CHOOSE i \in from : \A j \in from : i <= j
  IN  /\ Put(t, <<g, i>>, Mark(p))
      /\ hint' = [hint EXCEPT ![t][g] = IF i = Width THEN 1 ELSE i + 1]
      /\ Set(t, x, [p |-> p, os |-> <<g, i>>,
                    by |-> IF y = Null THEN "loaded" ELSE CopyOf(hp[t][y], <<g, i>>)])

\* slot_assign finds a group with an unused slot.
AssignSlot(t) ==
  LET l == loc[t]
  IN  /\ At(t, "assign")
      /\ \E g \in DOMAIN slot[t] :
           /\ ~Full(t, g)
           /\ \A f \in 1 .. g - 1 : Full(t, f)
           /\ TryAssign(t, g, l.x, l.y, l.p)
      /\ Become(t, IF l.then = "end" THEN Idle ELSE [l EXCEPT !.pc = l.then])
      /\ UNCHANGED <<target, live, taken, calls>>

\* slot_assign links a new group behind the full ones; the first group may
\* have been used by another thread before, so that its hint is anywhere.
NewGroup(t) ==
  /\ At(t, "assign")
  /\ \A g \in DOMAIN slot[t] : Full(t, g)
  /\ slot' = [slot EXCEPT ![t] = Append(@, [i \in 1 .. Width |-> Null])]
  /\ \E h \in IF slot[t] = <<>> THEN 1 .. Width ELSE {1} :
       hint' = [hint EXCEPT ![t] = Append(@, h)]
  /\ UNCHANGED <<target, live, hp, taken, calls, loc>>

-----------------------------------------------------------------------------
(* hazard_ptr                                                              *)

\* get_to_verify_exchange, or a hazard_ptr on nullptr: the pointer is loaded,
\* a slot is assigned afterwards.
Construct(t) ==
  /\ Call(t, "construct")
  /\ \E x \in Names, p \in {target, Null} :
       /\ ~Built(t, x)
       /\ Become(t, [Idle EXCEPT !.pc = "assign", !.x = x, !.p = p])
  /\ UNCHANGED <<target, live, slot, hint, hp, taken>>

\* ~hazard_ptr: the slot is unused again.
Destroy(t) ==
  /\ Call(t, "destroy")
  /\ \E x \in Names :
       /\ Built(t, x)
       /\ Put(t, hp[t][x].os, Null)
       /\ Set(t, x, Gone)
  /\ UNCHANGED <<target, live, hint, taken, loc>>

\* The copy constructor assigns a slot with the pointer of the source.
CopyConstruct(t) ==
  /\ Call(t, "copy")
  /\ \E x, y \in Names :
       /\ x # y /\ ~Built(t, x) /\ (Usable(t, y) \/ ~Built(t, y))
       /\ Become(t, [Idle EXCEPT !.pc = "assign", !.x = x, !.y = y,
                     !.p = hp[t][y].p])
  /\ UNCHANGED <<target, live, slot, hint, hp, taken>>

\* The copy assignment assigns a slot, when there is none, ...
CopyAssign(t) ==
  /\ Call(t, "copy")
  /\ \E x, y \in Names :
       /\ x # y /\ Usable(t, y)
       /\ Become(t, [Idle EXCEPT !.pc = IF Built(t, x) THEN "copy" ELSE "assign",
                     !.x = x, !.y = y, !.then = "copy"])
  /\ UNCHANGED <<target, live, slot, hint, hp, taken>>

\* ... and stores what the slot of the source contains.
CopyStore(t) ==
  LET x == hp[t][loc[t].x]
      y == hp[t][loc[t].y]
  IN  /\ At(t, "copy")
      /\ Put(t, x.os, Content(t, y.os))
      /\ Set(t, loc[t].x, [p |-> y.p, os |-> x.os, by |-> CopyOf(y, x.os)])
      /\ Become(t, Idle)
      /\ UNCHANGED <<target, live, hint, taken, calls>>

\* Faulty: the source keeps the slot as well.
MoveConstructKeeping(t) ==
  /\ Call(t, "move")
  /\ \E x, y \in Names :
       /\ ~Built(t, x) /\ Usable(t, y)
       /\ hp' = [hp EXCEPT ![t][x] = hp[t][y], ![t][y].p = Null, ![t][y].by = "loaded"]
  /\ UNCHANGED <<target, live, slot, hint, taken, loc>>

\* The move constructor takes the slot over from the source.
MoveConstruct(t) ==
  /\ Call(t, "move")
  /\ \E x, y \in Names :
       /\ ~Built(t, x) /\ Usable(t, y)
       /\ hp' = [hp EXCEPT ![t][x] = hp[t][y], ![t][y] = Gone]
  /\ UNCHANGED <<target, live, slot, hint, taken, loc>>

\* The move assignment and swap exchange the slots.
Swap(t) ==
  /\ Call(t, "move")
  /\ \E x, y \in Names :
       /\ Usable(t, x) /\ Usable(t, y)
       /\ hp' = [hp EXCEPT ![t][x] = hp[t][y], ![t][y] = hp[t][x]]
  /\ UNCHANGED <<target, live, slot, hint, taken, loc>>

\* reset, or store, of nullptr.
Reset(t) ==
  /\ Call(t, "destroy")
  /\ \E x \in Names :
       /\ Usable(t, x)
       /\ Put(t, hp[t][x].os, One)
       /\ Set(t, x, [p |-> Null, os |-> hp[t][x].os, by |-> "loaded"])
  /\ UNCHANGED <<target, live, hint, taken, loc>>

\* reflect_from_p stores p_ in the slot.
Reflect(t) ==
  LET h == hp[t][loc[t].x]
  IN  /\ At(t, "reflect")
      /\ Put(t, h.os, Mark(h.p))
      /\ Become(t, IF loc[t].then = "end" THEN Idle ELSE [loc[t] EXCEPT !.pc = loc[t].then])
      /\ UNCHANGED <<target, live, hint, hp, taken, calls>>

-----------------------------------------------------------------------------
(* hazard_ptr_handler                                                      *)

\* reuse_to_verify_exchange
Reuse(t) ==
  /\ Call(t, "verify")
  /\ \E x \in Names :
       /\ Usable(t, x)
       /\ Set(t, x, [p |-> target, os |-> hp[t][x].os, by |-> "loaded"])
       /\ Become(t, [Idle EXCEPT !.pc = "reflect", !.x = x])
  /\ UNCHANGED <<target, live, slot, hint, taken>>

\* verify_exchange: the pointer is verified, or replaced by the one loaded.
VerifyExchange(t) ==
  /\ Call(t, "verify")
  /\ \E x \in Names :
       /\ Usable(t, x)
       /\ IF target = hp[t][x].p
          THEN Set(t, x, [hp[t][x] EXCEPT !.by = "verified"]) /\ UNCHANGED loc
          ELSE /\ Set(t, x, [p |-> target, os |-> hp[t][x].os, by |-> "loaded"])
               /\ Become(t, [Idle EXCEPT !.pc = "reflect", !.x = x])
  /\ UNCHANGED <<target, live, slot, hint, taken>>

\* The handler gets another object, or none; the thread has what it held.
Replace(t, d) ==
  /\ target' = d
  /\ live' = live \cup ({d} \ {Null})
  /\ taken' = [taken EXCEPT ![t] = @ \cup ({target} \ {Null})]
New == {Null} \cup (Objects \ live)

\* exchange, and compare_exchange on plain pointers that succeeds.
Exchange(t) ==
  /\ Call(t, "take")
  /\ \E d \in New : Replace(t, d)
  /\ UNCHANGED <<slot, hint, hp, loc>>

\* What a compare_exchange does that succeeds: desired becomes the pointer of
\* the hazard_ptr (hold) and has to be reflected, or the hazard_ptr stays.
Succeeds(t, x, hold) ==
  \E d \in New :
    /\ target = hp[t][x].p
    /\ Replace(t, d)
    /\ IF hold
       THEN /\ Set(t, x, [p |-> d, os |-> hp[t][x].os, by |-> "loaded"])
            /\ Become(t, [Idle EXCEPT !.pc = "reflect", !.x = x])
       ELSE Set(t, x, [hp[t][x] EXCEPT !.by = "verified"]) /\ UNCHANGED loc

\* What a compare_exchange does that fails: the pointer found is in p_ but not
\* in the slot yet.
Fails(t, x, weak, then) ==
  /\ target # hp[t][x].p \/ weak
  /\ Set(t, x, [p |-> target, os |-> hp[t][x].os, by |-> "loaded"])
  /\ Become(t, [Idle EXCEPT !.pc = "reflect", !.x = x, !.then = then])
  /\ UNCHANGED <<target, live, taken>>

\* compare_exchange_weak, and _strong, on a hazard_ptr: a failure ends when the
\* handler holds what has been reflected.
CompareExchange(t) ==
  /\ Call(t, "cas")
  /\ \E x \in Names :
       Usable(t, x) /\ (Succeeds(t, x, FALSE) \/ Fails(t, x, Weak, "again"))
  /\ UNCHANGED <<slot, hint>>

\* Faulty: what has been reflected counts as verified.
AgainUnchecked(t) ==
  LET x == loc[t].x
  IN  /\ At(t, "again")
      /\ Set(t, x, [hp[t][x] EXCEPT !.by = "verified"])
      /\ Become(t, Idle)
      /\ UNCHANGED <<target, live, slot, hint, taken, calls>>

\* Its loop compares once more.
Again(t) ==
  LET x == loc[t].x
  IN  /\ At(t, "again")
      /\ \/ /\ target = hp[t][x].p
            /\ Set(t, x, [hp[t][x] EXCEPT !.by = "verified"])
            /\ Become(t, Idle)
            /\ UNCHANGED <<target, live, taken>>
         \/ Fails(t, x, Weak, "again")
      /\ UNCHANGED <<slot, hint, calls>>

\* compare_exchange_weak, and _strong, on a hazard_ptr that is consumed.
CompareExchangeConsuming(t) ==
  /\ Call(t, "cas")
  /\ \E x \in Names :
       /\ Usable(t, x)
       /\ \/ Succeeds(t, x, FALSE)
          \/ /\ target # hp[t][x].p \/ Weak
             /\ Set(t, x, [p |-> target, os |-> hp[t][x].os, by |-> "spent"])
             /\ UNCHANGED <<target, live, taken, loc>>
  /\ UNCHANGED <<slot, hint>>

\* ..._to_verify_exchange1: either way the pointer has to be verified.
ToVerify1(t, weak) ==
  /\ Call(t, "cas")
  /\ \E x \in Names :
       Usable(t, x) /\ (Succeeds(t, x, TRUE) \/ Fails(t, x, weak, "end"))
  /\ UNCHANGED <<slot, hint>>
WeakToVerify1(t) == ToVerify1(t, Weak)
StrongToVerify1(t) == ToVerify1(t, FALSE)

\* ..._to_verify_exchange2: only after a failure.
ToVerify2(t, weak) ==
  /\ Call(t, "cas")
  /\ \E x \in Names :
       Usable(t, x) /\ (Succeeds(t, x, FALSE) \/ Fails(t, x, weak, "end"))
  /\ UNCHANGED <<slot, hint>>
WeakToVerify2(t) == ToVerify2(t, Weak)
StrongToVerify2(t) == ToVerify2(t, FALSE)

-----------------------------------------------------------------------------
(* The search for a pointer in all slots                                   *)

\* check_pointer_is_hazard_pointer for an object that was taken out.
Check(t) ==
  /\ Call(t, "check")
  /\ \E o \in taken[t] :
       Become(t, [Idle EXCEPT !.pc = "chain", !.p = o, !.unseen = Threads])
  /\ UNCHANGED <<target, live, slot, hint, hp, taken>>

\* The search goes to the slots of another thread, in the order of the chain.
ScanThread(t) ==
  /\ At(t, "chain")
  /\ \E u \in loc[t].unseen :
       /\ slot[u] # <<>>
       /\ Become(t, [loc[t] EXCEPT !.pc = "scan", !.u = u, !.at = <<1, 1>>,
                                   !.unseen = @ \ {u}])
  /\ UNCHANGED <<target, live, slot, hint, hp, taken, calls>>

\* Faulty: the slots of a group are read from the last to the first one.
ScanSlotBackwards(t) ==
  LET l == loc[t]
      i == Width + 1 - l.at[2]
  IN  /\ At(t, "scan") /\ i > 0
      /\ Become(t, IF slot[l.u][l.at[1]][i] = l.p THEN Idle ELSE [l EXCEPT !.at = <<@[1], @[2] + 1>>])
      /\ UNCHANGED <<target, live, slot, hint, hp, taken, calls>>

\* One slot is read; the object has to wait when it is there.
ScanSlot(t) ==
  LET l == loc[t]
  IN  /\ At(t, "scan") /\ l.at[2] <= Width
      /\ Become(t, IF Content(l.u, l.at) = l.p THEN Idle ELSE [l EXCEPT !.at = <<@[1], @[2] + 1>>])
      /\ UNCHANGED <<target, live, slot, hint, hp, taken, calls>>

\* ap_list_next_ leads to the next group of the thread.
ScanNext(t) ==
  LET l == loc[t]
  IN  /\ At(t, "scan") /\ l.at[2] > Width
      /\ Become(t, IF l.at[1] < Len(slot[l.u])
                   THEN [l EXCEPT !.at = <<l.at[1] + 1, 1>>]
                   ELSE [l EXCEPT !.pc = "chain"])
      /\ UNCHANGED <<target, live, slot, hint, hp, taken, calls>>

\* The object is in no slot, and is deleted.
Delete(t) ==
  LET o == loc[t].p
  IN  /\ At(t, "chain")
      /\ \A u \in loc[t].unseen : slot[u] = <<>>
      /\ live' = live \ {o}
      /\ taken' = [taken EXCEPT ![t] = @ \ {o}]
      /\ Become(t, Idle)
      /\ UNCHANGED <<target, slot, hint, hp, calls>>

-----------------------------------------------------------------------------
Step(t) ==
  \/ AssignSlot(t) \/ NewGroup(t)
  \/ Construct(t) \/ Destroy(t) \/ Reset(t) \/ Reflect(t)
  \/ CopyConstruct(t) \/ CopyAssign(t) \/ CopyStore(t)
  \/ MoveConstruct(t) \/ Swap(t)
  \/ Reuse(t) \/ VerifyExchange(t) \/ Exchange(t)
  \/ CompareExchange(t) \/ Again(t) \/ CompareExchangeConsuming(t)
  \/ WeakToVerify1(t) \/ StrongToVerify1(t) \/ WeakToVerify2(t) \/ StrongToVerify2(t)
  \/ Check(t) \/ ScanThread(t) \/ ScanSlot(t) \/ ScanNext(t) \/ Delete(t)
Next == \E t \in Threads : Step(t)
Spec == Init /\ [][Next]_vars

-----------------------------------------------------------------------------
(* Properties                                                              *)

\* An object is not deleted while a hazard_ptr holds it that the handler was
\* seen to hold after the slot had it, whatever was copied, moved, swapped or
\* replaced in between (the loops around verify_exchange and
\* compare_exchange, and the order slot - handler in them).
VerifiedIsKept ==
  \A t \in Threads, x \in Names :
    hp[t][x].by = "verified" /\ hp[t][x].p # Null => hp[t][x].p \in live

\* Neither while a copy holds it whose slot a scan reads after the slot of the
\* origin, although the origin is gone before the scan comes to it (operator=
\* and the copy constructor of hazard_ptr against
\* check_pointer_is_hazard_pointer).
CopyIsKept ==
  \A t \in Threads, x \in Names :
    hp[t][x].by = "copied" /\ hp[t][x].p # Null => hp[t][x].p \in live

\* A slot belongs to the one hazard_ptr that has it, and what it contains is
\* what this one announces, except while a pointer is being replaced; a slot
\* without owner is unused (hzrd_slot_ownership_t, try_assign).
SlotHasOneOwner ==
  \A t \in Threads :
    /\ \A g \in DOMAIN slot[t], i \in 1 .. Width :
         LET own == {x \in Names : hp[t][x].os = <<g, i>>}
         IN  \/ own = {} /\ slot[t][g][i] = Null
             \/ \E x \in Names : own = {x} /\ slot[t][g][i] # Null
    /\ \A x \in Names :
         Usable(t, x) /\ ~(loc[t].pc \in {"reflect", "copy"} /\ loc[t].x = x)
           => Content(t, hp[t][x].os) = Mark(hp[t][x].p)

\* A thread gets a further group only when it has so many hazard_ptr that the
\* ones it has are full: slots that were given back are found again, wherever
\* the hint is (try_assign, slot_assign).
GroupsAsNeeded ==
  [][\A t \in Threads :
       Len(slot'[t]) > Len(slot[t]) =>
         Len(slot[t]) * Width = Cardinality({x \in Names : Built(t, x)})]_vars
=============================================================================
