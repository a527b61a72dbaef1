-------------------------- MODULE HazardSlots_proofs --------------------------
(***************************************************************************)
(* Proofs about HazardSlots, for every number of threads, hazard_ptr,      *)
(* objects, slots and calls: a slot has one owner, and what a verified     *)
(* hazard_ptr or a later copy of one holds is not deleted.                 *)
(***************************************************************************)
EXTENDS HazardSlots, FiniteSetTheorems, FunctionTheorems, SequenceTheorems, WellFoundedInduction,
        TLAPS

-----------------------------------------------------------------------------
(* The inductive invariant.                                                *)

Pointer == Objects \cup {Null}
Word == Pointer \cup {One}
Groups == [1 .. Width -> Word]
\* The slots of t: the group and the index.
Slots(t) == (1 .. Len(slot[t])) \X (1 .. Width)

\* At which control points there is an x, and what a call does then.
Working == {"assign", "copy", "reflect", "again"}
Scans == {"chain", "scan"}

HazardPtrs ==
  [p : Pointer, os : {<<>>} \cup (Nat \X Nat), by : {"loaded", "verified", "copied", "spent"}]
Locals ==
  [pc : {"idle"} \cup Working \cup Scans, x : Names \cup {Null}, y : Names \cup {Null},
   p : Pointer, then : {"end", "copy", "again"}, u : Threads \cup {Null},
   at : {<<>>} \cup (Nat \X Nat), unseen : SUBSET Threads]

TypeOK ==
  /\ target \in Pointer
  /\ live \subseteq Objects
  /\ slot \in [Threads -> Seq(Groups)]
  /\ hint \in [Threads -> Seq(1 .. Width)]
  /\ \A t \in Threads : Len(hint[t]) = Len(slot[t])
  /\ hp \in [Threads -> [Names -> HazardPtrs]]
  /\ taken \in [Threads -> SUBSET Objects]
  /\ calls \in [Threads -> Nat]
  /\ loc \in [Threads -> Locals]

\* A hazard_ptr has a slot of its thread, and no two have the same one.
Owned ==
  \A t \in Threads :
    /\ \A x \in Names : Built(t, x) => hp[t][x].os \in Slots(t)
    /\ \A x, y \in Names : Built(t, x) /\ hp[t][x].os = hp[t][y].os => x = y

\* A slot contains something if and only if it is owned, ...
Filled ==
  \A t \in Threads : \A s \in Slots(t) :
    Content(t, s) # Null <=> \E x \in Names : hp[t][x].os = s

\* ... and then what the hazard_ptr announces, unless a pointer was replaced.
Announced ==
  \A t \in Threads, x \in Names :
    Usable(t, x) /\ ~(At(t, "reflect") /\ loc[t].x = x)
      => Content(t, hp[t][x].os) = Mark(hp[t][x].p)

\* What a call knows of its hazard_ptr at each control point.
CallOK(t, l) ==
  /\ l.pc \in Working => l.x \in Names
  /\ l.pc = "assign" =>
       /\ ~Built(t, l.x)
       /\ l.y # Null => l.y # l.x
       /\ \/ l.then = "end" /\ (l.y # Null => l.p = hp[t][l.y].p)
          \/ l.then = "copy" /\ l.y # Null /\ Usable(t, l.y) /\ l.p = Null
  /\ l.pc = "copy" => Built(t, l.x) /\ l.y \in Names /\ l.y # l.x /\ Usable(t, l.y)
  /\ l.pc \in {"reflect", "again"} =>
       Usable(t, l.x) /\ hp[t][l.x].by = "loaded" /\ l.then \in {"end", "again"}
\* What a scan knows: its object is the thread's, and where it is.
ScanOK(t, l) ==
  /\ l.pc \in Scans => l.p \in taken[t]
  /\ l.pc = "scan" => /\ l.u \in Threads \ l.unseen
                      /\ l.at[1] \in 1 .. Len(slot[l.u]) /\ l.at[2] \in 1 .. Width + 1
LocalsOK == \A t \in Threads : CallOK(t, loc[t]) /\ ScanOK(t, loc[t])

\* An object exists in the handler or with one thread that took it.
Held ==
  /\ \A o \in Objects : o \in live <=> o = target \/ \E t \in Threads : o \in taken[t]
  /\ \A t \in Threads : target \notin taken[t]
  /\ \A t, u \in Threads : t # u => taken[t] \cap taken[u] = {}

\* A scan has not come to slot s of thread t.
WillSee(l, t, s) ==
  \/ t \in l.unseen
  \/ l.pc = "scan" /\ l.u = t /\ ~Before(s, l.at)

\* What a hazard_ptr holds that was verified, or copied from one to a later
\* slot, exists, and whoever scans for it will come to the slot.
Safe(o, t, s) ==
  /\ o \in live
  /\ \A u \in Threads : loc[u].pc \in Scans /\ loc[u].p = o => WillSee(loc[u], t, s)
Good == {"verified", "copied"}
Kept ==
  \A t \in Threads, x \in Names :
    hp[t][x].by \in Good /\ hp[t][x].p # Null =>
      Built(t, x) /\ Safe(hp[t][x].p, t, hp[t][x].os)

Inv == TypeOK /\ Owned /\ Filled /\ Announced /\ LocalsOK /\ Held /\ Kept

-----------------------------------------------------------------------------
(* The slot that try_assign chooses.                                       *)

\* A set of natural numbers has a least one.
LEMMA LeastOf ==
  ASSUME NEW S, S \subseteq Nat, S # {}
  PROVE  \E i \in S : \A j \in S : i <= j
<1> DEFINE R == OpToRel(<, Nat)
<1>1. \A i, j \in Nat : i < j => <<i, j>> \in R  BY DEF OpToRel
<1> HIDE DEF R
<1>2. IsWellFoundedOn(R, Nat)  BY NatLessThanWellFounded, Zenon DEF R
<1>3. \E i \in S : \A j \in S : <<j, i>> \notin R  BY <1>2, WFMin, Zenon
<1>4. PICK i \in S : \A j \in S : <<j, i>> \notin R  BY <1>3
<1>5. \A j \in S : ~ (j < i)  BY <1>1, <1>4, Zenon
<1>6. \A j \in S : i <= j  BY <1>5
<1>7. QED  BY <1>6

\* The slot try_assign chooses.
Chosen(group, h) == CHOOSE i \in Unused(group, h) : \A j \in Unused(group, h) : i <= j
\* It is a slot of the group, and unused.
LEMMA ChosenUnused ==
  ASSUME NEW group, NEW h \in 1 .. Width, Unused(group, h) # {}
  PROVE  Chosen(group, h) \in 1 .. Width /\ group[Chosen(group, h)] = Null
<1>1. \A i \in Unused(group, h) : i \in 1 .. Width /\ group[i] = Null
  BY SlotsAssumption DEF Unused
<1>2. Unused(group, h) \subseteq Nat  BY <1>1
<1>3. \E i \in Unused(group, h) : \A j \in Unused(group, h) : i <= j  BY <1>2, LeastOf
<1>4. Chosen(group, h) \in Unused(group, h)  BY <1>3, Zenon DEF Chosen
<1>5. QED  BY <1>1, <1>4

\* A group that is full has no slot without content.
LEMMA FullGroup ==
  ASSUME NEW group, NEW h \in 1 .. Width, Unused(group, h) = {}, NEW i \in 1 .. Width
  PROVE  group[i] # Null
  BY SlotsAssumption DEF Unused

-----------------------------------------------------------------------------
(* What a step does to the slots and the hazard_ptr of its thread.         *)

\* Nothing.
Quiet(t) == UNCHANGED <<slot, hint, hp>> /\ loc[t].pc # "reflect"

\* The handler gives a hazard_ptr another pointer, or finds its own.
Handled(t) ==
  \E x \in Names, h \in HazardPtrs :
    /\ UNCHANGED <<slot, hint>> /\ loc[t].pc # "reflect"
    /\ Set(t, x, h) /\ Usable(t, x) /\ h.os = hp[t][x].os
    /\ \/ h.by = "verified" /\ h.p = hp[t][x].p /\ h.p = target
       \/ h.by = "spent"
       \/ h.by = "loaded" /\ loc'[t].pc = "reflect" /\ loc'[t].x = x

\* A hazard_ptr gets the slot of another one, which loses or exchanges it.
Moved(t) ==
  \E x, y \in Names, h \in HazardPtrs :
    /\ UNCHANGED <<slot, hint>> /\ loc[t].pc # "reflect"
    /\ hp' = [hp EXCEPT ![t][x] = hp[t][y], ![t][y] = h]
    /\ Usable(t, y)
    /\ (h = Gone /\ ~Built(t, x)) \/ (h = hp[t][x] /\ Usable(t, x))

\* The slot of a hazard_ptr, or an unused one that it gets, is stored.
Stored(t) ==
  \E x \in Names, s \in Slots(t), h \in HazardPtrs, v \in Word :
    /\ Put(t, s, v) /\ Set(t, x, h)
    /\ hint' \in [Threads -> Seq(1 .. Width)] /\ \A u \in Threads : Len(hint'[u]) = Len(hint[u])
    /\ hp[t][x].os = s \/ (~Built(t, x) /\ Content(t, s) = Null)
    /\ (h.os = s /\ v = Mark(h.p)) \/ (h = Gone /\ v = Null /\ hp[t][x].os = s)
    /\ loc[t].pc = "reflect" => loc[t].x = x
    /\ h.by \in Good /\ h.p # Null =>
         \E y \in Names :
           hp[t][y].by \in Good /\ hp[t][y].p = h.p /\ Before(hp[t][y].os, s)

\* The locals of the thread are the ones given, those of the others stay.
LEMMA Becomes ==
  ASSUME TypeOK, NEW t \in Threads, NEW l, Become(t, l)
  PROVE  loc'[t] = l /\ \A u \in Threads : u # t => loc'[u] = loc[u]
  BY DEF TypeOK, Become

\* A pointer that was replaced has to be reflected next.
LEMMA Reflects ==
  ASSUME TypeOK, NEW t \in Threads, NEW x, NEW then,
         \/ Become(t, [Idle EXCEPT !.pc = "reflect", !.x = x])
         \/ Become(t, [Idle EXCEPT !.pc = "reflect", !.x = x, !.then = then])
  PROVE  loc'[t].pc = "reflect" /\ loc'[t].x = x
<1>1. CASE Become(t, [Idle EXCEPT !.pc = "reflect", !.x = x])
  <2>1. loc'[t] = [Idle EXCEPT !.pc = "reflect", !.x = x]  BY <1>1, Becomes
  <2>2. QED  BY <2>1 DEF Idle
<1>2. CASE Become(t, [Idle EXCEPT !.pc = "reflect", !.x = x, !.then = then])
  <2>1. loc'[t] = [Idle EXCEPT !.pc = "reflect", !.x = x, !.then = then]  BY <1>2, Becomes
  <2>2. QED  BY <2>1 DEF Idle
<1>3. QED  BY <1>1, <1>2

\* Every step is of one of these forms.
LEMMA OneForm ==
  ASSUME Inv, NEW t \in Threads, Step(t)
  PROVE  Quiet(t) \/ Handled(t) \/ Moved(t) \/ Stored(t) \/ NewGroup(t)
<1>0. TypeOK /\ hp[t] \in [Names -> HazardPtrs] /\ target \in Pointer  BY DEF Inv, TypeOK
<1>1. ASSUME Construct(t) \/ CopyConstruct(t) \/ CopyAssign(t) \/ Exchange(t) \/ Check(t)
  PROVE Quiet(t)
  <2>1. UNCHANGED <<slot, hint, hp>>
    BY <1>1, Zenon DEF Construct, CopyConstruct, CopyAssign, Exchange, Check
  <2>2. loc[t].pc = "idle"
    BY <1>1, Zenon DEF Construct, CopyConstruct, CopyAssign, Exchange, Check, Call, At
  <2>3. QED  BY <2>1, <2>2 DEF Quiet
<1>2. ASSUME ScanThread(t) \/ ScanSlot(t) \/ ScanNext(t) \/ Delete(t)
  PROVE Quiet(t)
  <2>1. UNCHANGED <<slot, hint, hp>>
    BY <1>2, Zenon DEF ScanThread, ScanSlot, ScanNext, Delete
  <2>2. loc[t].pc \in {"chain", "scan"}
    BY <1>2, Zenon DEF ScanThread, ScanSlot, ScanNext, Delete, At
  <2>3. QED  BY <2>1, <2>2 DEF Quiet
<1>3. ASSUME MoveConstruct(t)  PROVE Moved(t)
  <2>1. Gone \in HazardPtrs  BY SlotsAssumption DEF Gone, HazardPtrs, Pointer
  <2>2. PICK x, y \in Names :
          /\ ~Built(t, x) /\ Usable(t, y)
          /\ hp' = [hp EXCEPT ![t][x] = hp[t][y], ![t][y] = Gone]
    BY <1>3, Zenon DEF MoveConstruct
  <2>3. UNCHANGED <<slot, hint>> /\ loc[t].pc = "idle"
    BY <1>3, Zenon DEF MoveConstruct, Call, At
  <2>4. loc[t].pc # "reflect"  BY <2>3
  <2>5. QED  BY <2>1, <2>2, <2>3, <2>4, Zenon DEF Moved
<1>4. ASSUME Swap(t)  PROVE Moved(t)
  <2>1. PICK x, y \in Names :
          /\ Usable(t, x) /\ Usable(t, y)
          /\ hp' = [hp EXCEPT ![t][x] = hp[t][y], ![t][y] = hp[t][x]]
    BY <1>4, Zenon DEF Swap
  <2>2. hp[t][x] \in HazardPtrs  BY <1>0
  <2>3. UNCHANGED <<slot, hint>> /\ loc[t].pc = "idle"
    BY <1>4, Zenon DEF Swap, Call, At
  <2>4. loc[t].pc # "reflect"  BY <2>3
  <2>5. QED  BY <2>1, <2>2, <2>3, <2>4, Zenon DEF Moved
<1>5. ASSUME NEW x \in Names, Usable(t, x), UNCHANGED <<slot, hint>>,
             loc[t].pc \in {"idle", "again"}, target = hp[t][x].p,
             Set(t, x, [hp[t][x] EXCEPT !.by = "verified"])
  PROVE Handled(t)
  <2> DEFINE h == [hp[t][x] EXCEPT !.by = "verified"]
  <2>1. h \in HazardPtrs /\ h.os = hp[t][x].os /\ h.by = "verified" /\ h.p = hp[t][x].p
    BY <1>0 DEF HazardPtrs
  <2>2. Set(t, x, h) /\ loc[t].pc # "reflect"  BY <1>5
  <2> HIDE DEF h
  <2>3. QED  BY <1>5, <2>1, <2>2, Zenon DEF Handled
<1>6. ASSUME NEW x \in Names, Usable(t, x), UNCHANGED <<slot, hint>>,
             loc[t].pc \in {"idle", "again"}, NEW q \in Pointer,
             Set(t, x, [p |-> q, os |-> hp[t][x].os, by |-> "loaded"]),
             loc'[t].pc = "reflect", loc'[t].x = x
  PROVE Handled(t)
  <2> DEFINE h == [p |-> q, os |-> hp[t][x].os, by |-> "loaded"]
  <2>1. h \in HazardPtrs /\ h.os = hp[t][x].os /\ h.by = "loaded"
    <3>1. hp[t][x].os \in {<<>>} \cup (Nat \X Nat)  BY <1>0 DEF HazardPtrs
    <3>2. QED  BY <3>1, <1>6 DEF HazardPtrs
  <2>2. Set(t, x, h) /\ loc[t].pc # "reflect"  BY <1>6
  <2> HIDE DEF h
  <2>3. QED  BY <1>6, <2>1, <2>2, Zenon DEF Handled
<1>7. ASSUME NEW x \in Names, Usable(t, x), UNCHANGED <<slot, hint>>,
             loc[t].pc \in {"idle", "again"}, NEW weak, NEW then, Fails(t, x, weak, then)
  PROVE Handled(t)
  <2>1. loc'[t].pc = "reflect" /\ loc'[t].x = x  BY <1>7, <1>0, Reflects, Zenon DEF Fails
  <2>2. QED  BY <1>0, <1>6, <1>7, <2>1, Zenon DEF Fails
<1>8. ASSUME NEW x \in Names, Usable(t, x), UNCHANGED <<slot, hint>>,
             loc[t].pc \in {"idle", "again"}, NEW hold, Succeeds(t, x, hold)
  PROVE Handled(t)
  <2>1. PICK d \in New :
          /\ target = hp[t][x].p
          /\ IF hold
             THEN /\ Set(t, x, [p |-> d, os |-> hp[t][x].os, by |-> "loaded"])
                  /\ Become(t, [Idle EXCEPT !.pc = "reflect", !.x = x])
             ELSE Set(t, x, [hp[t][x] EXCEPT !.by = "verified"])
    BY <1>8, Zenon DEF Succeeds
  <2>2. d \in Pointer  BY DEF New, Pointer
  <2>3. CASE hold
    <3>1. loc'[t].pc = "reflect" /\ loc'[t].x = x  BY <2>1, <2>3, <1>0, Reflects, Zenon
    <3>2. QED  BY <2>1, <2>2, <2>3, <3>1, <1>6, <1>8, Zenon
  <2>4. CASE ~hold  BY <2>1, <2>4, <1>5, <1>8, Zenon
  <2>5. QED  BY <2>3, <2>4
<1>9. ASSUME Reuse(t)  PROVE Handled(t)
  <2>1. PICK x \in Names :
          /\ Usable(t, x)
          /\ Set(t, x, [p |-> target, os |-> hp[t][x].os, by |-> "loaded"])
          /\ Become(t, [Idle EXCEPT !.pc = "reflect", !.x = x])
    BY <1>9, Zenon DEF Reuse
  <2>2. UNCHANGED <<slot, hint>> /\ loc[t].pc = "idle"  BY <1>9, Zenon DEF Reuse, Call, At
  <2>3. loc'[t].pc = "reflect" /\ loc'[t].x = x  BY <2>1, <1>0, Reflects, Zenon
  <2>4. QED  BY <2>1, <2>2, <2>3, <1>0, <1>6
<1>10. ASSUME VerifyExchange(t)  PROVE Handled(t)
  <2>1. PICK x \in Names :
          /\ Usable(t, x)
          /\ IF target = hp[t][x].p
             THEN Set(t, x, [hp[t][x] EXCEPT !.by = "verified"])
             ELSE /\ Set(t, x, [p |-> target, os |-> hp[t][x].os, by |-> "loaded"])
                  /\ Become(t, [Idle EXCEPT !.pc = "reflect", !.x = x])
    BY <1>10, Zenon DEF VerifyExchange
  <2>2. UNCHANGED <<slot, hint>> /\ loc[t].pc \in {"idle", "again"}
    BY <1>10 DEF VerifyExchange, Call, At
  <2>3. CASE target = hp[t][x].p  BY <2>1, <2>2, <2>3, <1>5, Zenon
  <2>4. CASE target # hp[t][x].p
    <3>1. loc'[t].pc = "reflect" /\ loc'[t].x = x  BY <2>1, <2>4, <1>0, Reflects, Zenon
    <3>2. QED  BY <2>1, <2>2, <2>4, <3>1, <1>0, <1>6, Zenon
  <2>5. QED  BY <2>3, <2>4
<1>11. ASSUME Again(t)  PROVE Handled(t)
  <2>1. loc[t].x \in Names /\ Usable(t, loc[t].x)
    BY <1>11 DEF Again, At, Inv, LocalsOK, CallOK, Working
  <2>2. UNCHANGED <<slot, hint>> /\ loc[t].pc \in {"idle", "again"}  BY <1>11 DEF Again, At
  <2>3. \/ target = hp[t][loc[t].x].p /\ Set(t, loc[t].x, [hp[t][loc[t].x] EXCEPT !.by = "verified"])
        \/ Fails(t, loc[t].x, Weak, "again")
    BY <1>11, Zenon DEF Again
  <2>4. QED  BY <2>1, <2>2, <2>3, <1>5, <1>7, Zenon
<1>12. ASSUME CompareExchangeConsuming(t)  PROVE Handled(t)
  <2>1. PICK x \in Names :
          /\ Usable(t, x)
          /\ \/ Succeeds(t, x, FALSE)
             \/ Set(t, x, [p |-> target, os |-> hp[t][x].os, by |-> "spent"])
    BY <1>12, Zenon DEF CompareExchangeConsuming
  <2>2. UNCHANGED <<slot, hint>> /\ loc[t].pc \in {"idle", "again"}
    BY <1>12 DEF CompareExchangeConsuming, Call, At
  <2>3. CASE Succeeds(t, x, FALSE)  BY <2>1, <2>2, <2>3, <1>8, Zenon
  <2>4. CASE Set(t, x, [p |-> target, os |-> hp[t][x].os, by |-> "spent"])
    <3> DEFINE h == [p |-> target, os |-> hp[t][x].os, by |-> "spent"]
    <3>1. h \in HazardPtrs /\ h.os = hp[t][x].os /\ h.by = "spent"
      <4>1. hp[t][x].os \in {<<>>} \cup (Nat \X Nat)  BY <1>0 DEF HazardPtrs
      <4>2. QED  BY <4>1, <1>0 DEF HazardPtrs
    <3>2. Set(t, x, h) /\ loc[t].pc # "reflect"  BY <2>2, <2>4
    <3> HIDE DEF h
    <3>3. QED  BY <2>1, <2>2, <3>1, <3>2, Zenon DEF Handled
  <2>5. QED  BY <2>1, <2>3, <2>4, Zenon
<1>13. ASSUME \/ CompareExchange(t) \/ WeakToVerify1(t) \/ StrongToVerify1(t)
              \/ WeakToVerify2(t) \/ StrongToVerify2(t)
       PROVE  Handled(t)
  <2>1. UNCHANGED <<slot, hint>> /\ loc[t].pc = "idle"
    BY <1>13, Zenon DEF CompareExchange, WeakToVerify1, StrongToVerify1, WeakToVerify2, StrongToVerify2,
       ToVerify1, ToVerify2, Call, At
  <2>2. PICK x \in Names : Usable(t, x) /\ 
          \/ Succeeds(t, x, FALSE) \/ Succeeds(t, x, TRUE)
          \/ \E weak, then : Fails(t, x, weak, then)
    BY <1>13, Zenon DEF CompareExchange, WeakToVerify1, StrongToVerify1, WeakToVerify2, StrongToVerify2,
       ToVerify1, ToVerify2
  <2>3. CASE \E weak, then : Fails(t, x, weak, then)  BY <2>1, <2>2, <2>3, <1>7
  <2>4. CASE Succeeds(t, x, FALSE) \/ Succeeds(t, x, TRUE)  BY <2>1, <2>2, <2>4, <1>8, Zenon
  <2>5. QED  BY <2>2, <2>3, <2>4, Zenon
<1>14. ASSUME AssignSlot(t)  PROVE Stored(t)
  <2> DEFINE l == loc[t]
  <2>1. PICK g \in DOMAIN slot[t] : ~Full(t, g) /\ TryAssign(t, g, l.x, l.y, l.p)
    BY <1>14, Zenon DEF AssignSlot
  <2>2. CallOK(t, l) /\ l.pc = "assign" /\ l \in Locals
    BY <1>14, Zenon DEF AssignSlot, At, Inv, LocalsOK, TypeOK
  <2> HIDE DEF l
  <2>3. g \in 1 .. Len(slot[t]) /\ g \in 1 .. Len(hint[t]) /\ hint[t][g] \in 1 .. Width
    <3>1. slot[t] \in Seq(Groups) /\ hint[t] \in Seq(1 .. Width) /\ Len(hint[t]) = Len(slot[t])
      BY <1>0 DEF TypeOK
    <3>2. g \in 1 .. Len(slot[t])  BY <2>1, <3>1
    <3>3. g \in 1 .. Len(hint[t])  BY <3>1, <3>2
    <3>4. hint[t][g] \in 1 .. Width  BY <3>1, <3>3, ElementOfSeq, Zenon
    <3>5. QED  BY <3>2, <3>3, <3>4
  <2> DEFINE i == Chosen(slot[t][g], hint[t][g])
             s == <<g, i>>
  <2>4. i \in 1 .. Width /\ slot[t][g][i] = Null
    BY <2>1, <2>3, ChosenUnused, Zenon DEF Full
  <2> DEFINE h == [p |-> l.p, os |-> s,
                   by |-> IF l.y = Null THEN "loaded" ELSE CopyOf(hp[t][l.y], s)]
  <2>5. /\ Put(t, s, Mark(l.p)) /\ Set(t, l.x, h)
        /\ hint' = [hint EXCEPT ![t][g] = IF i = Width THEN 1 ELSE i + 1]
    BY <2>1, Zenon DEF TryAssign, Chosen
  <2> HIDE DEF i
  <2>6. l.x \in Names /\ l.p \in Pointer /\ l.y \in Names \cup {Null}
    BY <2>2 DEF CallOK, Locals, Working
  <2>7. s \in Slots(t) /\ Content(t, s) = Null  BY <2>3, <2>4 DEF Slots, Content
  <2>8. h \in HazardPtrs
    <3>1. s \in Nat \X Nat  BY <2>3, <2>4
    <3>2. QED  BY <2>6, <3>1 DEF HazardPtrs, CopyOf
  <2>9. Mark(l.p) \in Word  BY <2>6 DEF Mark, Word
  <2>10. hint' \in [Threads -> Seq(1 .. Width)] /\ \A u \in Threads : Len(hint'[u]) = Len(hint[u])
    <3>1. (IF i = Width THEN 1 ELSE i + 1) \in 1 .. Width  BY <2>4, SlotsAssumption
    <3>2. hint \in [Threads -> Seq(1 .. Width)] /\ hint[t] \in Seq(1 .. Width)  BY <1>0 DEF TypeOK
    <3>3. [hint[t] EXCEPT ![g] = IF i = Width THEN 1 ELSE i + 1] \in Seq(1 .. Width)
          /\ Len([hint[t] EXCEPT ![g] = IF i = Width THEN 1 ELSE i + 1]) = Len(hint[t])
      BY <2>3, <3>1, <3>2, ExceptSeq
    <3>4. QED  BY <2>5, <3>2, <3>3
  <2>11. ASSUME h.by \in Good, h.p # Null
         PROVE  \E y \in Names :
                  hp[t][y].by \in Good /\ hp[t][y].p = h.p /\ Before(hp[t][y].os, s)
    <3>1. l.y # Null /\ CopyOf(hp[t][l.y], s) \in Good  BY <2>11 DEF Good
    <3>2. hp[t][l.y].by \in Good /\ Before(hp[t][l.y].os, s)  BY <3>1 DEF CopyOf, Good
    <3>3. l.p = hp[t][l.y].p  BY <2>2, <2>11, <3>1 DEF CallOK
    <3>4. QED  BY <2>6, <3>1, <3>2, <3>3
  <2>12. ~Built(t, l.x) /\ h.os = s /\ Mark(l.p) = Mark(h.p) /\ loc[t].pc # "reflect"
    BY <2>2 DEF CallOK, l
  <2> HIDE DEF h, s
  <2>13. QED  BY <2>5, <2>6, <2>7, <2>8, <2>9, <2>10, <2>11, <2>12, Zenon DEF Stored
<1>15. ASSUME Destroy(t)  PROVE Stored(t)
  <2>1. PICK x \in Names : Built(t, x) /\ Put(t, hp[t][x].os, Null) /\ Set(t, x, Gone)
    BY <1>15, Zenon DEF Destroy
  <2>2. hp[t][x].os \in Slots(t)  BY <2>1, Zenon DEF Inv, Owned
  <2>3. Gone \in HazardPtrs /\ Null \in Word /\ ~(Gone.by \in Good)
    BY SlotsAssumption DEF Gone, HazardPtrs, Pointer, Word, Good
  <2>4. hint' = hint /\ loc[t].pc = "idle"  BY <1>15, Zenon DEF Destroy, Call, At
  <2>5. hint' \in [Threads -> Seq(1 .. Width)] /\ \A u \in Threads : Len(hint'[u]) = Len(hint[u])
    BY <1>0, <2>4 DEF TypeOK
  <2>6. loc[t].pc # "reflect"  BY <2>4
  <2>7. QED  BY <2>1, <2>2, <2>3, <2>5, <2>6, Zenon DEF Stored
<1>16. ASSUME NEW x \in Names, Built(t, x), NEW h \in HazardPtrs, h.os = hp[t][x].os, hint' = hint,
              Put(t, hp[t][x].os, Mark(h.p)), Set(t, x, h), loc[t].pc = "reflect" => loc[t].x = x,
              h.by \in Good =>
                \E y \in Names :
                  hp[t][y].by \in Good /\ hp[t][y].p = h.p /\ Before(hp[t][y].os, hp[t][x].os)
       PROVE  Stored(t)
  <2>1. hp[t][x].os \in Slots(t)  BY <1>16, Zenon DEF Inv, Owned
  <2>2. Mark(h.p) \in Word  BY <1>16 DEF Mark, Word, HazardPtrs
  <2>3. hint' \in [Threads -> Seq(1 .. Width)] /\ \A u \in Threads : Len(hint'[u]) = Len(hint[u])
    BY <1>0, <1>16 DEF TypeOK
  <2>4. QED  BY <1>16, <2>1, <2>2, <2>3, Zenon DEF Stored
<1>17. ASSUME Reset(t)  PROVE Stored(t)
  <2>1. PICK x \in Names :
          /\ Usable(t, x) /\ Put(t, hp[t][x].os, One)
          /\ Set(t, x, [p |-> Null, os |-> hp[t][x].os, by |-> "loaded"])
    BY <1>17, Zenon DEF Reset
  <2> DEFINE h == [p |-> Null, os |-> hp[t][x].os, by |-> "loaded"]
  <2>2. h \in HazardPtrs /\ h.os = hp[t][x].os /\ Mark(h.p) = One /\ ~(h.by \in Good)
    <3>1. hp[t][x].os \in {<<>>} \cup (Nat \X Nat)  BY <1>0 DEF HazardPtrs
    <3>2. QED  BY <3>1 DEF HazardPtrs, Pointer, Mark, Good
  <2>3. Set(t, x, h) /\ Built(t, x)  BY <2>1 DEF Usable
  <2>4. hint' = hint /\ loc[t].pc = "idle"  BY <1>17, Zenon DEF Reset, Call, At
  <2>5. loc[t].pc # "reflect"  BY <2>4
  <2> HIDE DEF h
  <2>6. QED  BY <2>1, <2>2, <2>3, <2>4, <2>5, <1>16, Zenon
<1>18. ASSUME Reflect(t)  PROVE Stored(t)
  <2> DEFINE x == loc[t].x
             h == hp[t][x]
  <2>1. Put(t, h.os, Mark(h.p)) /\ hp' = hp /\ hint' = hint /\ loc[t].pc = "reflect"
    BY <1>18, Zenon DEF Reflect, At
  <2>2. x \in Names /\ Built(t, x) /\ h.by = "loaded"
    BY <2>1 DEF Inv, LocalsOK, CallOK, Working, Usable
  <2>3. h \in HazardPtrs /\ ~(h.by \in Good)  BY <1>0, <2>2 DEF Good
  <2>4. Set(t, x, h)  BY <1>0, <2>1 DEF Set, TypeOK
  <2> HIDE DEF x
  <2>5. QED  BY <2>1, <2>2, <2>3, <2>4, <1>16, Zenon DEF x
<1>19. ASSUME CopyStore(t)  PROVE Stored(t)
  <2> DEFINE a == loc[t].x
             b == loc[t].y
             h == [p |-> hp[t][b].p, os |-> hp[t][a].os, by |-> CopyOf(hp[t][b], hp[t][a].os)]
  <2>1. /\ Put(t, hp[t][a].os, Content(t, hp[t][b].os)) /\ Set(t, a, h)
        /\ hint' = hint /\ loc[t].pc = "copy"
    BY <1>19, Zenon DEF CopyStore, At
  <2>2. a \in Names /\ Built(t, a) /\ b \in Names /\ Usable(t, b) /\ loc[t].pc # "reflect"
    BY <2>1 DEF Inv, LocalsOK, CallOK, Working
  <2>3. Content(t, hp[t][b].os) = Mark(hp[t][b].p)  BY <2>2, Zenon DEF Inv, Announced, At
  <2> HIDE DEF a, b
  <2>4. h \in HazardPtrs /\ h.os = hp[t][a].os /\ h.p = hp[t][b].p
    <3>1. hp[t][a].os \in {<<>>} \cup (Nat \X Nat) /\ hp[t][b].p \in Pointer
      BY <1>0, <2>2 DEF HazardPtrs
    <3>2. QED  BY <3>1 DEF HazardPtrs, CopyOf
  <2>5. h.by \in Good => hp[t][b].by \in Good /\ Before(hp[t][b].os, hp[t][a].os)
    BY DEF CopyOf, Good
  <2> HIDE DEF h
  <2>6. QED  BY <2>1, <2>2, <2>3, <2>4, <2>5, <1>16, Zenon
<1>20. QED
  BY <1>1, <1>2, <1>3, <1>4, <1>9, <1>10, <1>11, <1>12, <1>13, <1>14, <1>15, <1>17, <1>18, <1>19,
     Zenon DEF Step

-----------------------------------------------------------------------------
(* Slots and hazard_ptr after a step.                                      *)

\* What is stored in a slot is there afterwards, and in no other one.
LEMMA Puts ==
  ASSUME TypeOK, NEW t \in Threads, NEW s \in Slots(t), NEW v \in Word, Put(t, s, v)
  PROVE  /\ slot' \in [Threads -> Seq(Groups)]
         /\ Len(slot'[t]) = Len(slot[t])
         /\ Content(t, s)' = v
         /\ \A r \in Slots(t) : r # s => Content(t, r)' = Content(t, r)
         /\ \A u \in Threads : u # t => slot'[u] = slot[u]
<1>1. PICK g \in 1 .. Len(slot[t]), i \in 1 .. Width : s = <<g, i>>  BY DEF Slots
<1>2. slot \in [Threads -> Seq(Groups)] /\ slot[t] \in Seq(Groups) /\ slot[t][g] \in Groups
  BY <1>1 DEF TypeOK
<1> DEFINE a == [slot[t][g] EXCEPT ![i] = v]
           q == [slot[t] EXCEPT ![g] = a]
<1>3. slot' = [slot EXCEPT ![t] = q]  BY <1>1 DEF Put
<1>4. a \in Groups /\ a[i] = v /\ \A j \in 1 .. Width : j # i => a[j] = slot[t][g][j]
  <2>1. slot[t][g] \in Groups  BY <1>2
  <2>2. slot[t][g] \in [1 .. Width -> Word] /\ i \in 1 .. Width  BY <1>1, <2>1 DEF Groups
  <2>3. [slot[t][g] EXCEPT ![i] = v] \in [1 .. Width -> Word]  BY <2>2, Zenon
  <2>4. a \in Groups  BY <2>3 DEF Groups
  <2>5. a[i] = v /\ \A j \in 1 .. Width : j # i => a[j] = slot[t][g][j]  BY <2>2, Zenon
  <2>6. QED  BY <2>4, <2>5
<1> HIDE DEF a
<1>5. /\ q \in Seq(Groups) /\ Len(q) = Len(slot[t])
      /\ \A j \in 1 .. Len(slot[t]) : q[j] = IF j = g THEN a ELSE slot[t][j]
  <2>1. slot[t] \in Seq(Groups) /\ g \in 1 .. Len(slot[t]) /\ a \in Groups  BY <1>1, <1>2, <1>4
  <2>2. QED  BY <2>1, ExceptSeq
<1> HIDE DEF q
<1>6. slot' \in [Threads -> Seq(Groups)] /\ slot'[t] = q
      /\ \A u \in Threads : u # t => slot'[u] = slot[u]
  BY <1>2, <1>3, <1>5
<1>7. Content(t, s)' = v  BY <1>1, <1>4, <1>5, <1>6 DEF Content
<1>8. ASSUME NEW r \in Slots(t), r # s  PROVE Content(t, r)' = Content(t, r)
  <2>1. PICK f \in 1 .. Len(slot[t]), j \in 1 .. Width : r = <<f, j>>  BY DEF Slots
  <2>2. f # g \/ j # i  BY <1>1, <1>8, <2>1
  <2>3. q[f][j] = slot[t][f][j]  BY <1>4, <1>5, <2>2
  <2>4. QED  BY <2>1, <2>3, <1>6 DEF Content
<1>9. QED  BY <1>5, <1>6, <1>7, <1>8

\* A slot is a pair.
LEMMA SlotIsPair ==
  ASSUME NEW t, NEW s \in Slots(t)
  PROVE  s # <<>>
<1>1. PICK g \in 1 .. Len(slot[t]), i \in 1 .. Width : s = <<g, i>>  BY DEF Slots
<1>2. QED  BY <1>1

\* The hazard_ptr of a thread after one of them was set.
LEMMA Sets ==
  ASSUME TypeOK, NEW t \in Threads, NEW x \in Names, NEW h \in HazardPtrs, Set(t, x, h)
  PROVE  /\ hp' \in [Threads -> [Names -> HazardPtrs]]
         /\ hp'[t][x] = h
         /\ \A y \in Names : y # x => hp'[t][y] = hp[t][y]
         /\ \A u \in Threads : u # t => hp'[u] = hp[u]
  BY DEF TypeOK, Set

\* And after the slot of one went to another one.
LEMMA Moves ==
  ASSUME TypeOK, NEW t \in Threads, NEW x \in Names, NEW y \in Names, NEW h \in HazardPtrs,
         hp' = [hp EXCEPT ![t][x] = hp[t][y], ![t][y] = h]
  PROVE  /\ hp' \in [Threads -> [Names -> HazardPtrs]]
         /\ \A z \in Names : hp'[t][z] = IF z = y THEN h ELSE IF z = x THEN hp[t][y] ELSE hp[t][z]
         /\ \A u \in Threads : u # t => hp'[u] = hp[u]
<1> DEFINE f == [hp EXCEPT ![t][x] = hp[t][y]]
<1>1. hp \in [Threads -> [Names -> HazardPtrs]]  BY DEF TypeOK
<1>2. /\ f \in [Threads -> [Names -> HazardPtrs]] /\ f[t][x] = hp[t][y]
      /\ \A z \in Names : z # x => f[t][z] = hp[t][z]
      /\ \A u \in Threads : u # t => f[u] = hp[u]
  BY <1>1
<1>3. hp' = [f EXCEPT ![t][y] = h]  BY Zenon
<1> HIDE DEF f
<1>4. /\ hp' \in [Threads -> [Names -> HazardPtrs]] /\ hp'[t][y] = h
      /\ \A z \in Names : z # y => hp'[t][z] = f[t][z]
      /\ \A u \in Threads : u # t => hp'[u] = f[u]
  BY <1>2, <1>3
<1>5. ASSUME NEW z \in Names
      PROVE  hp'[t][z] = IF z = y THEN h ELSE IF z = x THEN hp[t][y] ELSE hp[t][z]
  <2>1. CASE z = y  BY <1>4, <2>1
  <2>2. CASE z # y /\ z = x  BY <1>2, <1>4, <2>2
  <2>3. CASE z # y /\ z # x  BY <1>2, <1>4, <2>3
  <2>4. QED  BY <2>1, <2>2, <2>3
<1>6. QED  BY <1>2, <1>4, <1>5, Zenon

\* The slots of a thread whose number of groups does not change.
LEMMA SameSlots ==
  ASSUME NEW t, Len(slot'[t]) = Len(slot[t])
  PROVE  Slots(t)' = Slots(t)
  BY DEF Slots

\* A new group is empty and behind the others.
LEMMA Grows ==
  ASSUME TypeOK, NEW t \in Threads, NewGroup(t)
  PROVE  /\ slot' \in [Threads -> Seq(Groups)]
         /\ hint' \in [Threads -> Seq(1 .. Width)]
         /\ Len(slot'[t]) = Len(slot[t]) + 1 /\ Len(hint'[t]) = Len(hint[t]) + 1
         /\ \A r \in Slots(t) : r \in Slots(t)' /\ Content(t, r)' = Content(t, r)
         /\ \A r \in Slots(t)' : r \in Slots(t) \/ Content(t, r)' = Null
         /\ \A u \in Threads : u # t => slot'[u] = slot[u] /\ hint'[u] = hint[u]
<1> DEFINE a == [i \in 1 .. Width |-> Null]
<1>1. /\ slot' = [slot EXCEPT ![t] = Append(slot[t], a)]
      /\ \E h \in 1 .. Width : hint' = [hint EXCEPT ![t] = Append(hint[t], h)]
  <2>1. PICK h \in IF slot[t] = <<>> THEN 1 .. Width ELSE {1} :
          hint' = [hint EXCEPT ![t] = Append(hint[t], h)]
    BY Zenon DEF NewGroup
  <2>2. h \in 1 .. Width  BY SlotsAssumption
  <2>3. QED  BY <2>1, <2>2, Zenon DEF NewGroup
<1>2. a \in Groups /\ \A i \in 1 .. Width : a[i] = Null  BY DEF Groups, Word, Pointer
<1> HIDE DEF a
<1>3. slot \in [Threads -> Seq(Groups)] /\ slot[t] \in Seq(Groups)
      /\ hint \in [Threads -> Seq(1 .. Width)] /\ hint[t] \in Seq(1 .. Width)
  BY DEF TypeOK
<1>4. /\ slot' \in [Threads -> Seq(Groups)] /\ slot'[t] = Append(slot[t], a)
      /\ \A u \in Threads : u # t => slot'[u] = slot[u]
  BY <1>1, <1>2, <1>3
<1>5. /\ Len(slot'[t]) = Len(slot[t]) + 1 /\ slot'[t][Len(slot[t]) + 1] = a
      /\ \A g \in 1 .. Len(slot[t]) : slot'[t][g] = slot[t][g]
  BY <1>3, <1>4
<1>6. PICK h \in 1 .. Width : hint' = [hint EXCEPT ![t] = Append(hint[t], h)]  BY <1>1, Zenon
<1>7. /\ hint' \in [Threads -> Seq(1 .. Width)] /\ Len(hint'[t]) = Len(hint[t]) + 1
      /\ \A u \in Threads : u # t => hint'[u] = hint[u]
  BY <1>3, <1>6
<1>8. ASSUME NEW r \in Slots(t)  PROVE r \in Slots(t)' /\ Content(t, r)' = Content(t, r)
  <2>1. PICK f \in 1 .. Len(slot[t]), j \in 1 .. Width : r = <<f, j>>  BY DEF Slots
  <2>2. Len(slot[t]) \in Nat  BY <1>3
  <2>3. QED  BY <1>5, <2>1, <2>2 DEF Slots, Content
<1>9. ASSUME NEW r \in Slots(t)'  PROVE r \in Slots(t) \/ Content(t, r)' = Null
  <2>1. PICK f \in 1 .. Len(slot'[t]), j \in 1 .. Width : r = <<f, j>>  BY DEF Slots
  <2>2. f \in 1 .. Len(slot[t]) \/ f = Len(slot[t]) + 1
    <3>1. Len(slot[t]) \in Nat  BY <1>3
    <3>2. QED  BY <1>5, <2>1, <3>1
  <2>3. CASE f \in 1 .. Len(slot[t])  BY <2>1, <2>3 DEF Slots
  <2>4. CASE f = Len(slot[t]) + 1  BY <1>2, <1>5, <2>1, <2>4 DEF Content
  <2>5. QED  BY <2>2, <2>3, <2>4
<1>10. QED  BY <1>4, <1>5, <1>7, <1>8, <1>9

\* Locals of which one is set are locals.
LEMMA SetLocal ==
  ASSUME NEW l \in Locals
  PROVE  /\ \A v \in {"idle"} \cup Working \cup Scans : [l EXCEPT !.pc = v] \in Locals
         /\ \A v \in Names \cup {Null} : [l EXCEPT !.x = v] \in Locals /\ [l EXCEPT !.y = v] \in Locals
         /\ \A v \in Pointer : [l EXCEPT !.p = v] \in Locals
         /\ \A v \in {"end", "copy", "again"} : [l EXCEPT !.then = v] \in Locals
         /\ \A v \in Threads \cup {Null} : [l EXCEPT !.u = v] \in Locals
         /\ \A v \in {<<>>} \cup (Nat \X Nat) : [l EXCEPT !.at = v] \in Locals
         /\ \A v \in SUBSET Threads : [l EXCEPT !.unseen = v] \in Locals
  BY DEF Locals

\* What becomes of the locals of the thread, ...
LEMMA LocStep ==
  ASSUME Inv, NEW t \in Threads, Step(t)
  PROVE  loc' = loc \/ \E l \in Locals : Become(t, l)
<1>0. /\ "end" \in {"end", "again"} /\ "again" \in {"end", "again"}
      /\ \A v \in {"end", "again"} : v \in {"end", "copy", "again"}
      /\ "copy" \in {"end", "copy", "again"}
      /\ \A v \in {"assign", "copy", "reflect", "again", "chain", "scan"} :
            v \in {"idle"} \cup Working \cup Scans
      /\ \A v \in Names : v \in Names \cup {Null}
  BY DEF Working, Scans
<1>1. Idle \in Locals  BY DEF Idle, Locals, Pointer
<1>2. /\ loc[t] \in Locals /\ CallOK(t, loc[t]) /\ ScanOK(t, loc[t]) /\ target \in Pointer
      /\ hp[t] \in [Names -> HazardPtrs] /\ taken[t] \subseteq Objects
      /\ \A u \in Threads : Len(slot[u]) \in Nat
  <2>1. CallOK(t, loc[t]) /\ ScanOK(t, loc[t])  BY Zenon DEF Inv, LocalsOK
  <2>2. TypeOK  BY DEF Inv
  <2>3. \A u \in Threads : Len(slot[u]) \in Nat  BY <2>2 DEF TypeOK
  <2>4. QED  BY <2>1, <2>2, <2>3 DEF TypeOK
<1>3. CASE AssignSlot(t)
  <2>1. Become(t, IF loc[t].then = "end" THEN Idle ELSE [loc[t] EXCEPT !.pc = loc[t].then])
        /\ loc[t].pc = "assign"
    BY <1>3, Zenon DEF AssignSlot, At
  <2>2. loc[t].then = "end" \/ loc[t].then = "copy"  BY <1>2, <2>1 DEF CallOK
  <2>3. [loc[t] EXCEPT !.pc = "copy"] \in Locals  BY <1>2 DEF Locals, Working
  <2>4. QED  BY <1>1, <2>1, <2>2, <2>3
<1>4. CASE Reflect(t)
  <2>1. Become(t, IF loc[t].then = "end" THEN Idle ELSE [loc[t] EXCEPT !.pc = loc[t].then])
        /\ loc[t].pc = "reflect"
    BY <1>4, Zenon DEF Reflect, At
  <2>2. loc[t].then = "end" \/ loc[t].then = "again"  BY <1>2, <2>1 DEF CallOK
  <2>3. [loc[t] EXCEPT !.pc = "again"] \in Locals  BY <1>2 DEF Locals, Working
  <2>4. QED  BY <1>1, <2>1, <2>2, <2>3
<1>5. CASE Construct(t)
  <2>1. PICK x \in Names, p \in {target, Null} :
          Become(t, [Idle EXCEPT !.pc = "assign", !.x = x, !.p = p])
    BY <1>5, Zenon DEF Construct
  <2>2. p \in Pointer  BY <1>2, <2>1 DEF Pointer
  <2>3. [Idle EXCEPT !.pc = "assign", !.x = x, !.p = p] \in Locals
    BY SetLocal, <1>0, <1>1, <2>1, <2>2, Zenon
  <2>4. QED  BY <2>1, <2>3
<1>6. CASE CopyConstruct(t)
  <2>1. PICK x, y \in Names :
          Become(t, [Idle EXCEPT !.pc = "assign", !.x = x, !.y = y, !.p = hp[t][y].p])
    BY <1>6, Zenon DEF CopyConstruct
  <2>2. hp[t][y].p \in Pointer  BY <1>2, <2>1 DEF HazardPtrs
  <2>3. [Idle EXCEPT !.pc = "assign", !.x = x, !.y = y, !.p = hp[t][y].p] \in Locals
    BY SetLocal, <1>0, <1>1, <2>1, <2>2, Zenon
  <2>4. QED  BY <2>1, <2>3
<1>7. CASE CopyAssign(t)
  <2>1. PICK x, y \in Names :
          Become(t, [Idle EXCEPT !.pc = IF Built(t, x) THEN "copy" ELSE "assign",
                     !.x = x, !.y = y, !.then = "copy"])
    BY <1>7, Zenon DEF CopyAssign
  <2>2. [Idle EXCEPT !.pc = IF Built(t, x) THEN "copy" ELSE "assign",
                     !.x = x, !.y = y, !.then = "copy"] \in Locals
    <3>1. (IF Built(t, x) THEN "copy" ELSE "assign") \in {"idle"} \cup Working \cup Scans
      BY <1>0
    <3>2. QED  BY SetLocal, <1>0, <1>1, <2>1, <3>1, Zenon
  <2>3. QED  BY <2>1, <2>2
<1>8. CASE Check(t)
  <2>1. PICK o \in taken[t] : Become(t, [Idle EXCEPT !.pc = "chain", !.p = o, !.unseen = Threads])
    BY <1>8, Zenon DEF Check
  <2>2. [Idle EXCEPT !.pc = "chain", !.p = o, !.unseen = Threads] \in Locals
    <3>1. o \in Pointer /\ Threads \in SUBSET Threads  BY <1>2, <2>1 DEF Pointer
    <3>2. QED  BY SetLocal, <1>0, <1>1, <3>1, Zenon
  <2>3. QED  BY <2>1, <2>2
<1>9. CASE ScanThread(t)
  <2>1. PICK u \in loc[t].unseen :
          Become(t, [loc[t] EXCEPT !.pc = "scan", !.u = u, !.at = <<1, 1>>,
                                   !.unseen = loc[t].unseen \ {u}])
    BY <1>9, Zenon DEF ScanThread
  <2>2. <<1, 1>> \in Nat \X Nat  OBVIOUS
  <2>3. [loc[t] EXCEPT !.pc = "scan", !.u = u, !.at = <<1, 1>>, !.unseen = loc[t].unseen \ {u}] \in Locals
    <3>1. loc[t].unseen \ {u} \in SUBSET Threads /\ u \in Threads \cup {Null}
      BY <1>2, <2>1 DEF Locals
    <3>2. <<1, 1>> \in {<<>>} \cup (Nat \X Nat)  BY <2>2
    <3>3. QED  BY SetLocal, <1>0, <1>2, <3>1, <3>2, Zenon
  <2>4. QED  BY <2>1, <2>3
<1>10. CASE ScanSlot(t)
  <2> DEFINE a == <<loc[t].at[1], loc[t].at[2] + 1>>
  <2>1. Become(t, Idle) \/ Become(t, [loc[t] EXCEPT !.at = a])
    BY <1>10, Zenon DEF ScanSlot
  <2>2. loc[t].u \in Threads /\ loc[t].at[1] \in Nat /\ loc[t].at[2] \in Nat
    <3>1. loc[t].pc = "scan"  BY <1>10, Zenon DEF ScanSlot, At
    <3>2. loc[t].u \in Threads /\ loc[t].at[1] \in 1 .. Len(slot[loc[t].u])
          /\ loc[t].at[2] \in 1 .. Width + 1
      BY <1>2, <3>1 DEF ScanOK
    <3>3. QED  BY <1>2, <3>2, SlotsAssumption
  <2>3. a \in Nat \X Nat  BY <2>2
  <2> HIDE DEF a
  <2>4. [loc[t] EXCEPT !.at = a] \in Locals  BY <1>2, <2>3 DEF Locals
  <2>5. QED  BY <1>1, <2>1, <2>4
<1>11. CASE ScanNext(t)
  <2> DEFINE a == <<loc[t].at[1] + 1, 1>>
  <2>1. Become(t, [loc[t] EXCEPT !.pc = "chain"]) \/ Become(t, [loc[t] EXCEPT !.at = a])
    BY <1>11, Zenon DEF ScanNext
  <2>2. loc[t].u \in Threads /\ loc[t].at[1] \in Nat
    <3>1. loc[t].pc = "scan"  BY <1>11, Zenon DEF ScanNext, At
    <3>2. loc[t].u \in Threads /\ loc[t].at[1] \in 1 .. Len(slot[loc[t].u])
      BY <1>2, <3>1 DEF ScanOK
    <3>3. QED  BY <1>2, <3>2
  <2>3. a \in Nat \X Nat  BY <2>2
  <2> HIDE DEF a
  <2>4. [loc[t] EXCEPT !.at = a] \in Locals /\ [loc[t] EXCEPT !.pc = "chain"] \in Locals
    BY <1>2, <2>3 DEF Locals, Scans
  <2>5. QED  BY <2>1, <2>4
<1>12. ASSUME NEW x \in Names, NEW then \in {"end", "again"},
              \/ Become(t, [Idle EXCEPT !.pc = "reflect", !.x = x])
              \/ Become(t, [Idle EXCEPT !.pc = "reflect", !.x = x, !.then = then])
       PROVE  \E l \in Locals : Become(t, l)
  <2>1. /\ [Idle EXCEPT !.pc = "reflect", !.x = x] \in Locals
        /\ [Idle EXCEPT !.pc = "reflect", !.x = x, !.then = then] \in Locals
    BY SetLocal, <1>0, <1>1, <1>12, Zenon
  <2>2. QED  BY <1>12, <2>1
<1>13. CASE CopyStore(t) \/ Delete(t)
  BY <1>1, <1>13, Zenon DEF CopyStore, Delete
<1>14. CASE Reuse(t) \/ VerifyExchange(t)
  <2>1. loc' = loc \/ \E x \in Names : Become(t, [Idle EXCEPT !.pc = "reflect", !.x = x])
    BY <1>14, Zenon DEF Reuse, VerifyExchange
  <2>2. QED  BY <2>1, <1>0, <1>12, Zenon
<1>15. ASSUME NEW x \in Names, NEW hold, Succeeds(t, x, hold)
       PROVE  loc' = loc \/ \E l \in Locals : Become(t, l)
  <2>1. loc' = loc \/ Become(t, [Idle EXCEPT !.pc = "reflect", !.x = x])
    BY <1>15, Zenon DEF Succeeds
  <2>2. QED  BY <2>1, <1>0, <1>12, Zenon
<1>16. ASSUME NEW x \in Names, NEW weak, NEW then \in {"end", "again"}, Fails(t, x, weak, then)
       PROVE  \E l \in Locals : Become(t, l)
  BY <1>16, <1>12, Zenon DEF Fails
<1>17. CASE Again(t)
  <2>1. loc[t].x \in Names  BY <1>2, <1>17 DEF Again, At, CallOK, Working
  <2>2. QED  BY <1>0, <1>1, <1>16, <1>17, <2>1, Zenon DEF Again
<1>18. CASE CompareExchange(t) \/ CompareExchangeConsuming(t) \/ WeakToVerify1(t) \/ StrongToVerify1(t)
              \/ WeakToVerify2(t) \/ StrongToVerify2(t)
  <2>1. \/ loc' = loc
        \/ \E x \in Names : \/ Succeeds(t, x, FALSE) \/ Succeeds(t, x, TRUE)
                            \/ Fails(t, x, Weak, "again") \/ Fails(t, x, Weak, "end")
                            \/ Fails(t, x, FALSE, "end")
    BY <1>18, Zenon DEF CompareExchange, CompareExchangeConsuming, WeakToVerify1, StrongToVerify1,
       WeakToVerify2, StrongToVerify2, ToVerify1, ToVerify2
  <2>2. QED  BY <1>0, <1>15, <1>16, <2>1, Zenon
<1>19. CASE NewGroup(t) \/ Destroy(t) \/ Reset(t) \/ MoveConstruct(t) \/ Swap(t) \/ Exchange(t)
  BY <1>19, Zenon DEF NewGroup, Destroy, Reset, MoveConstruct, Swap, Exchange
<1>20. QED
  BY <1>3, <1>4, <1>5, <1>6, <1>7, <1>8, <1>9, <1>10, <1>11, <1>13, <1>14, <1>17, <1>18, <1>19, Zenon
     DEF Step

\* ... of the objects, ...
LEMMA ObjectStep ==
  ASSUME Inv, NEW t \in Threads, Step(t)
  PROVE  \/ UNCHANGED <<target, live, taken>>
         \/ (\E d \in New : Replace(t, d)) /\ loc[t].pc \notin Scans
         \/ Delete(t)
<1>1. CASE Exchange(t) \/ CompareExchange(t) \/ CompareExchangeConsuming(t) \/ WeakToVerify1(t)
           \/ StrongToVerify1(t) \/ WeakToVerify2(t) \/ StrongToVerify2(t)
  <2>1. UNCHANGED <<target, live, taken>> \/ \E d \in New : Replace(t, d)
    BY <1>1, Zenon DEF Exchange, CompareExchange, CompareExchangeConsuming, WeakToVerify1,
       StrongToVerify1, WeakToVerify2, StrongToVerify2, ToVerify1, ToVerify2, Succeeds, Fails
  <2>2. loc[t].pc = "idle"
    BY <1>1, Zenon DEF Exchange, CompareExchange, CompareExchangeConsuming, WeakToVerify1,
       StrongToVerify1, WeakToVerify2, StrongToVerify2, ToVerify1, ToVerify2, Call, At
  <2>3. loc[t].pc \notin Scans  BY <2>2 DEF Scans
  <2>4. QED  BY <2>1, <2>3, Zenon
<1>2. CASE Delete(t)  BY <1>2
<1>3. QED
  BY <1>1, <1>2, Zenon DEF Step, AssignSlot, NewGroup, Construct, Destroy, Reset, Reflect,
     CopyConstruct, CopyAssign, CopyStore, MoveConstruct, Swap, Reuse, VerifyExchange, Again, Fails,
     Check, ScanThread, ScanSlot, ScanNext

\* ... and of the calls to be made.
LEMMA CallsStep ==
  ASSUME Inv, NEW t \in Threads, Step(t)
  PROVE  calls' = calls \/ (calls[t] > 0 /\ calls' = [calls EXCEPT ![t] = @ - 1])
  BY Zenon DEF Step, Call, AssignSlot, NewGroup, Construct, Destroy, Reset, Reflect,
     CopyConstruct, CopyAssign, CopyStore, MoveConstruct, Swap, Reuse, VerifyExchange, Again, Exchange,
     CompareExchange, CompareExchangeConsuming, WeakToVerify1, StrongToVerify1, WeakToVerify2,
     StrongToVerify2, ToVerify1, ToVerify2, Check, ScanThread, ScanSlot, ScanNext, Delete

\* The types are kept.
LEMMA TypesStep ==
  ASSUME Inv, NEW t \in Threads, Step(t)
  PROVE  TypeOK'
<1>0. TypeOK  BY DEF Inv
<1>1. /\ slot' \in [Threads -> Seq(Groups)]
      /\ hint' \in [Threads -> Seq(1 .. Width)]
      /\ \A u \in Threads : Len(hint'[u]) = Len(slot'[u])
      /\ hp' \in [Threads -> [Names -> HazardPtrs]]
  <2>1. CASE Quiet(t)  BY <1>0, <2>1 DEF Quiet, TypeOK
  <2>2. CASE Handled(t)
    <3>1. PICK x \in Names, h \in HazardPtrs : UNCHANGED <<slot, hint>> /\ Set(t, x, h)
      BY <2>2, Zenon DEF Handled
    <3>2. hp' \in [Threads -> [Names -> HazardPtrs]]  BY <1>0, <3>1, Sets, Zenon
    <3>3. slot' = slot /\ hint' = hint  BY <3>1
    <3>4. QED  BY <1>0, <3>2, <3>3 DEF TypeOK
  <2>3. CASE Moved(t)
    <3>1. PICK x, y \in Names, h \in HazardPtrs :
            UNCHANGED <<slot, hint>> /\ hp' = [hp EXCEPT ![t][x] = hp[t][y], ![t][y] = h]
      BY <2>3, Zenon DEF Moved
    <3>2. hp' \in [Threads -> [Names -> HazardPtrs]]  BY <1>0, <3>1, Moves, Zenon
    <3>3. slot' = slot /\ hint' = hint  BY <3>1
    <3>4. QED  BY <1>0, <3>2, <3>3 DEF TypeOK
  <2>4. CASE Stored(t)
    <3>1. PICK x \in Names, s \in Slots(t), h \in HazardPtrs, v \in Word :
            /\ Put(t, s, v) /\ Set(t, x, h)
            /\ hint' \in [Threads -> Seq(1 .. Width)]
            /\ \A u \in Threads : Len(hint'[u]) = Len(hint[u])
      BY <2>4, Zenon DEF Stored
    <3>2. hp' \in [Threads -> [Names -> HazardPtrs]]  BY <1>0, <3>1, Sets, Zenon
    <3>3. /\ slot' \in [Threads -> Seq(Groups)] /\ Len(slot'[t]) = Len(slot[t])
          /\ \A u \in Threads : u # t => slot'[u] = slot[u]
      BY <1>0, <3>1, Puts, Zenon
    <3>4. \A u \in Threads : Len(hint'[u]) = Len(slot'[u])
      <4>1. \A u \in Threads : Len(hint'[u]) = Len(slot[u])  BY <1>0, <3>1 DEF TypeOK
      <4>2. QED  BY <3>3, <4>1
    <3>5. QED  BY <3>1, <3>2, <3>3, <3>4
  <2>5. CASE NewGroup(t)
    <3>1. /\ slot' \in [Threads -> Seq(Groups)]
          /\ hint' \in [Threads -> Seq(1 .. Width)]
          /\ Len(slot'[t]) = Len(slot[t]) + 1 /\ Len(hint'[t]) = Len(hint[t]) + 1
          /\ \A u \in Threads : u # t => slot'[u] = slot[u] /\ hint'[u] = hint[u]
      BY <1>0, <2>5, Grows, Zenon
    <3>2. hp' = hp  BY <2>5 DEF NewGroup
    <3>3. \A u \in Threads : Len(hint'[u]) = Len(slot'[u])
      <4>1. \A u \in Threads : Len(hint[u]) = Len(slot[u])  BY <1>0 DEF TypeOK
      <4>2. ASSUME NEW u \in Threads  PROVE Len(hint'[u]) = Len(slot'[u])
        <5>1. CASE u = t
          <6>1. Len(hint[t]) = Len(slot[t])  BY <4>1
          <6>2. QED  BY <3>1, <5>1, <6>1
        <5>2. CASE u # t
          <6>1. slot'[u] = slot[u] /\ hint'[u] = hint[u]  BY <3>1, <5>2
          <6>2. QED  BY <4>1, <6>1
        <5>3. QED  BY <5>1, <5>2
      <4>3. QED  BY <4>2
    <3>4. QED  BY <1>0, <3>1, <3>2, <3>3 DEF TypeOK
  <2>6. QED  BY <2>1, <2>2, <2>3, <2>4, <2>5, OneForm, Zenon
<1>2. loc' \in [Threads -> Locals]
  <2>1. loc \in [Threads -> Locals]  BY <1>0 DEF TypeOK
  <2>2. CASE loc' = loc  BY <2>1, <2>2
  <2>3. ASSUME NEW l \in Locals, Become(t, l)  PROVE loc' \in [Threads -> Locals]
    BY <2>1, <2>3 DEF Become
  <2>4. QED  BY <2>2, <2>3, LocStep, Zenon
<1>3. calls' \in [Threads -> Nat]
  <2>1. calls \in [Threads -> Nat]  BY <1>0 DEF TypeOK
  <2>2. CASE calls' = calls  BY <2>1, <2>2
  <2>3. CASE calls[t] > 0 /\ calls' = [calls EXCEPT ![t] = calls[t] - 1]  BY <2>1, <2>3
  <2>4. QED  BY <2>2, <2>3, CallsStep, Zenon
<1>4. target' \in Pointer /\ live' \subseteq Objects /\ taken' \in [Threads -> SUBSET Objects]
  <2>1. CASE UNCHANGED <<target, live, taken>>  BY <1>0, <2>1 DEF TypeOK
  <2>2. CASE \E d \in New : Replace(t, d)  BY <1>0, <2>2 DEF TypeOK, New, Replace, Pointer
  <2>3. CASE Delete(t)  BY <1>0, <2>3 DEF TypeOK, Delete
  <2>4. QED  BY <2>1, <2>2, <2>3, ObjectStep, Zenon
<1>5. QED  BY <1>1, <1>2, <1>3, <1>4 DEF TypeOK

-----------------------------------------------------------------------------
(* Who owns which slot.                                                    *)

\* Owned, Filled and Announced for one thread, which only its own steps touch.
OwnedBy(t) ==
  /\ \A x \in Names : Built(t, x) => hp[t][x].os \in Slots(t)
  /\ \A x, y \in Names : Built(t, x) /\ hp[t][x].os = hp[t][y].os => x = y
FilledBy(t) ==
  \A s \in Slots(t) : Content(t, s) # Null <=> \E x \in Names : hp[t][x].os = s
AnnouncedBy(t) ==
  \A x \in Names :
    Usable(t, x) /\ ~(At(t, "reflect") /\ loc[t].x = x)
      => Content(t, hp[t][x].os) = Mark(hp[t][x].p)

\* A step leaves the slots and the hazard_ptr of the other threads alone.
LEMMA OthersAlone ==
  ASSUME Inv, NEW t \in Threads, Step(t), NEW u \in Threads, u # t
  PROVE  slot'[u] = slot[u] /\ hp'[u] = hp[u] /\ loc'[u] = loc[u]
<1>1. TypeOK  BY DEF Inv
<1>2. loc'[u] = loc[u]  BY <1>1, LocStep, Becomes, Zenon
<1>3. CASE Quiet(t)  BY <1>2, <1>3 DEF Quiet
<1>4. CASE Handled(t)
  <2>1. PICK x \in Names, h \in HazardPtrs : UNCHANGED <<slot, hint>> /\ Set(t, x, h)
    BY <1>4, Zenon DEF Handled
  <2>2. hp'[u] = hp[u]  BY <1>1, <2>1, Sets, Zenon
  <2>3. QED  BY <1>2, <2>1, <2>2
<1>5. CASE Moved(t)
  <2>1. PICK x, y \in Names, h \in HazardPtrs :
          UNCHANGED <<slot, hint>> /\ hp' = [hp EXCEPT ![t][x] = hp[t][y], ![t][y] = h]
    BY <1>5, Zenon DEF Moved
  <2>2. hp'[u] = hp[u]  BY <1>1, <2>1, Moves, Zenon
  <2>3. QED  BY <1>2, <2>1, <2>2
<1>6. CASE Stored(t)
  <2>1. PICK x \in Names, s \in Slots(t), h \in HazardPtrs, v \in Word : Put(t, s, v) /\ Set(t, x, h)
    BY <1>6, Zenon DEF Stored
  <2>2. hp'[u] = hp[u]  BY <1>1, <2>1, Sets, Zenon
  <2>3. slot'[u] = slot[u]  BY <1>1, <2>1, Puts, Zenon
  <2>4. QED  BY <1>2, <2>2, <2>3
<1>7. CASE NewGroup(t)
  <2>1. slot'[u] = slot[u]  BY <1>1, <1>7, Grows, Zenon
  <2>2. hp' = hp  BY <1>7, Zenon DEF NewGroup
  <2>3. QED  BY <1>2, <2>1, <2>2
<1>8. QED  BY <1>3, <1>4, <1>5, <1>6, <1>7, OneForm, Zenon

\* The owner of a slot is the hazard_ptr that got it last, and the only one.
LEMMA OwnedStep ==
  ASSUME Inv, NEW t \in Threads, Step(t)
  PROVE  OwnedBy(t)'
<1>1. TypeOK /\ OwnedBy(t) /\ FilledBy(t)  BY Zenon DEF Inv, Owned, OwnedBy, Filled, FilledBy
<1>2. CASE Quiet(t)  BY <1>1, <1>2 DEF Quiet, OwnedBy, Built, Slots
<1>3. CASE Handled(t)
  <2>1. PICK x \in Names, h \in HazardPtrs :
          UNCHANGED <<slot, hint>> /\ Set(t, x, h) /\ h.os = hp[t][x].os
    BY <1>3, Zenon DEF Handled
  <2>2. hp'[t][x] = h /\ \A y \in Names : y # x => hp'[t][y] = hp[t][y]
    BY <1>1, <2>1, Sets, Zenon
  <2>3. \A y \in Names : hp'[t][y].os = hp[t][y].os  BY <2>1, <2>2
  <2>4. slot' = slot  BY <2>1
  <2>5. QED  BY <1>1, <2>3, <2>4 DEF OwnedBy, Built, Slots
<1>4. CASE Moved(t)
  <2>1. PICK x, y \in Names, h \in HazardPtrs :
          /\ UNCHANGED <<slot, hint>> /\ hp' = [hp EXCEPT ![t][x] = hp[t][y], ![t][y] = h]
          /\ Usable(t, y) /\ ((h = Gone /\ ~Built(t, x)) \/ (h = hp[t][x] /\ Usable(t, x)))
    BY <1>4, Zenon DEF Moved
  <2>2. \A z \in Names : hp'[t][z] = IF z = y THEN h ELSE IF z = x THEN hp[t][y] ELSE hp[t][z]
    <3>1. hp' = [hp EXCEPT ![t][x] = hp[t][y], ![t][y] = h]  BY <2>1
    <3>2. x \in Names /\ y \in Names /\ h \in HazardPtrs  BY <2>1
    <3>3. QED  BY <1>1, <3>1, <3>2, Moves, Zenon
  <2>3. slot' = slot  BY <2>1
  <2>4. h.os = hp[t][x].os  BY <2>1 DEF Gone, Built
  <2>5. QED  BY <1>1, <2>2, <2>3, <2>4 DEF OwnedBy, Built, Slots
<1>5. CASE Stored(t)
  <2>1. PICK x \in Names, s \in Slots(t), h \in HazardPtrs, v \in Word :
          /\ Put(t, s, v) /\ Set(t, x, h)
          /\ hp[t][x].os = s \/ (~Built(t, x) /\ Content(t, s) = Null)
          /\ h.os = s \/ h = Gone
    BY <1>5, Zenon DEF Stored
  <2>2. hp'[t][x] = h /\ \A y \in Names : y # x => hp'[t][y] = hp[t][y]
    BY <1>1, <2>1, Sets, Zenon
  <2>3. Slots(t)' = Slots(t)  BY <1>1, <2>1, Puts, SameSlots, Zenon
  <2>4. ASSUME NEW y \in Names, y # x, hp[t][y].os = s  PROVE FALSE
    <3>1. s # <<>>  BY <2>1, SlotIsPair, Zenon
    <3>2. CASE hp[t][x].os = s  BY <1>1, <2>4, <3>1, <3>2 DEF OwnedBy, Built
    <3>3. CASE Content(t, s) = Null  BY <1>1, <2>1, <2>4, <3>3, Zenon DEF FilledBy
    <3>4. QED  BY <2>1, <3>2, <3>3
  <2>5. h.os = s \/ h.os = <<>>  BY <2>1 DEF Gone
  <2>6. QED  BY <1>1, <2>2, <2>3, <2>4, <2>5 DEF OwnedBy, Built
<1>6. CASE NewGroup(t)
  <2>1. \A r \in Slots(t) : r \in Slots(t)'  BY <1>1, <1>6, Grows, Zenon
  <2>2. hp' = hp  BY <1>6, Zenon DEF NewGroup
  <2>3. QED  BY <1>1, <2>1, <2>2 DEF OwnedBy, Built
<1>7. QED  BY <1>2, <1>3, <1>4, <1>5, <1>6, OneForm, Zenon

\* A slot has content as long as it has an owner.
LEMMA FilledStep ==
  ASSUME Inv, NEW t \in Threads, Step(t)
  PROVE  FilledBy(t)'
<1>1. TypeOK /\ OwnedBy(t) /\ FilledBy(t)  BY Zenon DEF Inv, Owned, OwnedBy, Filled, FilledBy
<1>2. CASE Quiet(t)  BY <1>1, <1>2 DEF Quiet, FilledBy, Content, Slots
<1>3. CASE Handled(t)
  <2>1. PICK x \in Names, h \in HazardPtrs :
          UNCHANGED <<slot, hint>> /\ Set(t, x, h) /\ h.os = hp[t][x].os
    BY <1>3, Zenon DEF Handled
  <2>2. hp'[t][x] = h /\ \A y \in Names : y # x => hp'[t][y] = hp[t][y]
    BY <1>1, <2>1, Sets, Zenon
  <2>3. \A y \in Names : hp'[t][y].os = hp[t][y].os  BY <2>1, <2>2
  <2>4. slot' = slot  BY <2>1
  <2>5. QED  BY <1>1, <2>3, <2>4 DEF FilledBy, Content, Slots
<1>4. CASE Moved(t)
  <2>1. PICK x, y \in Names, h \in HazardPtrs :
          /\ UNCHANGED <<slot, hint>> /\ hp' = [hp EXCEPT ![t][x] = hp[t][y], ![t][y] = h]
          /\ Usable(t, y) /\ ((h = Gone /\ ~Built(t, x)) \/ (h = hp[t][x] /\ Usable(t, x)))
    BY <1>4, Zenon DEF Moved
  <2>2. \A z \in Names : hp'[t][z] = IF z = y THEN h ELSE IF z = x THEN hp[t][y] ELSE hp[t][z]
    <3>1. hp' = [hp EXCEPT ![t][x] = hp[t][y], ![t][y] = h]  BY <2>1
    <3>2. x \in Names /\ y \in Names /\ h \in HazardPtrs  BY <2>1
    <3>3. QED  BY <1>1, <3>1, <3>2, Moves, Zenon
  <2>3. slot' = slot  BY <2>1
  <2>4. h.os = hp[t][x].os  BY <2>1 DEF Gone, Built
  <2>5. ASSUME NEW s
        PROVE  (\E z \in Names : hp'[t][z].os = s) <=> \E z \in Names : hp[t][z].os = s
    <3>1. ASSUME NEW z \in Names, hp'[t][z].os = s  PROVE \E w \in Names : hp[t][w].os = s
      <4>1. hp'[t][z].os = hp[t][z].os \/ hp'[t][z].os = hp[t][x].os \/ hp'[t][z].os = hp[t][y].os
        BY <2>2, <2>4
      <4>2. QED  BY <3>1, <4>1
    <3>2. ASSUME NEW z \in Names, hp[t][z].os = s  PROVE \E w \in Names : hp'[t][w].os = s
      <4>1. hp'[t][z].os = hp[t][z].os \/ hp'[t][x].os = hp[t][z].os \/ hp'[t][y].os = hp[t][z].os
        BY <2>2, <2>4
      <4>2. QED  BY <3>2, <4>1
    <3>3. QED  BY <3>1, <3>2
  <2>6. QED  BY <1>1, <2>3, <2>5 DEF FilledBy, Content, Slots
<1>5. CASE Stored(t)
  <2>1. PICK x \in Names, s \in Slots(t), h \in HazardPtrs, v \in Word :
          /\ Put(t, s, v) /\ Set(t, x, h)
          /\ hp[t][x].os = s \/ (~Built(t, x) /\ Content(t, s) = Null)
          /\ (h.os = s /\ v = Mark(h.p)) \/ (h = Gone /\ v = Null /\ hp[t][x].os = s)
    BY <1>5, Zenon DEF Stored
  <2>2. hp'[t][x] = h /\ \A y \in Names : y # x => hp'[t][y] = hp[t][y]
    BY <1>1, <2>1, Sets, Zenon
  <2>3. /\ Slots(t)' = Slots(t) /\ Content(t, s)' = v
        /\ \A r \in Slots(t) : r # s => Content(t, r)' = Content(t, r)
    BY <1>1, <2>1, Puts, SameSlots, Zenon
  <2>4. ASSUME NEW y \in Names, y # x, hp[t][y].os = s  PROVE FALSE
    <3>1. s # <<>>  BY <2>1, SlotIsPair, Zenon
    <3>2. CASE hp[t][x].os = s  BY <1>1, <2>4, <3>1, <3>2 DEF OwnedBy, Built
    <3>3. CASE Content(t, s) = Null  BY <1>1, <2>1, <2>4, <3>3, Zenon DEF FilledBy
    <3>4. QED  BY <2>1, <3>2, <3>3
  <2>5. (v # Null <=> h.os = s) /\ h.os \in {s, <<>>} /\ s # <<>>
    <3>1. s # <<>>  BY <2>1, SlotIsPair, Zenon
    <3>2. CASE h.os = s /\ v = Mark(h.p)  BY <3>1, <3>2, SlotsAssumption DEF Mark
    <3>3. CASE h = Gone /\ v = Null  BY <3>1, <3>3 DEF Gone
    <3>4. QED  BY <2>1, <3>2, <3>3
  <2>6. ASSUME NEW r \in Slots(t)
        PROVE  Content(t, r)' # Null <=> \E y \in Names : hp'[t][y].os = r
    <3>0. r # <<>>  BY <2>6, SlotIsPair, Zenon
    <3>1. CASE r = s
      <4>1. (\E y \in Names : hp'[t][y].os = s) <=> h.os = s  BY <2>1, <2>2, <2>4
      <4>2. QED  BY <2>3, <2>5, <3>1, <4>1
    <3>2. CASE r # s
      <4>1. Content(t, r)' = Content(t, r)  BY <2>3, <3>2
      <4>2. hp[t][x].os # r /\ hp'[t][x].os # r
        BY <2>1, <2>2, <2>5, <3>0, <3>2 DEF Built
      <4>3. (\E y \in Names : hp'[t][y].os = r) <=> \E y \in Names : hp[t][y].os = r
        BY <2>2, <4>2
      <4>4. QED  BY <1>1, <4>1, <4>3 DEF FilledBy
    <3>3. QED  BY <3>1, <3>2
  <2>7. QED  BY <2>3, <2>6 DEF FilledBy
<1>6. CASE NewGroup(t)
  <2>1. /\ \A r \in Slots(t) : r \in Slots(t)' /\ Content(t, r)' = Content(t, r)
        /\ \A r \in Slots(t)' : r \in Slots(t) \/ Content(t, r)' = Null
    BY <1>1, <1>6, Grows, Zenon
  <2>2. hp' = hp  BY <1>6, Zenon DEF NewGroup
  <2>3. ASSUME NEW r \in Slots(t)', r \notin Slots(t), NEW y \in Names, hp[t][y].os = r
        PROVE  FALSE
    <3>1. r # <<>>
      <4>1. PICK f \in 1 .. Len(slot'[t]), j \in 1 .. Width : r = <<f, j>>  BY <2>3 DEF Slots
      <4>2. QED  BY <4>1
    <3>2. QED  BY <1>1, <2>3, <3>1 DEF OwnedBy, Built
  <2>4. QED  BY <1>1, <2>1, <2>2, <2>3 DEF FilledBy
<1>7. QED  BY <1>2, <1>3, <1>4, <1>5, <1>6, OneForm, Zenon

\* What a slot contains is what its owner announces.
LEMMA AnnouncedStep ==
  ASSUME Inv, NEW t \in Threads, Step(t)
  PROVE  AnnouncedBy(t)'
<1>1. TypeOK /\ OwnedBy(t) /\ AnnouncedBy(t)
  BY Zenon DEF Inv, Owned, OwnedBy, Announced, AnnouncedBy
<1>2. CASE Quiet(t)
  <2>1. slot' = slot /\ hp' = hp /\ loc[t].pc # "reflect"  BY <1>2 DEF Quiet
  <2>2. QED  BY <1>1, <2>1 DEF AnnouncedBy, Content, Usable, Built, At
<1>3. CASE Handled(t)
  <2>1. PICK x \in Names, h \in HazardPtrs :
          /\ UNCHANGED <<slot, hint>> /\ loc[t].pc # "reflect"
          /\ Set(t, x, h) /\ Usable(t, x) /\ h.os = hp[t][x].os
          /\ \/ h.by = "verified" /\ h.p = hp[t][x].p /\ h.p = target
             \/ h.by = "spent"
             \/ h.by = "loaded" /\ loc'[t].pc = "reflect" /\ loc'[t].x = x
    BY <1>3, Zenon DEF Handled
  <2>2. hp'[t][x] = h /\ \A y \in Names : y # x => hp'[t][y] = hp[t][y]
    BY <1>1, <2>1, Sets, Zenon
  <2>3. slot' = slot  BY <2>1
  <2>4. ASSUME NEW y \in Names, Usable(t, y)', ~(At(t, "reflect") /\ loc[t].x = y)'
        PROVE  (Content(t, hp[t][y].os) = Mark(hp[t][y].p))'
    <3>1. CASE y # x  BY <1>1, <2>1, <2>2, <2>3, <2>4, <3>1 DEF AnnouncedBy, Content, Usable, Built, At
    <3>2. CASE y = x
      <4>1. h.by = "verified" /\ h.p = hp[t][x].p
        BY <2>1, <2>2, <2>4, <3>2 DEF Usable, At
      <4>2. QED  BY <1>1, <2>1, <2>2, <2>3, <3>2, <4>1 DEF AnnouncedBy, Content, At
    <3>3. QED  BY <3>1, <3>2
  <2>5. QED  BY <2>4 DEF AnnouncedBy
<1>4. CASE Moved(t)
  <2>1. PICK x, y \in Names, h \in HazardPtrs :
          /\ UNCHANGED <<slot, hint>> /\ hp' = [hp EXCEPT ![t][x] = hp[t][y], ![t][y] = h]
          /\ loc[t].pc # "reflect"
          /\ Usable(t, y) /\ ((h = Gone /\ ~Built(t, x)) \/ (h = hp[t][x] /\ Usable(t, x)))
    BY <1>4, Zenon DEF Moved
  <2>2. \A z \in Names : hp'[t][z] = IF z = y THEN h ELSE IF z = x THEN hp[t][y] ELSE hp[t][z]
    <3>1. hp' = [hp EXCEPT ![t][x] = hp[t][y], ![t][y] = h]  BY <2>1
    <3>2. x \in Names /\ y \in Names /\ h \in HazardPtrs  BY <2>1
    <3>3. QED  BY <1>1, <3>1, <3>2, Moves, Zenon
  <2>3. slot' = slot /\ Gone.os = <<>>  BY <2>1 DEF Gone
  <2>4. ASSUME NEW z \in Names
        PROVE  hp'[t][z] = Gone \/ \E w \in Names : hp'[t][z] = hp[t][w]
    <3>0. h = Gone \/ h = hp[t][x]  BY <2>1
    <3>1. CASE z = y  BY <3>0, <2>2, <3>1
    <3>2. CASE z # y /\ z = x  BY <2>2, <3>2
    <3>3. CASE z # y /\ z # x  BY <2>2, <3>3
    <3>4. QED  BY <3>1, <3>2, <3>3
  <2>5. ASSUME NEW z \in Names, Usable(t, z)'
        PROVE  (Content(t, hp[t][z].os) = Mark(hp[t][z].p))'
    <3>1. PICK w \in Names : hp'[t][z] = hp[t][w]  BY <2>3, <2>4, <2>5 DEF Usable, Built
    <3>2. Usable(t, w)  BY <2>5, <3>1 DEF Usable, Built
    <3>3. QED  BY <1>1, <2>1, <2>3, <3>1, <3>2 DEF AnnouncedBy, Content, At
  <2>6. QED  BY <2>5 DEF AnnouncedBy
<1>5. CASE Stored(t)
  <2>1. PICK x \in Names, s \in Slots(t), h \in HazardPtrs, v \in Word :
          /\ Put(t, s, v) /\ Set(t, x, h)
          /\ hp[t][x].os = s \/ (~Built(t, x) /\ Content(t, s) = Null)
          /\ (h.os = s /\ v = Mark(h.p)) \/ (h = Gone /\ v = Null /\ hp[t][x].os = s)
          /\ loc[t].pc = "reflect" => loc[t].x = x
    BY <1>5, Zenon DEF Stored
  <2>2. hp'[t][x] = h /\ \A y \in Names : y # x => hp'[t][y] = hp[t][y]
    BY <1>1, <2>1, Sets, Zenon
  <2>3. /\ Content(t, s)' = v
        /\ \A r \in Slots(t) : r # s => Content(t, r)' = Content(t, r)
    BY <1>1, <2>1, Puts, Zenon
  <2>4. OwnedBy(t)'  BY OwnedStep
  <2>5. ASSUME NEW y \in Names, Usable(t, y)'
        PROVE  (Content(t, hp[t][y].os) = Mark(hp[t][y].p))'
    <3>1. CASE y = x
      <4>1. h.os = s /\ v = Mark(h.p)  BY <2>1, <2>2, <2>5, <3>1 DEF Usable, Built, Gone
      <4>2. QED  BY <2>2, <2>3, <3>1, <4>1 DEF Content
    <3>2. CASE y # x
      <4>1. hp'[t][y] = hp[t][y] /\ Usable(t, y)  BY <2>2, <2>5, <3>2 DEF Usable, Built
      <4>2. hp[t][y].os \in Slots(t)  BY <1>1, <4>1 DEF OwnedBy, Usable
      <4>3. hp[t][y].os # s
        <5>1. CASE h.os = s  BY <2>2, <2>4, <2>5, <3>2, <4>1, <5>1 DEF OwnedBy, Usable
        <5>2. CASE hp[t][x].os = s  BY <1>1, <3>2, <4>1, <5>2 DEF OwnedBy, Usable
        <5>3. QED  BY <2>1, <5>1, <5>2
      <4>4. Content(t, hp[t][y].os) = Mark(hp[t][y].p)
        BY <1>1, <2>1, <3>2, <4>1 DEF AnnouncedBy, At
      <4>5. Content(t, hp[t][y].os)' = Mark(hp[t][y].p)'
        BY <2>3, <4>1, <4>2, <4>3, <4>4 DEF Content, Mark
      <4>6. QED  BY <4>1, <4>5 DEF Content, Mark
    <3>3. QED  BY <3>1, <3>2
  <2>6. QED  BY <2>5 DEF AnnouncedBy
<1>6. CASE NewGroup(t)
  <2>1. \A r \in Slots(t) : Content(t, r)' = Content(t, r)  BY <1>1, <1>6, Grows, Zenon
  <2>2. hp' = hp /\ loc' = loc  BY <1>6, Zenon DEF NewGroup
  <2>3. QED  BY <1>1, <2>1, <2>2 DEF AnnouncedBy, OwnedBy, Content, Usable, At, Built
<1>7. QED  BY <1>2, <1>3, <1>4, <1>5, <1>6, OneForm, Zenon

-----------------------------------------------------------------------------
(* What the calls and the scans know.                                      *)

\* Between calls a thread claims nothing.
LEMMA IdleOK ==
  ASSUME NEW t \in Threads
  PROVE  CallOK(t, Idle) /\ CallOK(t, Idle)' /\ ScanOK(t, Idle)' /\ Idle.pc \notin Scans
  BY DEF CallOK, ScanOK, Idle, Working, Scans

\* A call that has replaced a pointer reflects it next.
LEMMA ReflectsOK ==
  ASSUME TypeOK, NEW t \in Threads, NEW x \in Names, Usable(t, x), NEW q \in Pointer,
         NEW then \in {"end", "again"},
         Set(t, x, [p |-> q, os |-> hp[t][x].os, by |-> "loaded"]),
         \/ Become(t, [Idle EXCEPT !.pc = "reflect", !.x = x])
         \/ Become(t, [Idle EXCEPT !.pc = "reflect", !.x = x, !.then = then])
  PROVE  CallOK(t, loc[t])'
<1>1. loc'[t].pc = "reflect" /\ loc'[t].x = x  BY Reflects, Zenon
<1>2. loc'[t].then \in {"end", "again"}
  <2>1. CASE Become(t, [Idle EXCEPT !.pc = "reflect", !.x = x])
    <3>1. loc'[t] = [Idle EXCEPT !.pc = "reflect", !.x = x]  BY <2>1, Becomes, Zenon
    <3>2. QED  BY <3>1 DEF Idle
  <2>2. CASE Become(t, [Idle EXCEPT !.pc = "reflect", !.x = x, !.then = then])
    <3>1. loc'[t] = [Idle EXCEPT !.pc = "reflect", !.x = x, !.then = then]  BY <2>2, Becomes, Zenon
    <3>2. QED  BY <3>1 DEF Idle
  <2>3. QED  BY <2>1, <2>2
<1>3. hp'[t][x].os = hp[t][x].os /\ hp'[t][x].by = "loaded"
  BY DEF TypeOK, Set
<1>4. QED  BY <1>1, <1>2, <1>3 DEF CallOK, Working, Usable, Built

\* What a call relies on is so after every step of its thread.
LEMMA CallStep ==
  ASSUME Inv, NEW t \in Threads, Step(t)
  PROVE  CallOK(t, loc[t])'
<1>0. /\ TypeOK /\ CallOK(t, loc[t]) /\ hp[t] \in [Names -> HazardPtrs] /\ loc[t] \in Locals
      /\ target \in Pointer
      /\ "end" \in {"end", "again"} /\ "again" \in {"end", "again"}
  <2>1. TypeOK /\ CallOK(t, loc[t])  BY Zenon DEF Inv, LocalsOK
  <2>2. QED  BY <2>1 DEF TypeOK
<1>1. ASSUME Become(t, Idle)  PROVE CallOK(t, loc[t])'
  <2>1. loc'[t] = Idle  BY <1>0, <1>1, Becomes, Zenon
  <2>2. QED  BY <2>1, IdleOK
<1>2. ASSUME loc' = loc, loc[t].pc = "idle"  PROVE CallOK(t, loc[t])'
  BY <1>2 DEF CallOK, Working
<1>3. CASE AssignSlot(t)
  <2>1. PICK g \in DOMAIN slot[t] : TryAssign(t, g, loc[t].x, loc[t].y, loc[t].p)
    BY <1>3, Zenon DEF AssignSlot
  <2>2. Become(t, IF loc[t].then = "end" THEN Idle ELSE [loc[t] EXCEPT !.pc = loc[t].then])
        /\ loc[t].pc = "assign"
    BY <1>3, Zenon DEF AssignSlot, At
  <2>3. CASE loc[t].then = "end"  BY <1>1, <2>2, <2>3
  <2>4. CASE loc[t].then # "end"
    <3>1. /\ loc[t].x \in Names /\ loc[t].y \in Names /\ loc[t].y # loc[t].x
          /\ Usable(t, loc[t].y) /\ loc[t].then = "copy"
      BY <1>0, <2>2, <2>4 DEF CallOK, Working, Locals
    <3>2. loc'[t] = [loc[t] EXCEPT !.pc = "copy"]
      BY <1>0, <2>2, <2>4, <3>1, Becomes, Zenon
    <3>3. loc'[t].pc = "copy" /\ loc'[t].x = loc[t].x /\ loc'[t].y = loc[t].y
      BY <1>0, <3>2 DEF Locals
    <3>4. \E q, i, h : Set(t, loc[t].x, [p |-> q, os |-> <<g, i>>, by |-> h])
      BY <2>1, Zenon DEF TryAssign
    <3>5. PICK q, i, h : hp' = [hp EXCEPT ![t][loc[t].x] = [p |-> q, os |-> <<g, i>>, by |-> h]]
      BY <3>4, Zenon DEF Set
    <3>6. hp'[t][loc[t].x].os = <<g, i>> /\ hp'[t][loc[t].y] = hp[t][loc[t].y]
      BY <1>0, <3>1, <3>5 DEF TypeOK
    <3>7. QED  BY <3>1, <3>3, <3>6 DEF CallOK, Working, Usable, Built
  <2>5. QED  BY <2>3, <2>4
<1>4. CASE NewGroup(t)
  <2>1. hp' = hp /\ loc' = loc  BY <1>4, Zenon DEF NewGroup
  <2>2. QED  BY <1>0, <2>1 DEF CallOK, Usable, Built
<1>5. CASE Construct(t)
  <2>1. PICK x \in Names, p \in {target, Null} :
          ~Built(t, x) /\ Become(t, [Idle EXCEPT !.pc = "assign", !.x = x, !.p = p])
    BY <1>5, Zenon DEF Construct
  <2>2. loc'[t] = [Idle EXCEPT !.pc = "assign", !.x = x, !.p = p]  BY <1>0, <2>1, Becomes, Zenon
  <2>3. loc'[t].pc = "assign" /\ loc'[t].x = x /\ loc'[t].y = Null /\ loc'[t].then = "end"
    BY <2>2 DEF Idle
  <2>4. hp' = hp  BY <1>5, Zenon DEF Construct
  <2>5. QED  BY <2>1, <2>3, <2>4 DEF CallOK, Working, Built
<1>6. CASE CopyConstruct(t)
  <2>1. PICK x, y \in Names :
          /\ x # y /\ ~Built(t, x)
          /\ Become(t, [Idle EXCEPT !.pc = "assign", !.x = x, !.y = y, !.p = hp[t][y].p])
    BY <1>6, Zenon DEF CopyConstruct
  <2>2. loc'[t] = [Idle EXCEPT !.pc = "assign", !.x = x, !.y = y, !.p = hp[t][y].p]
    BY <1>0, <2>1, Becomes, Zenon
  <2>3. /\ loc'[t].pc = "assign" /\ loc'[t].x = x /\ loc'[t].y = y /\ loc'[t].then = "end"
        /\ loc'[t].p = hp[t][y].p
    BY <2>2 DEF Idle
  <2>4. hp' = hp  BY <1>6, Zenon DEF CopyConstruct
  <2>5. QED  BY <2>1, <2>3, <2>4 DEF CallOK, Working, Built
<1>7. CASE CopyAssign(t)
  <2>1. PICK x, y \in Names :
          /\ x # y /\ Usable(t, y)
          /\ Become(t, [Idle EXCEPT !.pc = IF Built(t, x) THEN "copy" ELSE "assign",
                        !.x = x, !.y = y, !.then = "copy"])
    BY <1>7, Zenon DEF CopyAssign
  <2>2. loc'[t] = [Idle EXCEPT !.pc = IF Built(t, x) THEN "copy" ELSE "assign",
                   !.x = x, !.y = y, !.then = "copy"]
    BY <1>0, <2>1, Becomes, Zenon
  <2>3. /\ loc'[t].pc = (IF Built(t, x) THEN "copy" ELSE "assign") /\ loc'[t].x = x /\ loc'[t].y = y
        /\ loc'[t].then = "copy" /\ loc'[t].p = Null
    BY <2>2 DEF Idle
  <2>4. hp' = hp /\ y # Null  BY <1>7, <2>1, SlotsAssumption DEF CopyAssign
  <2>5. QED  BY <2>1, <2>3, <2>4 DEF CallOK, Working, Built, Usable
<1>8. CASE Reflect(t)
  <2>1. Become(t, IF loc[t].then = "end" THEN Idle ELSE [loc[t] EXCEPT !.pc = loc[t].then])
        /\ loc[t].pc = "reflect" /\ hp' = hp
    BY <1>8, Zenon DEF Reflect, At
  <2>2. CASE loc[t].then = "end"  BY <1>1, <2>1, <2>2
  <2>3. CASE loc[t].then # "end"
    <3>1. /\ loc[t].x \in Names /\ Usable(t, loc[t].x) /\ hp[t][loc[t].x].by = "loaded"
          /\ loc[t].then = "again"
      BY <1>0, <2>1, <2>3 DEF CallOK, Working
    <3>2. loc'[t] = [loc[t] EXCEPT !.pc = "again"]
      BY <1>0, <2>1, <2>3, <3>1, Becomes, Zenon
    <3>3. loc'[t].pc = "again" /\ loc'[t].x = loc[t].x /\ loc'[t].then = "again"
      BY <1>0, <3>1, <3>2 DEF Locals
    <3>4. QED  BY <2>1, <3>1, <3>3 DEF CallOK, Working, Usable, Built
  <2>4. QED  BY <2>2, <2>3
<1>9. CASE CopyStore(t) \/ Delete(t)
  BY <1>1, <1>9, Zenon DEF CopyStore, Delete
<1>10. CASE \/ Destroy(t) \/ Reset(t) \/ MoveConstruct(t) \/ Swap(t) \/ Exchange(t)
  <2>1. loc' = loc /\ loc[t].pc = "idle"
    BY <1>10, Zenon DEF Destroy, Reset, MoveConstruct, Swap, Exchange, Call, At
  <2>2. QED  BY <1>2, <2>1
<1>11. CASE Check(t) \/ ScanThread(t) \/ ScanSlot(t) \/ ScanNext(t)
  <2>1. loc'[t].pc \in {"idle", "chain", "scan"}
    <3>1. CASE Check(t)
      <4>1. PICK o : Become(t, [Idle EXCEPT !.pc = "chain", !.p = o, !.unseen = Threads])
        BY <3>1, Zenon DEF Check
      <4>2. loc'[t] = [Idle EXCEPT !.pc = "chain", !.p = o, !.unseen = Threads]
        BY <1>0, <4>1, Becomes, Zenon
      <4>3. QED  BY <4>2 DEF Idle
    <3>2. CASE ScanThread(t)
      <4>1. PICK u : Become(t, [loc[t] EXCEPT !.pc = "scan", !.u = u, !.at = <<1, 1>>,
                                              !.unseen = loc[t].unseen \ {u}])
        BY <3>2, Zenon DEF ScanThread
      <4>2. loc'[t] = [loc[t] EXCEPT !.pc = "scan", !.u = u, !.at = <<1, 1>>,
                                     !.unseen = loc[t].unseen \ {u}]
        BY <1>0, <4>1, Becomes, Zenon
      <4>3. QED  BY <1>0, <4>2 DEF Locals
    <3>3. CASE ScanSlot(t) \/ ScanNext(t)
      <4>1. loc[t].pc = "scan"  BY <3>3, Zenon DEF ScanSlot, ScanNext, At
      <4>2. \/ Become(t, Idle) \/ Become(t, [loc[t] EXCEPT !.pc = "chain"])
            \/ \E a : Become(t, [loc[t] EXCEPT !.at = a])
        BY <3>3, Zenon DEF ScanSlot, ScanNext
      <4>3. \/ loc'[t] = Idle \/ loc'[t] = [loc[t] EXCEPT !.pc = "chain"]
            \/ \E a : loc'[t] = [loc[t] EXCEPT !.at = a]
        BY <1>0, <4>2, Becomes, Zenon
      <4>4. CASE loc'[t] = Idle  BY <4>4 DEF Idle
      <4>5. CASE loc'[t] = [loc[t] EXCEPT !.pc = "chain"]  BY <1>0, <4>5 DEF Locals
      <4>6. ASSUME NEW a, loc'[t] = [loc[t] EXCEPT !.at = a]  PROVE loc'[t].pc \in {"idle", "chain", "scan"}
        BY <1>0, <4>1, <4>6 DEF Locals
      <4>7. QED  BY <4>3, <4>4, <4>5, <4>6, Zenon
    <3>4. QED  BY <1>11, <3>1, <3>2, <3>3
  <2>2. QED  BY <2>1 DEF CallOK, Working
<1>12. ASSUME NEW x \in Names, Usable(t, x), NEW q \in Pointer, NEW then \in {"end", "again"},
              Set(t, x, [p |-> q, os |-> hp[t][x].os, by |-> "loaded"]),
              \/ Become(t, [Idle EXCEPT !.pc = "reflect", !.x = x])
              \/ Become(t, [Idle EXCEPT !.pc = "reflect", !.x = x, !.then = then])
       PROVE  CallOK(t, loc[t])'
  BY <1>0, <1>12, ReflectsOK, Zenon
<1>13. ASSUME NEW x \in Names, Usable(t, x), NEW weak, NEW then \in {"end", "again"},
              Fails(t, x, weak, then)
       PROVE  CallOK(t, loc[t])'
  BY <1>0, <1>12, <1>13, Zenon DEF Fails
<1>14. ASSUME NEW x \in Names, Usable(t, x), NEW hold, Succeeds(t, x, hold), loc[t].pc = "idle"
       PROVE  CallOK(t, loc[t])'
  <2>1. PICK d \in New :
          IF hold
          THEN /\ Set(t, x, [p |-> d, os |-> hp[t][x].os, by |-> "loaded"])
               /\ Become(t, [Idle EXCEPT !.pc = "reflect", !.x = x])
          ELSE loc' = loc
    BY <1>14, Zenon DEF Succeeds
  <2>2. d \in Pointer  BY DEF New, Pointer
  <2>3. CASE hold  BY <1>0, <1>12, <1>14, <2>1, <2>2, <2>3, Zenon
  <2>4. CASE ~hold  BY <1>2, <1>14, <2>1, <2>4, Zenon
  <2>5. QED  BY <2>3, <2>4
<1>15. CASE Reuse(t) \/ VerifyExchange(t)
  <2>1. \/ loc' = loc
        \/ \E x \in Names :
             /\ Usable(t, x) /\ Set(t, x, [p |-> target, os |-> hp[t][x].os, by |-> "loaded"])
             /\ Become(t, [Idle EXCEPT !.pc = "reflect", !.x = x])
    BY <1>15, Zenon DEF Reuse, VerifyExchange
  <2>2. loc[t].pc = "idle"  BY <1>15, Zenon DEF Reuse, VerifyExchange, Call, At
  <2>3. QED  BY <1>0, <1>2, <1>12, <2>1, <2>2, Zenon
<1>16. CASE Again(t)
  <2>1. loc[t].x \in Names /\ Usable(t, loc[t].x)
    BY <1>0, <1>16 DEF Again, At, CallOK, Working
  <2>2. Become(t, Idle) \/ Fails(t, loc[t].x, Weak, "again")  BY <1>16, Zenon DEF Again
  <2>3. QED  BY <1>0, <1>1, <1>13, <2>1, <2>2, Zenon
<1>17. CASE CompareExchange(t) \/ CompareExchangeConsuming(t) \/ WeakToVerify1(t)
            \/ StrongToVerify1(t) \/ WeakToVerify2(t) \/ StrongToVerify2(t)
  <2>1. \/ loc' = loc
        \/ \E x \in Names :
             /\ Usable(t, x)
             /\ \/ Succeeds(t, x, FALSE) \/ Succeeds(t, x, TRUE) \/ Fails(t, x, Weak, "again")
                \/ Fails(t, x, Weak, "end") \/ Fails(t, x, FALSE, "end")
    BY <1>17, Zenon DEF CompareExchange, CompareExchangeConsuming, WeakToVerify1, StrongToVerify1,
       WeakToVerify2, StrongToVerify2, ToVerify1, ToVerify2
  <2>2. loc[t].pc = "idle"
    BY <1>17, Zenon DEF CompareExchange, CompareExchangeConsuming, WeakToVerify1, StrongToVerify1,
       WeakToVerify2, StrongToVerify2, ToVerify1, ToVerify2, Call, At
  <2>3. QED  BY <1>0, <1>2, <1>13, <1>14, <2>1, <2>2, Zenon
<1>18. QED
  BY <1>3, <1>4, <1>5, <1>6, <1>7, <1>8, <1>9, <1>10, <1>11, <1>15, <1>16, <1>17, Zenon DEF Step

\* How a step moves a scan: it starts one, goes to the slots of a thread, from
\* a slot that has something else to the next, or from the last one to the
\* next group or thread; and no other step moves one.
Starts(t) ==
  /\ loc'[t].pc = "chain" /\ loc'[t].p \in taken[t] /\ loc'[t].unseen = Threads
Enters(t) ==
  /\ loc[t].pc = "chain" /\ loc'[t].pc = "scan" /\ loc'[t].p = loc[t].p
  /\ loc'[t].u \in loc[t].unseen /\ slot[loc'[t].u] # <<>>
  /\ loc'[t].at = <<1, 1>> /\ loc'[t].unseen = loc[t].unseen \ {loc'[t].u}
Passes(t) ==
  /\ loc[t].pc = "scan" /\ loc'[t].pc = "scan" /\ loc'[t].p = loc[t].p
  /\ loc'[t].u = loc[t].u /\ loc'[t].unseen = loc[t].unseen
  /\ loc[t].at[2] <= Width /\ Content(loc[t].u, loc[t].at) # loc[t].p
  /\ loc'[t].at = <<loc[t].at[1], loc[t].at[2] + 1>>
Leaves(t) ==
  /\ loc[t].pc = "scan" /\ loc'[t].p = loc[t].p /\ loc'[t].unseen = loc[t].unseen
  /\ loc[t].at[2] > Width
  /\ \/ /\ loc'[t].pc = "scan" /\ loc'[t].u = loc[t].u
        /\ loc[t].at[1] < Len(slot[loc[t].u]) /\ loc'[t].at = <<loc[t].at[1] + 1, 1>>
     \/ loc'[t].pc = "chain" /\ ~ (loc[t].at[1] < Len(slot[loc[t].u]))

\* A scan starts, goes on or is over, and while it goes on nothing else changes.
LEMMA ScanMoves ==
  ASSUME Inv, NEW t \in Threads, Step(t)
  PROVE  \/ loc'[t].pc \notin Scans
         \/ /\ Starts(t) \/ Enters(t) \/ Passes(t) \/ Leaves(t)
            /\ UNCHANGED <<target, live, slot, hp, taken>>
<1>0. /\ TypeOK /\ CallOK(t, loc[t]) /\ loc[t] \in Locals
  <2>1. TypeOK /\ CallOK(t, loc[t])  BY Zenon DEF Inv, LocalsOK
  <2>2. QED  BY <2>1 DEF TypeOK
<1>1. CASE Check(t)
  <2>1. PICK o \in taken[t] : Become(t, [Idle EXCEPT !.pc = "chain", !.p = o, !.unseen = Threads])
    BY <1>1, Zenon DEF Check
  <2>2. loc'[t] = [Idle EXCEPT !.pc = "chain", !.p = o, !.unseen = Threads]
    BY <1>0, <2>1, Becomes, Zenon
  <2>3. Starts(t)  BY <2>1, <2>2 DEF Idle, Starts
  <2>4. QED  BY <1>1, <2>3, Zenon DEF Check
<1>2. CASE ScanThread(t)
  <2>1. PICK u \in loc[t].unseen :
          /\ slot[u] # <<>>
          /\ Become(t, [loc[t] EXCEPT !.pc = "scan", !.u = u, !.at = <<1, 1>>,
                                      !.unseen = loc[t].unseen \ {u}])
    BY <1>2, Zenon DEF ScanThread
  <2>2. loc'[t] = [loc[t] EXCEPT !.pc = "scan", !.u = u, !.at = <<1, 1>>,
                                 !.unseen = loc[t].unseen \ {u}]
    BY <1>0, <2>1, Becomes, Zenon
  <2>3. loc[t].pc = "chain"  BY <1>2, Zenon DEF ScanThread, At
  <2>4. Enters(t)  BY <1>0, <2>1, <2>2, <2>3 DEF Locals, Enters
  <2>5. QED  BY <1>2, <2>4, Zenon DEF ScanThread
<1>3. CASE ScanSlot(t)
  <2> DEFINE a == <<loc[t].at[1], loc[t].at[2] + 1>>
  <2>1. /\ loc[t].pc = "scan" /\ loc[t].at[2] <= Width
        /\ Become(t, IF Content(loc[t].u, loc[t].at) = loc[t].p THEN Idle ELSE [loc[t] EXCEPT !.at = a])
    BY <1>3, Zenon DEF ScanSlot, At
  <2>2. CASE Content(loc[t].u, loc[t].at) = loc[t].p
    <3>1. loc'[t] = Idle  BY <1>0, <2>1, <2>2, Becomes, Zenon
    <3>2. QED  BY <3>1, IdleOK
  <2>3. CASE Content(loc[t].u, loc[t].at) # loc[t].p
    <3>1. loc'[t] = [loc[t] EXCEPT !.at = a]  BY <1>0, <2>1, <2>3, Becomes, Zenon
    <3>2. Passes(t)  BY <1>0, <2>1, <2>3, <3>1 DEF Locals, Passes
    <3>3. QED  BY <1>3, <3>2, Zenon DEF ScanSlot
  <2>4. QED  BY <2>2, <2>3
<1>4. CASE ScanNext(t)
  <2> DEFINE a == <<loc[t].at[1] + 1, 1>>
  <2>1. /\ loc[t].pc = "scan" /\ loc[t].at[2] > Width
        /\ Become(t, IF loc[t].at[1] < Len(slot[loc[t].u])
                     THEN [loc[t] EXCEPT !.at = a] ELSE [loc[t] EXCEPT !.pc = "chain"])
    BY <1>4, Zenon DEF ScanNext, At
  <2>2. CASE loc[t].at[1] < Len(slot[loc[t].u])
    <3>1. loc'[t] = [loc[t] EXCEPT !.at = a]  BY <1>0, <2>1, <2>2, Becomes, Zenon
    <3>2. Leaves(t)  BY <1>0, <2>1, <2>2, <3>1 DEF Locals, Leaves
    <3>3. QED  BY <1>4, <3>2, Zenon DEF ScanNext
  <2>3. CASE ~ (loc[t].at[1] < Len(slot[loc[t].u]))
    <3>1. loc'[t] = [loc[t] EXCEPT !.pc = "chain"]  BY <1>0, <2>1, <2>3, Becomes, Zenon
    <3>2. Leaves(t)  BY <1>0, <2>1, <2>3, <3>1 DEF Locals, Leaves
    <3>3. QED  BY <1>4, <3>2, Zenon DEF ScanNext
  <2>4. QED  BY <2>2, <2>3
<1>5. ASSUME Become(t, Idle)  PROVE loc'[t].pc \notin Scans
  <2>1. loc'[t] = Idle  BY <1>0, <1>5, Becomes, Zenon
  <2>2. QED  BY <2>1, IdleOK
<1>6. ASSUME loc' = loc, loc[t].pc = "idle" \/ loc[t].pc = "assign"  PROVE loc'[t].pc \notin Scans
  BY <1>6 DEF Scans
<1>7. CASE AssignSlot(t) \/ Reflect(t)
  <2>1. /\ Become(t, IF loc[t].then = "end" THEN Idle ELSE [loc[t] EXCEPT !.pc = loc[t].then])
        /\ loc[t].pc = "assign" \/ loc[t].pc = "reflect"
    BY <1>7, Zenon DEF AssignSlot, Reflect, At
  <2>2. CASE loc[t].then = "end"  BY <1>5, <2>1, <2>2
  <2>3. CASE loc[t].then # "end"
    <3>1. loc[t].then = "copy" \/ loc[t].then = "again"  BY <1>0, <2>1, <2>3 DEF CallOK
    <3>2. loc'[t] = [loc[t] EXCEPT !.pc = loc[t].then]  BY <1>0, <2>1, <2>3, Becomes, Zenon
    <3>3. loc'[t].pc = loc[t].then  BY <1>0, <3>2 DEF Locals
    <3>4. QED  BY <3>1, <3>3 DEF Scans
  <2>4. QED  BY <2>2, <2>3
<1>8. CASE Construct(t) \/ CopyConstruct(t) \/ CopyAssign(t)
  <2>1. loc'[t].pc = "assign" \/ loc'[t].pc = "copy"
    <3>1. CASE Construct(t)
      <4>1. PICK x, p : Become(t, [Idle EXCEPT !.pc = "assign", !.x = x, !.p = p])
        BY <3>1, Zenon DEF Construct
      <4>2. loc'[t] = [Idle EXCEPT !.pc = "assign", !.x = x, !.p = p]
        BY <1>0, <4>1, Becomes, Zenon
      <4>3. QED  BY <4>2 DEF Idle
    <3>2. CASE CopyConstruct(t)
      <4>1. PICK x, y, p : Become(t, [Idle EXCEPT !.pc = "assign", !.x = x, !.y = y, !.p = p])
        BY <3>2, Zenon DEF CopyConstruct
      <4>2. loc'[t] = [Idle EXCEPT !.pc = "assign", !.x = x, !.y = y, !.p = p]
        BY <1>0, <4>1, Becomes, Zenon
      <4>3. QED  BY <4>2 DEF Idle
    <3>3. CASE CopyAssign(t)
      <4>1. PICK x, y : Become(t, [Idle EXCEPT !.pc = IF Built(t, x) THEN "copy" ELSE "assign",
                                   !.x = x, !.y = y, !.then = "copy"])
        BY <3>3, Zenon DEF CopyAssign
      <4>2. loc'[t] = [Idle EXCEPT !.pc = IF Built(t, x) THEN "copy" ELSE "assign",
                       !.x = x, !.y = y, !.then = "copy"]
        BY <1>0, <4>1, Becomes, Zenon
      <4>3. QED  BY <4>2 DEF Idle
    <3>4. QED  BY <1>8, <3>1, <3>2, <3>3
  <2>2. QED  BY <2>1 DEF Scans
<1>9. CASE CopyStore(t) \/ Delete(t)  BY <1>5, <1>9, Zenon DEF CopyStore, Delete
<1>10. ASSUME NEW x, NEW then,
              \/ Become(t, [Idle EXCEPT !.pc = "reflect", !.x = x])
              \/ Become(t, [Idle EXCEPT !.pc = "reflect", !.x = x, !.then = then])
       PROVE  loc'[t].pc \notin Scans
  <2>1. loc'[t].pc = "reflect"  BY <1>0, <1>10, Reflects, Zenon
  <2>2. QED  BY <2>1 DEF Scans
<1>11. CASE \/ NewGroup(t) \/ Destroy(t) \/ Reset(t) \/ MoveConstruct(t) \/ Swap(t) \/ Exchange(t)
            \/ Reuse(t) \/ VerifyExchange(t) \/ CompareExchange(t) \/ CompareExchangeConsuming(t)
            \/ WeakToVerify1(t) \/ StrongToVerify1(t) \/ WeakToVerify2(t) \/ StrongToVerify2(t)
            \/ Again(t)
  <2>1. \/ loc' = loc /\ (loc[t].pc = "idle" \/ loc[t].pc = "assign")
        \/ Become(t, Idle)
        \/ \E x, then : \/ Become(t, [Idle EXCEPT !.pc = "reflect", !.x = x])
                        \/ Become(t, [Idle EXCEPT !.pc = "reflect", !.x = x, !.then = then])
    BY <1>11, ZenonT(60) DEF NewGroup, Destroy, Reset, MoveConstruct, Swap, Exchange, Reuse, VerifyExchange,
       CompareExchange, CompareExchangeConsuming, WeakToVerify1, StrongToVerify1, WeakToVerify2,
       StrongToVerify2, ToVerify1, ToVerify2, Again, Succeeds, Fails, Call, At
  <2>2. QED  BY <1>5, <1>6, <1>10, <2>1, Zenon
<1>12. QED
  BY <1>1, <1>2, <1>3, <1>4, <1>7, <1>8, <1>9, <1>11, Zenon DEF Step

\* The slots of a thread are never fewer.
LEMMA GroupsStay ==
  ASSUME Inv, NEW t \in Threads, Step(t), NEW u \in Threads
  PROVE  Len(slot[u]) \in Nat /\ Len(slot'[u]) \in Nat /\ Len(slot[u]) <= Len(slot'[u])
<1>1. TypeOK /\ TypeOK'  BY TypesStep DEF Inv
<1>2. Len(slot[u]) \in Nat /\ Len(slot'[u]) \in Nat  BY <1>1 DEF TypeOK
<1>3. CASE u # t  BY <1>2, <1>3, OthersAlone
<1>4. CASE u = t
  <2>1. CASE Quiet(t) \/ Handled(t) \/ Moved(t)
    <3>1. slot' = slot  BY <2>1, Zenon DEF Quiet, Handled, Moved
    <3>2. QED  BY <1>2, <3>1
  <2>2. CASE Stored(t)
    <3>1. Len(slot'[t]) = Len(slot[t])  BY <1>1, <2>2, Puts, Zenon DEF Stored
    <3>2. QED  BY <1>2, <1>4, <3>1
  <2>3. CASE NewGroup(t)
    <3>1. Len(slot'[t]) = Len(slot[t]) + 1  BY <1>1, <2>3, Grows, Zenon
    <3>2. QED  BY <1>2, <1>4, <3>1
  <2>4. QED  BY <2>1, <2>2, <2>3, OneForm, Zenon
<1>5. QED  BY <1>3, <1>4

\* What a thread has taken, only its own steps change.
LEMMA OthersTaken ==
  ASSUME Inv, NEW t \in Threads, Step(t), NEW u \in Threads, u # t
  PROVE  taken'[u] = taken[u]
<1>1. taken \in [Threads -> SUBSET Objects]  BY DEF Inv, TypeOK
<1>2. CASE UNCHANGED <<target, live, taken>>  BY <1>2
<1>3. CASE \E d \in New : Replace(t, d)  BY <1>1, <1>3 DEF Replace
<1>4. CASE Delete(t)  BY <1>1, <1>4 DEF Delete
<1>5. QED  BY <1>2, <1>3, <1>4, ObjectStep, Zenon

\* A scan remains at a slot that exists, with an object its thread has.
LEMMA ScanStep ==
  ASSUME Inv, NEW t \in Threads, Step(t), NEW u \in Threads
  PROVE  ScanOK(u, loc[u])'
<1>0. TypeOK /\ ScanOK(u, loc[u]) /\ Width \in Nat \ {0} /\ loc[u] \in Locals
      /\ \A v \in Threads : Len(slot[v]) \in Nat /\ Len(slot'[v]) \in Nat
                           /\ Len(slot[v]) <= Len(slot'[v])
  <2>1. TypeOK /\ ScanOK(u, loc[u])  BY Zenon DEF Inv, LocalsOK
  <2>2. QED  BY <2>1, GroupsStay, SlotsAssumption DEF TypeOK
<1>1. CASE u # t
  <2>1. loc'[u] = loc[u] /\ taken'[u] = taken[u]  BY <1>1, OthersAlone, OthersTaken, Zenon
  <2>2. QED  BY <1>0, <2>1 DEF ScanOK
<1>2. CASE u = t
  <2>1. CASE loc'[t].pc \notin Scans  BY <1>2, <2>1 DEF ScanOK, Scans
  <2>2. CASE Starts(t) /\ taken' = taken  BY <1>2, <2>2 DEF Starts, ScanOK
  <2>3. CASE Enters(t) /\ taken' = taken /\ slot' = slot
    <3>1. loc'[t].p \in taken'[t]  BY <1>0, <1>2, <2>3 DEF Enters, ScanOK, Scans
    <3>2. loc'[t].u \in Threads \ loc'[t].unseen  BY <1>0, <1>2, <2>3 DEF Enters, Locals
    <3>3. 1 \in 1 .. Len(slot'[loc'[t].u])
      <4> DEFINE v == loc'[t].u
      <4>1. slot[v] # <<>> /\ slot[v] \in Seq(Groups)
        BY <1>0, <2>3, <3>2 DEF Enters, TypeOK
      <4> HIDE DEF v
      <4>2. Len(slot[v]) # 0 /\ Len(slot[v]) \in Nat  BY <4>1
      <4>3. 1 \in 1 .. Len(slot[v])  BY <4>2
      <4>4. QED  BY <2>3, <4>3 DEF v
    <3>4. loc'[t].at[1] = 1 /\ loc'[t].at[2] = 1  BY <2>3 DEF Enters
    <3>5. QED  BY <1>0, <1>2, <3>1, <3>2, <3>3, <3>4 DEF ScanOK
  <2>4. CASE Passes(t) /\ taken' = taken /\ slot' = slot
    <3>1. /\ loc[t].p \in taken[t] /\ loc[t].u \in Threads \ loc[t].unseen
          /\ loc[t].at[1] \in 1 .. Len(slot[loc[t].u]) /\ loc[t].at[2] \in 1 .. Width + 1
      BY <1>0, <1>2, <2>4 DEF Passes, ScanOK, Scans
    <3>2. /\ loc'[t].p = loc[t].p /\ loc'[t].u = loc[t].u /\ loc'[t].unseen = loc[t].unseen
          /\ loc'[t].at[1] = loc[t].at[1] /\ loc'[t].at[2] = loc[t].at[2] + 1 /\ loc[t].at[2] <= Width
      BY <2>4 DEF Passes
    <3>3. loc'[t].at[2] \in 1 .. Width + 1  BY <1>0, <3>1, <3>2
    <3>4. QED  BY <1>2, <2>4, <3>1, <3>2, <3>3 DEF ScanOK
  <2>5. CASE Leaves(t) /\ taken' = taken /\ slot' = slot
    <3>1. /\ loc[t].p \in taken[t] /\ loc[t].u \in Threads \ loc[t].unseen
          /\ loc[t].at[1] \in 1 .. Len(slot[loc[t].u]) /\ loc[t].at[2] \in 1 .. Width + 1
      BY <1>0, <1>2, <2>5 DEF Leaves, ScanOK, Scans
    <3>2. loc'[t].p = loc[t].p /\ loc'[t].unseen = loc[t].unseen  BY <2>5 DEF Leaves
    <3>3. CASE loc'[t].pc = "chain"  BY <1>2, <2>5, <3>1, <3>2, <3>3 DEF ScanOK
    <3>4. CASE /\ loc'[t].u = loc[t].u
               /\ loc[t].at[1] < Len(slot[loc[t].u]) /\ loc'[t].at = <<loc[t].at[1] + 1, 1>>
      <4>1. loc'[t].at[1] \in 1 .. Len(slot[loc[t].u]) /\ loc'[t].at[2] = 1
        BY <1>0, <3>1, <3>4
      <4>2. QED  BY <1>0, <1>2, <2>5, <3>1, <3>2, <3>4, <4>1 DEF ScanOK
    <3>5. QED  BY <2>5, <3>3, <3>4 DEF Leaves
  <2>6. QED  BY <2>1, <2>2, <2>3, <2>4, <2>5, ScanMoves
<1>3. QED  BY <1>1, <1>2

-----------------------------------------------------------------------------
(* Who has which object, and that none is deleted that a verified          *)
(* hazard_ptr or a later copy of one holds.                                *)

\* An object is made, changes hands and is deleted with its one holder.
LEMMA HeldStep ==
  ASSUME Inv, NEW t \in Threads, Step(t)
  PROVE  Held'
<1>0. /\ Held /\ TypeOK /\ taken \in [Threads -> SUBSET Objects] /\ ScanOK(t, loc[t])
  <2>1. Held /\ TypeOK /\ ScanOK(t, loc[t])  BY Zenon DEF Inv, LocalsOK
  <2>2. QED  BY <2>1 DEF TypeOK
<1>1. CASE UNCHANGED <<target, live, taken>>  BY <1>0, <1>1 DEF Held
<1>2. CASE \E d \in New : Replace(t, d)
  <2>1. PICK d \in New : Replace(t, d)  BY <1>2
  <2>2. /\ target' = d /\ live' = live \cup ({d} \ {Null})
        /\ taken'[t] = taken[t] \cup ({target} \ {Null})
        /\ \A u \in Threads : u # t => taken'[u] = taken[u]
    BY <1>0, <2>1 DEF Replace
  <2>3. target \in Pointer /\ d \in Pointer  BY <1>0, <2>1 DEF TypeOK, New, Pointer
  <2>4. ASSUME NEW o \in Objects
        PROVE  o \in live' <=> o = target' \/ \E u \in Threads : o \in taken'[u]
    <3>1. o # Null  BY SlotsAssumption
    <3>2. (\E u \in Threads : o \in taken'[u]) <=> (\E u \in Threads : o \in taken[u]) \/ o = target
      <4>1. o \in taken'[t] <=> o \in taken[t] \/ o = target  BY <2>2, <3>1
      <4>2. QED  BY <2>2, <4>1
    <3>3. o \in live' <=> o \in live \/ o = d  BY <2>2, <3>1
    <3>4. QED  BY <1>0, <2>2, <3>2, <3>3 DEF Held
  <2>5. d = Null \/ d \notin live  BY <2>1 DEF New
  <2>6. \A u \in Threads : Null \notin taken[u]  BY <1>0, SlotsAssumption
  <2>7. d = Null \/ d # target
    <3>1. CASE target = Null  BY <3>1
    <3>2. CASE target # Null
      <4>1. target \in live  BY <1>0, <2>3, <3>2 DEF Held, Pointer
      <4>2. QED  BY <2>5, <4>1
    <3>3. QED  BY <3>1, <3>2
  <2>8. \A u \in Threads : d \notin taken'[u]
    <3>1. \A u \in Threads : d \notin taken[u]
      <4>1. \A u \in Threads : taken[u] \subseteq live
        <5>1. \A u \in Threads : taken[u] \subseteq Objects  BY <1>0
        <5>2. QED  BY <1>0, <5>1 DEF Held
      <4>2. QED  BY <2>5, <2>6, <4>1
    <3>2. QED  BY <2>2, <2>7, <3>1
  <2>9. \A u, v \in Threads : u # v => taken'[u] \cap taken'[v] = {}
    <3>1. \A u \in Threads : target \notin taken[u]  BY <1>0 DEF Held
    <3>2. \A u, v \in Threads : u # v => taken[u] \cap taken[v] = {}  BY <1>0 DEF Held
    <3>3. QED  BY <2>2, <3>1, <3>2
  <2>10. QED  BY <2>2, <2>4, <2>8, <2>9 DEF Held
<1>3. CASE Delete(t)
  <2> DEFINE o == loc[t].p
  <2>1. /\ target' = target /\ live' = live \ {o} /\ taken'[t] = taken[t] \ {o}
        /\ \A u \in Threads : u # t => taken'[u] = taken[u]
    BY <1>0, <1>3 DEF Delete
  <2>2. o \in taken[t]  BY <1>0, <1>3 DEF Delete, At, ScanOK, Scans
  <2> HIDE DEF o
  <2>3. \A u \in Threads : u # t => o \notin taken[u]  BY <1>0, <2>2 DEF Held
  <2>4. o # target  BY <1>0, <2>2 DEF Held
  <2>5. ASSUME NEW r \in Objects
        PROVE  (\E u \in Threads : r \in taken'[u]) <=> (\E u \in Threads : r \in taken[u]) /\ r # o
    BY <2>1, <2>3
  <2>6. \A r \in Objects : r \in live' <=> r = target' \/ \E u \in Threads : r \in taken'[u]
    BY <1>0, <2>1, <2>4, <2>5 DEF Held
  <2>7. \A u \in Threads : target' \notin taken'[u]  BY <1>0, <2>1 DEF Held
  <2>8. \A u, v \in Threads : u # v => taken'[u] \cap taken'[v] = {}
    <3>1. \A u, v \in Threads : u # v => taken[u] \cap taken[v] = {}  BY <1>0 DEF Held
    <3>2. \A u \in Threads : taken'[u] \subseteq taken[u]  BY <2>1
    <3>3. QED  BY <3>1, <3>2
  <2>9. QED  BY <2>6, <2>7, <2>8 DEF Held
<1>4. QED  BY <1>1, <1>2, <1>3, ObjectStep, Zenon

\* An object that is in a slot and safe there remains so, whoever takes a step.
LEMMA SafeStep ==
  ASSUME Inv, NEW u \in Threads, Step(u), NEW t \in Threads, NEW s \in Slots(t),
         NEW o \in Objects, Safe(o, t, s), Content(t, s) = o
  PROVE  Safe(o, t, s)'
<1>0. /\ TypeOK /\ Held /\ Width \in Nat \ {0}
      /\ \A v \in Threads : loc[v] \in Locals /\ ScanOK(v, loc[v])
  <2>1. TypeOK /\ Held  BY Zenon DEF Inv
  <2>2. \A v \in Threads : ScanOK(v, loc[v])  BY Zenon DEF Inv, LocalsOK
  <2>3. QED  BY <2>1, <2>2, SlotsAssumption DEF TypeOK
<1>1. PICK g \in 1 .. Len(slot[t]), i \in 1 .. Width : s = <<g, i>>  BY DEF Slots
<1>2. g \in Nat /\ i \in 1 .. Width /\ s[1] = g /\ s[2] = i /\ slot[t] # <<>>
  <2>1. Len(slot[t]) \in Nat  BY <1>0 DEF TypeOK
  <2>2. QED  BY <1>1, <2>1
<1>3. o \in live'
  <2>1. CASE UNCHANGED <<target, live, taken>>  BY <2>1 DEF Safe
  <2>2. CASE \E d \in New : Replace(u, d)  BY <2>2 DEF Safe, Replace
  <2>3. CASE Delete(u)
    <3>1. /\ loc[u].pc = "chain" /\ live' = live \ {loc[u].p}
          /\ \A v \in loc[u].unseen : slot[v] = <<>>
      BY <2>3, Zenon DEF Delete, At
    <3>2. loc[u].p # o
      <4>1. SUFFICES ASSUME loc[u].p = o  PROVE FALSE  OBVIOUS
      <4>2. WillSee(loc[u], t, s)  BY <3>1, <4>1 DEF Safe, Scans
      <4>3. t \in loc[u].unseen  BY <3>1, <4>2 DEF WillSee
      <4>4. QED  BY <1>2, <3>1, <4>3
    <3>3. QED  BY <3>1, <3>2 DEF Safe
  <2>4. QED  BY <2>1, <2>2, <2>3, ObjectStep, Zenon
<1>4. ASSUME NEW v \in Threads, loc'[v].pc \in Scans, loc'[v].p = o
      PROVE  WillSee(loc'[v], t, s)
  <2>1. CASE v # u
    <3>1. loc'[v] = loc[v]  BY <2>1, OthersAlone, Zenon
    <3>2. QED  BY <1>4, <3>1 DEF Safe
  <2>2. CASE v = u
    <3>1. CASE Starts(u)  BY <2>2, <3>1 DEF Starts, WillSee
    <3>2. CASE Enters(u)
      <4>1. WillSee(loc[u], t, s) /\ loc[u].pc = "chain"
        BY <1>4, <2>2, <3>2 DEF Enters, Safe, Scans
      <4>2. t \in loc[u].unseen  BY <4>1 DEF WillSee
      <4>3. loc'[u].at[1] = 1 /\ loc'[u].at[2] = 1 /\ loc'[u].pc = "scan"  BY <3>2 DEF Enters
      <4>4. CASE t = loc'[u].u
        <5>1. ~ Before(s, loc'[u].at)  BY <1>1, <1>2, <4>3 DEF Before
        <5>2. QED  BY <2>2, <4>3, <4>4, <5>1 DEF WillSee
      <4>5. CASE t # loc'[u].u
        <5>1. t \in loc'[u].unseen  BY <3>2, <4>2, <4>5 DEF Enters
        <5>2. QED  BY <2>2, <5>1 DEF WillSee
      <4>6. QED  BY <4>4, <4>5
    <3>3. CASE Passes(u)
      <4>1. WillSee(loc[u], t, s) /\ loc[u].pc = "scan"
        BY <1>4, <2>2, <3>3 DEF Passes, Safe, Scans
      <4>2. CASE t \in loc[u].unseen  BY <2>2, <3>3, <4>2 DEF Passes, WillSee
      <4>3. CASE loc[u].u = t /\ ~ Before(s, loc[u].at)
        <5>1. /\ Content(t, loc[u].at) # o /\ loc'[u].u = t /\ loc'[u].pc = "scan"
              /\ loc'[u].at = <<loc[u].at[1], loc[u].at[2] + 1>>
          BY <1>4, <2>2, <3>3, <4>3 DEF Passes
        <5>2. loc[u].at[1] \in Nat /\ loc[u].at[2] \in Nat
          <6>1. /\ loc[u].at[1] \in 1 .. Len(slot[t]) /\ loc[u].at[2] \in 1 .. Width + 1
            BY <1>0, <4>1, <4>3 DEF ScanOK
          <6>2. QED  BY <1>0, <6>1
        <5>3. ~ (loc[u].at[1] = g /\ loc[u].at[2] = i)
          <6>1. Content(t, s) = slot[t][g][i] /\ Content(t, loc[u].at) = slot[t][loc[u].at[1]][loc[u].at[2]]
            BY <1>2 DEF Content
          <6>2. QED  BY <5>1, <6>1
        <5>4. ~ Before(s, loc'[u].at)
          <6>1. loc'[u].at[1] = loc[u].at[1] /\ loc'[u].at[2] = loc[u].at[2] + 1  BY <5>1
          <6>2. QED  BY <1>2, <4>3, <5>2, <5>3, <6>1 DEF Before
        <5>5. QED  BY <2>2, <5>1, <5>4 DEF WillSee
      <4>4. QED  BY <4>1, <4>2, <4>3 DEF WillSee
    <3>4. CASE Leaves(u)
      <4>1. WillSee(loc[u], t, s) /\ loc[u].pc = "scan"
        BY <1>4, <2>2, <3>4 DEF Leaves, Safe, Scans
      <4>2. CASE t \in loc[u].unseen  BY <2>2, <3>4, <4>2 DEF Leaves, WillSee
      <4>3. CASE loc[u].u = t /\ ~ Before(s, loc[u].at)
        <5>1. /\ loc[u].at[1] \in 1 .. Len(slot[t]) /\ loc[u].at[2] \in 1 .. Width + 1
              /\ loc[u].at[2] > Width /\ Len(slot[t]) \in Nat
          BY <1>0, <3>4, <4>1, <4>3 DEF ScanOK, Leaves, TypeOK
        <5>2. g > loc[u].at[1]  BY <1>0, <1>2, <4>3, <5>1 DEF Before
        <5>3. loc[u].at[1] < Len(slot[t])  BY <1>1, <5>1, <5>2
        <5>4. /\ loc'[u].pc = "scan" /\ loc'[u].u = t
              /\ loc'[u].at[1] = loc[u].at[1] + 1 /\ loc'[u].at[2] = 1
          BY <3>4, <4>3, <5>3 DEF Leaves
        <5>5. ~ Before(s, loc'[u].at)  BY <1>2, <5>1, <5>2, <5>4 DEF Before
        <5>6. QED  BY <2>2, <4>3, <5>4, <5>5 DEF WillSee
      <4>4. QED  BY <4>1, <4>2, <4>3 DEF WillSee
    <3>5. QED  BY <1>4, <2>2, <3>1, <3>2, <3>3, <3>4, ScanMoves
  <2>3. QED  BY <2>1, <2>2
<1>5. QED  BY <1>3, <1>4 DEF Safe, WillSee

\* A hazard_ptr is good because another one was that had its slot, or an
\* earlier one, or because the handler has its pointer.
LEMMA GoodFrom ==
  ASSUME Inv, NEW t \in Threads, Step(t), NEW z \in Names,
         hp'[t][z].by \in Good, hp'[t][z].p # Null
  PROVE  /\ hp'[t][z].os # <<>>
         /\ \/ \E y \in Names :
                 /\ hp[t][y].by \in Good /\ hp[t][y].p = hp'[t][z].p
                 /\ hp[t][y].os = hp'[t][z].os \/ Before(hp[t][y].os, hp'[t][z].os)
            \/ hp'[t][z].p = target /\ hp'[t][z].os = hp[t][z].os
<1>0. TypeOK  BY DEF Inv
<1>1. ASSUME hp'[t][z] = hp[t][z]  PROVE hp'[t][z].os # <<>>
  BY <1>1, Zenon DEF Inv, Kept, Built
<1>2. CASE Quiet(t)  BY <1>1, <1>2 DEF Quiet
<1>3. CASE Handled(t)
  <2>1. PICK x \in Names, h \in HazardPtrs :
          /\ Set(t, x, h) /\ Usable(t, x) /\ h.os = hp[t][x].os
          /\ \/ h.by = "verified" /\ h.p = hp[t][x].p /\ h.p = target
             \/ h.by = "spent"
             \/ h.by = "loaded"
    BY <1>3, Zenon DEF Handled
  <2>2. hp'[t][x] = h /\ \A y \in Names : y # x => hp'[t][y] = hp[t][y]
    BY <1>0, <2>1, Sets, Zenon
  <2>3. CASE z # x
    <3>1. hp'[t][z] = hp[t][z]  BY <2>2, <2>3
    <3>2. QED  BY <1>1, <3>1
  <2>4. CASE z = x
    <3>1. h.p = target  BY <2>1, <2>2, <2>4 DEF Good
    <3>2. QED  BY <2>1, <2>2, <2>4, <3>1 DEF Usable, Built
  <2>5. QED  BY <2>3, <2>4
<1>4. CASE Moved(t)
  <2>1. PICK x, y \in Names, h \in HazardPtrs :
          /\ hp' = [hp EXCEPT ![t][x] = hp[t][y], ![t][y] = h]
          /\ h = Gone \/ h = hp[t][x]
    BY <1>4, Zenon DEF Moved
  <2>2. \A w \in Names : hp'[t][w] = IF w = y THEN h ELSE IF w = x THEN hp[t][y] ELSE hp[t][w]
    <3>1. hp' = [hp EXCEPT ![t][x] = hp[t][y], ![t][y] = h]  BY <2>1
    <3>2. x \in Names /\ y \in Names /\ h \in HazardPtrs  BY <2>1
    <3>3. QED  BY <1>0, <3>1, <3>2, Moves, Zenon
  <2>3. hp'[t][z] # Gone  BY DEF Gone
  <2>4. PICK w \in Names : hp'[t][z] = hp[t][w]
    <3>0. h = Gone \/ h = hp[t][x]  BY <2>1
    <3>1. CASE z = y  BY <3>0, <2>2, <2>3, <3>1
    <3>2. CASE z # y /\ z = x  BY <2>2, <3>2
    <3>3. CASE z # y /\ z # x  BY <2>2, <3>3
    <3>4. QED  BY <3>1, <3>2, <3>3
  <2>5. hp[t][w].os # <<>>  BY <2>4, Zenon DEF Inv, Kept, Built
  <2>6. QED  BY <2>4, <2>5
<1>5. CASE Stored(t)
  <2>1. PICK x \in Names, s \in Slots(t), h \in HazardPtrs, v \in Word :
          /\ Set(t, x, h)
          /\ h.os = s \/ h = Gone
          /\ h.by \in Good /\ h.p # Null =>
               \E y \in Names :
                 hp[t][y].by \in Good /\ hp[t][y].p = h.p /\ Before(hp[t][y].os, s)
    BY <1>5, Zenon DEF Stored
  <2>2. hp'[t][x] = h /\ \A y \in Names : y # x => hp'[t][y] = hp[t][y]
    BY <1>0, <2>1, Sets, Zenon
  <2>3. CASE z # x
    <3>1. hp'[t][z] = hp[t][z]  BY <2>2, <2>3
    <3>2. QED  BY <1>1, <3>1
  <2>4. CASE z = x
    <3>1. h.p # Null /\ h.os = s /\ s # <<>>  BY <2>1, <2>2, <2>4, SlotIsPair DEF Gone
    <3>2. QED  BY <2>1, <2>2, <2>4, <3>1
  <2>5. QED  BY <2>3, <2>4
<1>6. CASE NewGroup(t)
  <2>1. hp' = hp  BY <1>6, Zenon DEF NewGroup
  <2>2. QED  BY <1>1, <2>1
<1>7. QED  BY <1>2, <1>3, <1>4, <1>5, <1>6, OneForm, Zenon

\* A scan that has not come to slot r has not come to a later one.
LEMMA LaterSeen ==
  ASSUME NEW t, NEW l, NEW r, NEW s, r[1] \in Nat, r[2] \in Nat, s[1] \in Nat, s[2] \in Nat,
         l.pc = "scan" => l.at[1] \in Nat /\ l.at[2] \in Nat,
         r = s \/ Before(r, s), WillSee(l, t, r)
  PROVE  WillSee(l, t, s)
  BY DEF Before, WillSee

\* What is good after a step was good before, or was just read in the handler:
\* then no scan looks for it.
LEMMA KeptStep ==
  ASSUME Inv, NEW t \in Threads, Step(t)
  PROVE  Kept'
<1>0. /\ TypeOK /\ TypeOK' /\ Held /\ Kept /\ Announced /\ Owned
      /\ \A v \in Threads : OwnedBy(v)' /\ ScanOK(v, loc[v])' /\ ScanOK(v, loc[v])
  <2>1. TypeOK /\ TypeOK' /\ Held /\ Kept /\ Announced /\ Owned  BY TypesStep DEF Inv
  <2>2. ASSUME NEW v \in Threads  PROVE OwnedBy(v)' /\ ScanOK(v, loc[v])' /\ ScanOK(v, loc[v])
    <3>1. ScanOK(v, loc[v])' /\ ScanOK(v, loc[v])  BY ScanStep, Zenon DEF Inv, LocalsOK
    <3>2. CASE v = t  BY <3>1, <3>2, OwnedStep
    <3>3. CASE v # t
      <4>1. OwnedBy(v)  BY <2>1, Zenon DEF Owned, OwnedBy
      <4>2. slot'[v] = slot[v] /\ hp'[v] = hp[v]  BY <3>3, OthersAlone, Zenon
      <4>3. OwnedBy(v)'  BY <4>1, <4>2 DEF OwnedBy, Built, Slots
      <4>4. QED  BY <3>1, <4>3
    <3>4. QED  BY <3>2, <3>3
  <2>3. QED  BY <2>1, <2>2, Zenon
\* What is good before remains safe in its slot.
<1>1. ASSUME NEW u \in Threads, NEW y \in Names, hp[u][y].by \in Good,
             NEW o, o = hp[u][y].p, o # Null, NEW s, s = hp[u][y].os
      PROVE  Safe(o, u, s)' /\ s \in Slots(u)
  <2>1. Built(u, y) /\ Safe(o, u, s)  BY <1>0, <1>1, Zenon DEF Kept
  <2>2. s \in Slots(u)  BY <1>0, <1>1, <2>1, Zenon DEF Owned
  <2>3. o \in Objects  BY <1>0, <1>1 DEF TypeOK, HazardPtrs, Pointer
  <2>4. Usable(u, y) /\ ~(At(u, "reflect") /\ loc[u].x = y)
    <3>1. hp[u][y].by # "spent" /\ hp[u][y].by # "loaded"  BY <1>1 DEF Good
    <3>2. CallOK(u, loc[u])  BY Zenon DEF Inv, LocalsOK
    <3>3. QED  BY <2>1, <3>1, <3>2 DEF Usable, CallOK, At
  <2>5. Content(u, s) = o
    <3>1. Content(u, hp[u][y].os) = Mark(hp[u][y].p)  BY <1>0, <2>4, Zenon DEF Announced
    <3>2. QED  BY <1>1, <3>1 DEF Mark
  <2>6. QED  BY <2>1, <2>2, <2>3, <2>5, SafeStep, Zenon
\* For the thread of the step.
<1>2. ASSUME NEW z \in Names, hp'[t][z].by \in Good, NEW o, o = hp'[t][z].p, o # Null,
             NEW s, s = hp'[t][z].os
      PROVE  s # <<>> /\ Safe(o, t, s)'
  <2>1. s # <<>> /\ s \in Slots(t)'
    <3>1. s # <<>>  BY <1>2, GoodFrom, Zenon
    <3>2. QED  BY <1>0, <1>2, <3>1 DEF OwnedBy, Built
  <2>2. CASE \E y \in Names :
               hp[t][y].by \in Good /\ hp[t][y].p = o /\ (hp[t][y].os = s \/ Before(hp[t][y].os, s))
    <3>1. PICK y \in Names :
            hp[t][y].by \in Good /\ hp[t][y].p = o /\ (hp[t][y].os = s \/ Before(hp[t][y].os, s))
      BY <2>2
    <3>2. PICK r : r = hp[t][y].os  OBVIOUS
    <3>3. Safe(o, t, r)' /\ r \in Slots(t)  BY <1>1, <1>2, <3>1, <3>2, Zenon
    <3>4. r[1] \in Nat /\ r[2] \in Nat /\ s[1] \in Nat /\ s[2] \in Nat
      <4>1. PICK g \in 1 .. Len(slot[t]), i \in 1 .. Width : r = <<g, i>>  BY <3>3 DEF Slots
      <4>2. PICK f \in 1 .. Len(slot'[t]), j \in 1 .. Width : s = <<f, j>>  BY <2>1 DEF Slots
      <4>3. Len(slot[t]) \in Nat /\ Len(slot'[t]) \in Nat  BY GroupsStay, Zenon
      <4>4. QED  BY <4>1, <4>2, <4>3, SlotsAssumption
    <3>5. ASSUME NEW v \in Threads, loc'[v].pc \in Scans, loc'[v].p = o
          PROVE  WillSee(loc'[v], t, s)
      <4>1. WillSee(loc'[v], t, r)  BY <3>3, <3>5 DEF Safe, WillSee
      <4>2. loc'[v].pc = "scan" => loc'[v].at[1] \in Nat /\ loc'[v].at[2] \in Nat
        <5>1. ASSUME loc'[v].pc = "scan"
              PROVE  /\ loc'[v].at[1] \in 1 .. Len(slot'[loc'[v].u])
                     /\ loc'[v].at[2] \in 1 .. Width + 1
          BY <1>0, <5>1 DEF ScanOK
        <5>2. QED  BY <5>1
      <4>3. r = s \/ Before(r, s)  BY <3>1, <3>2
      <4>4. QED  BY <3>4, <4>1, <4>2, <4>3, LaterSeen, Zenon
    <3>6. o \in live'  BY <3>3 DEF Safe
    <3>7. QED  BY <2>1, <3>5, <3>6 DEF Safe, WillSee
  <2>3. CASE o = target
    <3>1. o \in Objects  BY <1>0, <1>2, <2>3 DEF TypeOK, Pointer
    <3>2. \A v \in Threads : o \notin taken[v]  BY <1>0, <2>3 DEF Held
    <3>3. o \in live  BY <1>0, <2>3, <3>1 DEF Held
    <3>4. o \in live'
      <4>1. CASE UNCHANGED <<target, live, taken>>  BY <3>3, <4>1
      <4>2. CASE \E d \in New : Replace(t, d)  BY <3>3, <4>2 DEF Replace
      <4>3. CASE Delete(t)
        <5>1. loc[t].pc = "chain" /\ live' = live \ {loc[t].p}  BY <4>3, Zenon DEF Delete, At
        <5>2. loc[t].p \in taken[t]  BY <1>0, <5>1 DEF ScanOK, Scans
        <5>3. QED  BY <3>2, <3>3, <5>1, <5>2
      <4>4. QED  BY <4>1, <4>2, <4>3, ObjectStep, Zenon
    <3>5. ASSUME NEW v \in Threads, loc'[v].pc \in Scans, loc'[v].p = o
          PROVE  FALSE
      <4>1. CASE v # t
        <5>1. loc[v].pc \in Scans /\ loc[v].p = o  BY <3>5, <4>1, OthersAlone
        <5>2. QED  BY <1>0, <3>2, <5>1 DEF ScanOK
      <4>2. CASE v = t
        <5>1. CASE Starts(t)  BY <3>2, <3>5, <4>2, <5>1 DEF Starts
        <5>2. CASE Enters(t) \/ Passes(t) \/ Leaves(t)
          <6>1. loc[t].pc \in Scans /\ loc[t].p = o
            BY <3>5, <4>2, <5>2 DEF Enters, Passes, Leaves, Scans
          <6>2. QED  BY <1>0, <3>2, <6>1 DEF ScanOK
        <5>3. QED  BY <3>5, <4>2, <5>1, <5>2, ScanMoves, Zenon
      <4>3. QED  BY <4>1, <4>2
    <3>6. QED  BY <2>1, <3>4, <3>5 DEF Safe
  <2>4. QED  BY <1>2, <2>2, <2>3, GoodFrom, Zenon
\* For the other threads.
<1>3. ASSUME NEW u \in Threads, u # t, NEW z \in Names, hp'[u][z].by \in Good,
             NEW o, o = hp'[u][z].p, o # Null, NEW s, s = hp'[u][z].os
      PROVE  s # <<>> /\ Safe(o, u, s)'
  <2>1. hp'[u] = hp[u]  BY <1>3, OthersAlone, Zenon
  <2>2. Safe(o, u, s)' /\ s \in Slots(u)  BY <1>1, <1>3, <2>1, Zenon
  <2>3. QED  BY <2>2, SlotIsPair, Zenon
<1>4. ASSUME NEW u \in Threads, NEW z \in Names, hp'[u][z].by \in Good, hp'[u][z].p # Null
      PROVE  (Built(u, z) /\ Safe(hp[u][z].p, u, hp[u][z].os))'
  <2>1. PICK o, s : o = hp'[u][z].p /\ s = hp'[u][z].os  OBVIOUS
  <2>2. s # <<>> /\ Safe(o, u, s)'  BY <1>2, <1>3, <1>4, <2>1, Zenon
  <2>3. QED  BY <2>1, <2>2 DEF Built, Safe, WillSee
<1>5. QED  BY <1>4, Zenon DEF Kept

-----------------------------------------------------------------------------
(* The theorems.                                                           *)

\* At the start there is no group, and no hazard_ptr has a slot.
LEMMA InvInit == Init => Inv
<1> SUFFICES ASSUME Init PROVE Inv  OBVIOUS
<1>1. /\ target \in Objects /\ live = {target} /\ taken = [t \in Threads |-> {}]
      /\ calls \in [Threads -> Nat]
      /\ \A t \in Threads : /\ slot[t] = <<>> /\ hint[t] = <<>> /\ loc[t] = Idle
                            /\ \A x \in Names : hp[t][x] = Gone
  BY SlotsAssumption DEF Init
<1>2. /\ hp \in [Threads -> [Names -> {Gone}]] /\ slot \in [Threads -> {<<>>}]
      /\ hint \in [Threads -> {<<>>}] /\ loc \in [Threads -> {Idle}]
  BY DEF Init
<1>3. Gone \in HazardPtrs /\ Idle \in Locals
  BY DEF Gone, Idle, HazardPtrs, Locals, Pointer
<1>4. TypeOK
  <2>1. hp \in [Threads -> [Names -> HazardPtrs]] /\ loc \in [Threads -> Locals]  BY <1>2, <1>3
  <2>2. slot \in [Threads -> Seq(Groups)] /\ hint \in [Threads -> Seq(1 .. Width)]
    <3>1. <<>> \in Seq(Groups) /\ <<>> \in Seq(1 .. Width)  OBVIOUS
    <3>2. QED  BY <1>2, <3>1, Zenon
  <2>3. \A t \in Threads : Len(hint[t]) = Len(slot[t])  BY <1>1
  <2>4. taken \in [Threads -> SUBSET Objects]  BY <1>1
  <2>5. target \in Pointer /\ live \subseteq Objects  BY <1>1 DEF Pointer
  <2>6. QED  BY <1>1, <2>1, <2>2, <2>3, <2>4, <2>5 DEF TypeOK
<1>5. \A t \in Threads : \A x \in Names : hp[t][x].os = <<>> /\ hp[t][x].by = "loaded"
  BY <1>1 DEF Gone
<1>6. Owned /\ Announced /\ Kept
  BY <1>5 DEF Owned, Announced, Kept, Usable, Built, Good
<1>7. Filled
  <2>1. \A t \in Threads : Slots(t) = {}  BY <1>1 DEF Slots
  <2>2. QED  BY <2>1 DEF Filled
<1>8. LocalsOK
  BY <1>1 DEF LocalsOK, CallOK, ScanOK, Idle, Working, Scans
<1>9. Held
  BY <1>1 DEF Held
<1>10. QED  BY <1>4, <1>6, <1>7, <1>8, <1>9 DEF Inv

\* Every step keeps the invariant: of its thread, of the others, of the objects.
LEMMA InvStep == Inv /\ [Next]_vars => Inv'
<1>1. ASSUME Inv, UNCHANGED vars  PROVE Inv'
  BY <1>1 DEF Inv, vars, TypeOK, Owned, Filled, Announced, LocalsOK, CallOK, ScanOK, Held, Kept, Safe,
     WillSee, Built, Usable, Content, Slots, At
<1>2. ASSUME Inv, NEW t \in Threads, Step(t)  PROVE Inv'
  <2>1. ASSUME NEW u \in Threads
        PROVE  /\ OwnedBy(u)' /\ FilledBy(u)' /\ AnnouncedBy(u)'
               /\ CallOK(u, loc[u])' /\ ScanOK(u, loc[u])'
    <3>1. ScanOK(u, loc[u])'  BY <1>2, ScanStep, Zenon
    <3>2. CASE u = t
      <4>1. OwnedBy(t)' /\ FilledBy(t)' /\ AnnouncedBy(t)' /\ CallOK(t, loc[t])'
        BY <1>2, OwnedStep, FilledStep, AnnouncedStep, CallStep, Zenon
      <4>2. QED  BY <3>1, <3>2, <4>1
    <3>3. CASE u # t
      <4>1. slot'[u] = slot[u] /\ hp'[u] = hp[u] /\ loc'[u] = loc[u]
        BY <1>2, <3>3, OthersAlone, Zenon
      <4>2. OwnedBy(u) /\ FilledBy(u) /\ AnnouncedBy(u)
        BY <1>2, Zenon DEF Inv, Owned, OwnedBy, Filled, FilledBy, Announced, AnnouncedBy
      <4>3. CallOK(u, loc[u])  BY <1>2, Zenon DEF Inv, LocalsOK
      <4>4. OwnedBy(u)'  BY <4>1, <4>2 DEF OwnedBy, Built, Slots
      <4>5. FilledBy(u)'  BY <4>1, <4>2 DEF FilledBy, Content, Slots
      <4>6. AnnouncedBy(u)'  BY <4>1, <4>2 DEF AnnouncedBy, Usable, Built, At, Content
      <4>7. CallOK(u, loc[u])'  BY <4>1, <4>3 DEF CallOK, Usable, Built
      <4>8. QED  BY <3>1, <4>4, <4>5, <4>6, <4>7
    <3>4. QED  BY <3>2, <3>3
  <2>2. Owned' /\ Filled' /\ Announced'
    BY <2>1, Zenon DEF Owned, OwnedBy, Filled, FilledBy, Announced, AnnouncedBy
  <2>3. LocalsOK'  BY <2>1, Zenon DEF LocalsOK
  <2>4. TypeOK' /\ Held' /\ Kept'  BY <1>2, TypesStep, HeldStep, KeptStep, Zenon
  <2>5. QED  BY <2>2, <2>3, <2>4 DEF Inv
<1>3. QED  BY <1>1, <1>2, Zenon DEF Next

\* The invariant holds in every reachable state.
THEOREM InvHolds == Spec => []Inv
  BY InvInit, InvStep, PTL DEF Spec

\* For every number of threads, hazard_ptr and slots: an object that a
\* hazard_ptr holds and that the handler was seen to hold after the slot had it
\* (verify_exchange, the compare_exchange loops) is not deleted.
THEOREM VerifiedNotDeleted == Spec => []VerifiedIsKept
<1>1. Inv => VerifiedIsKept  BY DEF Inv, Kept, Safe, Good, VerifiedIsKept
<1>2. QED  BY <1>1, InvHolds, PTL

\* Neither is the object in a copy whose slot a scan reads after the slot of the
\* origin, though the origin is gone (the copy constructor and operator= of
\* hazard_ptr against check_pointer_is_hazard_pointer).
THEOREM CopyNotDeleted == Spec => []CopyIsKept
<1>1. Inv => CopyIsKept  BY DEF Inv, Kept, Safe, Good, CopyIsKept
<1>2. QED  BY <1>1, InvHolds, PTL

\* No two hazard_ptr share a slot, a slot is in use if and only if one has it,
\* and it contains what this one announces (hzrd_slot_ownership_t, try_assign).
THEOREM OneOwner == Spec => []SlotHasOneOwner
<1>1. ASSUME Inv, NEW t \in Threads, NEW g \in DOMAIN slot[t], NEW i \in 1 .. Width
      PROVE  LET own == {x \in Names : hp[t][x].os = <<g, i>>}
             IN  \/ own = {} /\ slot[t][g][i] = Null
                 \/ \E x \in Names : own = {x} /\ slot[t][g][i] # Null
  <2> DEFINE own == {x \in Names : hp[t][x].os = <<g, i>>}
  <2>1. slot[t] \in Seq(Groups)  BY <1>1 DEF Inv, TypeOK
  <2>2. <<g, i>> \in Slots(t)  BY <2>1, <1>1 DEF Slots
  <2>3. Content(t, <<g, i>>) = slot[t][g][i]  BY DEF Content
  <2>4. slot[t][g][i] # Null <=> \E x \in Names : hp[t][x].os = <<g, i>>
    BY <1>1, <2>2, <2>3 DEF Inv, Filled
  <2>5. CASE own = {}  BY <2>4, <2>5
  <2>6. CASE own # {}
    <3>1. PICK x \in Names : hp[t][x].os = <<g, i>>  BY <2>6
    <3>2. Built(t, x)  BY <3>1 DEF Built
    <3>3. \A y \in Names : hp[t][y].os = <<g, i>> => y = x
      BY <1>1, <3>1, <3>2, Zenon DEF Inv, Owned
    <3>4. own = {x}  BY <3>1, <3>3
    <3>5. slot[t][g][i] # Null  BY <2>4, <3>1, Zenon
    <3>6. QED  BY <3>4, <3>5, Zenon
  <2>7. QED  BY <2>5, <2>6
<1>2. ASSUME Inv, NEW t \in Threads, NEW x \in Names, Usable(t, x),
             ~(loc[t].pc \in {"reflect", "copy"} /\ loc[t].x = x)
      PROVE  Content(t, hp[t][x].os) = Mark(hp[t][x].p)
  <2>1. ~(At(t, "reflect") /\ loc[t].x = x)  BY <1>2 DEF At
  <2>2. QED  BY <1>2, <2>1, Zenon DEF Inv, Announced
<1>3. Inv => SlotHasOneOwner  BY <1>1, <1>2, Zenon DEF SlotHasOneOwner
<1>4. QED  BY <1>3, InvHolds, PTL

\* When every group of a thread is full, its slots and its hazard_ptr are equally many.
LEMMA FullGroups ==
  ASSUME Inv, NEW t \in Threads, \A g \in DOMAIN slot[t] : Full(t, g)
  PROVE  Len(slot[t]) * Width = Cardinality({x \in Names : Built(t, x)})
<1> DEFINE B == {x \in Names : Built(t, x)}
           f == [x \in B |-> hp[t][x].os]
<1>1. /\ slot[t] \in Seq(Groups) /\ hint[t] \in Seq(1 .. Width) /\ Len(hint[t]) = Len(slot[t])
      /\ Len(slot[t]) \in Nat /\ Width \in Nat \ {0}
  BY SlotsAssumption DEF Inv, TypeOK
<1>2. f \in [B -> Slots(t)] /\ \A x, y \in B : f[x] = f[y] => x = y
  BY DEF Inv, Owned
<1>3. ASSUME NEW s \in Slots(t)  PROVE \E x \in B : f[x] = s
  <2>1. PICK g \in 1 .. Len(slot[t]), i \in 1 .. Width : s = <<g, i>>  BY DEF Slots
  <2>2. Full(t, g) /\ hint[t][g] \in 1 .. Width  BY <1>1, <2>1
  <2>3. slot[t][g][i] # Null  BY <2>1, <2>2, FullGroup, Zenon DEF Full
  <2>4. Content(t, s) # Null  BY <2>1, <2>3 DEF Content
  <2>5. PICK x \in Names : hp[t][x].os = s  BY <2>4, Zenon DEF Inv, Filled
  <2>6. x \in B  BY <2>5, SlotIsPair DEF Built
  <2>7. QED  BY <2>5, <2>6
<1>4. f \in Bijection(B, Slots(t))  BY <1>2, <1>3, Fun_IsBij, Zenon
<1>5. ExistsBijection(Slots(t), B)
  <2>1. Bijection(B, Slots(t)) # {}  BY <1>4
  <2>2. ExistsBijection(B, Slots(t))  BY <2>1, Fun_ExistsBij, Zenon
  <2>3. QED  BY <2>2, Fun_ExistsBijSymmetric, Zenon
<1>6. IsFiniteSet(Slots(t)) /\ Cardinality(Slots(t)) = Len(slot[t]) * Width
  <2>1. /\ IsFiniteSet(1 .. Len(slot[t])) /\ Cardinality(1 .. Len(slot[t])) = Len(slot[t])
        /\ IsFiniteSet(1 .. Width) /\ Cardinality(1 .. Width) = Width
    <3>1. \A n \in Nat : IsFiniteSet(1 .. n) /\ Cardinality(1 .. n) = n  BY FS_Interval
    <3>2. QED  BY <1>1, <3>1
  <2>2. PICK K, W : K = 1 .. Len(slot[t]) /\ W = 1 .. Width  OBVIOUS
  <2>3. IsFiniteSet(K \X W) /\ Cardinality(K \X W) = Cardinality(K) * Cardinality(W)
    BY <2>1, <2>2, FS_Product, Zenon
  <2>4. QED  BY <2>1, <2>2, <2>3 DEF Slots
<1>7. QED  BY <1>5, <1>6, FS_Bijection

\* A thread gets a further group only when all the slots it has are in use:
\* slots given back are found again, wherever the hint is (try_assign,
\* slot_assign).
THEOREM NoGroupTooMany == Spec => GroupsAsNeeded
<1>1. ASSUME Inv, NEW t \in Threads, Step(t), NEW u \in Threads, Len(slot'[u]) > Len(slot[u])
      PROVE  Len(slot[u]) * Width = Cardinality({x \in Names : Built(u, x)})
  <2>1. TypeOK /\ Len(slot[u]) \in Nat  BY <1>1 DEF Inv, TypeOK
  <2>2. slot'[u] # slot[u]  BY <1>1, <2>1
  <2>3. u = t  BY <1>1, <2>2, OthersAlone, Zenon
  <2>4. ~Quiet(t) /\ ~Handled(t) /\ ~Moved(t)  BY <2>2, Zenon DEF Quiet, Handled, Moved
  <2>5. ASSUME Stored(t)  PROVE FALSE
    <3>1. Len(slot'[t]) = Len(slot[t])  BY <2>1, <2>5, Puts, Zenon DEF Stored
    <3>2. QED  BY <1>1, <2>1, <2>3, <3>1
  <2>6. NewGroup(t)  BY <1>1, <2>4, <2>5, OneForm, Zenon
  <2>7. QED  BY <1>1, <2>3, <2>6, FullGroups, Zenon DEF NewGroup
<1> DEFINE A == \A t \in Threads :
                  Len(slot'[t]) > Len(slot[t]) =>
                    Len(slot[t]) * Width = Cardinality({x \in Names : Built(t, x)})
<1>2. Inv /\ [Next]_vars => [A]_vars  BY <1>1, Zenon DEF Next
<1>3. QED  BY <1>2, InvHolds, PTL DEF Spec, GroupsAsNeeded
=============================================================================
