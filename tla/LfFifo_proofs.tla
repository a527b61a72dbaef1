----------------------------- MODULE LfFifo_proofs -----------------------------
(***************************************************************************)
(* Proofs about LfFifo, for every number of threads, nodes, values and     *)
(* calls: the structure of the queue, the safety of its reclamation, and   *)
(* that it implements AtomicFifo.                                          *)
(***************************************************************************)
EXTENDS LfFifo, FiniteSetTheorems, SequenceTheorems, TLAPS

-----------------------------------------------------------------------------
(* The inductive invariant.                                                *)

\* The control points at which a call has its nodes, from the pool to the
\* compare_exchange that links them.
TailPoints == {"tlLoad", "tlSlot", "tlVerify", "tlNext", "tlMove", "tlLink"}
PushPoints == {"move", "link", "swing"}
HeadPoints == {"look", "help", "nxtSlot", "nxtVerify", "cas"}
PoolPoints == {"pool", "alloc", "recheck"}
TryPoints  == {"load", "slot", "verify", "next"} \cup PushPoints \cup HeadPoints \cup TailPoints

\* Which control points a call of each kind comes to.
KindOK(l) ==
  /\ l.pc = "idle" => l = Idle
  /\ l.pc \in PoolPoints => l.kind # "pop"
  /\ l.pc \in PushPoints => l.kind = "push"
  /\ l.pc \in HeadPoints => l.kind # "push"
  /\ l.pc = "value" => l.kind = "pop"
  /\ l.pc = "retire" => l.kind # "push"
  /\ l.pc \in TailPoints => l.kind = "pushHead"

\* Which nodes a call has at each control point: all it needs when it tries
\* to link them, one too few while it asks the pool, none when it is done.
NodesOK(l) ==
  /\ l.pc \in {"recheck", "value", "retire"} => l.chk # Null
  /\ l.chk # Null => l.pc \in {"recheck", "value", "retire", "drop"}
  /\ l.chk # Null /\ l.pc # "recheck" => l.kind # "push"
  /\ l.pc = "drop" /\ l.kind = "pushHead" => l.chk # Null
  /\ l.pc \in PoolPoints => l.node = Null \/ (l.sen = Null /\ l.kind = "pushHead")
  /\ l.pc \in TryPoints /\ l.kind # "pop" => l.node # Null
  /\ l.pc \in TryPoints /\ l.kind = "pushHead" => l.sen # Null
  /\ l.kind = "pop" \/ l.pc \in {"drop", "retire"} => l.node = Null
  /\ l.kind # "pushHead" \/ l.pc \in {"drop", "retire"} => l.sen = Null
  /\ l.node # Null => l.node # l.sen
  /\ l.chk # Null => l.chk # l.node /\ l.chk # l.sen

\* Where a call has set its pointers.
PointersOK(l) ==
  /\ l.pc \in {"slot", "verify", "next", "value"} \cup PushPoints \cup HeadPoints \cup TailPoints
       => l.cur # Null
  /\ l.pc \in TailPoints \ {"tlLoad"} => l.tl # Null
  /\ l.pc \in {"move", "tlMove", "value"} \cup HeadPoints => l.nxt # Null

\* What a call knows of the links: the successor it has read is the
\* successor, and its own nodes are linked as it has set them.
LinksOK(l) ==
  /\ l.pc \in {"move"} \cup HeadPoints => next[l.cur] = l.nxt
  /\ l.pc = "tlMove" => next[l.tl] = l.nxt
  /\ l.pc = "swing" => next[l.cur] = l.node
  /\ l.kind = "push" /\ l.pc \in TryPoints \ {"swing"} => next[l.node] = Null
  /\ l.kind = "pushHead" /\ l.pc \in TryPoints \ {"load"} => next[l.sen] = l.node
  /\ l.pc \in {"nxtSlot", "nxtVerify", "cas"} => tail # l.cur

\* The hazard pointers that a thread has set are in its slots.
SlotsOK(t) ==
  /\ loc[t].pc \in {"verify"} \cup TailPoints => slot[<<t, "cur">>] = loc[t].cur
  /\ At(t, "tlVerify") => slot[<<t, "tl">>] = loc[t].tl
  /\ loc[t].pc \in {"nxtVerify", "cas"} => slot[<<t, "nxt">>] = loc[t].nxt

LocalsOK == \A t \in Threads :
  KindOK(loc[t]) /\ NodesOK(loc[t]) /\ PointersOK(loc[t]) /\ LinksOK(loc[t]) /\ SlotsOK(t)

\* The chain without its bounds.
Linked == \A i \in 1..Len(que) : next[que[i]] = IF i = Len(que) THEN Null ELSE que[i + 1]
TailOK == \E i \in 1..Len(que) : tail = que[i] /\ i >= Len(que) - 1

\* OnePlace in the form in which it is inductive: nothing is in two places,
\* and nothing is lost.
Distinct == \A i, j \in 1..Len(que) : que[i] = que[j] => i = j
Apart ==
  /\ InQueue \cap free = {}
  /\ \A t \in Threads :
       /\ Held(t) \cap (InQueue \cup free) = {}
       /\ limbo[t] \cap (InQueue \cup free) = {}
       /\ \A u \in Threads :
            /\ limbo[t] \cap Held(u) = {}
            /\ t # u => Held(t) \cap Held(u) = {} /\ limbo[t] \cap limbo[u] = {}
Complete ==
  \A n \in Nodes : \/ n \in InQueue \cup free
                   \/ \E t \in Threads : n \in Held(t) \cup limbo[t]

\* The hazard pointer that a call has verified: its slot and its node.
CurPoints == {"next"} \cup PushPoints \cup HeadPoints
TlPoints == {"tlNext", "tlMove", "tlLink"}
Guarding(t) == loc[t].pc \in CurPoints \cup TlPoints \cup {"value"}
Use(t) == IF loc[t].pc \in CurPoints THEN "cur" ELSE IF At(t, "value") THEN "nxt" ELSE "tl"
Guarded(t) ==
  IF loc[t].pc \in CurPoints THEN loc[t].cur ELSE IF At(t, "value") THEN loc[t].nxt ELSE loc[t].tl

\* u has not passed the slot s in the last scan before its node can be used
\* again.
WillSee(u, s) == loc[u].pc \in {"value", "drop"} \/ (Scanning(u) /\ s \in loc[u].unseen)

\* A node that a thread has verified is in its slot and was linked then: it
\* is still, or has a successor that it keeps; whoever has taken it out will
\* still see the hazard pointer, and nobody has it to link it anew.
Protected ==
  \A t \in Threads : Guarding(t) =>
    /\ slot[<<t, Use(t)>>] = Guarded(t)
    /\ Guarded(t) \notin free
    /\ Guarded(t) \in InQueue \/ next[Guarded(t)] # Null
    /\ \A u \in Threads :
         /\ Guarded(t) # loc[u].sen
         /\ Guarded(t) # loc[u].node \/ At(u, "swing")
         /\ Guarded(t) = loc[u].chk => u # t /\ WillSee(u, <<t, Use(t)>>)

\* What pop and push_head have verified at the head is linked nowhere else.
HeadOrGone ==
  \A t \in Threads : loc[t].pc \in CurPoints /\ ~ InCall(t, "push") =>
    loc[t].cur = head \/ loc[t].cur \notin InQueue

\* What push_back, or push_front on an empty queue, has verified is the tail
\* until it has a successor.
TailSeen ==
  \A t \in Threads :
    /\ loc[t].pc \in CurPoints /\ InCall(t, "push") /\ next[loc[t].cur] = Null => tail = loc[t].cur
    /\ loc[t].pc \in TlPoints /\ next[loc[t].tl] = Null => tail = loc[t].tl

HeadOK == Len(que) > 0 /\ head = que[1]

FifoInv ==
  TypeOK /\ LocalsOK /\ HeadOK /\ Linked /\ TailOK /\ Distinct /\ Apart /\ Complete
    /\ Protected /\ HeadOrGone /\ TailSeen

-----------------------------------------------------------------------------
(* Types, and what a step leaves alone.                                    *)

Record == [pc : Points, kind : Kinds, arg : Values \cup {Null},
           node : NodeOrNull, sen : NodeOrNull, cur : NodeOrNull,
           nxt : NodeOrNull, tl : NodeOrNull, chk : NodeOrNull,
           ret : Values \cup {Null}, unseen : SUBSET Slots]

\* What the types say of a thread's locals.
LEMMA LocalTypes ==
  ASSUME TypeOK, NEW t \in Threads
  PROVE  /\ loc[t] \in Record
         /\ loc[t].pc \in Points /\ loc[t].kind \in Kinds
         /\ loc[t].arg \in Values \cup {Null} /\ loc[t].ret \in Values \cup {Null}
         /\ loc[t].node \in NodeOrNull /\ loc[t].sen \in NodeOrNull /\ loc[t].cur \in NodeOrNull
         /\ loc[t].nxt \in NodeOrNull /\ loc[t].tl \in NodeOrNull /\ loc[t].chk \in NodeOrNull
         /\ loc[t].unseen \in SUBSET Slots
         /\ End(t) \in NodeOrNull /\ tail \in NodeOrNull /\ head \in NodeOrNull
         /\ Null \in NodeOrNull /\ Null \in Values \cup {Null}
<1>1. loc[t] \in Record  BY DEF TypeOK, Record
<1>2. QED  BY <1>1 DEF TypeOK, Record, End, NodeOrNull

\* The names of the control points are control points.
LEMMA EveryPoint == \A p \in
    {"idle", "pool", "alloc", "recheck", "retire", "load", "slot", "verify", "next", "move",
     "link", "swing", "look", "help", "nxtSlot", "nxtVerify", "cas", "value", "drop",
     "tlLoad", "tlSlot", "tlVerify", "tlNext", "tlMove", "tlLink"} : p \in Points
  BY DEF Points

\* The locals of a thread outside its calls are a record of locals.
LEMMA IdleType == ASSUME Null \in NodeOrNull PROVE Idle \in Record
  BY EveryPoint DEF Record, Idle, Kinds

\* A record of the locals stays one when a field is set.
LEMMA Setters == \A q \in Record :
  /\ \A x \in Points : [q EXCEPT !.pc = x] \in Record
  /\ \A x \in Kinds : [q EXCEPT !.kind = x] \in Record
  /\ \A x \in Values \cup {Null} : [q EXCEPT !.arg = x] \in Record
  /\ \A x \in NodeOrNull : [q EXCEPT !.node = x] \in Record
  /\ \A x \in NodeOrNull : [q EXCEPT !.sen = x] \in Record
  /\ \A x \in NodeOrNull : [q EXCEPT !.cur = x] \in Record
  /\ \A x \in NodeOrNull : [q EXCEPT !.nxt = x] \in Record
  /\ \A x \in NodeOrNull : [q EXCEPT !.tl = x] \in Record
  /\ \A x \in NodeOrNull : [q EXCEPT !.chk = x] \in Record
  /\ \A x \in Values \cup {Null} : [q EXCEPT !.ret = x] \in Record
  /\ \A x \in SUBSET Slots : [q EXCEPT !.unseen = x] \in Record
  BY DEF Record

\* Where a thread reads through a pointer, the pointer is a node.
LEMMA Pointers ==
  ASSUME TypeOK, LocalsOK, NEW t \in Threads
  PROVE  /\ loc[t].pc \in {"slot", "verify", "next", "value"} \cup PushPoints \cup HeadPoints \cup TailPoints
              => loc[t].cur \in Nodes
         /\ loc[t].pc \in TailPoints \ {"tlLoad"} => loc[t].tl \in Nodes
         /\ loc[t].pc \in {"move", "tlMove", "value"} \cup HeadPoints => loc[t].nxt \in Nodes
         /\ loc[t].pc \in {"recheck", "value", "retire"} => loc[t].chk \in Nodes
         /\ loc[t].pc \in TryPoints /\ loc[t].kind # "pop" => loc[t].node \in Nodes
         /\ loc[t].pc \in TryPoints /\ loc[t].kind = "pushHead" => loc[t].sen \in Nodes
<1>1. PointersOK(loc[t]) /\ NodesOK(loc[t])  BY Zenon DEF LocalsOK
<1>2. QED  BY <1>1, LocalTypes DEF PointersOK, NodesOK, NodeOrNull

\* A step sets the locals of its thread and those of no other.
LEMMA LocStep ==
  ASSUME TypeOK, LocalsOK, NEW t \in Threads, Step(t)
  PROVE  \E q \in Record : loc' = [loc EXCEPT ![t] = q]
<1> USE LocalTypes, EveryPoint, Setters
<1>1. CASE TakeFree(t)
  <2>1. PICK n \in free : Obtain(t, n)  BY <1>1, Zenon DEF TakeFree
  <2>2. n \in NodeOrNull  BY <2>1 DEF TypeOK, NodeOrNull
  <2>3. \/ \E p \in {"pool", "load"} :
             loc' = [loc EXCEPT ![t] = [loc[t] EXCEPT !.node = n, !.chk = Null, !.pc = p]]
        \/ \E p \in {"pool", "load"} :
             loc' = [loc EXCEPT ![t] = [loc[t] EXCEPT !.sen = n, !.chk = Null, !.pc = p]]
    BY <2>1, ZenonT(30) DEF Obtain
  <2>4. QED  BY <2>2, <2>3, Zenon
<1>2. CASE Load(t)
  <2>1. loc' = [loc EXCEPT ![t] = [loc[t] EXCEPT !.pc = "slot", !.cur = End(t)]]
    BY <1>2, Zenon DEF Load
  <2>2. QED  BY <2>1, Zenon
<1>3. CASE StoreSlot(t)
  <2>1. loc' = [loc EXCEPT ![t] = [loc[t] EXCEPT !.pc = "verify"]]
    BY <1>3, Zenon DEF StoreSlot, Goto
  <2>2. QED  BY <2>1, Zenon
<1>4. CASE Verified(t)
  <2>1. loc' = [loc EXCEPT ![t] = [loc[t] EXCEPT !.pc = "next"]]
    BY <1>4, Zenon DEF Verified, Goto
  <2>2. QED  BY <2>1, Zenon
<1>5. CASE Reload(t)
  <2>1. loc' = [loc EXCEPT ![t] = [loc[t] EXCEPT !.pc = "slot", !.cur = End(t)]]
    BY <1>5, Zenon DEF Reload
  <2>2. QED  BY <2>1, Zenon
<1>6. CASE MoveTail(t)
  <2>1. loc' = [loc EXCEPT ![t] = [loc[t] EXCEPT !.pc = "slot", !.cur = tail', !.nxt = Null]]
    BY <1>6, Zenon DEF MoveTail
  <2>2. tail' \in NodeOrNull  BY <1>6 DEF MoveTail
  <2>3. QED  BY <2>1, <2>2, Zenon
<1>7. CASE Link(t)
  <2>1. loc' = [loc EXCEPT ![t] = [loc[t] EXCEPT !.pc = "swing"]]  BY <1>7, Zenon DEF Link, Goto
  <2>2. QED  BY <2>1, Zenon
<1>8. CASE LinkFails(t)
  <2>1. loc' = [loc EXCEPT ![t] = [loc[t] EXCEPT !.pc = "verify"]]
    BY <1>8, Zenon DEF LinkFails, Goto
  <2>2. QED  BY <2>1, Zenon
<1>9. CASE Swing(t)
  <2>1. loc' = [loc EXCEPT ![t] = [loc[t] EXCEPT !.pc = "drop", !.node = Null]]
    BY <1>9, Zenon DEF Swing
  <2>2. QED  BY <2>1, Zenon
<1>10. CASE HelpTail(t)
  <2>1. loc' = [loc EXCEPT ![t] = [loc[t] EXCEPT !.pc = "nxtSlot"]]
    BY <1>10, Zenon DEF HelpTail, Goto
  <2>2. QED  BY <2>1, Zenon
<1>11. CASE StoreNextSlot(t)
  <2>1. loc' = [loc EXCEPT ![t] = [loc[t] EXCEPT !.pc = "nxtVerify"]]
    BY <1>11, Zenon DEF StoreNextSlot, Goto
  <2>2. QED  BY <2>1, Zenon
<1>12. CASE NextVerified(t)
  <2>1. loc' = [loc EXCEPT ![t] = [loc[t] EXCEPT !.pc = "cas"]]
    BY <1>12, Zenon DEF NextVerified, Goto
  <2>2. QED  BY <2>1, Zenon
<1>13. CASE CasFails(t)
  <2>1. loc' = [loc EXCEPT ![t] = [loc[t] EXCEPT !.pc = "slot", !.cur = head, !.nxt = Null]]
    BY <1>13, Zenon DEF CasFails
  <2>2. QED  BY <2>1, Zenon
<1>14. CASE PopCas(t)
  <2>1. loc' = [loc EXCEPT ![t] = [loc[t] EXCEPT !.pc = "value", !.chk = loc[t].cur]]
    BY <1>14, Zenon DEF PopCas
  <2>2. QED  BY <2>1, Zenon
<1>15. CASE PushHeadCas(t)
  <2>1. loc' = [loc EXCEPT ![t] = [loc[t] EXCEPT !.pc = "drop", !.chk = loc[t].cur, !.sen = Null, !.node = Null]]
    BY <1>15, Zenon DEF PushHeadCas
  <2>2. QED  BY <2>1, Zenon
<1>16. CASE LoadTail(t)
  <2>1. loc' = [loc EXCEPT ![t] = [loc[t] EXCEPT !.pc = "tlSlot", !.tl = tail]]
    BY <1>16, Zenon DEF LoadTail
  <2>2. QED  BY <2>1, Zenon
<1>17. CASE StoreTailSlot(t)
  <2>1. loc' = [loc EXCEPT ![t] = [loc[t] EXCEPT !.pc = "tlVerify"]]
    BY <1>17, Zenon DEF StoreTailSlot, Goto
  <2>2. QED  BY <2>1, Zenon
<1>18. CASE TailVerified(t)
  <2>1. loc' = [loc EXCEPT ![t] = [loc[t] EXCEPT !.pc = "tlNext"]]
    BY <1>18, Zenon DEF TailVerified, Goto
  <2>2. QED  BY <2>1, Zenon
<1>19. CASE TailHasMoved(t)
  <2>1. loc' = [loc EXCEPT ![t] = [loc[t] EXCEPT !.pc = "verify", !.tl = Null, !.nxt = Null]]
    BY <1>19, Zenon DEF TailHasMoved, StartAgain
  <2>2. QED  BY <2>1, Zenon
<1>20. CASE MoveTailOnce(t)
  <2>1. loc' = [loc EXCEPT ![t] = [loc[t] EXCEPT !.pc = "verify", !.tl = Null, !.nxt = Null]]
    BY <1>20, Zenon DEF MoveTailOnce, StartAgain
  <2>2. QED  BY <2>1, Zenon
<1>21. CASE TailLink(t)
  <2>1. loc' = [loc EXCEPT ![t] = [loc[t] EXCEPT !.pc = "drop", !.chk = loc[t].sen, !.sen = Null, !.node = Null]]
    BY <1>21, Zenon DEF TailLink
  <2>2. QED  BY <2>1, Zenon
<1>22. CASE TailLinkFails(t)
  <2>1. loc' = [loc EXCEPT ![t] = [loc[t] EXCEPT !.pc = "verify", !.tl = Null, !.nxt = Null]]
    BY <1>22, Zenon DEF TailLinkFails, StartAgain
  <2>2. QED  BY <2>1, Zenon
<1>23. CASE Recheck(t)
  <2>1. PICK n \in limbo[t] : loc' = [loc EXCEPT ![t] =
          [loc[t] EXCEPT !.pc = "recheck", !.chk = n, !.unseen = SlotsOfOthers(t)]]
    BY <1>23, ZenonT(30) DEF Recheck
  <2>2. n \in NodeOrNull /\ SlotsOfOthers(t) \in SUBSET Slots
    BY <2>1 DEF TypeOK, NodeOrNull, SlotsOfOthers, Slots
  <2>3. QED  BY <2>1, <2>2, Zenon
<1>24. CASE ScanSlot(t)
  <2>1. PICK s \in loc[t].unseen :
          loc' = [loc EXCEPT ![t] = [loc[t] EXCEPT !.unseen = loc[t].unseen \ {s}]]
    BY <1>24, Zenon DEF ScanSlot
  <2>2. loc[t].unseen \ {s} \in SUBSET Slots  OBVIOUS
  <2>3. QED  BY <2>1, <2>2, Zenon
<1>25. CASE FoundInHazard(t)
  <2>1. \/ loc' = [loc EXCEPT ![t] = Idle]
        \/ loc' = [loc EXCEPT ![t] = [loc[t] EXCEPT !.pc = "alloc", !.chk = Null, !.unseen = {}]]
    BY <1>25, Zenon DEF FoundInHazard
  <2>2. {} \in SUBSET Slots  OBVIOUS
  <2>3. QED  BY <2>1, <2>2, IdleType, Zenon
<1>26. CASE Drop(t)
  <2>1. \/ loc' = [loc EXCEPT ![t] = Idle]
        \/ loc' = [loc EXCEPT ![t] =
              [Idle EXCEPT !.pc = "retire", !.chk = loc[t].chk, !.ret = loc[t].ret,
                           !.kind = loc[t].kind, !.unseen = SlotsOfOthers(t)]]
    BY <1>26, Zenon DEF Drop
  <2>2. SlotsOfOthers(t) \in SUBSET Slots  BY DEF SlotsOfOthers, Slots
  <2>3. QED  BY <2>1, <2>2, IdleType, Zenon
<1>27. CASE Reclaim(t)  BY <1>27, IdleType, Zenon DEF Reclaim
<1>28. CASE Reuse(t)
  <2>1. \/ \E p \in {"pool", "load"} : loc' = [loc EXCEPT ![t] =
             [loc[t] EXCEPT !.node = loc[t].chk, !.chk = Null, !.pc = p]]
        \/ \E p \in {"pool", "load"} : loc' = [loc EXCEPT ![t] =
             [loc[t] EXCEPT !.sen = loc[t].chk, !.chk = Null, !.pc = p]]
    BY <1>28, ZenonT(30) DEF Reuse, Obtain
  <2>2. QED  BY <2>1, Zenon
<1>29. CASE ReadNext(t)
  <2>1. next[loc[t].cur] \in NodeOrNull
    <3>1. loc[t].cur \in Nodes  BY <1>29, Pointers DEF ReadNext, At
    <3>2. QED  BY <3>1 DEF TypeOK
  <2>2. \E p \in {"link", "move", "drop", "look", "tlLoad"} :
          loc' = [loc EXCEPT ![t] = [loc[t] EXCEPT !.nxt = next[loc[t].cur], !.pc = p]]
    <3>1. CASE InCall(t, "push")  BY <1>29, <3>1, Zenon DEF ReadNext, InCall
    <3>2. CASE InCall(t, "pop")  BY <1>29, <3>2, ZenonT(30) DEF ReadNext, InCall
    <3>3. CASE ~ InCall(t, "push") /\ ~ InCall(t, "pop")
      BY <1>29, <3>3, ZenonT(30) DEF ReadNext, InCall
    <3>4. QED  BY <3>1, <3>2, <3>3, Zenon
  <2>3. QED  BY <2>1, <2>2, ZenonT(30)
<1>30. CASE LookAtTail(t)
  <2>1. \E p \in {"help", "nxtSlot"} : loc' = [loc EXCEPT ![t] = [loc[t] EXCEPT !.pc = p]]
    BY <1>30, Zenon DEF LookAtTail, Goto
  <2>2. QED  BY <2>1, Zenon
<1>31. CASE PickUpValue(t)
  <2>1. val[loc[t].nxt] \in Values \cup {Null}
    <3>1. loc[t].nxt \in Nodes  BY <1>31, Pointers DEF PickUpValue, At
    <3>2. QED  BY <3>1 DEF TypeOK
  <2>2. loc' = [loc EXCEPT ![t] = [loc[t] EXCEPT !.pc = "drop", !.ret = val[loc[t].nxt]]]
    BY <1>31, Zenon DEF PickUpValue
  <2>3. QED  BY <2>1, <2>2, Zenon
<1>32. CASE ReadTailNext(t)
  <2>1. next[loc[t].tl] \in NodeOrNull
    <3>1. loc[t].tl \in Nodes  BY <1>32, Pointers DEF ReadTailNext, At, TailPoints
    <3>2. QED  BY <3>1 DEF TypeOK
  <2>2. \E p \in {"tlLink", "tlMove"} :
          loc' = [loc EXCEPT ![t] = [loc[t] EXCEPT !.nxt = next[loc[t].tl], !.pc = p]]
    BY <1>32, Zenon DEF ReadTailNext
  <2>3. QED  BY <2>1, <2>2, Zenon
<1>33. QED
  BY <1>1, <1>2, <1>3, <1>4, <1>5, <1>6, <1>7, <1>8, <1>9, <1>10, <1>11, <1>12, <1>13, <1>14, <1>15, <1>16, <1>17, <1>18, <1>19, <1>20, <1>21, <1>22, <1>23, <1>24, <1>25, <1>26, <1>27, <1>28, <1>29, <1>30, <1>31, <1>32, Zenon DEF Step

\* Everything a thread may do.
Act(t) == Step(t) \/ \E kind \in Kinds : Call(t, kind)

\* The locals keep their type, and only those of the thread change.
LEMMA LocFrame ==
  ASSUME TypeOK, LocalsOK, NEW t \in Threads, Act(t)
  PROVE  loc' \in [Threads -> Record] /\ \A u \in Threads \ {t} : loc'[u] = loc[u]
<1>1. loc \in [Threads -> Record]  BY Zenon DEF TypeOK, Record
<1>2. \E q \in Record : loc' = [loc EXCEPT ![t] = q]
  <2>1. CASE Step(t)  BY <2>1, LocStep, Zenon
  <2>2. ASSUME NEW kind \in Kinds, Call(t, kind)
        PROVE  \E q \in Record : loc' = [loc EXCEPT ![t] = q]
    <3>1. PICK v \in IF kind = "pop" THEN {Null} ELSE Gives[t] :
            loc' = [loc EXCEPT ![t].pc = IF kind = "pop" THEN "load" ELSE "pool",
                               ![t].kind = kind, ![t].arg = v]
      BY <2>2, Zenon DEF Call
    <3>2. PICK p \in {"load", "pool"} : p = IF kind = "pop" THEN "load" ELSE "pool"
      OBVIOUS
    <3>3. loc' = [loc EXCEPT ![t] = [loc[t] EXCEPT !.pc = p, !.kind = kind, !.arg = v]]
      BY <3>1, <3>2, Zenon
    <3>4. v \in Values \cup {Null}  BY <3>1, FifoAssumption
    <3>5. QED  BY <3>2, <3>3, <3>4, LocalTypes, EveryPoint, Setters, Zenon
  <2>3. QED  BY <2>1, <2>2, Zenon DEF Act
<1>3. PICK q \in Record : loc' = [loc EXCEPT ![t] = q]  BY <1>2, Zenon
<1>4. QED  BY <1>1, <1>3, Zenon

-----------------------------------------------------------------------------
(* What the calls do to the history, in terms of sequences.                *)

NodesOf(s) == {s[i] : i \in 1..Len(s)}
Injective(s) == \A i, j \in 1..Len(s) : s[i] = s[j] => i = j

\* s1 is s with n at the end, s without its first node, s with a and b in the
\* place of its first node.
AppendedIs(s1, s, n) ==
  /\ s1 \in Seq(Nodes) /\ Len(s1) = Len(s) + 1
  /\ \A i \in 1..Len(s) : s1[i] = s[i]
  /\ s1[Len(s) + 1] = n
  /\ NodesOf(s1) = NodesOf(s) \cup {n}
  /\ Injective(s1)
BeheadedIs(s1, s) ==
  /\ s1 \in Seq(Nodes) /\ Len(s1) = Len(s) - 1
  /\ \A i \in 1..Len(s1) : s1[i] = s[i + 1]
  /\ NodesOf(s1) = NodesOf(s) \ {s[1]}
  /\ Injective(s1)
ReheadedIs(s1, s, a, b) ==
  /\ s1 \in Seq(Nodes) /\ Len(s1) = Len(s) + 1
  /\ s1[1] = a /\ s1[2] = b
  /\ \A i \in 3..Len(s1) : s1[i] = s[i - 1]
  /\ NodesOf(s1) = (NodesOf(s) \ {s[1]}) \cup {a, b}
  /\ Injective(s1)

\* Append to a queue without repetitions: positions, nodes and order.
LEMMA Appended ==
  ASSUME NEW s \in Seq(Nodes), Injective(s), NEW n \in Nodes, n \notin NodesOf(s)
  PROVE  AppendedIs(Append(s, n), s, n)
<1> DEFINE s1 == Append(s, n)
<1>1. /\ s1 \in Seq(Nodes) /\ Len(s1) = Len(s) + 1 /\ Len(s) \in Nat
      /\ \A i \in 1..Len(s) : s1[i] = s[i]
      /\ s1[Len(s) + 1] = n
  OBVIOUS
<1>2. \A i \in 1..Len(s1) : i \in 1..Len(s) \/ i = Len(s) + 1  BY <1>1
<1>3. 1..Len(s) \subseteq 1..Len(s1) /\ Len(s) + 1 \in 1..Len(s1)  BY <1>1
<1>4. NodesOf(s1) = NodesOf(s) \cup {n}
  <2>1. ASSUME NEW x \in NodesOf(s1)  PROVE x \in NodesOf(s) \cup {n}
    BY <1>1, <1>2 DEF NodesOf
  <2>2. ASSUME NEW x \in NodesOf(s) \cup {n}  PROVE x \in NodesOf(s1)
    BY <1>1, <1>3 DEF NodesOf
  <2>3. QED  BY <2>1, <2>2
<1> HIDE DEF s1
<1>5. ASSUME NEW i \in 1..Len(s1), NEW j \in 1..Len(s1), s1[i] = s1[j]
      PROVE  i = j
  <2>1. \A k \in 1..Len(s) : s1[k] # n  BY <1>1, <1>5 DEF NodesOf
  <2>2. QED  BY <1>1, <1>2, <1>5, <2>1 DEF Injective
<1>6. AppendedIs(s1, s, n)  BY <1>1, <1>4, <1>5 DEF Injective, AppendedIs
<1>7. QED  BY <1>6 DEF s1

\* Tail of such a queue: the first node leaves, the others move up.
LEMMA Beheaded ==
  ASSUME NEW s \in Seq(Nodes), Len(s) > 0, Injective(s)
  PROVE  BeheadedIs(Tail(s), s)
<1> DEFINE s1 == Tail(s)
<1>1. s1 \in Seq(Nodes) /\ Len(s1) = Len(s) - 1 /\ Len(s) \in Nat \ {0}  OBVIOUS
<1>2. \A i \in 1..Len(s1) : s1[i] = s[i + 1] /\ i + 1 \in 1..Len(s) /\ i + 1 # 1  BY <1>1
<1>3. \A i \in 1..Len(s) : i = 1 \/ (i - 1 \in 1..Len(s1) /\ s1[i - 1] = s[i])
  BY <1>1
<1>4. NodesOf(s1) = NodesOf(s) \ {s[1]}
  <2>1. ASSUME NEW x \in NodesOf(s1)  PROVE x \in NodesOf(s) \ {s[1]}
    <3>1. PICK i \in 1..Len(s1) : x = s1[i]  BY DEF NodesOf
    <3>2. 1 \in 1..Len(s)  BY <1>1
    <3>3. QED  BY <1>2, <3>1, <3>2 DEF NodesOf, Injective
  <2>2. ASSUME NEW x \in NodesOf(s) \ {s[1]}  PROVE x \in NodesOf(s1)
    <3>1. PICK i \in 1..Len(s) : x = s[i]  BY DEF NodesOf
    <3>2. i # 1  BY <3>1
    <3>3. i - 1 \in 1..Len(s1) /\ s1[i - 1] = x  BY <1>3, <3>1, <3>2
    <3>4. QED  BY <3>3, Zenon DEF NodesOf
  <2>3. QED  BY <2>1, <2>2
<1>5. ASSUME NEW i \in 1..Len(s1), NEW j \in 1..Len(s1), s1[i] = s1[j]  PROVE i = j
  <2>1. i + 1 = j + 1  BY <1>2, <1>5 DEF Injective
  <2>2. QED  BY <2>1
<1>6. BeheadedIs(s1, s)  BY <1>1, <1>2, <1>4, <1>5 DEF Injective, BeheadedIs
<1>7. QED  BY <1>6 DEF s1

\* Two nodes in the place of the first one, as push_head puts them.
LEMMA Reheaded ==
  ASSUME NEW s \in Seq(Nodes), Len(s) > 0, Injective(s), NEW a \in Nodes, NEW b \in Nodes,
         a # b, a \notin NodesOf(s), b \notin NodesOf(s)
  PROVE  ReheadedIs(<<a, b>> \o Tail(s), s, a, b)
<1> DEFINE r == Tail(s)
           s1 == <<a, b>> \o r
<1>1. /\ r \in Seq(Nodes) /\ Len(r) = Len(s) - 1
      /\ \A i \in 1..Len(r) : r[i] = s[i + 1]
      /\ NodesOf(r) = NodesOf(s) \ {s[1]}
      /\ Injective(r)
  BY Beheaded, Zenon DEF BeheadedIs
<1>0. Len(s) \in Nat \ {0}  OBVIOUS
<1> HIDE DEF r
<1>2. s1 = <<a, b>> \o r  OBVIOUS
<1> HIDE DEF s1
<1>3. s1 \in Seq(Nodes) /\ Len(s1) = Len(r) + 2 /\ Len(r) \in Nat  BY <1>1, <1>2
<1>4. s1[1] = a /\ s1[2] = b  BY <1>1, <1>2
<1>5. \A i \in 3..Len(s1) : i - 2 \in 1..Len(r) /\ s1[i] = r[i - 2]  BY <1>1, <1>2, <1>3
<1>6. \A i \in 1..Len(s1) : i = 1 \/ i = 2 \/ i \in 3..Len(s1)  BY <1>3
<1>7. \A i \in 1..Len(r) : i + 2 \in 1..Len(s1) /\ s1[i + 2] = r[i]
  BY <1>3, <1>5
<1>8. NodesOf(s1) = NodesOf(r) \cup {a, b}
  <2>1. ASSUME NEW x \in NodesOf(s1)  PROVE x \in NodesOf(r) \cup {a, b}
    BY <1>4, <1>5, <1>6 DEF NodesOf
  <2>2. ASSUME NEW x \in NodesOf(r)  PROVE x \in NodesOf(s1)
    BY <1>7 DEF NodesOf
  <2>3. 1 \in 1..Len(s1) /\ 2 \in 1..Len(s1)  BY <1>3
  <2>4. a \in NodesOf(s1) /\ b \in NodesOf(s1)  BY <1>4, <2>3 DEF NodesOf
  <2>5. QED  BY <2>1, <2>2, <2>4, Zenon
<1>9. ASSUME NEW i \in 1..Len(s1), NEW j \in 1..Len(s1), s1[i] = s1[j]  PROVE i = j
  <2>1. \A k \in 3..Len(s1) : s1[k] \in NodesOf(r)  BY <1>5, Zenon DEF NodesOf
  <2>2. a \notin NodesOf(r) /\ b \notin NodesOf(r)  BY <1>1
  <2>3. CASE i \in 3..Len(s1) /\ j \in 3..Len(s1)
    <3>1. i - 2 \in 1..Len(r) /\ j - 2 \in 1..Len(r) /\ r[i - 2] = r[j - 2]
      BY <1>5, <1>9, <2>3
    <3>2. i - 2 = j - 2  BY <1>1, <3>1, Zenon DEF Injective
    <3>3. QED  BY <2>3, <3>2
  <2>4. QED  BY <1>4, <1>6, <1>9, <2>1, <2>2, <2>3
<1>10. \A i \in 3..Len(s1) : s1[i] = s[i - 1]
  <2>1. ASSUME NEW i \in 3..Len(s1)  PROVE s1[i] = s[i - 1]
    <3>1. i - 2 \in 1..Len(r) /\ s1[i] = r[i - 2]  BY <1>5
    <3>2. r[i - 2] = s[(i - 2) + 1]  BY <1>1, <3>1, Zenon
    <3>3. QED  BY <3>1, <3>2
  <2>2. QED  BY <2>1
<1>11. Len(s1) = Len(s) + 1  BY <1>1, <1>3, <1>0
<1>12. ReheadedIs(s1, s, a, b)
  BY <1>1, <1>3, <1>4, <1>8, <1>9, <1>10, <1>11, Zenon DEF Injective, ReheadedIs
<1>13. QED  BY <1>12 DEF r, s1

-----------------------------------------------------------------------------
\* Which steps change which variable.
LEMMA Changes ==
  ASSUME NEW t \in Threads, Act(t)
  PROVE  /\ head' = head \/ PopCas(t) \/ PushHeadCas(t)
         /\ tail' = tail \/ MoveTail(t) \/ Swing(t) \/ HelpTail(t) \/ MoveTailOnce(t)
         /\ next' = next \/ TakeFree(t) \/ Reuse(t) \/ Load(t) \/ Link(t) \/ TailLink(t)
              \/ PushHeadCas(t)
         /\ val' = val \/ TakeFree(t) \/ Reuse(t) \/ Reclaim(t)
         /\ slot' = slot \/ StoreSlot(t) \/ StoreNextSlot(t) \/ StoreTailSlot(t) \/ TailHasMoved(t)
              \/ MoveTailOnce(t) \/ TailLinkFails(t) \/ Drop(t)
         /\ free' = free \/ TakeFree(t) \/ Reclaim(t)
         /\ limbo' = limbo \/ Recheck(t) \/ FoundInHazard(t)
         /\ que' = que \/ Link(t) \/ TailLink(t) \/ PopCas(t) \/ PushHeadCas(t)
         /\ calls' = calls \/ \E kind \in Kinds : Call(t, kind)
  BY Zenon DEF Act, Call, Step, TakeFree, Recheck, ScanSlot, FoundInHazard, Reclaim, Reuse,
    Obtain, Load, StoreSlot, Verified, Reload, ReadNext, Drop, MoveTail, Link, LinkFails, Swing,
    LookAtTail, HelpTail, StoreNextSlot, NextVerified, CasFails, PopCas, PickUpValue, PushHeadCas,
    LoadTail, StoreTailSlot, TailVerified, TailHasMoved, ReadTailNext, MoveTailOnce, TailLink,
    TailLinkFails, memVars

\* A step keeps the types.
LEMMA TypeStep ==
  ASSUME FifoInv, NEW t \in Threads, Act(t)
  PROVE  TypeOK'
<1> USE DEF FifoInv
<1>1. loc' \in [Threads -> Record]  BY LocFrame
<1>2. KindOK(loc[t]) /\ NodesOK(loc[t])  BY Zenon DEF LocalsOK
<1>3. loc[t].arg \in Values \cup {Null}  BY LocalTypes
<1>4. head' \in Nodes /\ tail' \in Nodes
  <2>1. CASE PopCas(t)
    BY <2>1, Pointers DEF PopCas, At, HeadPoints, TypeOK
  <2>2. CASE PushHeadCas(t)
    BY <2>2, Pointers DEF PushHeadCas, At, InCall, TryPoints, HeadPoints, TypeOK
  <2>3. CASE MoveTail(t)
    BY <2>3, Pointers DEF MoveTail, At, TypeOK
  <2>4. CASE Swing(t)
    <3>1. loc[t].node \in Nodes
      BY <1>2, <2>4, Pointers DEF Swing, At, TryPoints, PushPoints, KindOK
    <3>2. QED  BY <2>4, <3>1 DEF Swing, TypeOK
  <2>5. CASE HelpTail(t)
    BY <2>5, Pointers DEF HelpTail, At, HeadPoints, TypeOK
  <2>6. CASE MoveTailOnce(t)
    BY <2>6, Pointers DEF MoveTailOnce, At, TypeOK
  <2>7. CASE UNCHANGED <<head, tail>>
    BY <2>7 DEF TypeOK
  <2>8. QED
    BY <2>1, <2>2, <2>3, <2>4, <2>5, <2>6, <2>7, Changes, Zenon
<1>5. next' \in [Nodes -> NodeOrNull] /\ val' \in [Nodes -> Values \cup {Null}]
  <2>1. next \in [Nodes -> NodeOrNull] /\ val \in [Nodes -> Values \cup {Null}] /\ Null \in NodeOrNull
    BY DEF TypeOK, NodeOrNull
  <2>2. loc[t].node \in NodeOrNull /\ loc[t].nxt \in NodeOrNull  BY LocalTypes
  <2>0. ASSUME NEW n, Obtain(t, n)
        PROVE  next' \in [Nodes -> NodeOrNull] /\ val' \in [Nodes -> Values \cup {Null}]
    <3>1. \/ val' = [val EXCEPT ![n] = loc[t].arg] /\ next' = [next EXCEPT ![n] = Null]
          \/ UNCHANGED <<val, next>>
      BY <2>0, Zenon DEF Obtain
    <3>2. CASE val' = [val EXCEPT ![n] = loc[t].arg] /\ next' = [next EXCEPT ![n] = Null]
      BY <1>3, <2>1, <3>2, Zenon
    <3>3. QED  BY <2>1, <3>1, <3>2
  <2>3. CASE TakeFree(t)  BY <2>0, <2>3, Zenon DEF TakeFree
  <2>4. CASE Reuse(t)  BY <2>0, <2>4, Zenon DEF Reuse
  <2>5. CASE Reclaim(t)  BY <2>1, <2>5, Zenon DEF Reclaim
  <2>6. CASE Load(t)  BY <2>1, <2>2, <2>6, Zenon DEF Load
  <2>7. CASE Link(t)  BY <2>1, <2>2, <2>7, Zenon DEF Link
  <2>8. CASE TailLink(t)
    <3>1. PICK f \in [Nodes -> NodeOrNull] : f = [next EXCEPT ![loc[t].node] = Null]
      BY <2>1, Zenon
    <3>2. next' = [f EXCEPT ![loc[t].tl] = loc[t].node]  BY <2>8, <3>1, Zenon DEF TailLink
    <3>3. f \in [Nodes -> NodeOrNull] /\ loc[t].node \in NodeOrNull  BY <2>2, <3>1, Zenon
    <3>4. next' \in [Nodes -> NodeOrNull]  BY <3>2, <3>3, Zenon
    <3>5. val' = val  BY <2>8, Zenon DEF TailLink
    <3>6. QED  BY <2>1, <3>4, <3>5, Zenon
  <2>9. CASE PushHeadCas(t)  BY <2>1, <2>2, <2>9, Zenon DEF PushHeadCas
  <2>10. CASE UNCHANGED <<next, val>>  BY <2>1, <2>10
  <2>11. QED
    BY <2>3, <2>4, <2>5, <2>6, <2>7, <2>8, <2>9, <2>10, Changes, Zenon
<1>6. slot' \in [Slots -> NodeOrNull]
  <2>1. slot \in [Slots -> NodeOrNull] /\ Null \in NodeOrNull  BY DEF TypeOK, NodeOrNull
  <2>2. loc[t].cur \in NodeOrNull /\ loc[t].nxt \in NodeOrNull /\ loc[t].tl \in NodeOrNull
    BY LocalTypes
  <2>3. CASE Drop(t)  BY <2>1, <2>3 DEF Drop
  <2>4. ASSUME NEW use \in Uses, NEW p \in NodeOrNull, SetSlot(t, use, p)
        PROVE  slot' \in [Slots -> NodeOrNull]
    BY <2>1, <2>4, Zenon DEF SetSlot
  <2>5. "cur" \in Uses /\ "nxt" \in Uses /\ "tl" \in Uses  BY DEF Uses
  <2>6. \/ UNCHANGED slot
        \/ Drop(t)
        \/ \E use \in Uses, p \in NodeOrNull : SetSlot(t, use, p)
    BY <2>1, <2>2, <2>5, Changes, Zenon DEF StoreSlot, StoreNextSlot, StoreTailSlot, TailHasMoved,
      MoveTailOnce, TailLinkFails, StartAgain
  <2>7. QED  BY <2>1, <2>3, <2>4, <2>6, Zenon
<1>7. free' \subseteq Nodes
  <2>1. CASE Reclaim(t)  BY <2>1, Pointers DEF Reclaim, At, TypeOK
  <2>2. CASE free' \subseteq free  BY <2>2 DEF TypeOK
  <2>3. QED  BY <2>1, <2>2, Changes DEF TakeFree
<1>8. limbo' \in [Threads -> SUBSET Nodes]
  <2>1. CASE Recheck(t)  BY <2>1 DEF Recheck, TypeOK
  <2>2. CASE FoundInHazard(t)
    <3>1. loc[t].chk \in Nodes  BY <2>2, Pointers DEF FoundInHazard, Scanning, At
    <3>2. QED  BY <2>2, <3>1 DEF FoundInHazard, TypeOK
  <2>3. QED  BY <2>1, <2>2, Changes DEF TypeOK
<1>9. calls' \in [Threads -> [Kinds -> Nat]]
  <2>1. ASSUME NEW kind \in Kinds, Call(t, kind)
        PROVE  calls' \in [Threads -> [Kinds -> Nat]]
    BY <2>1 DEF Call, TypeOK
  <2>2. calls \in [Threads -> [Kinds -> Nat]]  BY DEF TypeOK
  <2>3. QED  BY <2>1, <2>2, Changes, Zenon
<1>10. que' \in Seq(Nodes)
  <2>1. que \in Seq(Nodes) /\ Len(que) > 0 /\ Injective(que)
    BY DEF TypeOK, HeadOK, Distinct, Injective
  <2>2. CASE Link(t)
    <3>1. loc[t].node \in Nodes
      BY <1>2, <2>2, Pointers DEF Link, At, TryPoints, PushPoints, KindOK
    <3>2. QED  BY <2>1, <2>2, <3>1 DEF Link
  <2>3. CASE TailLink(t)
    <3>1. loc[t].node \in Nodes
      BY <1>2, <2>3, Pointers DEF TailLink, At, TryPoints, TailPoints, KindOK
    <3>2. QED  BY <2>1, <2>3, <3>1 DEF TailLink
  <2>4. CASE PopCas(t)  BY <2>1, <2>4 DEF PopCas
  <2>5. CASE PushHeadCas(t)
    <3>1. loc[t].node \in Nodes /\ loc[t].sen \in Nodes
      BY <2>5, Pointers DEF PushHeadCas, At, InCall, TryPoints, HeadPoints
    <3>2. Tail(que) \in Seq(Nodes)  BY <2>1
    <3>3. QED  BY <2>5, <3>1, <3>2 DEF PushHeadCas
  <2>6. QED  BY <2>1, <2>2, <2>3, <2>4, <2>5, Changes
<1>11. QED  BY <1>1, <1>4, <1>5, <1>6, <1>7, <1>8, <1>9, <1>10, Zenon DEF TypeOK, Record

-----------------------------------------------------------------------------
(* The chain.                                                              *)

\* The positions of the nodes of the queue, and how they are linked.
LEMMA Positions ==
  ASSUME FifoInv
  PROVE  /\ que \in Seq(Nodes) /\ Len(que) \in Nat \ {0}
         /\ \A i \in 1..Len(que) : que[i] \in Nodes /\ que[i] \in InQueue
         /\ \A n \in InQueue : n \in Nodes /\ \E i \in 1..Len(que) : n = que[i]
         /\ \A n \in InQueue : next[n] = Null => n = que[Len(que)]
         /\ head = que[1] /\ head \in InQueue
         /\ next[que[Len(que)]] = Null
         /\ Injective(que) /\ InQueue = NodesOf(que)
<1>1. que \in Seq(Nodes) /\ Len(que) \in Nat \ {0} /\ head = que[1]
  BY DEF FifoInv, TypeOK, HeadOK
<1>2. \A i \in 1..Len(que) : que[i] \in Nodes  BY <1>1
<1>3. 1 \in 1..Len(que) /\ Len(que) \in 1..Len(que)  BY <1>1
<1>4. Injective(que)  BY Zenon DEF FifoInv, Distinct, Injective
<1>5. Linked  BY DEF FifoInv
<1>6. ASSUME NEW n \in InQueue, next[n] = Null  PROVE n = que[Len(que)]
  <2>1. PICK i \in 1..Len(que) : n = que[i]  BY DEF InQueue
  <2>2. CASE i # Len(que)
    <3>1. next[n] = que[i + 1]  BY <1>5, <2>1, <2>2 DEF Linked
    <3>2. i + 1 \in 1..Len(que)  BY <1>1, <2>2
    <3>3. QED  BY <1>2, <1>6, <3>1, <3>2, FifoAssumption
  <2>3. QED  BY <2>1, <2>2
<1>7. next[que[Len(que)]] = Null  BY <1>3, <1>5 DEF Linked
<1>8. \A i \in 1..Len(que) : que[i] \in InQueue  BY DEF InQueue
<1>9. \A n \in InQueue : n \in Nodes /\ \E i \in 1..Len(que) : n = que[i]  BY <1>2 DEF InQueue
<1>10. QED  BY <1>1, <1>2, <1>3, <1>4, <1>6, <1>7, <1>8, <1>9, Zenon DEF NodesOf, InQueue

\* The tail moves to the last node.
LEMMA TailMoves ==
  ASSUME FifoInv, next[tail] # Null
  PROVE  next[tail] = que[Len(que)] /\ next[tail] # tail /\ tail \in InQueue
<1>1. PICK i \in 1..Len(que) : tail = que[i] /\ i >= Len(que) - 1  BY DEF FifoInv, TailOK
<1>2. Len(que) \in Nat \ {0} /\ next[que[Len(que)]] = Null /\ Injective(que)  BY Positions
<1>3. i = Len(que) - 1  BY <1>1, <1>2
<1>4. next[tail] = que[i + 1]  BY <1>1, <1>2, <1>3 DEF FifoInv, Linked
<1>5. que[Len(que)] # que[i]  BY <1>2, <1>3 DEF Injective
<1>6. QED  BY <1>1, <1>3, <1>4, <1>5, Positions

\* Which steps move it, and to where.
LEMMA TailStep ==
  ASSUME FifoInv, NEW t \in Threads, Act(t)
  PROVE  tail' = tail \/ (next[tail] # Null /\ tail' = next[tail] /\ que' = que /\ next' = next)
<1>1. /\ KindOK(loc[t]) /\ PointersOK(loc[t]) /\ LinksOK(loc[t]) /\ NodesOK(loc[t])
  BY Zenon DEF FifoInv, LocalsOK
<1>2. CASE MoveTail(t)  BY <1>1, <1>2 DEF MoveTail, At, PointersOK, LinksOK
<1>3. CASE Swing(t)
  <2>1. loc[t].node # Null /\ next[loc[t].cur] = loc[t].node
    BY <1>1, <1>3 DEF Swing, At, LinksOK, NodesOK, KindOK, TryPoints, PushPoints
  <2>2. QED  BY <1>3, <2>1 DEF Swing
<1>4. CASE HelpTail(t)  BY <1>1, <1>4 DEF HelpTail, At, PointersOK, LinksOK, HeadPoints
<1>5. CASE MoveTailOnce(t)  BY <1>1, <1>5 DEF MoveTailOnce, At, PointersOK, LinksOK
<1>6. QED  BY <1>2, <1>3, <1>4, <1>5, Changes, Zenon

\* A thread's own nodes are in no other place.
LEMMA OwnNodes ==
  ASSUME FifoInv, NEW t \in Threads
  PROVE  /\ loc[t].sen # Null => loc[t].sen \in Held(t)
         /\ loc[t].chk # Null => loc[t].chk \in Held(t)
         /\ loc[t].node # Null /\ ~ At(t, "swing") => loc[t].node \in Held(t)
         /\ \A n \in Held(t) : /\ n \in Nodes /\ n \notin InQueue /\ n \notin free
                               /\ \A u \in Threads : n \notin limbo[u] /\ (u # t => n \notin Held(u))
<1>1. \A n \in Held(t) : n \in Nodes  BY LocalTypes DEF FifoInv, Held, NodeOrNull
<1>2. Apart  BY DEF FifoInv
<1>3. QED  BY <1>1, <1>2 DEF Apart, Held

\* The two steps that link a node to the last one.
LEMMA LinkStep ==
  ASSUME FifoInv, NEW t \in Threads, NEW c, NEW n, n = loc[t].node,
         (Link(t) /\ c = loc[t].cur) \/ (TailLink(t) /\ c = loc[t].tl)
  PROVE  /\ c \in Nodes /\ c \in InQueue /\ c = que[Len(que)] /\ c = tail
         /\ n \in Held(t) /\ n \in Nodes /\ n # c
         /\ que' = Append(que, n)
         /\ next'[c] = n /\ next'[n] = Null /\ \A m \in Nodes \ {c, n} : next'[m] = next[m]
         /\ UNCHANGED <<head, tail, free, limbo>>
<1>1. /\ KindOK(loc[t]) /\ PointersOK(loc[t]) /\ LinksOK(loc[t]) /\ NodesOK(loc[t])
  BY Zenon DEF FifoInv, LocalsOK
<1>2. c = Guarded(t) /\ Guarding(t) /\ next[c] = Null /\ ~ At(t, "swing") /\ c = tail
  <2>1. TailSeen  BY DEF FifoInv
  <2>2. CASE Link(t) /\ c = loc[t].cur
    <3>1. loc[t].pc = "link" /\ next[c] = Null  BY <2>2 DEF Link, At
    <3>2. loc[t].pc \in CurPoints  BY <3>1 DEF CurPoints, PushPoints
    <3>3. InCall(t, "push")  BY <1>1, <3>1 DEF KindOK, PushPoints, InCall
    <3>4. c = tail  BY <2>1, <2>2, <3>1, <3>2, <3>3 DEF TailSeen
    <3>5. QED  BY <2>2, <3>1, <3>2, <3>4 DEF Guarding, Guarded, At
  <2>3. CASE TailLink(t) /\ c = loc[t].tl
    <3>1. loc[t].pc = "tlLink" /\ next[c] = Null  BY <2>3 DEF TailLink, At
    <3>2. loc[t].pc \in TlPoints /\ loc[t].pc \notin CurPoints
      BY <3>1 DEF TlPoints, CurPoints, PushPoints, HeadPoints
    <3>3. c = tail  BY <2>1, <2>3, <3>1, <3>2 DEF TailSeen
    <3>4. QED  BY <2>3, <3>1, <3>2, <3>3 DEF Guarding, Guarded, At
  <2>4. QED  BY <2>2, <2>3
<1>3. c \in InQueue /\ c # loc[t].node
  BY <1>2, Zenon DEF FifoInv, Protected
<1>4. c \in Nodes /\ c = que[Len(que)]  BY <1>2, <1>3, Positions
<1>5. n # Null
  BY <1>1 DEF Link, TailLink, At, NodesOK, TryPoints, PushPoints, TailPoints, KindOK
<1>6. n \in Held(t) /\ n \in Nodes  BY <1>2, <1>5, OwnNodes
<1>7. next \in [Nodes -> NodeOrNull]  BY DEF FifoInv, TypeOK
<1>8. CASE Link(t) /\ c = loc[t].cur
  <2>1. next[n] = Null
    BY <1>1, <1>8 DEF Link, At, LinksOK, KindOK, TryPoints, PushPoints
  <2>2. next' = [next EXCEPT ![c] = n]  BY <1>8, Zenon DEF Link
  <2>3. que' = Append(que, n) /\ UNCHANGED <<head, tail, free, limbo>>  BY <1>8, Zenon DEF Link
  <2>4. next'[c] = n /\ next'[n] = Null /\ \A m \in Nodes \ {c, n} : next'[m] = next[m]
    BY <1>3, <1>4, <1>6, <1>7, <2>1, <2>2
  <2>5. QED  BY <1>2, <1>3, <1>4, <1>6, <2>3, <2>4, Zenon
<1>9. CASE TailLink(t) /\ c = loc[t].tl
  <2>1. PICK f : f = [next EXCEPT ![n] = Null]  BY Zenon
  <2>2. next' = [f EXCEPT ![c] = n]  BY <1>9, <2>1, Zenon DEF TailLink
  <2>3. que' = Append(que, n) /\ UNCHANGED <<head, tail, free, limbo>>
    BY <1>9, Zenon DEF TailLink
  <2>4. f \in [Nodes -> NodeOrNull] /\ f[n] = Null /\ \A m \in Nodes \ {n} : f[m] = next[m]
    BY <1>6, <1>7, <2>1 DEF NodeOrNull
  <2>5. next'[c] = n /\ next'[n] = Null /\ \A m \in Nodes \ {c, n} : next'[m] = next[m]
    BY <1>3, <1>4, <1>6, <2>2, <2>4
  <2>6. QED  BY <1>2, <1>3, <1>4, <1>6, <2>3, <2>5, Zenon
<1>10. QED  BY <1>8, <1>9

\* What pop and push_head have at their compare_exchange.
LEMMA CasStep ==
  ASSUME FifoInv, NEW t \in Threads, PopCas(t) \/ PushHeadCas(t)
  PROVE  /\ loc[t].cur = head /\ head # tail /\ Len(que) > 1 /\ loc[t].nxt = que[2]
         /\ Injective(que)
<1>1. PointersOK(loc[t]) /\ LinksOK(loc[t])  BY Zenon DEF FifoInv, LocalsOK
<1>2. At(t, "cas") /\ loc[t].cur = head  BY Zenon DEF PopCas, PushHeadCas
<1>3. head # tail /\ next[head] = loc[t].nxt /\ loc[t].nxt # Null
  BY <1>1, <1>2 DEF At, PointersOK, LinksOK, HeadPoints
<1>4. Len(que) \in Nat \ {0} /\ head = que[1] /\ Injective(que)  BY Positions
<1>5. next[que[1]] = IF 1 = Len(que) THEN Null ELSE que[1 + 1]
  <2>1. 1 \in 1..Len(que)  BY <1>4
  <2>2. QED  BY <2>1, Zenon DEF FifoInv, Linked
<1>6. Len(que) # 1 /\ loc[t].nxt = que[2]  BY <1>3, <1>4, <1>5
<1>7. Len(que) > 1
  <2>1. \A n \in Nat \ {0} : n # 1 => n > 1  OBVIOUS
  <2>2. QED  BY <1>4, <1>6, <2>1, Zenon
<1>8. QED  BY <1>2, <1>3, <1>4, <1>6, <1>7, Zenon

\* What a pop's compare_exchange does: the sentinel leaves the queue.
LEMMA PopStep ==
  ASSUME FifoInv, NEW t \in Threads, PopCas(t)
  PROVE  /\ que' \in Seq(Nodes) /\ Len(que') = Len(que) - 1
         /\ \A i \in 1..Len(que') : que'[i] = que[i + 1]
         /\ InQueue' = InQueue \ {head}
         /\ Injective(que')
         /\ head' = que[2] /\ UNCHANGED <<tail, next, val, free, limbo>>
<1>1. que' = Tail(que) /\ head' = loc[t].nxt /\ UNCHANGED <<tail, next, val, free, limbo>>
  BY Zenon DEF PopCas
<1>2. que \in Seq(Nodes) /\ Len(que) > 0 /\ Injective(que) /\ head = que[1] /\ InQueue = NodesOf(que)
  BY Positions
<1>3. /\ que' \in Seq(Nodes) /\ Len(que') = Len(que) - 1
      /\ \A i \in 1..Len(que') : que'[i] = que[i + 1]
      /\ NodesOf(que') = NodesOf(que) \ {que[1]}
      /\ Injective(que')
  <2>1. que' = Tail(que)  BY <1>1
  <2>2. que \in Seq(Nodes)  BY <1>2
  <2>3. Len(que) > 0  BY <1>2
  <2>4. Injective(que)  BY <1>2
  <2>5. BeheadedIs(que', que)  BY <2>1, <2>2, <2>3, <2>4, Beheaded, Zenon
  <2>6. QED  BY <2>5, Zenon DEF BeheadedIs
<1>4. InQueue' = NodesOf(que')  BY DEF InQueue, NodesOf
<1>5. QED  BY <1>1, <1>2, <1>3, <1>4, CasStep

\* What push_head's does: its sentinel and its node replace the sentinel.
LEMMA PushHeadStep ==
  ASSUME FifoInv, NEW t \in Threads, PushHeadCas(t), NEW a, a = loc[t].sen, NEW b, b = loc[t].node
  PROVE  /\ a \in Held(t) /\ b \in Held(t) /\ a # b /\ a \in Nodes /\ b \in Nodes
         /\ que' \in Seq(Nodes) /\ Len(que') = Len(que) + 1
         /\ que'[1] = a /\ que'[2] = b
         /\ \A i \in 3..Len(que') : que'[i] = que[i - 1]
         /\ InQueue' = (InQueue \ {head}) \cup {a, b}
         /\ Injective(que')
         /\ head' = a /\ next'[a] = b /\ next'[b] = que[2]
         /\ \A m \in Nodes \ {b} : next'[m] = next[m]
         /\ UNCHANGED <<tail, val, free, limbo>>
<1>1. NodesOK(loc[t]) /\ LinksOK(loc[t])  BY Zenon DEF FifoInv, LocalsOK
<1>2. loc[t].pc = "cas" /\ loc[t].kind = "pushHead"  BY Zenon DEF PushHeadCas, At, InCall
<1>3. a # Null /\ b # Null /\ a # b /\ next[a] = b
  BY <1>1, <1>2 DEF NodesOK, LinksOK, TryPoints, HeadPoints
<1>4. a \in Held(t) /\ b \in Held(t) /\ a \in Nodes /\ b \in Nodes /\ a \notin InQueue /\ b \notin InQueue
  BY <1>2, <1>3, OwnNodes DEF At
<1>5. que \in Seq(Nodes) /\ Len(que) > 0 /\ Injective(que) /\ head = que[1] /\ InQueue = NodesOf(que)
  BY Positions
<1>6. /\ que' = <<a, b>> \o Tail(que)
      /\ head' = a /\ next' = [next EXCEPT ![b] = loc[t].nxt]
      /\ UNCHANGED <<tail, val, free, limbo>>
  BY Zenon DEF PushHeadCas
<1>7. /\ que' \in Seq(Nodes) /\ Len(que') = Len(que) + 1
      /\ que'[1] = a /\ que'[2] = b
      /\ \A i \in 3..Len(que') : que'[i] = que[i - 1]
      /\ NodesOf(que') = (NodesOf(que) \ {que[1]}) \cup {a, b}
      /\ Injective(que')
  <2>1. que' = <<a, b>> \o Tail(que)  BY <1>6
  <2>2. a \notin NodesOf(que) /\ b \notin NodesOf(que)  BY <1>4, <1>5
  <2>3. que \in Seq(Nodes) /\ Len(que) > 0 /\ Injective(que)  BY <1>5
  <2>4. a \in Nodes /\ b \in Nodes /\ a # b  BY <1>3, <1>4
  <2>5. ReheadedIs(que', que, a, b)  BY <2>1, <2>2, <2>3, <2>4, Reheaded, Zenon
  <2>6. QED  BY <2>5, Zenon DEF ReheadedIs
<1>8. InQueue' = NodesOf(que')  BY DEF InQueue, NodesOf
<1>9. next'[a] = b /\ next'[b] = que[2] /\ \A m \in Nodes \ {b} : next'[m] = next[m]
  <2>1. next \in [Nodes -> NodeOrNull] /\ loc[t].nxt = que[2]  BY CasStep DEF FifoInv, TypeOK
  <2>2. QED  BY <1>3, <1>4, <1>6, <2>1
<1>10. QED  BY <1>3, <1>4, <1>5, <1>6, <1>7, <1>8, <1>9

\* A node's link changes only when a thread that alone has the node sets it,
\* or when the thread links its own to a last node.
LEMMA NextStep ==
  ASSUME FifoInv, NEW t \in Threads, Act(t), NEW n \in Nodes,
         n \notin free, n # loc[t].sen, n # loc[t].node \/ At(t, "swing"),
         n = loc[t].chk => ~ (At(t, "recheck") /\ loc[t].unseen = {}), next'[n] # next[n]
  PROVE  /\ next[n] = Null /\ next'[n] = loc[t].node /\ loc[t].node # Null
         /\ n \in InQueue /\ n = tail /\ tail' = tail
         /\ (Link(t) /\ n = loc[t].cur) \/ (TailLink(t) /\ n = loc[t].tl)
<1>1. next \in [Nodes -> NodeOrNull]  BY DEF FifoInv, TypeOK
<1>2. CASE TakeFree(t)
  <2>1. PICK m \in free : Obtain(t, m)  BY <1>2, Zenon DEF TakeFree
  <2>2. next' = next \/ next' = [next EXCEPT ![m] = Null]  BY <2>1, Zenon DEF Obtain
  <2>3. QED  BY <1>1, <2>1, <2>2
<1>3. CASE Reuse(t)
  <2>1. next' = next \/ next' = [next EXCEPT ![loc[t].chk] = Null]
    BY <1>3, Zenon DEF Reuse, Obtain
  <2>2. n # loc[t].chk  BY <1>3, Zenon DEF Reuse
  <2>3. QED  BY <1>1, <2>1, <2>2
<1>4. CASE Load(t)
  <2>1. next' = next \/ next' = [next EXCEPT ![loc[t].sen] = loc[t].node]
    BY <1>4, Zenon DEF Load
  <2>2. QED  BY <1>1, <2>1
<1>5. CASE PushHeadCas(t)
  <2>1. next' = [next EXCEPT ![loc[t].node] = loc[t].nxt] /\ ~ At(t, "swing")
    BY <1>5, Zenon DEF PushHeadCas, At
  <2>2. QED  BY <1>1, <2>1
<1>6. ASSUME NEW c, (Link(t) /\ c = loc[t].cur) \/ (TailLink(t) /\ c = loc[t].tl)
      PROVE  /\ next[n] = Null /\ next'[n] = loc[t].node /\ loc[t].node # Null
             /\ n \in InQueue /\ n = tail /\ tail' = tail /\ n = c
  <2>1. ~ At(t, "swing")  BY <1>6 DEF Link, TailLink, At
  <2>2. /\ c \in InQueue /\ c = que[Len(que)] /\ c = tail
        /\ loc[t].node \in Nodes
        /\ next'[c] = loc[t].node /\ \A m \in Nodes \ {c, loc[t].node} : next'[m] = next[m]
        /\ tail' = tail
    BY <1>6, LinkStep
  <2>3. n = c  BY <2>1, <2>2
  <2>4. QED  BY <2>2, <2>3, Positions, FifoAssumption
<1>7. QED  BY <1>2, <1>3, <1>4, <1>5, <1>6, Changes, Zenon

\* The nodes of the queue are linked as before, but for the last.
LEMMA QueueLinks ==
  ASSUME FifoInv, NEW t \in Threads, Act(t), NEW n \in InQueue, next'[n] # next[n]
  PROVE  Link(t) \/ TailLink(t)
<1>1. n \in Nodes  BY Positions
<1>2. n \notin free  BY DEF FifoInv, Apart
<1>3. n # loc[t].sen /\ n # loc[t].chk /\ (n # loc[t].node \/ At(t, "swing"))
  BY <1>1, OwnNodes, FifoAssumption
<1>4. QED  BY <1>1, <1>2, <1>3, NextStep

\* A step keeps the chain.
LEMMA ChainStep ==
  ASSUME FifoInv, NEW t \in Threads, Act(t)
  PROVE  HeadOK' /\ Linked' /\ TailOK' /\ Distinct'
<1>1. /\ que \in Seq(Nodes) /\ Len(que) \in Nat \ {0} /\ head = que[1]
      /\ Injective(que) /\ InQueue = NodesOf(que)
  BY Positions
<1>2. ASSUME NEW c, NEW n, n = loc[t].node,
             (Link(t) /\ c = loc[t].cur) \/ (TailLink(t) /\ c = loc[t].tl)
      PROVE  HeadOK' /\ Linked' /\ TailOK' /\ Distinct'
  <2>1. /\ c = que[Len(que)] /\ c = tail
        /\ n \in Held(t) /\ n \in Nodes /\ n # c
        /\ que' = Append(que, n)
        /\ next'[c] = n /\ next'[n] = Null /\ \A m \in Nodes \ {c, n} : next'[m] = next[m]
        /\ UNCHANGED <<head, tail>>
    BY <1>2, LinkStep
  <2>2. n \notin NodesOf(que)  BY <1>1, <2>1, OwnNodes
  <2>3. que' = Append(que, n)  BY <2>1
  <2>4. AppendedIs(que', que, n)  BY <1>1, <2>1, <2>2, <2>3, Appended, Zenon
  <2>5. /\ Len(que') = Len(que) + 1
        /\ \A i \in 1..Len(que) : que'[i] = que[i]
        /\ que'[Len(que) + 1] = n
        /\ Injective(que')
    BY <2>4, Zenon DEF AppendedIs
  <2>6. HeadOK'  BY <1>1, <2>1, <2>5 DEF HeadOK
  <2>7. TailOK'
    <3>1. Len(que) \in 1..Len(que') /\ Len(que) >= Len(que') - 1 /\ que'[Len(que)] = tail'
      <4>1. tail' = que[Len(que)]  BY <2>1
      <4>2. Len(que) \in 1..Len(que) /\ Len(que') = Len(que) + 1 /\ que'[Len(que)] = que[Len(que)]
        BY <1>1, <2>5
      <4>3. QED  BY <1>1, <4>1, <4>2
    <3>2. QED  BY <3>1 DEF TailOK
  <2>8. Distinct'  BY <2>5, Zenon DEF Distinct, Injective
  <2>9. ASSUME NEW i \in 1..Len(que')
        PROVE  next'[que'[i]] = IF i = Len(que') THEN Null ELSE que'[i + 1]
    <3>1. CASE i = Len(que')  BY <2>1, <2>5, <3>1
    <3>2. CASE i = Len(que)
      <4>1. que'[i] = c /\ que'[i + 1] = n /\ i # Len(que')
        <5>0. Len(que) \in 1..Len(que)  BY <1>1
        <5>1. que[i] = c /\ que'[i] = que[i]  BY <2>1, <2>5, <3>2, <5>0, Zenon
        <5>2. QED  BY <1>1, <2>5, <3>2, <5>1
      <4>2. QED  BY <2>1, <4>1
    <3>3. CASE i # Len(que') /\ i # Len(que)
      <4>1. i \in 1..Len(que) /\ i + 1 \in 1..Len(que) /\ Len(que) \in 1..Len(que)
        BY <1>1, <2>5, <3>3
      <4>2. que[i] # c /\ que[i] # n /\ que[i] \in Nodes
        <5>1. que[i] \in NodesOf(que)  BY <4>1 DEF NodesOf
        <5>2. que[i] # que[Len(que)]  BY <1>1, <3>3, <4>1, Zenon DEF Injective
        <5>3. que[i] \in Nodes  BY <1>1, <4>1
        <5>4. QED  BY <2>1, <2>2, <5>1, <5>2, <5>3, Zenon
      <4>3. next[que[i]] = que[i + 1]  BY <3>3, <4>1 DEF FifoInv, Linked
      <4>4. QED  BY <2>1, <2>5, <3>3, <4>1, <4>2, <4>3
    <3>4. QED  BY <3>1, <3>2, <3>3
  <2>10. Linked'  BY <2>9, Zenon DEF Linked
  <2>11. QED  BY <2>6, <2>7, <2>8, <2>10
<1>3. CASE PopCas(t)
  <2>1. /\ que' \in Seq(Nodes) /\ Len(que') = Len(que) - 1
        /\ \A i \in 1..Len(que') : que'[i] = que[i + 1]
        /\ head' = que[2] /\ tail' = tail /\ next' = next
    BY <1>3, PopStep
  <2>2. Injective(que')  BY <1>3, PopStep
  <2>3. Len(que) > 1 /\ head # tail  BY <1>3, CasStep
  <2>4. Len(que') \in Nat \ {0} /\ 1 \in 1..Len(que')  BY <1>1, <2>1, <2>3
  <2>5. HeadOK'
    <3>1. que'[1] = que[1 + 1]  BY <2>1, <2>4
    <3>2. QED  BY <2>1, <2>4, <3>1 DEF HeadOK
  <2>6. TailOK'
    <3>1. PICK i \in 1..Len(que) : tail = que[i] /\ i >= Len(que) - 1  BY DEF FifoInv, TailOK
    <3>2. i # 1  BY <1>1, <2>3, <3>1
    <3>3. i - 1 \in 1..Len(que') /\ i - 1 >= Len(que') - 1 /\ (i - 1) + 1 = i
      BY <1>1, <2>1, <3>1, <3>2
    <3>4. que'[i - 1] = que[(i - 1) + 1]  BY <2>1, <3>3, Zenon
    <3>5. tail' = que'[i - 1]  BY <2>1, <3>1, <3>3, <3>4
    <3>6. QED  BY <3>3, <3>5 DEF TailOK
  <2>7. Distinct'  BY <2>2, Zenon DEF Distinct, Injective
  <2>8. ASSUME NEW i \in 1..Len(que')
        PROVE  next'[que'[i]] = IF i = Len(que') THEN Null ELSE que'[i + 1]
    <3>1. i + 1 \in 1..Len(que) /\ (i = Len(que') <=> i + 1 = Len(que))  BY <1>1, <2>1
    <3>2. next[que[i + 1]] = IF i + 1 = Len(que) THEN Null ELSE que[(i + 1) + 1]
      BY <3>1, Zenon DEF FifoInv, Linked
    <3>3. que'[i] = que[i + 1]  BY <2>1
    <3>4. i # Len(que') => que'[i + 1] = que[(i + 1) + 1]  BY <2>1, <2>4
    <3>5. QED  BY <2>1, <3>1, <3>2, <3>3, <3>4
  <2>9. Linked'  BY <2>8, Zenon DEF Linked
  <2>10. QED  BY <2>5, <2>6, <2>7, <2>9
<1>4. CASE PushHeadCas(t)
  <2> DEFINE a == loc[t].sen
             b == loc[t].node
  <2>1. /\ a \in Held(t) /\ b \in Held(t) /\ a # b
        /\ que' \in Seq(Nodes) /\ Len(que') = Len(que) + 1
        /\ que'[1] = a /\ que'[2] = b
        /\ \A i \in 3..Len(que') : que'[i] = que[i - 1]
        /\ head' = a /\ next'[a] = b /\ next'[b] = que[2] /\ tail' = tail
    BY <1>4, PushHeadStep
  <2>2. Injective(que') /\ \A m \in Nodes \ {b} : next'[m] = next[m]  BY <1>4, PushHeadStep
  <2>3. Len(que) > 1 /\ head # tail  BY <1>4, CasStep
  <2> HIDE DEF a, b
  <2>4. Len(que') \in Nat \ {0, 1} /\ 1 \in 1..Len(que')  BY <1>1, <2>1, <2>3
  <2>5. HeadOK'  BY <2>1, <2>4 DEF HeadOK
  <2>6. TailOK'
    <3>1. PICK i \in 1..Len(que) : tail = que[i] /\ i >= Len(que) - 1  BY DEF FifoInv, TailOK
    <3>2. i # 1  BY <1>1, <2>3, <3>1
    <3>3. i + 1 \in 1..Len(que') /\ i + 1 \in 3..Len(que') /\ i + 1 >= Len(que') - 1 /\ (i + 1) - 1 = i
      BY <1>1, <2>1, <3>1, <3>2
    <3>4. que'[i + 1] = que[(i + 1) - 1]  BY <2>1, <3>3, Zenon
    <3>5. tail' = que'[i + 1]  BY <2>1, <3>1, <3>3, <3>4
    <3>6. QED  BY <3>3, <3>5 DEF TailOK
  <2>7. Distinct'  BY <2>2, Zenon DEF Distinct, Injective
  <2>8. ASSUME NEW i \in 1..Len(que')
        PROVE  next'[que'[i]] = IF i = Len(que') THEN Null ELSE que'[i + 1]
    <3>1. CASE i = 1  BY <2>1, <2>4, <3>1
    <3>2. CASE i = 2
      <4>1. i + 1 \in 3..Len(que') /\ (i + 1) - 1 = 2 /\ i # Len(que')  BY <1>1, <2>1, <2>3, <3>2
      <4>2. que'[i + 1] = que[(i + 1) - 1]  BY <2>1, <4>1, Zenon
      <4>3. QED  BY <2>1, <3>2, <4>1, <4>2
    <3>3. CASE i # 1 /\ i # 2
      <4>1. /\ i \in 3..Len(que') /\ i - 1 \in 1..Len(que) /\ (i = Len(que') <=> i - 1 = Len(que))
            /\ i # Len(que') => i + 1 \in 3..Len(que')
            /\ (i + 1) - 1 = (i - 1) + 1
        BY <1>1, <2>1, <2>4, <3>3
      <4>2. que'[i] = que[i - 1]  BY <2>1, <4>1, Zenon
      <4>3. i # Len(que') => que'[i + 1] = que[(i - 1) + 1]
        <5>1. i # Len(que') => que'[i + 1] = que[(i + 1) - 1]  BY <2>1, <4>1, Zenon
        <5>2. QED  BY <4>1, <5>1
      <4>4. next[que[i - 1]] = IF i - 1 = Len(que) THEN Null ELSE que[(i - 1) + 1]
        BY <4>1, Zenon DEF FifoInv, Linked
      <4>5. que[i - 1] \in InQueue /\ que[i - 1] \in Nodes  BY <4>1, Positions, Zenon
      <4>6. que[i - 1] # b
        <5>1. b \in Held(t)  BY <2>1
        <5>2. b \notin InQueue  BY <5>1, OwnNodes, Zenon
        <5>3. QED  BY <4>5, <5>2, Zenon
      <4>7. next'[que[i - 1]] = next[que[i - 1]]  BY <2>2, <4>5, <4>6
      <4>8. QED  BY <4>1, <4>2, <4>3, <4>4, <4>7
    <3>4. QED  BY <3>1, <3>2, <3>3
  <2>9. Linked'  BY <2>8, Zenon DEF Linked
  <2>10. QED  BY <2>5, <2>6, <2>7, <2>9
<1>5. CASE ~ (Link(t) \/ TailLink(t) \/ PopCas(t) \/ PushHeadCas(t))
  <2>1. que' = que /\ head' = head  BY <1>5, Changes, Zenon
  <2>2. HeadOK' /\ Distinct'  BY <2>1, Zenon DEF FifoInv, HeadOK, Distinct
  <2>3. TailOK'
    <3>1. CASE tail' = tail  BY <2>1, <3>1, Zenon DEF FifoInv, TailOK
    <3>2. CASE tail' # tail
      <4>1. tail' = que[Len(que)]  BY <3>2, TailStep, TailMoves
      <4>2. Len(que) \in 1..Len(que) /\ Len(que) >= Len(que) - 1  BY <1>1
      <4>3. QED  BY <2>1, <4>1, <4>2, Zenon DEF TailOK
    <3>3. QED  BY <3>1, <3>2
  <2>4. \A n \in InQueue : next'[n] = next[n]  BY <1>5, QueueLinks, Zenon
  <2>5. \A i \in 1..Len(que) : next'[que[i]] = next[que[i]]  BY <2>4, Positions, Zenon
  <2>6. Linked'  BY <2>1, <2>5, Zenon DEF FifoInv, Linked
  <2>7. QED  BY <2>2, <2>3, <2>6
<1>6. QED  BY <1>2, <1>3, <1>4, <1>5

-----------------------------------------------------------------------------
(* Nodes move from one place to another.                                   *)

\* The steps that take no node to another place.
LEMMA QuietStep ==
  ASSUME FifoInv, NEW t \in Threads, Act(t),
         ~ (TakeFree(t) \/ Recheck(t) \/ FoundInHazard(t) \/ Reclaim(t) \/ Link(t) \/ TailLink(t)
            \/ PopCas(t) \/ PushHeadCas(t))
  PROVE  Held(t)' = Held(t)
<1>1. KindOK(loc[t]) /\ NodesOK(loc[t])  BY Zenon DEF FifoInv, LocalsOK
<1>2. TypeOK  BY DEF FifoInv
<1> USE <1>2 DEF TypeOK, Held, At
<1>3. CASE StoreSlot(t)  BY <1>3 DEF StoreSlot, Goto
<1>4. CASE Load(t)  BY <1>4 DEF Load
<1>5. CASE Verified(t)  BY <1>5 DEF Verified, Goto
<1>6. CASE Reload(t)  BY <1>6 DEF Reload
<1>7. CASE ReadNext(t)  BY <1>7 DEF ReadNext
<1>8. CASE MoveTail(t)  BY <1>8 DEF MoveTail
<1>9. CASE LinkFails(t)  BY <1>9 DEF LinkFails, Goto
<1>10. CASE Swing(t)  BY <1>10 DEF Swing
<1>11. CASE LookAtTail(t)  BY <1>11 DEF LookAtTail, Goto
<1>12. CASE HelpTail(t)  BY <1>12 DEF HelpTail, Goto
<1>13. CASE StoreNextSlot(t)  BY <1>13 DEF StoreNextSlot, Goto
<1>14. CASE NextVerified(t)  BY <1>14 DEF NextVerified, Goto
<1>15. CASE CasFails(t)  BY <1>15 DEF CasFails
<1>16. CASE PickUpValue(t)  BY <1>16 DEF PickUpValue
<1>17. CASE LoadTail(t)  BY <1>17 DEF LoadTail
<1>18. CASE StoreTailSlot(t)  BY <1>18 DEF StoreTailSlot, Goto
<1>19. CASE TailVerified(t)  BY <1>19 DEF TailVerified, Goto
<1>20. CASE TailHasMoved(t)  BY <1>20 DEF TailHasMoved, StartAgain
<1>21. CASE ReadTailNext(t)  BY <1>21 DEF ReadTailNext
<1>22. CASE MoveTailOnce(t)  BY <1>22 DEF MoveTailOnce, StartAgain
<1>23. CASE TailLinkFails(t)  BY <1>23 DEF TailLinkFails, StartAgain
<1>24. CASE ScanSlot(t)  BY <1>24 DEF ScanSlot
<1>25. CASE Drop(t)  BY <1>1, <1>25 DEF Drop, NodesOK, Idle
<1>26. CASE Reuse(t)  BY <1>1, <1>26 DEF Reuse, Obtain, NodesOK
<1>27. ASSUME NEW kind \in Kinds, Call(t, kind)  PROVE Held(t)' = Held(t)
  BY <1>1, <1>27 DEF Call, KindOK, Idle
<1>28. QED
  BY <1>3, <1>4, <1>5, <1>6, <1>7, <1>8, <1>9, <1>10, <1>11, <1>12, <1>13, <1>14, <1>15, <1>16, <1>17, <1>18, <1>19, <1>20, <1>21, <1>22, <1>23, <1>24, <1>25, <1>26, <1>27, Zenon DEF Act, Step

\* The others hold what they held.
LEMMA OthersHold ==
  ASSUME FifoInv, NEW t \in Threads, Act(t), NEW u \in Threads, u # t
  PROVE  Held(u)' = Held(u)
<1>1. loc'[u] = loc[u]  BY LocFrame DEF FifoInv
<1>2. QED  BY <1>1 DEF Held, At

\* The steps that take a node n to another place: from where, and to where.
LEMMA HeldStep ==
  ASSUME FifoInv, NEW t \in Threads, Act(t)
  PROVE  /\ TakeFree(t) => \E n \in free : Held(t)' = Held(t) \cup {n} /\ free' = free \ {n}
         /\ Recheck(t) => \E n \in limbo[t] : /\ Held(t)' = Held(t) \cup {n}
                                              /\ limbo' = [limbo EXCEPT ![t] = @ \ {n}]
         /\ FoundInHazard(t) => \E n \in Held(t) : /\ Held(t)' = Held(t) \ {n}
                                                   /\ limbo' = [limbo EXCEPT ![t] = @ \cup {n}]
         /\ Reclaim(t) => \E n \in Held(t) : Held(t)' = Held(t) \ {n} /\ free' = free \cup {n}
         /\ Link(t) \/ TailLink(t) => /\ Held(t)' = Held(t) \ {loc[t].node}
                                      /\ loc[t].node \in Held(t)
                                      /\ InQueue' = InQueue \cup {loc[t].node}
         /\ PopCas(t) => Held(t)' = Held(t) \cup {head}
         /\ PushHeadCas(t) => /\ Held(t)' = {head} /\ Held(t) = {loc[t].sen, loc[t].node}
<1>1. KindOK(loc[t]) /\ NodesOK(loc[t]) /\ PointersOK(loc[t])  BY Zenon DEF FifoInv, LocalsOK
<1>2. TypeOK  BY DEF FifoInv
<1> USE <1>2 DEF TypeOK, Held, At
<1>3. ASSUME TakeFree(t)
      PROVE  \E n \in free : Held(t)' = Held(t) \cup {n} /\ free' = free \ {n}
  <2>1. PICK n \in free : Obtain(t, n) /\ free' = free \ {n}  BY <1>3, Zenon DEF TakeFree
  <2>2. loc[t].pc = "pool" \/ loc[t].pc = "alloc"  BY <1>3, Zenon DEF TakeFree
  <2>3. n # Null  BY FifoAssumption
  <2>4. Held(t)' = Held(t) \cup {n}
    BY <1>1, <2>1, <2>2, <2>3 DEF Obtain, NodesOK
  <2>5. QED  BY <2>1, <2>4, Zenon
<1>4. ASSUME Recheck(t)
      PROVE  \E n \in limbo[t] : /\ Held(t)' = Held(t) \cup {n}
                                 /\ limbo' = [limbo EXCEPT ![t] = @ \ {n}]
  <2>1. PICK n \in limbo[t] :
          /\ loc' = [loc EXCEPT ![t].pc = "recheck", ![t].chk = n, ![t].unseen = SlotsOfOthers(t)]
          /\ limbo' = [limbo EXCEPT ![t] = @ \ {n}]
    BY <1>4, Zenon DEF Recheck
  <2>2. n # Null  BY FifoAssumption
  <2>3. loc[t].pc = "pool"  BY <1>4, Zenon DEF Recheck
  <2>4. Held(t)' = Held(t) \cup {n}  BY <1>1, <2>1, <2>2, <2>3 DEF NodesOK
  <2>5. QED  BY <2>1, <2>4, Zenon
<1>5. ASSUME FoundInHazard(t)
      PROVE  \E n \in Held(t) : /\ Held(t)' = Held(t) \ {n}
                                /\ limbo' = [limbo EXCEPT ![t] = @ \cup {n}]
  <2>1. loc[t].chk \in Held(t)  BY <1>1, <1>5 DEF FoundInHazard, Scanning, NodesOK
  <2>2. Held(t)' = Held(t) \ {loc[t].chk}
    BY <1>1, <1>5 DEF FoundInHazard, Scanning, NodesOK, Idle
  <2>3. limbo' = [limbo EXCEPT ![t] = @ \cup {loc[t].chk}]  BY <1>5, Zenon DEF FoundInHazard
  <2>4. QED  BY <2>1, <2>2, <2>3, Zenon
<1>6. ASSUME Reclaim(t)
      PROVE  \E n \in Held(t) : Held(t)' = Held(t) \ {n} /\ free' = free \cup {n}
  <2>1. loc[t].chk \in Held(t)  BY <1>1, <1>6 DEF Reclaim, NodesOK
  <2>2. Held(t)' = Held(t) \ {loc[t].chk}  BY <1>1, <1>6 DEF Reclaim, NodesOK, Idle
  <2>3. free' = free \cup {loc[t].chk}  BY <1>6, Zenon DEF Reclaim
  <2>4. QED  BY <2>1, <2>2, <2>3, Zenon
<1>7. ASSUME Link(t) \/ TailLink(t)
      PROVE  /\ Held(t)' = Held(t) \ {loc[t].node}
             /\ loc[t].node \in Held(t)
             /\ InQueue' = InQueue \cup {loc[t].node}
  <2>1. PICK c : (Link(t) /\ c = loc[t].cur) \/ (TailLink(t) /\ c = loc[t].tl)  BY <1>7
  <2>2. que' = Append(que, loc[t].node) /\ loc[t].node \in Held(t) /\ loc[t].node \in Nodes
    BY <2>1, LinkStep, ZenonT(30)
  <2>3. Injective(que) /\ InQueue = NodesOf(que) /\ loc[t].node \notin NodesOf(que)
    BY <2>2, Positions, OwnNodes, Zenon
  <2>4. que \in Seq(Nodes)  OBVIOUS
  <2>5. AppendedIs(que', que, loc[t].node)  BY <2>2, <2>3, <2>4, Appended, Zenon
  <2>6. InQueue' = NodesOf(que')  BY DEF InQueue, NodesOf
  <2>7. InQueue' = InQueue \cup {loc[t].node}  BY <2>3, <2>5, <2>6, Zenon DEF AppendedIs
  <2>8. CASE Link(t)  BY <1>1, <2>2, <2>7, <2>8 DEF Link, NodesOK, Goto, KindOK, PushPoints
  <2>9. CASE TailLink(t)  BY <1>1, <2>2, <2>7, <2>9 DEF TailLink, NodesOK, KindOK, TailPoints
  <2>10. QED  BY <1>7, <2>8, <2>9, Zenon
<1>8. ASSUME PopCas(t)  PROVE Held(t)' = Held(t) \cup {head}
  BY <1>1, <1>8 DEF PopCas, NodesOK, PointersOK, HeadPoints
<1>9. ASSUME PushHeadCas(t)  PROVE Held(t)' = {head} /\ Held(t) = {loc[t].sen, loc[t].node}
  BY <1>1, <1>9 DEF PushHeadCas, NodesOK, PointersOK, HeadPoints, TryPoints, InCall
<1>10. QED  BY <1>3, <1>4, <1>5, <1>6, <1>7, <1>8, <1>9, Zenon

\* A step loses no node and puts none in two places.
LEMMA PlaceStep ==
  ASSUME FifoInv, NEW t \in Threads, Act(t)
  PROVE  Apart' /\ Complete'
<1>1. \A u \in Threads \ {t} : Held(u)' = Held(u)  BY OthersHold, Zenon
<1>2. Apart /\ Complete /\ limbo \in [Threads -> SUBSET Nodes] /\ free \subseteq Nodes
  BY DEF FifoInv, TypeOK
<1>3. (que' = que => InQueue' = InQueue)  BY DEF InQueue
<1>4. CASE TakeFree(t)
  <2>1. limbo' = limbo /\ InQueue' = InQueue  BY <1>3, <1>4 DEF TakeFree
  <2>2. PICK n \in free : Held(t)' = Held(t) \cup {n} /\ free' = free \ {n}
    BY <1>4, HeldStep, Zenon
  <2>3. Apart'  BY <1>1, <1>2, <2>1, <2>2 DEF Apart
  <2>4. Complete'  BY <1>1, <1>2, <2>1, <2>2 DEF Complete
  <2>5. QED  BY <2>3, <2>4
<1>5. CASE Recheck(t)
  <2>1. free' = free /\ InQueue' = InQueue  BY <1>3, <1>5 DEF Recheck
  <2>2. PICK n \in limbo[t] : Held(t)' = Held(t) \cup {n} /\ limbo' = [limbo EXCEPT ![t] = @ \ {n}]
    BY <1>5, HeldStep, Zenon
  <2>3. Apart'  BY <1>1, <1>2, <2>1, <2>2 DEF Apart
  <2>4. Complete'  BY <1>1, <1>2, <2>1, <2>2 DEF Complete
  <2>5. QED  BY <2>3, <2>4
<1>6. CASE FoundInHazard(t)
  <2>1. free' = free /\ InQueue' = InQueue  BY <1>3, <1>6 DEF FoundInHazard
  <2>2. PICK n \in Held(t) : Held(t)' = Held(t) \ {n} /\ limbo' = [limbo EXCEPT ![t] = @ \cup {n}]
    BY <1>6, HeldStep, Zenon
  <2>3. Apart'  BY <1>1, <1>2, <2>1, <2>2 DEF Apart
  <2>4. Complete'  BY <1>1, <1>2, <2>1, <2>2 DEF Complete
  <2>5. QED  BY <2>3, <2>4
<1>7. CASE Reclaim(t)
  <2>1. limbo' = limbo /\ InQueue' = InQueue  BY <1>3, <1>7 DEF Reclaim
  <2>2. PICK n \in Held(t) : Held(t)' = Held(t) \ {n} /\ free' = free \cup {n}
    BY <1>7, HeldStep, Zenon
  <2>3. Apart'  BY <1>1, <1>2, <2>1, <2>2 DEF Apart
  <2>4. Complete'  BY <1>1, <1>2, <2>1, <2>2 DEF Complete
  <2>5. QED  BY <2>3, <2>4
<1>8. CASE Link(t) \/ TailLink(t)
  <2>1. limbo' = limbo /\ free' = free  BY <1>8, Zenon DEF Link, TailLink
  <2>2. PICK n \in Held(t) : Held(t)' = Held(t) \ {n} /\ InQueue' = InQueue \cup {n}
    BY <1>8, HeldStep, Zenon
  <2>3. Apart'  BY <1>1, <1>2, <2>1, <2>2 DEF Apart
  <2>4. Complete'  BY <1>1, <1>2, <2>1, <2>2 DEF Complete
  <2>5. QED  BY <2>3, <2>4
<1>9. CASE PopCas(t)
  <2>1. limbo' = limbo /\ free' = free /\ InQueue' = InQueue \ {head} /\ head \in InQueue
    BY <1>9, PopStep, Positions, Zenon
  <2>2. Held(t)' = Held(t) \cup {head}  BY <1>9, HeldStep, Zenon
  <2>3. Apart'  BY <1>1, <1>2, <2>1, <2>2 DEF Apart
  <2>4. Complete'  BY <1>1, <1>2, <2>1, <2>2 DEF Complete
  <2>5. QED  BY <2>3, <2>4
<1>10. CASE PushHeadCas(t)
  <2>1. limbo' = limbo /\ free' = free /\ head \in InQueue  BY <1>10, PushHeadStep, Positions, Zenon
  <2>2. InQueue' = (InQueue \ {head}) \cup Held(t) /\ Held(t)' = {head}
    <3>1. InQueue' = (InQueue \ {head}) \cup {loc[t].sen, loc[t].node}
      BY <1>10, PushHeadStep, Zenon
    <3>2. QED  BY <1>10, <3>1, HeldStep, Zenon
  <2>3. Apart'  BY <1>1, <1>2, <2>1, <2>2 DEF Apart
  <2>4. Complete'  BY <1>1, <1>2, <2>1, <2>2 DEF Complete
  <2>5. QED  BY <2>3, <2>4
<1>11. CASE ~ (TakeFree(t) \/ Recheck(t) \/ FoundInHazard(t) \/ Reclaim(t) \/ Link(t) \/ TailLink(t)
              \/ PopCas(t) \/ PushHeadCas(t))
  <2>1. Held(t)' = Held(t) /\ free' = free /\ limbo' = limbo /\ que' = que
    BY <1>11, QuietStep, Changes, Zenon
  <2>2. \A u \in Threads : Held(u)' = Held(u)  BY <1>1, <2>1
  <2>3. InQueue' = InQueue  BY <1>3, <2>1
  <2>4. Apart'  BY <1>2, <2>1, <2>2, <2>3 DEF Apart
  <2>5. Complete'  BY <1>2, <2>1, <2>2, <2>3 DEF Complete
  <2>6. QED  BY <2>4, <2>5
<1>12. QED
  BY <1>4, <1>5, <1>6, <1>7, <1>8, <1>9, <1>10, <1>11

-----------------------------------------------------------------------------
(* The hazard pointers.                                                    *)

\* A thread's slots are its own.
LEMMA SlotFrame ==
  ASSUME FifoInv, NEW t \in Threads, Act(t), NEW u \in Threads, u # t, NEW use \in Uses
  PROVE  slot'[<<u, use>>] = slot[<<u, use>>]
<1>1. slot \in [Slots -> NodeOrNull]  BY DEF FifoInv, TypeOK
<1>2. <<u, use>> \in Slots  BY DEF Slots
<1>3. CASE Drop(t)
  <2>1. slot' = [s \in Slots |-> IF s[1] = t THEN Null ELSE slot[s]]  BY <1>3, Zenon DEF Drop
  <2>2. QED  BY <1>2, <2>1
<1>4. ASSUME NEW w, NEW p, SetSlot(t, w, p)
      PROVE  slot'[<<u, use>>] = slot[<<u, use>>]
  BY <1>1, <1>2, <1>4 DEF SetSlot
<1>5. slot' = slot \/ Drop(t) \/ \E w, p : SetSlot(t, w, p)
  BY Changes, Zenon DEF StoreSlot, StoreNextSlot, StoreTailSlot, TailHasMoved, MoveTailOnce,
    TailLinkFails, StartAgain
<1>6. QED  BY <1>3, <1>4, <1>5, Zenon

\* What a hazard pointer protects is a node.
LEMMA GuardedIsNode ==
  ASSUME FifoInv, NEW u \in Threads, Guarding(u)
  PROVE  Guarded(u) \in Nodes /\ Use(u) \in Uses
<1>1. TypeOK /\ LocalsOK  BY DEF FifoInv
<1>2. QED
  BY <1>1, Pointers DEF Guarding, Guarded, Use, Uses, CurPoints, TlPoints, TailPoints, At

\* A node in a hazard pointer of another thread is not used anew, and a
\* thread that takes it out has still to look at the slot.
LEMMA SeenStep ==
  ASSUME FifoInv, NEW t \in Threads, Act(t), NEW g \in Nodes, NEW s \in SlotsOfOthers(t),
         slot[s] = g, g \notin free, g # loc[t].sen, g # loc[t].node \/ At(t, "swing"),
         g = loc[t].chk => WillSee(t, s)
  PROVE  /\ g \notin free' /\ g # loc'[t].sen /\ (g # loc'[t].node \/ At(t, "swing")')
         /\ g = loc'[t].chk => WillSee(t, s)'
<1>1. KindOK(loc[t]) /\ NodesOK(loc[t])  BY Zenon DEF FifoInv, LocalsOK
<1>2. TypeOK /\ g # Null  BY FifoAssumption DEF FifoInv
<1> USE <1>2 DEF TypeOK, At, WillSee, Scanning
<1>3. CASE StoreSlot(t)  BY <1>3 DEF StoreSlot, Goto
<1>4. CASE Load(t)  BY <1>4 DEF Load
<1>5. CASE Verified(t)  BY <1>5 DEF Verified, Goto
<1>6. CASE Reload(t)  BY <1>6 DEF Reload
<1>7. CASE ReadNext(t)  BY <1>7 DEF ReadNext
<1>8. CASE MoveTail(t)  BY <1>8 DEF MoveTail
<1>9. CASE LinkFails(t)  BY <1>9 DEF LinkFails, Goto
<1>10. CASE Swing(t)  BY <1>1, <1>10 DEF Swing
<1>11. CASE LookAtTail(t)  BY <1>11 DEF LookAtTail, Goto
<1>12. CASE HelpTail(t)  BY <1>12 DEF HelpTail, Goto
<1>13. CASE StoreNextSlot(t)  BY <1>13 DEF StoreNextSlot, Goto
<1>14. CASE NextVerified(t)  BY <1>14 DEF NextVerified, Goto
<1>15. CASE CasFails(t)  BY <1>15 DEF CasFails
<1>16. CASE PickUpValue(t)  BY <1>16 DEF PickUpValue
<1>17. CASE LoadTail(t)  BY <1>17 DEF LoadTail
<1>18. CASE StoreTailSlot(t)  BY <1>18 DEF StoreTailSlot, Goto
<1>19. CASE TailVerified(t)  BY <1>19 DEF TailVerified, Goto
<1>20. CASE TailHasMoved(t)  BY <1>20 DEF TailHasMoved, StartAgain
<1>21. CASE ReadTailNext(t)  BY <1>21 DEF ReadTailNext
<1>22. CASE MoveTailOnce(t)  BY <1>22 DEF MoveTailOnce, StartAgain
<1>23. CASE TailLinkFails(t)  BY <1>23 DEF TailLinkFails, StartAgain
<1>24. CASE Link(t)  BY <1>24 DEF Link, Goto
<1>25. CASE PopCas(t)  BY <1>25 DEF PopCas
<1>26. CASE PushHeadCas(t)  BY <1>26 DEF PushHeadCas
<1>27. CASE TailLink(t)  BY <1>27 DEF TailLink
<1>28. CASE ScanSlot(t)  BY <1>28 DEF ScanSlot
<1>29. CASE FoundInHazard(t)  BY <1>1, <1>29 DEF FoundInHazard, Idle
<1>30. CASE Reclaim(t)  BY <1>1, <1>30 DEF Reclaim, Idle
<1>31. CASE Recheck(t)  BY <1>31 DEF Recheck
<1>32. CASE TakeFree(t)
  <2>1. PICK n \in free : Obtain(t, n) /\ free' = free \ {n}  BY <1>32, Zenon DEF TakeFree
  <2>2. QED  BY <1>32, <2>1 DEF Obtain, TakeFree
<1>33. CASE Reuse(t)  BY <1>33 DEF Reuse, Obtain
<1>34. CASE Drop(t)  BY <1>1, <1>34 DEF Drop, Idle
<1>35. ASSUME NEW kind \in Kinds, Call(t, kind)
      PROVE  /\ g \notin free' /\ g # loc'[t].sen /\ (g # loc'[t].node \/ At(t, "swing")')
             /\ g = loc'[t].chk => WillSee(t, s)'
  BY <1>1, <1>35 DEF Call, KindOK, Idle
<1>36. QED
  BY <1>3, <1>4, <1>5, <1>6, <1>7, <1>8, <1>9, <1>10, <1>11, <1>12, <1>13, <1>14, <1>15, <1>16, <1>17, <1>18, <1>19, <1>20, <1>21, <1>22, <1>23, <1>24, <1>25, <1>26, <1>27, <1>28, <1>29, <1>30, <1>31, <1>32, <1>33, <1>34, <1>35, Zenon DEF Act, Step

\* The link of a guarded node is set once and then kept.
LEMMA GuardedLink ==
  ASSUME FifoInv, NEW t \in Threads, Act(t), NEW u \in Threads, Guarding(u),
         next'[Guarded(u)] # next[Guarded(u)]
  PROVE  /\ next[Guarded(u)] = Null /\ next'[Guarded(u)] = loc[t].node /\ loc[t].node # Null
         /\ Guarded(u) \in InQueue /\ Guarded(u) = tail /\ tail' = tail
         /\ \/ Link(t) /\ Guarded(u) = loc[t].cur
            \/ TailLink(t) /\ Guarded(u) = loc[t].tl
<1> DEFINE g == Guarded(u)
<1>1. g \in Nodes  BY GuardedIsNode
<1>2. /\ g \notin free /\ g # loc[t].sen /\ (g # loc[t].node \/ At(t, "swing"))
      /\ g = loc[t].chk => WillSee(t, <<u, Use(u)>>)
  BY Zenon DEF FifoInv, Protected
<1>3. g = loc[t].chk => ~ (At(t, "recheck") /\ loc[t].unseen = {})
  BY <1>2 DEF WillSee, At, Scanning
<1> HIDE DEF g
<1>4. g = Guarded(u)  BY DEF g
<1>5. next'[g] # next[g]  BY <1>4
<1>6. /\ next[g] = Null /\ next'[g] = loc[t].node /\ loc[t].node # Null
      /\ g \in InQueue /\ g = tail /\ tail' = tail
      /\ (Link(t) /\ g = loc[t].cur) \/ (TailLink(t) /\ g = loc[t].tl)
  BY <1>1, <1>2, <1>3, <1>5, NextStep, Zenon
<1>7. QED  BY <1>4, <1>6, Zenon

\* A hazard pointer protects its node as long as it is there.
LEMMA OthersGuard ==
  ASSUME FifoInv, NEW t \in Threads, Act(t), NEW u \in Threads, Guarding(u),
         NEW g, g = Guarded(u), NEW s, s = <<u, Use(u)>>
  PROVE  /\ g \in InQueue' \/ next'[g] # Null
         /\ \A v \in Threads \ {t} : /\ g # loc'[v].sen
                                     /\ g # loc'[v].node \/ At(v, "swing")'
                                     /\ g = loc'[v].chk => v # u /\ WillSee(v, s)'
         /\ u # t => /\ g \notin free' /\ g # loc'[t].sen
                     /\ g # loc'[t].node \/ At(t, "swing")'
                     /\ g = loc'[t].chk => WillSee(t, s)'
<1>1. g \in Nodes /\ Use(u) \in Uses  BY GuardedIsNode
<1>2. /\ slot[s] = g /\ g \notin free
      /\ g \in InQueue \/ next[g] # Null
      /\ \A v \in Threads : /\ g # loc[v].sen
                            /\ g # loc[v].node \/ At(v, "swing")
                            /\ g = loc[v].chk => v # u /\ WillSee(v, s)
  BY Zenon DEF FifoInv, Protected
<1>3. g \in InQueue' \/ next'[g] # Null
  <2>1. CASE next'[g] # next[g]  BY <2>1, GuardedLink
  <2>2. CASE next'[g] = next[g] /\ next[g] = Null
    <3>1. g \in InQueue  BY <1>2, <2>2
    <3>2. g = que[Len(que)]  BY <2>2, <3>1, Positions
    <3>3. CASE PopCas(t) \/ PushHeadCas(t)
      <4>1. tail # head  BY <3>3, CasStep
      <4>2. InQueue \ {head} \subseteq InQueue'  BY <3>3, PopStep, PushHeadStep
      <4>3. g # head
        <5>1. Len(que) > 1 /\ Injective(que) /\ head = que[1] /\ que \in Seq(Nodes)
          BY <3>3, CasStep, Positions
        <5>2. 1 \in 1..Len(que) /\ Len(que) \in 1..Len(que) /\ Len(que) # 1  BY <5>1
        <5>3. QED  BY <3>2, <5>1, <5>2, Zenon DEF Injective
      <4>4. QED  BY <3>1, <4>2, <4>3
    <3>4. CASE Link(t) \/ TailLink(t)
      <4>1. InQueue \subseteq InQueue'  BY <3>4, HeldStep
      <4>2. QED  BY <3>1, <4>1
    <3>5. CASE ~ (Link(t) \/ TailLink(t) \/ PopCas(t) \/ PushHeadCas(t))
      <4>1. que' = que  BY <3>5, Changes, Zenon
      <4>2. QED  BY <3>1, <4>1 DEF InQueue
    <3>6. QED  BY <3>3, <3>4, <3>5
  <2>3. CASE next'[g] = next[g] /\ next[g] # Null  BY <2>3
  <2>4. QED  BY <2>1, <2>2, <2>3
<1>4. ASSUME NEW v \in Threads \ {t}
      PROVE  /\ g # loc'[v].sen
             /\ g # loc'[v].node \/ At(v, "swing")'
             /\ g = loc'[v].chk => v # u /\ WillSee(v, s)'
  <2>1. loc'[v] = loc[v]  BY LocFrame DEF FifoInv
  <2>2. QED  BY <1>2, <2>1 DEF At, WillSee, Scanning
<1>5. ASSUME u # t
      PROVE  /\ g \notin free' /\ g # loc'[t].sen
             /\ g # loc'[t].node \/ At(t, "swing")'
             /\ g = loc'[t].chk => WillSee(t, s)'
  <2>1. s \in SlotsOfOthers(t) /\ slot[s] = g  BY <1>1, <1>2, <1>5 DEF SlotsOfOthers
  <2>2. /\ g \notin free /\ g # loc[t].sen /\ (g # loc[t].node \/ At(t, "swing"))
        /\ g = loc[t].chk => WillSee(t, s)
    BY <1>2
  <2>3. /\ g \notin free' /\ g # loc'[t].sen /\ (g # loc'[t].node \/ At(t, "swing")')
        /\ g = loc'[t].chk => WillSee(t, s)'
    BY <1>1, <2>1, <2>2, SeenStep, Zenon
  <2>4. QED  BY <2>3
<1>6. QED  BY <1>3, <1>4, <1>5, Zenon

\* A thread's own hazard pointer, from one access that it guards to the next.
LEMMA OwnGuard ==
  ASSUME FifoInv, NEW t \in Threads, Act(t), Guarding(t), Guarding(t)', ~ PopCas(t)
  PROVE  /\ Guarded(t)' = Guarded(t) /\ Use(t)' = Use(t)
         /\ slot'[<<t, Use(t)>>] = slot[<<t, Use(t)>>]
         /\ loc'[t].sen = loc[t].sen /\ loc'[t].chk = loc[t].chk /\ loc'[t].kind = loc[t].kind
         /\ loc'[t].node = loc[t].node /\ (At(t, "swing") => At(t, "swing")')
         /\ free' = free
<1>1. TypeOK  BY DEF FifoInv
<1> USE <1>1 DEF TypeOK, At, Guarding, Guarded, Use, CurPoints, TlPoints, PushPoints, HeadPoints
<1>2. CASE ReadNext(t)  BY <1>2 DEF ReadNext
<1>3. CASE Link(t)  BY <1>3 DEF Link, Goto
<1>4. CASE LookAtTail(t)  BY <1>4 DEF LookAtTail, Goto
<1>5. CASE HelpTail(t)  BY <1>5 DEF HelpTail, Goto
<1>6. CASE StoreNextSlot(t)
  <2>1. <<t, "cur">> \in Slots /\ <<t, "nxt">> \in Slots /\ <<t, "cur">> # <<t, "nxt">>
    BY DEF Slots, Uses
  <2>2. slot'[<<t, "cur">>] = slot[<<t, "cur">>]  BY <1>6, <2>1 DEF StoreNextSlot, SetSlot
  <2>3. QED  BY <1>6, <2>2 DEF StoreNextSlot, Goto
<1>7. CASE NextVerified(t)  BY <1>7 DEF NextVerified, Goto
<1>8. CASE ReadTailNext(t)  BY <1>8 DEF ReadTailNext
<1>9. \/ ReadNext(t) \/ Link(t) \/ LookAtTail(t) \/ HelpTail(t) \/ StoreNextSlot(t)
      \/ NextVerified(t) \/ ReadTailNext(t)
  <2>0. loc[t].pc \notin {"pool", "alloc", "retire", "recheck", "load", "slot", "verify", "drop", "idle",
                         "tlLoad", "tlSlot", "tlVerify"}
    OBVIOUS
  <2>1. ~ (TakeFree(t) \/ Recheck(t) \/ ScanSlot(t) \/ FoundInHazard(t) \/ Reclaim(t) \/ Reuse(t)
           \/ Load(t) \/ StoreSlot(t) \/ Verified(t) \/ Reload(t) \/ Drop(t) \/ LoadTail(t)
           \/ StoreTailSlot(t) \/ TailVerified(t) \/ TailHasMoved(t))
    BY <2>0, Zenon DEF TakeFree, Recheck, ScanSlot, FoundInHazard, Scanning, Reclaim, Reuse, Load,
      StoreSlot, Verified, Reload, Drop, LoadTail, StoreTailSlot, TailVerified, TailHasMoved, At
  <2>2. ~ \E kind \in Kinds : Call(t, kind)  BY <2>0, Zenon DEF Call, At
  <2>3. ~ (MoveTail(t) \/ LinkFails(t) \/ Swing(t) \/ CasFails(t))
    BY DEF MoveTail, LinkFails, Goto, Swing, CasFails
  <2>4. ~ (PickUpValue(t) \/ PushHeadCas(t) \/ TailLink(t))
    BY DEF PickUpValue, PushHeadCas, TailLink
  <2>5. ~ (MoveTailOnce(t) \/ TailLinkFails(t))
    BY DEF MoveTailOnce, TailLinkFails, StartAgain
  <2>6. QED  BY <2>1, <2>2, <2>3, <2>4, <2>5, Zenon DEF Act, Step
<1>10. QED  BY <1>2, <1>3, <1>4, <1>5, <1>6, <1>7, <1>8, <1>9, Zenon

\* A thread's new hazard pointer is on a node of the queue, as verified.
LEMMA NewGuard ==
  ASSUME FifoInv, NEW t \in Threads, Act(t), ~ Guarding(t) \/ PopCas(t), Guarding(t)'
  PROVE  /\ slot'[<<t, Use(t)'>>] = Guarded(t)' /\ Guarded(t)' \in InQueue'
         /\ Verified(t) \/ TailVerified(t) \/ PopCas(t)
<1>1. TypeOK /\ LocalsOK /\ head \in InQueue /\ que \in Seq(Nodes)  BY Positions DEF FifoInv
<1>2. tail \in InQueue  BY DEF FifoInv, TailOK, InQueue
<1> USE DEF TypeOK, At, Guarding, Guarded, Use, CurPoints, TlPoints, PushPoints, HeadPoints
<1>3. CASE Verified(t)
  <2>1. slot[<<t, "cur">>] = loc[t].cur
    <3>1. loc[t].pc \in {"verify"} \cup TailPoints => slot[<<t, "cur">>] = loc[t].cur
      BY <1>1, Zenon DEF LocalsOK, SlotsOK
    <3>2. QED  BY <1>3, <3>1 DEF Verified
  <2>2. loc[t].cur \in InQueue /\ que' = que /\ slot' = slot /\ loc'[t].pc = "next" /\ loc'[t].cur = loc[t].cur
    BY <1>1, <1>2, <1>3 DEF Verified, End, Goto
  <2>3. QED  BY <1>3, <2>1, <2>2 DEF InQueue
<1>4. CASE TailVerified(t)
  <2>1. slot[<<t, "tl">>] = loc[t].tl  BY <1>1, <1>4, Zenon DEF TailVerified, LocalsOK, SlotsOK, At
  <2>2. loc[t].tl \in InQueue /\ que' = que /\ slot' = slot /\ loc'[t].pc = "tlNext" /\ loc'[t].tl = loc[t].tl
    BY <1>1, <1>2, <1>4 DEF TailVerified, Goto
  <2>3. QED  BY <1>4, <2>1, <2>2 DEF InQueue
<1>5. CASE PopCas(t)
  <2>1. slot[<<t, "nxt">>] = loc[t].nxt  BY <1>1, <1>5, Zenon DEF PopCas, LocalsOK, SlotsOK, At
  <2>2. slot' = slot /\ loc'[t].pc = "value" /\ loc'[t].nxt = loc[t].nxt  BY <1>1, <1>5 DEF PopCas
  <2>3. loc[t].nxt \in InQueue'
    <3>1. loc[t].nxt = que[2] /\ Len(que) > 1 /\ head = que[1] /\ Injective(que)
      BY <1>5, CasStep, Positions
    <3>2. 1 \in 1..Len(que) /\ 2 \in 1..Len(que)  BY <1>1, <3>1
    <3>3. que[2] # que[1] /\ que[2] \in InQueue  BY <3>1, <3>2 DEF Injective, InQueue
    <3>4. InQueue' = InQueue \ {head}  BY <1>5, PopStep
    <3>5. QED  BY <3>1, <3>3, <3>4
  <2>4. QED  BY <1>5, <2>1, <2>2, <2>3
<1>6. Verified(t) \/ TailVerified(t) \/ PopCas(t)
  <2>1. ~ (ReadNext(t) \/ Link(t) \/ LookAtTail(t) \/ HelpTail(t) \/ StoreNextSlot(t)
           \/ NextVerified(t) \/ ReadTailNext(t) \/ MoveTail(t) \/ LinkFails(t) \/ Swing(t)
           \/ CasFails(t) \/ PickUpValue(t) \/ MoveTailOnce(t) \/ TailLink(t) \/ TailLinkFails(t))
           \/ PopCas(t)
    BY DEF ReadNext, Link, LookAtTail, HelpTail, StoreNextSlot, NextVerified, ReadTailNext, MoveTail,
      LinkFails, Swing, CasFails, PickUpValue, MoveTailOnce, TailLink, TailLinkFails
  <2>2. ASSUME NEW kind \in Kinds, Call(t, kind)  PROVE FALSE  BY <1>1, <2>2 DEF Call
  <2>3. ~ TakeFree(t)
    <3>1. ASSUME NEW n, Obtain(t, n)  PROVE loc'[t].pc \in {"pool", "load"}
      BY <1>1, <3>1 DEF Obtain
    <3>2. QED  BY <3>1 DEF TakeFree
  <2>4. ~ Reuse(t)  BY <1>1 DEF Reuse, Obtain
  <2>5. ASSUME Recheck(t)  PROVE FALSE
    <3>1. loc'[t].pc = "recheck"  BY <1>1, <2>5 DEF Recheck
    <3>2. QED  BY <3>1
  <2>6. ~ (ScanSlot(t) \/ Reclaim(t))  BY <1>1 DEF ScanSlot, Scanning, Reclaim, Idle
  <2>7. ASSUME FoundInHazard(t)  PROVE FALSE
    <3>1. loc'[t].pc \in {"idle", "alloc"}  BY <1>1, <2>7 DEF FoundInHazard, Idle
    <3>2. QED  BY <3>1
  <2>8. ~ (Load(t) \/ StoreSlot(t) \/ Reload(t))  BY <1>1 DEF Load, StoreSlot, Reload, Goto
  <2>9. ASSUME Drop(t)  PROVE FALSE
    <3>1. loc'[t].pc \in {"idle", "retire"}  BY <1>1, <2>9 DEF Drop, Idle
    <3>2. QED  BY <3>1
  <2>10. ~ (LoadTail(t) \/ StoreTailSlot(t) \/ TailHasMoved(t))
    BY <1>1 DEF LoadTail, StoreTailSlot, TailHasMoved, StartAgain, Goto
  <2>11. ~ PushHeadCas(t)  BY <1>1 DEF PushHeadCas
  <2>12. QED
    BY <2>1, <2>2, <2>3, <2>4, <2>5, <2>6, <2>7, <2>8, <2>9, <2>10, <2>11, Zenon DEF Act, Step
<1>7. QED  BY <1>3, <1>4, <1>5, <1>6

\* A step keeps every verified hazard pointer on a node it protects.
LEMMA ProtectedStep ==
  ASSUME FifoInv, NEW t \in Threads, Act(t)
  PROVE  Protected'
<1> SUFFICES ASSUME NEW u \in Threads, Guarding(u)'
             PROVE  /\ slot'[<<u, Use(u)'>>] = Guarded(u)'
                    /\ Guarded(u)' \notin free'
                    /\ Guarded(u)' \in InQueue' \/ next'[Guarded(u)'] # Null
                    /\ \A v \in Threads :
                         /\ Guarded(u)' # loc'[v].sen
                         /\ Guarded(u)' # loc'[v].node \/ At(v, "swing")'
                         /\ Guarded(u)' = loc'[v].chk => v # u /\ WillSee(v, <<u, Use(u)>>)'
  BY Zenon DEF Protected
<1>1. CASE u = t /\ (~ Guarding(t) \/ PopCas(t))
  <2>1. slot'[<<u, Use(u)'>>] = Guarded(u)' /\ Guarded(u)' \in InQueue'  BY <1>1, NewGuard
  <2>2. Guarded(u)' \notin free'  BY <2>1, PlaceStep DEF Apart
  <2>3. ASSUME NEW v \in Threads
        PROVE  /\ Guarded(u)' # loc'[v].sen
               /\ Guarded(u)' # loc'[v].node \/ At(v, "swing")'
               /\ Guarded(u)' # loc'[v].chk
    <3>1. Held(v)' \cap InQueue' = {}  BY PlaceStep DEF Apart
    <3>2. Guarded(u)' # Null
      <4>1. que' \in Seq(Nodes)  BY TypeStep DEF TypeOK
      <4>2. InQueue' \subseteq Nodes  BY <4>1 DEF InQueue
      <4>3. QED  BY <2>1, <4>2, FifoAssumption
    <3>3. Guarded(u)' \notin Held(v)'  BY <2>1, <3>1
    <3>4. QED  BY <3>2, <3>3 DEF Held
  <2>4. QED  BY <2>1, <2>2, <2>3
<1>2. CASE u = t /\ Guarding(t) /\ ~ PopCas(t)
  <2>1. /\ Guarded(t)' = Guarded(t) /\ Use(t)' = Use(t)
        /\ slot'[<<t, Use(t)>>] = slot[<<t, Use(t)>>]
        /\ loc'[t].sen = loc[t].sen /\ loc'[t].chk = loc[t].chk
        /\ loc'[t].node = loc[t].node /\ (At(t, "swing") => At(t, "swing")')
        /\ free' = free
    BY <1>2, OwnGuard
  <2>2. PICK g, s : g = Guarded(t) /\ s = <<t, Use(t)>>  BY Zenon
  <2>3. /\ slot[s] = g /\ g \notin free
        /\ g # loc[t].sen /\ (g # loc[t].node \/ At(t, "swing")) /\ g # loc[t].chk
    BY <1>2, <2>2, Zenon DEF FifoInv, Protected
  <2>4. /\ g \in InQueue' \/ next'[g] # Null
        /\ \A v \in Threads \ {t} : /\ g # loc'[v].sen
                                    /\ g # loc'[v].node \/ At(v, "swing")'
                                    /\ g = loc'[v].chk => v # t /\ WillSee(v, s)'
    BY <1>2, <2>2, OthersGuard, Zenon
  <2>5. s = <<t, Use(t)'>> /\ g = Guarded(t)'  BY <2>1, <2>2
  <2>6. QED  BY <1>2, <2>1, <2>2, <2>3, <2>4, <2>5
<1>3. CASE u # t
  <2>1. loc'[u] = loc[u]  BY <1>3, LocFrame DEF FifoInv
  <2>2. Guarding(u) /\ Guarded(u)' = Guarded(u) /\ Use(u)' = Use(u)
    BY <2>1 DEF Guarding, Guarded, Use, At
  <2>3. PICK g, s : g = Guarded(u) /\ s = <<u, Use(u)>>  BY Zenon
  <2>4. slot[s] = g  BY <2>2, <2>3, Zenon DEF FifoInv, Protected
  <2>5. slot'[s] = slot[s]  BY <1>3, <2>2, <2>3, SlotFrame, GuardedIsNode
  <2>6. /\ g \in InQueue' \/ next'[g] # Null
        /\ \A v \in Threads \ {t} : /\ g # loc'[v].sen
                                    /\ g # loc'[v].node \/ At(v, "swing")'
                                    /\ g = loc'[v].chk => v # u /\ WillSee(v, s)'
        /\ g \notin free' /\ g # loc'[t].sen
        /\ g # loc'[t].node \/ At(t, "swing")'
        /\ g = loc'[t].chk => WillSee(t, s)'
    BY <1>3, <2>2, <2>3, OthersGuard, Zenon
  <2>7. s = <<u, Use(u)'>> /\ g = Guarded(u)'  BY <2>2, <2>3
  <2>8. QED  BY <1>3, <2>4, <2>5, <2>6, <2>7
<1>4. QED  BY <1>1, <1>2, <1>3

\* What has been verified at the head is not linked anywhere else later.
LEMMA HeadKept ==
  ASSUME FifoInv, NEW t \in Threads, Act(t), NEW u \in Threads, Guarding(u), NEW g, g = Guarded(u),
         g = head \/ g \notin InQueue
  PROVE  g = head' \/ g \notin InQueue'
<1>1. \A v \in Threads : g # loc[v].sen /\ (g # loc[v].node \/ At(v, "swing"))
  BY Zenon DEF FifoInv, Protected
<1>2. CASE PopCas(t)  BY <1>2, PopStep
<1>3. CASE PushHeadCas(t)
  <2>1. ~ At(t, "swing")  BY <1>3 DEF PushHeadCas, At
  <2>2. g # loc[t].sen /\ g # loc[t].node  BY <1>1, <2>1
  <2>3. InQueue' = (InQueue \ {head}) \cup {loc[t].sen, loc[t].node}  BY <1>3, PushHeadStep
  <2>4. QED  BY <2>2, <2>3
<1>4. CASE Link(t) \/ TailLink(t)
  <2>1. ~ At(t, "swing")  BY <1>4 DEF Link, TailLink, At
  <2>2. InQueue' = InQueue \cup {loc[t].node}  BY <1>4, HeldStep, Zenon
  <2>3. head' = head  BY <1>4, Zenon DEF Link, TailLink
  <2>4. QED  BY <1>1, <2>1, <2>2, <2>3
<1>5. CASE ~ (Link(t) \/ TailLink(t) \/ PopCas(t) \/ PushHeadCas(t))
  <2>1. que' = que /\ head' = head  BY <1>5, Changes, Zenon
  <2>2. QED  BY <2>1 DEF InQueue
<1>6. QED  BY <1>2, <1>3, <1>4, <1>5

\* What has been verified at the tail is the tail until it has a successor.
LEMMA TailKept ==
  ASSUME FifoInv, NEW t \in Threads, Act(t), NEW u \in Threads, Guarding(u), NEW g, g = Guarded(u),
         next[g] = Null => tail = g, next'[g] = Null
  PROVE  tail' = g
<1>1. next[g] = Null  BY GuardedLink
<1>2. tail = g  BY <1>1
<1>3. QED  BY <1>1, <1>2, TailStep

\* What has been verified at the head or at the tail.
LEMMA EndsStep ==
  ASSUME FifoInv, NEW t \in Threads, Act(t)
  PROVE  HeadOrGone' /\ TailSeen'
<1> SUFFICES ASSUME NEW u \in Threads, Guarding(u)'
             PROVE  /\ loc'[u].pc \in CurPoints /\ ~ InCall(u, "push")' =>
                         loc'[u].cur = head' \/ loc'[u].cur \notin InQueue'
                    /\ loc'[u].pc \in CurPoints /\ InCall(u, "push")' /\ next'[loc'[u].cur] = Null =>
                         tail' = loc'[u].cur
                    /\ loc'[u].pc \in TlPoints /\ next'[loc'[u].tl] = Null => tail' = loc'[u].tl
  BY Zenon DEF HeadOrGone, TailSeen, Guarding
<1>1. TypeOK  BY DEF FifoInv
<1>2. CASE u = t /\ (~ Guarding(t) \/ PopCas(t))
  <2>1. CASE Verified(t)
    <3>1. /\ loc'[t].pc = "next" /\ loc'[t].cur = loc[t].cur /\ loc'[t].kind = loc[t].kind
          /\ head' = head /\ tail' = tail
      BY <1>1, <2>1 DEF Verified, Goto, TypeOK, memVars
    <3>2. End(t) = loc[t].cur  BY <2>1, Zenon DEF Verified
    <3>3. QED  BY <1>2, <3>1, <3>2 DEF End, InCall, TlPoints
  <2>2. CASE TailVerified(t)
    <3>1. loc'[t].pc = "tlNext" /\ loc'[t].tl = loc[t].tl /\ tail' = tail /\ tail = loc[t].tl
      BY <1>1, <2>2 DEF TailVerified, Goto, TypeOK, memVars
    <3>2. QED  BY <1>2, <3>1 DEF CurPoints, PushPoints, HeadPoints
  <2>3. CASE PopCas(t)
    <3>1. loc'[t].pc = "value"  BY <1>1, <2>3 DEF PopCas, TypeOK
    <3>2. QED  BY <1>2, <3>1 DEF CurPoints, PushPoints, HeadPoints, TlPoints
  <2>4. Guarding(t)'  BY <1>2
  <2>5. QED  BY <1>2, <2>1, <2>2, <2>3, <2>4, NewGuard, Zenon
<1>3. CASE ~ (u = t /\ (~ Guarding(t) \/ PopCas(t)))
  <2>1. Guarding(u) /\ Guarded(u)' = Guarded(u) /\ Use(u)' = Use(u) /\ loc'[u].kind = loc[u].kind
    <3>1. CASE u = t
      <4>1. Guarding(t) /\ ~ PopCas(t) /\ Guarding(t)'  BY <1>3, <3>1
      <4>2. Guarded(t)' = Guarded(t) /\ Use(t)' = Use(t) /\ loc'[t].kind = loc[t].kind
        BY <4>1, OwnGuard, Zenon
      <4>3. QED  BY <3>1, <4>1, <4>2, Zenon
    <3>2. CASE u # t
      <4>1. loc'[u] = loc[u]  BY <3>2, LocFrame DEF FifoInv
      <4>2. QED  BY <4>1 DEF Guarding, Guarded, Use, At
    <3>3. QED  BY <3>1, <3>2
  <2>2. PICK g : g = Guarded(u)  BY Zenon
  <2>3. (g = head \/ g \notin InQueue) => (g = head' \/ g \notin InQueue')
    BY <2>1, <2>2, HeadKept, Zenon
  <2>4. (next[g] = Null => tail = g) => (next'[g] = Null => tail' = g)
    BY <2>1, <2>2, TailKept, Zenon
  <2>5. CASE loc'[u].pc \in CurPoints
    <3>1. Use(u)' = "cur" /\ Guarded(u)' = loc'[u].cur  BY <2>5 DEF Use, Guarded
    <3>2. loc[u].pc \in CurPoints /\ g = loc[u].cur /\ g = loc'[u].cur
      BY <2>1, <2>2, <3>1 DEF Use, Guarded
    <3>3. loc'[u].pc \notin TlPoints  BY <2>5 DEF CurPoints, PushPoints, HeadPoints, TlPoints
    <3>4. HeadOrGone /\ TailSeen  BY DEF FifoInv
    <3>5. /\ ~ InCall(u, "push") => g = head \/ g \notin InQueue
          /\ InCall(u, "push") => (next[g] = Null => tail = g)
      BY <3>2, <3>4, Zenon DEF HeadOrGone, TailSeen
    <3>6. InCall(u, "push")' <=> InCall(u, "push")  BY <2>1 DEF InCall
    <3>7. QED  BY <2>3, <2>4, <3>2, <3>3, <3>5, <3>6
  <2>6. CASE loc'[u].pc \in TlPoints
    <3>1. loc'[u].pc \notin CurPoints /\ Use(u)' = "tl" /\ Guarded(u)' = loc'[u].tl
      BY <2>6 DEF Use, Guarded, CurPoints, PushPoints, HeadPoints, TlPoints, At
    <3>2. loc[u].pc \in TlPoints /\ g = loc[u].tl /\ g = loc'[u].tl
      BY <2>1, <2>2, <3>1 DEF Use, Guarded, Guarding, At
    <3>3. next[g] = Null => tail = g  BY <3>2, Zenon DEF FifoInv, TailSeen
    <3>4. QED  BY <2>4, <3>1, <3>2, <3>3
  <2>7. CASE loc'[u].pc \notin CurPoints \cup TlPoints  BY <2>7
  <2>8. QED  BY <2>5, <2>6, <2>7
<1>4. QED  BY <1>2, <1>3

-----------------------------------------------------------------------------
(* The locals.                                                             *)

\* What the thread knows when it has read the link.
LEMMA ReadNextStep ==
  ASSUME TypeOK, NEW t \in Threads, ReadNext(t)
  PROVE  /\ loc[t].pc = "next" /\ next' = next /\ tail' = tail
         /\ loc'[t].nxt = next[loc[t].cur]
         /\ loc'[t].kind = loc[t].kind /\ loc'[t].node = loc[t].node /\ loc'[t].sen = loc[t].sen
         /\ loc'[t].cur = loc[t].cur /\ loc'[t].tl = loc[t].tl /\ loc'[t].chk = loc[t].chk
         /\ loc[t].kind \in {"push", "pop", "pushHead"}
         /\ loc[t].kind = "push" =>
              loc'[t].pc = IF next[loc[t].cur] = Null THEN "link" ELSE "move"
         /\ loc[t].kind = "pop" =>
              loc'[t].pc = IF next[loc[t].cur] = Null THEN "drop" ELSE "look"
         /\ loc[t].kind = "pushHead" =>
              loc'[t].pc = IF next[loc[t].cur] = Null THEN "tlLoad" ELSE "look"
         /\ loc'[t].pc \in {"link", "move", "drop", "look", "tlLoad"}
  BY DEF TypeOK, ReadNext, At, memVars, Kinds

\* The nodes and pointers a thread has, after a step of its own.
LEMMA OwnShape ==
  ASSUME FifoInv, NEW t \in Threads, Act(t)
  PROVE  KindOK(loc[t])' /\ NodesOK(loc[t])' /\ PointersOK(loc[t])'
<1>1. KindOK(loc[t]) /\ NodesOK(loc[t]) /\ PointersOK(loc[t])  BY Zenon DEF FifoInv, LocalsOK
<1>2. TypeOK  BY DEF FifoInv
<1>3. head # Null /\ tail # Null /\ \A n \in free \cup limbo[t] : n # Null
  BY <1>2, FifoAssumption DEF TypeOK
<1>4. \A n \in free : n # loc[t].sen /\ (At(t, "swing") \/ n # loc[t].node)
  BY <1>2, OwnNodes, FifoAssumption DEF TypeOK
<1> USE <1>1, <1>2 DEF TypeOK, At, KindOK, NodesOK, PointersOK, TailPoints, PushPoints, HeadPoints,
      PoolPoints, TryPoints
<1>5. CASE StoreSlot(t)  BY <1>5 DEF StoreSlot, Goto
<1>6. CASE Load(t)  BY <1>3, <1>6 DEF Load, End
<1>7. CASE Verified(t)  BY <1>7 DEF Verified, Goto
<1>8. CASE Reload(t)  BY <1>3, <1>8 DEF Reload, End
<1>9. CASE ReadNext(t)
  <2>1. CASE next[loc[t].cur] = Null  BY <1>9, <2>1, ReadNextStep
  <2>2. CASE next[loc[t].cur] # Null  BY <1>9, <2>2, ReadNextStep
  <2>3. QED  BY <2>1, <2>2
<1>10. CASE MoveTail(t)  BY <1>3, <1>10 DEF MoveTail
<1>11. CASE LinkFails(t)  BY <1>11 DEF LinkFails, Goto
<1>12. CASE Swing(t)  BY <1>12 DEF Swing
<1>13. CASE LookAtTail(t)  BY <1>13 DEF LookAtTail, Goto
<1>14. CASE HelpTail(t)  BY <1>14 DEF HelpTail, Goto
<1>15. CASE StoreNextSlot(t)  BY <1>15 DEF StoreNextSlot, Goto
<1>16. CASE NextVerified(t)  BY <1>16 DEF NextVerified, Goto
<1>17. CASE CasFails(t)  BY <1>3, <1>17 DEF CasFails
<1>18. CASE PickUpValue(t)  BY <1>18 DEF PickUpValue
<1>19. CASE LoadTail(t)  BY <1>3, <1>19 DEF LoadTail
<1>20. CASE StoreTailSlot(t)  BY <1>20 DEF StoreTailSlot, Goto
<1>21. CASE TailVerified(t)  BY <1>21 DEF TailVerified, Goto
<1>22. CASE TailHasMoved(t)  BY <1>22 DEF TailHasMoved, StartAgain
<1>23. CASE ReadTailNext(t)  BY <1>23 DEF ReadTailNext
<1>24. CASE MoveTailOnce(t)  BY <1>24 DEF MoveTailOnce, StartAgain
<1>25. CASE TailLinkFails(t)  BY <1>25 DEF TailLinkFails, StartAgain
<1>26. CASE Link(t)  BY <1>26 DEF Link, Goto
<1>27. CASE PopCas(t)  BY <1>27 DEF PopCas, InCall
<1>28. CASE PushHeadCas(t)  BY <1>28 DEF PushHeadCas, InCall
<1>29. CASE TailLink(t)  BY <1>29 DEF TailLink
<1>30. CASE ScanSlot(t)  BY <1>30 DEF ScanSlot, Scanning
<1>31. CASE FoundInHazard(t)  BY <1>31 DEF FoundInHazard, Scanning, Idle
<1>32. CASE Reclaim(t)  BY <1>32 DEF Reclaim, Idle
<1>33. CASE Recheck(t)  BY <1>3, <1>33 DEF Recheck
<1>34. CASE Drop(t)  BY <1>34 DEF Drop, Idle
<1>35. CASE TakeFree(t)
  <2>1. PICK n \in free : Obtain(t, n) /\ free' = free \ {n}  BY <1>35, Zenon DEF TakeFree
  <2>2. QED  BY <1>3, <1>4, <1>35, <2>1 DEF Obtain, TakeFree, InCall
<1>36. CASE Reuse(t)  BY <1>36 DEF Reuse, Obtain, InCall
<1>37. ASSUME NEW kind \in Kinds, Call(t, kind)
      PROVE  KindOK(loc[t])' /\ NodesOK(loc[t])' /\ PointersOK(loc[t])'
  BY <1>37 DEF Call, Idle, Kinds
<1>38. QED
  BY <1>5, <1>6, <1>7, <1>8, <1>9, <1>10, <1>11, <1>12, <1>13, <1>14, <1>15, <1>16, <1>17, <1>18, <1>19, <1>20, <1>21, <1>22, <1>23, <1>24, <1>25, <1>26, <1>27, <1>28, <1>29, <1>30, <1>31, <1>32, <1>33, <1>34, <1>35, <1>36, <1>37, Zenon DEF Act, Step

\* What a thread knows of the links, after a step of its own.
LEMMA OwnLinks ==
  ASSUME FifoInv, NEW t \in Threads, Act(t)
  PROVE  LinksOK(loc[t])'
<1>1. KindOK(loc[t]) /\ NodesOK(loc[t]) /\ PointersOK(loc[t]) /\ LinksOK(loc[t])
  BY Zenon DEF FifoInv, LocalsOK
<1>2. TypeOK  BY DEF FifoInv
<1> USE <1>1, <1>2 DEF TypeOK, At, KindOK, NodesOK, LinksOK, TailPoints, PushPoints, HeadPoints,
      PoolPoints, TryPoints
<1>3. CASE StoreSlot(t)  BY <1>3 DEF StoreSlot, Goto, memVars
<1>4. CASE Verified(t)  BY <1>4 DEF Verified, Goto, memVars
<1>5. CASE Reload(t)  BY <1>5 DEF Reload, memVars
<1>6. CASE MoveTail(t)  BY <1>6 DEF MoveTail
<1>7. CASE LinkFails(t)  BY <1>7 DEF LinkFails, Goto, memVars
<1>8. CASE Swing(t)  BY <1>8 DEF Swing
<1>9. CASE LookAtTail(t)  BY <1>9 DEF LookAtTail, Goto, memVars
<1>10. CASE StoreNextSlot(t)  BY <1>10 DEF StoreNextSlot, Goto, memVars
<1>11. CASE NextVerified(t)  BY <1>11 DEF NextVerified, Goto, memVars
<1>12. CASE CasFails(t)  BY <1>12 DEF CasFails, memVars
<1>13. CASE PickUpValue(t)  BY <1>13 DEF PickUpValue, memVars
<1>14. CASE LoadTail(t)  BY <1>14 DEF LoadTail, memVars
<1>15. CASE StoreTailSlot(t)  BY <1>15 DEF StoreTailSlot, Goto, memVars
<1>16. CASE TailVerified(t)  BY <1>16 DEF TailVerified, Goto, memVars
<1>17. CASE TailHasMoved(t)  BY <1>17 DEF TailHasMoved, StartAgain, memVars
<1>18. CASE ReadTailNext(t)  BY <1>18 DEF ReadTailNext, memVars
<1>19. CASE MoveTailOnce(t)  BY <1>19 DEF MoveTailOnce, StartAgain
<1>20. CASE TailLinkFails(t)  BY <1>20 DEF TailLinkFails, StartAgain, memVars
<1>21. CASE PopCas(t)  BY <1>21 DEF PopCas, InCall
<1>22. CASE PushHeadCas(t)  BY <1>22 DEF PushHeadCas, InCall
<1>23. CASE TailLink(t)  BY <1>23 DEF TailLink
<1>24. CASE ScanSlot(t)  BY <1>24 DEF ScanSlot, Scanning
<1>25. CASE FoundInHazard(t)  BY <1>25 DEF FoundInHazard, Scanning, Idle
<1>26. CASE Reclaim(t)  BY <1>26 DEF Reclaim, Idle
<1>27. CASE Recheck(t)  BY <1>27 DEF Recheck
<1>28. CASE Drop(t)  BY <1>28 DEF Drop, Idle
<1>29. CASE ReadNext(t)
  <2>1. CASE next[loc[t].cur] = Null  BY <1>29, <2>1, ReadNextStep
  <2>2. CASE next[loc[t].cur] # Null  BY <1>29, <2>2, ReadNextStep
  <2>3. QED  BY <2>1, <2>2
<1>30. CASE Load(t)
  <2>1. loc[t].kind = "pushHead" => loc[t].sen \in Nodes  BY <1>30, Pointers DEF Load, FifoInv
  <2>2. QED  BY <1>30, <2>1 DEF Load, InCall
<1>31. CASE HelpTail(t)
  <2>1. next[loc[t].cur] = loc[t].nxt /\ loc[t].nxt # Null  BY <1>31 DEF HelpTail, PointersOK
  <2>2. tail = loc[t].cur => loc[t].nxt # loc[t].cur  BY <2>1, TailMoves
  <2>3. tail' # loc[t].cur  BY <1>31, <2>2 DEF HelpTail
  <2>4. QED  BY <1>31, <2>3 DEF HelpTail, Goto
<1>32. CASE Link(t)
  <2>1. next'[loc[t].cur] = loc[t].node  BY <1>32, LinkStep, Zenon
  <2>2. QED  BY <1>32, <2>1 DEF Link, Goto
<1>33. CASE TakeFree(t)
  <2>1. PICK n \in free : Obtain(t, n) /\ free' = free \ {n}  BY <1>33, Zenon DEF TakeFree
  <2>2. n \in Nodes /\ tail' = tail  BY <1>33, <2>1 DEF TakeFree
  <2>3. QED  BY <1>33, <2>1, <2>2 DEF Obtain, TakeFree, InCall
<1>34. CASE Reuse(t)
  <2>1. loc[t].chk \in Nodes  BY <1>34, Pointers DEF Reuse, FifoInv
  <2>2. QED  BY <1>34, <2>1 DEF Reuse, Obtain, InCall
<1>35. ASSUME NEW kind \in Kinds, Call(t, kind)  PROVE LinksOK(loc[t])'
  BY <1>35 DEF Call, Idle, Kinds
<1>36. QED
  BY <1>3, <1>4, <1>5, <1>6, <1>7, <1>8, <1>9, <1>10, <1>11, <1>12, <1>13, <1>14, <1>15, <1>16, <1>17, <1>18, <1>19, <1>20, <1>21, <1>22, <1>23, <1>24, <1>25, <1>26, <1>27, <1>28, <1>29, <1>30, <1>31, <1>32, <1>33, <1>34, <1>35, Zenon DEF Act, Step

\* What a thread knows of the links, after a step of another.
LEMMA OthersLinks ==
  ASSUME FifoInv, NEW t \in Threads, Act(t), NEW u \in Threads, u # t
  PROVE  LinksOK(loc[u])'
<1>1. KindOK(loc[u]) /\ NodesOK(loc[u]) /\ PointersOK(loc[u]) /\ LinksOK(loc[u])
  BY Zenon DEF FifoInv, LocalsOK
<1>2. loc'[u] = loc[u]  BY LocFrame DEF FifoInv
<1> DEFINE l == loc[u]
<1>3. Guarding(u) /\ next[Guarded(u)] # Null => next'[Guarded(u)] = next[Guarded(u)]
  BY GuardedLink
<1>4. ASSUME NEW n \in Held(u)  PROVE next'[n] = next[n]
  <2>1. n \in Nodes /\ n \notin free /\ n \notin InQueue /\ n \notin Held(t)  BY OwnNodes
  <2>2. n # loc[t].sen /\ n # loc[t].chk /\ (n # loc[t].node \/ At(t, "swing"))
    BY <2>1, OwnNodes, FifoAssumption
  <2>3. QED  BY <2>1, <2>2, NextStep
<1>5. l.pc \in {"move"} \cup HeadPoints => next'[l.cur] = l.nxt
  <2>1. ASSUME l.pc \in {"move"} \cup HeadPoints  PROVE next'[l.cur] = l.nxt
    <3>1. Guarding(u) /\ Guarded(u) = l.cur
      BY <2>1 DEF Guarding, Guarded, CurPoints, PushPoints
    <3>2. next[l.cur] = l.nxt /\ l.nxt # Null  BY <1>1, <2>1 DEF LinksOK, PointersOK
    <3>3. QED  BY <1>3, <3>1, <3>2
  <2>2. QED  BY <2>1
<1>6. l.pc = "tlMove" => next'[l.tl] = l.nxt
  <2>1. ASSUME l.pc = "tlMove"  PROVE next'[l.tl] = l.nxt
    <3>1. Guarding(u) /\ Guarded(u) = l.tl
      BY <2>1 DEF Guarding, Guarded, CurPoints, PushPoints, HeadPoints, TlPoints, At
    <3>2. next[l.tl] = l.nxt /\ l.nxt # Null  BY <1>1, <2>1 DEF LinksOK, PointersOK
    <3>3. QED  BY <1>3, <3>1, <3>2
  <2>2. QED  BY <2>1
<1>7. l.pc = "swing" => next'[l.cur] = l.node
  <2>1. ASSUME l.pc = "swing"  PROVE next'[l.cur] = l.node
    <3>1. Guarding(u) /\ Guarded(u) = l.cur
      BY <2>1 DEF Guarding, Guarded, CurPoints, PushPoints
    <3>2. next[l.cur] = l.node /\ l.node # Null
      BY <1>1, <2>1 DEF LinksOK, NodesOK, KindOK, TryPoints, PushPoints
    <3>3. QED  BY <1>3, <3>1, <3>2
  <2>2. QED  BY <2>1
<1>8. l.kind = "push" /\ l.pc \in TryPoints \ {"swing"} => next'[l.node] = Null
  <2>1. ASSUME l.kind = "push", l.pc \in TryPoints \ {"swing"}  PROVE next'[l.node] = Null
    <3>1. l.node # Null /\ ~ At(u, "swing") /\ next[l.node] = Null
      BY <1>1, <2>1 DEF NodesOK, LinksOK, At
    <3>2. QED  BY <1>4, <3>1, OwnNodes
  <2>2. QED  BY <2>1
<1>9. l.kind = "pushHead" /\ l.pc \in TryPoints \ {"load"} => next'[l.sen] = l.node
  <2>1. ASSUME l.kind = "pushHead", l.pc \in TryPoints \ {"load"}  PROVE next'[l.sen] = l.node
    <3>1. l.sen # Null /\ next[l.sen] = l.node  BY <1>1, <2>1 DEF NodesOK, LinksOK
    <3>2. QED  BY <1>4, <3>1, OwnNodes
  <2>2. QED  BY <2>1
<1>10. l.pc \in {"nxtSlot", "nxtVerify", "cas"} => tail' # l.cur
  <2>1. ASSUME l.pc \in {"nxtSlot", "nxtVerify", "cas"}  PROVE tail' # l.cur
    <3>1. next[l.cur] # Null /\ tail # l.cur
      BY <1>1, <2>1 DEF LinksOK, PointersOK, HeadPoints
    <3>2. next[que[Len(que)]] = Null  BY Positions
    <3>3. QED  BY <3>1, <3>2, TailStep, TailMoves
  <2>2. QED  BY <2>1
<1>11. QED  BY <1>2, <1>5, <1>6, <1>7, <1>8, <1>9, <1>10, Zenon DEF LinksOK

\* A thread's slots hold its pointers, after a step of its own.
LEMMA OwnSlots ==
  ASSUME FifoInv, NEW t \in Threads, Act(t)
  PROVE  SlotsOK(t)'
<1>1. SlotsOK(t)  BY Zenon DEF FifoInv, LocalsOK
<1>2. loc[t].pc \in CurPoints => slot[<<t, "cur">>] = loc[t].cur
  BY Zenon DEF FifoInv, Protected, Guarding, Guarded, Use
<1>3. /\ <<t, "cur">> \in Slots /\ <<t, "nxt">> \in Slots /\ <<t, "tl">> \in Slots
      /\ <<t, "cur">> # <<t, "nxt">> /\ <<t, "cur">> # <<t, "tl">> /\ <<t, "nxt">> # <<t, "tl">>
  BY DEF Slots, Uses
<1>4. TypeOK  BY DEF FifoInv
<1> USE <1>1, <1>4 DEF TypeOK, At, SlotsOK, TailPoints, CurPoints, PushPoints, HeadPoints
<1>5. CASE StoreSlot(t)  BY <1>3, <1>5 DEF StoreSlot, Goto, SetSlot
<1>6. CASE Load(t)  BY <1>6 DEF Load
<1>7. CASE Verified(t)  BY <1>7 DEF Verified, Goto
<1>8. CASE Reload(t)  BY <1>8 DEF Reload
<1>9. CASE MoveTail(t)  BY <1>9 DEF MoveTail
<1>10. CASE LinkFails(t)  BY <1>2, <1>10 DEF LinkFails, Goto
<1>11. CASE Swing(t)  BY <1>11 DEF Swing
<1>12. CASE LookAtTail(t)  BY <1>12 DEF LookAtTail, Goto
<1>13. CASE HelpTail(t)  BY <1>13 DEF HelpTail, Goto
<1>14. CASE StoreNextSlot(t)  BY <1>3, <1>14 DEF StoreNextSlot, Goto, SetSlot
<1>15. CASE NextVerified(t)  BY <1>15 DEF NextVerified, Goto
<1>16. CASE CasFails(t)  BY <1>16 DEF CasFails
<1>17. CASE PickUpValue(t)  BY <1>17 DEF PickUpValue
<1>18. CASE LoadTail(t)  BY <1>18 DEF LoadTail
<1>19. CASE StoreTailSlot(t)  BY <1>3, <1>19 DEF StoreTailSlot, Goto, SetSlot
<1>20. CASE TailVerified(t)  BY <1>20 DEF TailVerified, Goto
<1>21. CASE TailHasMoved(t)  BY <1>3, <1>21 DEF TailHasMoved, StartAgain, SetSlot
<1>22. CASE ReadTailNext(t)  BY <1>22 DEF ReadTailNext
<1>23. CASE MoveTailOnce(t)  BY <1>3, <1>23 DEF MoveTailOnce, StartAgain, SetSlot
<1>24. CASE TailLinkFails(t)  BY <1>3, <1>24 DEF TailLinkFails, StartAgain, SetSlot
<1>25. CASE Link(t)  BY <1>25 DEF Link, Goto
<1>26. CASE PopCas(t)  BY <1>26 DEF PopCas, InCall
<1>27. CASE PushHeadCas(t)  BY <1>27 DEF PushHeadCas, InCall
<1>28. CASE TailLink(t)  BY <1>28 DEF TailLink
<1>29. CASE ScanSlot(t)  BY <1>29 DEF ScanSlot, Scanning
<1>30. CASE FoundInHazard(t)  BY <1>30 DEF FoundInHazard, Scanning, Idle
<1>31. CASE Reclaim(t)  BY <1>31 DEF Reclaim, Idle
<1>32. CASE Recheck(t)  BY <1>32 DEF Recheck
<1>33. CASE Drop(t)  BY <1>33 DEF Drop, Idle
<1>34. CASE ReadNext(t)
  <2>1. slot' = slot  BY <1>34, Zenon DEF ReadNext
  <2>2. /\ loc[t].pc = "next" /\ loc'[t].cur = loc[t].cur
        /\ loc'[t].pc \in {"link", "move", "drop", "look", "tlLoad"}
    BY <1>34, ReadNextStep
  <2>3. QED  BY <1>2, <2>1, <2>2
<1>35. CASE TakeFree(t)
  <2>1. PICK n \in free : Obtain(t, n) /\ free' = free \ {n}  BY <1>35, Zenon DEF TakeFree
  <2>2. QED  BY <1>35, <2>1 DEF Obtain, TakeFree
<1>36. CASE Reuse(t)  BY <1>36 DEF Reuse, Obtain
<1>37. ASSUME NEW kind \in Kinds, Call(t, kind)  PROVE SlotsOK(t)'
  BY <1>37 DEF Call
<1>38. QED
  BY <1>5, <1>6, <1>7, <1>8, <1>9, <1>10, <1>11, <1>12, <1>13, <1>14, <1>15, <1>16, <1>17, <1>18, <1>19, <1>20, <1>21, <1>22, <1>23, <1>24, <1>25, <1>26, <1>27, <1>28, <1>29, <1>30, <1>31, <1>32, <1>33, <1>34, <1>35, <1>36, <1>37, Zenon DEF Act, Step

\* A step keeps what the threads know.
LEMMA LocalsStep ==
  ASSUME FifoInv, NEW t \in Threads, Act(t)
  PROVE  LocalsOK'
<1>1. ASSUME NEW u \in Threads
      PROVE  /\ KindOK(loc[u])' /\ NodesOK(loc[u])' /\ PointersOK(loc[u])' /\ LinksOK(loc[u])'
             /\ SlotsOK(u)'
  <2>1. CASE u = t  BY <2>1, OwnShape, OwnLinks, OwnSlots, Zenon
  <2>2. CASE u # t
    <3>1. loc'[u] = loc[u]  BY <2>2, LocFrame DEF FifoInv
    <3>2. \A use \in Uses : slot'[<<u, use>>] = slot[<<u, use>>]  BY <2>2, SlotFrame
    <3>3. KindOK(loc[u]) /\ NodesOK(loc[u]) /\ PointersOK(loc[u]) /\ SlotsOK(u)
      BY Zenon DEF FifoInv, LocalsOK
    <3>4. KindOK(loc[u])'  BY <3>1, <3>3 DEF KindOK
    <3>5. NodesOK(loc[u])' /\ PointersOK(loc[u])'  BY <3>1, <3>3 DEF NodesOK, PointersOK
    <3>6. SlotsOK(u)'  BY <3>1, <3>2, <3>3 DEF SlotsOK, Uses, At
    <3>7. QED  BY <2>2, <3>4, <3>5, <3>6, OthersLinks
  <2>3. QED  BY <2>1, <2>2
<1>2. QED  BY <1>1, Zenon DEF LocalsOK

-----------------------------------------------------------------------------
(* The invariant.                                                          *)

\* A step keeps the inductive invariant.
LEMMA FifoInvStep ==
  ASSUME FifoInv, [Next]_vars
  PROVE  FifoInv'
<1>1. ASSUME NEW t \in Threads, Act(t)  PROVE FifoInv'
  <2>1. TypeOK' /\ LocalsOK'  BY <1>1, TypeStep, LocalsStep, Zenon
  <2>2. HeadOK' /\ Linked' /\ TailOK' /\ Distinct'  BY <1>1, ChainStep, Zenon
  <2>3. Apart' /\ Complete' /\ Protected'  BY <1>1, PlaceStep, ProtectedStep, Zenon
  <2>4. HeadOrGone' /\ TailSeen'  BY <1>1, EndsStep, Zenon
  <2>5. QED  BY <2>1, <2>2, <2>3, <2>4, Zenon DEF FifoInv
<1>2. CASE UNCHANGED vars
  <2>1. UNCHANGED <<head, tail, next, val, slot, free, limbo, loc, calls, que>>
    BY <1>2, Zenon DEF vars, memVars
  <2>2. FifoInv  OBVIOUS
  <2>3. TypeOK' /\ LocalsOK'
    BY <2>1, <2>2 DEF FifoInv, TypeOK, LocalsOK, KindOK, NodesOK, PointersOK, LinksOK, SlotsOK, At
  <2>4. HeadOK' /\ Linked' /\ TailOK' /\ Distinct'
    BY <2>1, <2>2 DEF FifoInv, HeadOK, Linked, TailOK, Distinct
  <2>5. InQueue' = InQueue /\ \A t \in Threads : Held(t)' = Held(t)
    BY <2>1 DEF InQueue, Held, At
  <2>6. Apart' /\ Complete'  BY <2>1, <2>2, <2>5 DEF FifoInv, Apart, Complete
  <2>7. HeadOrGone' /\ TailSeen'
    BY <2>1, <2>2, Zenon DEF FifoInv, HeadOrGone, TailSeen, InCall, InQueue
  <2>8. Protected'
    <3>1. ASSUME NEW u \in Threads
          PROVE  /\ Guarding(u)' <=> Guarding(u)
                 /\ Guarded(u)' = Guarded(u) /\ Use(u)' = Use(u)
      BY <2>1 DEF Guarding, Guarded, Use, At
    <3>2. ASSUME NEW u \in Threads, NEW v \in Threads
          PROVE  WillSee(v, <<u, Use(u)>>)' <=> WillSee(v, <<u, Use(u)>>)
      BY <2>1, <3>1 DEF WillSee, Scanning, At
    <3>3. \A v \in Threads : At(v, "swing")' <=> At(v, "swing")  BY <2>1 DEF At
    <3>4. ASSUME NEW u \in Threads, Guarding(u)'
          PROVE  /\ slot'[<<u, Use(u)'>>] = Guarded(u)'
                 /\ Guarded(u)' \notin free'
                 /\ Guarded(u)' \in InQueue' \/ next'[Guarded(u)'] # Null
                 /\ \A v \in Threads :
                      /\ Guarded(u)' # loc'[v].sen
                      /\ Guarded(u)' # loc'[v].node \/ At(v, "swing")'
                      /\ Guarded(u)' = loc'[v].chk => v # u /\ WillSee(v, <<u, Use(u)>>)'
      <4>1. /\ slot[<<u, Use(u)>>] = Guarded(u) /\ Guarded(u) \notin free
            /\ Guarded(u) \in InQueue \/ next[Guarded(u)] # Null
            /\ \A v \in Threads : /\ Guarded(u) # loc[v].sen
                                  /\ Guarded(u) # loc[v].node \/ At(v, "swing")
                                  /\ Guarded(u) = loc[v].chk => v # u /\ WillSee(v, <<u, Use(u)>>)
        BY <2>2, <3>1, <3>4, Zenon DEF FifoInv, Protected
      <4>2. QED  BY <2>1, <2>5, <3>1, <3>2, <3>3, <4>1
    <3>5. QED  BY <3>4, Zenon DEF Protected
  <2>9. QED  BY <2>3, <2>4, <2>6, <2>7, <2>8, Zenon DEF FifoInv
<1>3. QED  BY <1>1, <1>2, Zenon DEF Next, Act

\* The constructor establishes it.
LEMMA FifoInvInit == Init => FifoInv
<1> SUFFICES ASSUME Init  PROVE FifoInv
  OBVIOUS
<1>1. PICK s \in Nodes : head = s /\ tail = s /\ free = Nodes \ {s} /\ que = <<s>>
  BY FifoAssumption, Zenon DEF Init
<1>2. /\ next = [n \in Nodes |-> Null] /\ val = [n \in Nodes |-> Null]
      /\ slot = [x \in Slots |-> Null] /\ limbo = [t \in Threads |-> {}]
      /\ loc = [t \in Threads |-> Idle] /\ calls \in Calls
  BY Zenon DEF Init
<1>3. Len(que) = 1 /\ que[1] = s /\ \A i \in 1..Len(que) : i = 1  BY <1>1
<1>4. \A t \in Threads : loc[t] = Idle /\ limbo[t] = {}  BY <1>2
<1>5. TypeOK
  <2>1. Idle \in Record  BY IdleType DEF NodeOrNull
  <2>2. loc \in [Threads -> Record]  BY <1>2, <2>1
  <2>3. head \in Nodes /\ tail \in Nodes /\ free \subseteq Nodes /\ que \in Seq(Nodes)  BY <1>1
  <2>4. /\ next \in [Nodes -> NodeOrNull] /\ val \in [Nodes -> Values \cup {Null}]
        /\ slot \in [Slots -> NodeOrNull] /\ limbo \in [Threads -> SUBSET Nodes]
    BY <1>2 DEF NodeOrNull
  <2>5. calls \in [Threads -> [Kinds -> Nat]]  BY <1>2, FifoAssumption
  <2>6. QED  BY <2>2, <2>3, <2>4, <2>5, Zenon DEF TypeOK, Record
<1>6. LocalsOK
  <2>1. ASSUME NEW t \in Threads
        PROVE  KindOK(loc[t]) /\ NodesOK(loc[t]) /\ PointersOK(loc[t]) /\ LinksOK(loc[t]) /\ SlotsOK(t)
    <3>1. /\ loc[t] = Idle /\ loc[t].pc = "idle" /\ loc[t].kind = "pop"
          /\ loc[t].node = Null /\ loc[t].sen = Null /\ loc[t].chk = Null
      BY <1>4 DEF Idle
    <3>2. KindOK(loc[t])
      BY <3>1 DEF KindOK, PoolPoints, PushPoints, HeadPoints, TailPoints
    <3>3. NodesOK(loc[t])
      BY <3>1 DEF NodesOK, PoolPoints, TryPoints, PushPoints, HeadPoints, TailPoints
    <3>4. PointersOK(loc[t]) /\ LinksOK(loc[t]) /\ SlotsOK(t)
      BY <3>1 DEF PointersOK, LinksOK, SlotsOK, At, TryPoints, PushPoints, HeadPoints, TailPoints
    <3>5. QED  BY <3>2, <3>3, <3>4
  <2>2. QED  BY <2>1, Zenon DEF LocalsOK
<1>7. HeadOK /\ TailOK /\ Distinct  BY <1>1, <1>3 DEF HeadOK, TailOK, Distinct
<1>8. Linked  BY <1>1, <1>2, <1>3 DEF Linked
<1>9. InQueue = {s}  BY <1>3 DEF InQueue
<1>10. \A t \in Threads : Held(t) = {}  BY <1>4 DEF Held, Idle, At
<1>11. Apart /\ Complete  BY <1>1, <1>4, <1>9, <1>10 DEF Apart, Complete
<1>12. Protected /\ HeadOrGone /\ TailSeen
  BY <1>4 DEF Protected, HeadOrGone, TailSeen, Guarding, CurPoints, TlPoints, PushPoints, HeadPoints, Idle
<1>13. QED  BY <1>5, <1>6, <1>7, <1>8, <1>11, <1>12, Zenon DEF FifoInv

\* The inductive invariant holds at every step of all calls.
THEOREM FifoInvariant == Spec => []FifoInv
<1>1. Init => FifoInv  BY FifoInvInit
<1>2. FifoInv /\ [Next]_vars => FifoInv'  BY FifoInvStep
<1>3. QED  BY <1>1, <1>2, PTL DEF Spec

\* The history has as many places as there are nodes in the queue.
LEMMA AsManyNodes ==
  ASSUME FifoInv
  PROVE  Cardinality(InQueue) = Len(que)
<1>1. Len(que) \in Nat /\ Injective(que)  BY Positions
<1> DEFINE f == [i \in 1..Len(que) |-> que[i]]
<1>2. f \in Bijection(1..Len(que), InQueue)
  <2>1. f \in [1..Len(que) -> InQueue]  BY DEF InQueue
  <2>2. f \in Surjection(1..Len(que), InQueue)  BY <2>1 DEF Surjection, InQueue
  <2>3. f \in Injection(1..Len(que), InQueue)
    <3>1. \A i, j \in 1..Len(que) : f[i] = f[j] => i = j  BY <1>1, Zenon DEF Injective
    <3>2. QED  BY <2>1, <3>1 DEF Injection, IsInjective
  <2>4. QED  BY <2>2, <2>3 DEF Bijection
<1>3. IsFiniteSet(1..Len(que)) /\ Cardinality(1..Len(que)) = Len(que)
  <2>1. IsFiniteSet(1..Len(que))
        /\ Cardinality(1..Len(que)) = IF 1 > Len(que) THEN 0 ELSE Len(que) - 1 + 1
    <3>1. 1 \in Int /\ Len(que) \in Int  BY <1>1
    <3>2. QED  BY <3>1, FS_Interval, Zenon
  <2>2. QED  BY <1>1, <2>1
<1>4. QED  BY <1>2, <1>3, FS_Bijection, ZenonT(30) DEF ExistsBijection

\* Every node has its one place.
LEMMA OneOfThePlaces ==
  ASSUME FifoInv, NEW n \in Nodes
  PROVE  Cardinality(Places(n)) = 1
<1>1. Apart /\ Complete  BY DEF FifoInv
<1>2. CASE n \in InQueue
  <2>1. Places(n) = {<<"queue">>}  BY <1>1, <1>2 DEF Places, Apart
  <2>2. QED  BY <2>1, FS_Singleton, Zenon
<1>3. CASE n \in free
  <2>1. Places(n) = {<<"free">>}  BY <1>1, <1>3 DEF Places, Apart
  <2>2. QED  BY <2>1, FS_Singleton, Zenon
<1>4. ASSUME NEW t \in Threads, n \in Held(t)
      PROVE  Cardinality(Places(n)) = 1
  <2>1. Places(n) = {<<"held", t>>}  BY <1>1, <1>4 DEF Places, Apart
  <2>2. QED  BY <2>1, FS_Singleton, Zenon
<1>5. ASSUME NEW t \in Threads, n \in limbo[t]
      PROVE  Cardinality(Places(n)) = 1
  <2>1. Places(n) = {<<"limbo", t>>}  BY <1>1, <1>5 DEF Places, Apart
  <2>2. QED  BY <2>1, FS_Singleton, Zenon
<1>6. QED  BY <1>1, <1>2, <1>3, <1>4, <1>5 DEF Complete

\* The links in memory are the queue, its tail is the last node or the one
\* before it, a link under a verified hazard pointer is final, and every node
\* is in one place: none is lost, linked twice or freed while it is linked.
THEOREM SoundQueue == Spec => []QueueIsSound
<1>1. FifoInv => QueueIsSound
  <2> SUFFICES ASSUME FifoInv  PROVE QueueIsSound
    OBVIOUS
  <2>1. TypeOK  BY DEF FifoInv
  <2>2. ChainIsQueue  BY Zenon DEF FifoInv, HeadOK, Linked, TailOK, ChainIsQueue
  <2>3. LinkIsFinal
    <3>1. \A t \in Threads : LinksOK(loc[t])  BY Zenon DEF FifoInv, LocalsOK
    <3>2. QED  BY <3>1 DEF LinkIsFinal, LinksOK, HeadPoints
  <2>4. OnePlace  BY AsManyNodes, OneOfThePlaces DEF OnePlace
  <2>5. QED  BY <2>1, <2>2, <2>3, <2>4, Zenon DEF QueueIsSound
<1>2. QED  BY <1>1, FifoInvariant, PTL

\* No push or pop reads a link or a value of a node that the pool has been
\* given back: the hazard pointers that get_to_verify_exchange and
\* verify_exchange set keep it from being reclaimed.
THEOREM SafeReclamation == Spec => []NoUseAfterReclaim
<1>1. FifoInv => NoUseAfterReclaim
  <2> SUFFICES ASSUME FifoInv, NEW t \in Threads  PROVE Reads(t) \cap free = {}
    BY DEF NoUseAfterReclaim
  <2>1. Guarding(t) => Guarded(t) \notin free  BY Zenon DEF FifoInv, Protected
  <2>2. QED
    BY <2>1 DEF Reads, Guarding, Guarded, CurPoints, TlPoints, PushPoints, HeadPoints, At
<1>2. QED  BY <1>1, FifoInvariant, PTL

-----------------------------------------------------------------------------
(* The invariant behind the refinement: who has a value.                   *)

\* A push has its value, and its node has it too until it is linked; a pop
\* has the value of the node it has made the sentinel.
ValueOK(t) ==
  LET l == loc[t] IN
  /\ l.kind # "pop" /\ l.pc \in PoolPoints \cup TryPoints => l.arg \in Values
  /\ l.node # Null /\ l.pc # "swing" => val[l.node] = l.arg
  /\ l.pc = "value" => val[l.nxt] \in Values
  /\ l.kind = "pop" /\ l.pc \in {"drop", "retire"} /\ l.chk # Null => l.ret \in Values

\* All nodes in the queue but the sentinel have values.
QueueValues == \A i \in 2..Len(que) : val[que[i]] \in Values

RefInv == FifoInv /\ QueueValues /\ \A t \in Threads : ValueOK(t)

\* The constructor's queue has no values.
LEMMA RefInvInit == Init => RefInv
<1> SUFFICES ASSUME Init  PROVE RefInv
  OBVIOUS
<1>1. FifoInv  BY FifoInvInit
<1>2. QueueValues
  <2>1. Len(que) = 1  BY DEF Init
  <2>2. QED  BY <2>1 DEF QueueValues
<1>3. ASSUME NEW t \in Threads  PROVE ValueOK(t)
  <2>1. loc[t] = Idle  BY <1>3 DEF Init
  <2>2. QED  BY <2>1 DEF ValueOK, Idle, PoolPoints, TryPoints
<1>4. QED  BY <1>1, <1>2, <1>3 DEF RefInv

\* A step writes to the value of a free node or of the one it has scanned
\* for, only.
LEMMA ValueKept ==
  ASSUME FifoInv, NEW t \in Threads, Act(t), NEW n \in Nodes, n \notin free,
         n = loc[t].chk => ~ (Scanning(t) /\ loc[t].unseen = {})
  PROVE  val'[n] = val[n]
<1>1. val \in [Nodes -> Values \cup {Null}]  BY DEF FifoInv, TypeOK
<1>2. CASE TakeFree(t)
  <2>1. PICK m \in free : Obtain(t, m)  BY <1>2, Zenon DEF TakeFree
  <2>2. val' = val \/ val' = [val EXCEPT ![m] = loc[t].arg]  BY <2>1, Zenon DEF Obtain
  <2>3. QED  BY <1>1, <2>1, <2>2
<1>3. CASE Reuse(t)
  <2>1. val' = val \/ val' = [val EXCEPT ![loc[t].chk] = loc[t].arg]
    BY <1>3, Zenon DEF Reuse, Obtain
  <2>2. n # loc[t].chk  BY <1>3 DEF Reuse, Scanning
  <2>3. QED  BY <1>1, <2>1, <2>2
<1>4. CASE Reclaim(t)
  <2>1. val' = [val EXCEPT ![loc[t].chk] = Null]  BY <1>4, Zenon DEF Reclaim
  <2>2. n # loc[t].chk  BY <1>4 DEF Reclaim, Scanning
  <2>3. QED  BY <1>1, <2>1, <2>2
<1>5. QED  BY <1>2, <1>3, <1>4, Changes

\* The values of the queue's nodes do not change.
LEMMA QueueValueKept ==
  ASSUME FifoInv, NEW t \in Threads, Act(t), NEW n \in InQueue
  PROVE  val'[n] = val[n]
<1>1. n \in Nodes  BY Positions
<1>2. n \notin free  BY DEF FifoInv, Apart
<1>3. n # loc[t].chk
  <2>1. n # Null  BY <1>1, FifoAssumption
  <2>2. QED  BY <2>1, OwnNodes
<1>4. QED  BY <1>1, <1>2, <1>3, ValueKept

\* Nor does that of a node that a hazard pointer protects.
LEMMA GuardedValueKept ==
  ASSUME FifoInv, NEW t \in Threads, Act(t), NEW u \in Threads, At(u, "value")
  PROVE  val'[loc[u].nxt] = val[loc[u].nxt]
<1>1. Guarding(u) /\ Guarded(u) = loc[u].nxt /\ Use(u) = "nxt"
  BY DEF Guarding, Guarded, Use, At, CurPoints, TlPoints, PushPoints, HeadPoints
<1>2. Guarded(u) \in Nodes /\ Guarded(u) \notin free
  <2>1. Guarded(u) \notin free  BY <1>1, Zenon DEF FifoInv, Protected
  <2>2. QED  BY <1>1, <2>1, GuardedIsNode
<1>3. Guarded(u) = loc[t].chk => WillSee(t, <<u, Use(u)>>)
  BY <1>1, Zenon DEF FifoInv, Protected
<1>4. Scanning(t) /\ loc[t].unseen = {} => ~ WillSee(t, <<u, Use(u)>>)
  BY DEF Scanning, WillSee, At
<1>5. QED  BY <1>1, <1>2, <1>3, <1>4, ValueKept, Zenon

\* Nor does that of another thread's own node.
LEMMA OthersNodeKept ==
  ASSUME FifoInv, NEW t \in Threads, Act(t), NEW u \in Threads, u # t,
         loc[u].node # Null, ~ At(u, "swing")
  PROVE  val'[loc[u].node] = val[loc[u].node]
<1> DEFINE n == loc[u].node
<1>1. n \in Held(u)  BY OwnNodes
<1>2. n \in Nodes /\ n \notin free /\ n \notin Held(t)  BY <1>1, OwnNodes
<1>3. n # loc[t].chk  BY <1>2, FifoAssumption, OwnNodes
<1>4. QED  BY <1>2, <1>3, ValueKept, Zenon

\* What the others know of the values.
LEMMA OthersValues ==
  ASSUME RefInv, NEW t \in Threads, Act(t), NEW u \in Threads, u # t
  PROVE  ValueOK(u)'
<1>1. FifoInv /\ ValueOK(u)  BY DEF RefInv
<1>2. loc'[u] = loc[u]  BY <1>1, LocFrame DEF FifoInv
<1>3. loc[u].node # Null /\ loc[u].pc # "swing" => val'[loc[u].node] = val[loc[u].node]
  BY <1>1, OthersNodeKept DEF At
<1>4. loc[u].pc = "value" => val'[loc[u].nxt] = val[loc[u].nxt]
  BY <1>1, GuardedValueKept DEF At
<1>5. QED  BY <1>1, <1>2, <1>3, <1>4 DEF ValueOK

\* What the thread that steps knows of them.
LEMMA OwnValues ==
  ASSUME RefInv, NEW t \in Threads, Act(t)
  PROVE  ValueOK(t)'
<1>1. FifoInv /\ ValueOK(t)  BY DEF RefInv
<1>2. KindOK(loc[t]) /\ NodesOK(loc[t])  BY <1>1, Zenon DEF FifoInv, LocalsOK
<1>3. TypeOK  BY <1>1 DEF FifoInv
<1>4. val' = val \/ TakeFree(t) \/ Reuse(t) \/ Reclaim(t)  BY Changes, Zenon
<1>5. Gives[t] \subseteq Values /\ Null \notin Nodes  BY FifoAssumption
<1> USE <1>1, <1>2, <1>3, <1>5
    DEF TypeOK, At, InCall, ValueOK, PoolPoints, TryPoints, PushPoints, HeadPoints, TailPoints
<1>6. CASE TakeFree(t)
  <2>1. PICK n \in free : Obtain(t, n)  BY <1>6, Zenon DEF TakeFree
  <2>2. n \in Nodes /\ n # Null  OBVIOUS
  <2>3. loc[t].pc = "pool" \/ loc[t].pc = "alloc"  BY <1>6, Zenon DEF TakeFree, At
  <2>4. loc[t].kind # "pop"  BY <2>3 DEF KindOK
  <2>5. CASE loc[t].node = Null
    <3>1. CASE \E p \in {"pool", "load"} :
                 /\ val' = [val EXCEPT ![n] = loc[t].arg]
                 /\ loc' = [loc EXCEPT ![t].node = n, ![t].chk = Null, ![t].pc = p]
      BY <2>2, <2>3, <2>4, <3>1
    <3>2. CASE \E p \in {"pool", "load"} :
                 /\ val' = val
                 /\ loc' = [loc EXCEPT ![t].sen = n, ![t].chk = Null, ![t].pc = p]
      BY <2>2, <2>3, <2>4, <2>5, <3>2
    <3>3. QED  BY <2>1, <3>1, <3>2, Zenon DEF Obtain
  <2>6. CASE loc[t].node # Null
    <3>1. val' = val /\ loc' = [loc EXCEPT ![t].sen = n, ![t].chk = Null, ![t].pc = "load"]
      BY <2>1, <2>6, Zenon DEF Obtain
    <3>2. QED  BY <2>2, <2>3, <2>4, <2>6, <3>1
  <2>7. QED  BY <2>5, <2>6
<1>7. CASE Reuse(t)
  <2>1. Obtain(t, loc[t].chk) /\ loc[t].pc = "recheck"  BY <1>7, Zenon DEF Reuse, At
  <2>2. loc[t].chk \in Nodes  BY <2>1, Pointers DEF FifoInv
  <2>3. QED  BY <2>1, <2>2 DEF Obtain, KindOK, NodesOK
<1>8. CASE Reclaim(t)  BY <1>8 DEF Reclaim, Idle
<1>9. CASE PopCas(t)
  <2>1. loc[t].nxt = que[2] /\ Len(que) > 1  BY <1>9, CasStep
  <2>2. Len(que) \in Nat  BY Positions
  <2>3. val[que[2]] \in Values  BY <2>1, <2>2 DEF RefInv, QueueValues
  <2>4. QED  BY <1>9, <2>1, <2>3 DEF PopCas
<1>10. CASE PickUpValue(t)  BY <1>10 DEF PickUpValue, KindOK, NodesOK, memVars
<1>11. CASE ReadNext(t)
  <2>1. val' = val /\ loc'[t].arg = loc[t].arg /\ loc'[t].ret = loc[t].ret
    BY <1>11 DEF ReadNext, memVars
  <2>2. QED  BY <1>11, <2>1, ReadNextStep DEF NodesOK
<1>12. CASE StoreSlot(t)  BY <1>12 DEF StoreSlot, Goto, memVars
<1>13. CASE Load(t)  BY <1>13 DEF Load
<1>14. CASE Verified(t)  BY <1>14 DEF Verified, Goto, memVars
<1>15. CASE Reload(t)  BY <1>15 DEF Reload, memVars
<1>16. CASE MoveTail(t)  BY <1>16 DEF MoveTail
<1>17. CASE LinkFails(t)  BY <1>17 DEF LinkFails, Goto, memVars
<1>18. CASE Swing(t)  BY <1>18 DEF Swing, KindOK
<1>19. CASE LookAtTail(t)  BY <1>19 DEF LookAtTail, Goto, memVars
<1>20. CASE HelpTail(t)  BY <1>20 DEF HelpTail, Goto
<1>21. CASE StoreNextSlot(t)  BY <1>21 DEF StoreNextSlot, Goto, memVars
<1>22. CASE NextVerified(t)  BY <1>22 DEF NextVerified, Goto, memVars
<1>23. CASE CasFails(t)  BY <1>23 DEF CasFails, memVars
<1>24. CASE LoadTail(t)  BY <1>24 DEF LoadTail, memVars
<1>25. CASE StoreTailSlot(t)  BY <1>25 DEF StoreTailSlot, Goto, memVars
<1>26. CASE TailVerified(t)  BY <1>26 DEF TailVerified, Goto, memVars
<1>27. CASE TailHasMoved(t)  BY <1>27 DEF TailHasMoved, StartAgain, memVars
<1>28. CASE ReadTailNext(t)  BY <1>28 DEF ReadTailNext, memVars
<1>29. CASE MoveTailOnce(t)  BY <1>29 DEF MoveTailOnce, StartAgain
<1>30. CASE TailLinkFails(t)  BY <1>30 DEF TailLinkFails, StartAgain, memVars
<1>31. CASE ScanSlot(t)  BY <1>31 DEF ScanSlot, memVars
<1>32. CASE Drop(t)  BY <1>32 DEF Drop, Idle, NodesOK, memVars
<1>33. CASE Link(t)  BY <1>33 DEF Link, Goto
<1>34. CASE TailLink(t)  BY <1>34 DEF TailLink
<1>35. CASE PushHeadCas(t)  BY <1>35 DEF PushHeadCas
<1>36. CASE Recheck(t)  BY <1>36 DEF Recheck, memVars
<1>37. CASE FoundInHazard(t)  BY <1>37 DEF FoundInHazard, Scanning, Idle, KindOK, memVars
<1>38. ASSUME NEW kind \in Kinds, Call(t, kind)  PROVE ValueOK(t)'
  BY <1>38 DEF Call, Kinds, Idle, KindOK, memVars
<1>39. QED
  BY <1>6, <1>7, <1>8, <1>9, <1>10, <1>11, <1>12, <1>13, <1>14, <1>15, <1>16, <1>17, <1>18, <1>19,
     <1>20, <1>21, <1>22, <1>23, <1>24, <1>25, <1>26, <1>27, <1>28, <1>29, <1>30, <1>31, <1>32,
     <1>33, <1>34, <1>35, <1>36, <1>37, <1>38, Zenon DEF Act, Step

\* What push_head's compare_exchange does to the chain.
LEMMA PushHeadQueue ==
  ASSUME FifoInv, NEW t \in Threads, PushHeadCas(t)
  PROVE  /\ Len(que') = Len(que) + 1 /\ que'[2] = loc[t].node /\ val' = val
         /\ \A i \in 3..Len(que') : que'[i] = que[i - 1]
<1>1. PICK a, b : a = loc[t].sen /\ b = loc[t].node  OBVIOUS
<1>2. /\ que'[2] = b /\ Len(que') = Len(que) + 1 /\ val' = val
      /\ \A i \in 3..Len(que') : que'[i] = que[i - 1]
  BY <1>1, PushHeadStep
<1>3. QED  BY <1>1, <1>2, Zenon

\* The values in the queue: a linked node has the value of its push.
LEMMA QueueValuesStep ==
  ASSUME RefInv, NEW t \in Threads, Act(t)
  PROVE  QueueValues'
<1>1. FifoInv /\ QueueValues /\ ValueOK(t)  BY DEF RefInv
<1>2. que \in Seq(Nodes) /\ Len(que) \in Nat \ {0} /\ \A i \in 1..Len(que) : que[i] \in InQueue
  BY <1>1, Positions
<1>3. \A n \in InQueue : val'[n] = val[n]  BY <1>1, QueueValueKept
<1>4. \A i \in 2..Len(que) : que[i] \in InQueue /\ val'[que[i]] \in Values
  BY <1>1, <1>2, <1>3 DEF QueueValues
<1>5. CASE Link(t) \/ TailLink(t)
  <2>1. val' = val /\ val[loc[t].node] \in Values
    <3>1. NodesOK(loc[t]) /\ KindOK(loc[t])  BY <1>1, Zenon DEF FifoInv, LocalsOK
    <3>2. loc[t].pc = "link" \/ loc[t].pc = "tlLink"  BY <1>5, Zenon DEF Link, TailLink, At
    <3>3. loc[t].kind # "pop" /\ loc[t].node # Null
      BY <3>1, <3>2 DEF NodesOK, KindOK, TryPoints, TailPoints, PushPoints
    <3>4. val[loc[t].node] \in Values
      BY <1>1, <3>2, <3>3 DEF ValueOK, TryPoints, TailPoints, PushPoints
    <3>5. QED  BY <1>5, <3>4 DEF Link, TailLink
  <2>2. que' = Append(que, loc[t].node)  BY <1>5, Zenon DEF Link, TailLink
  <2>3. \A i \in 2..Len(que') : (i \in 2..Len(que) /\ que'[i] = que[i]) \/ que'[i] = loc[t].node
    BY <1>2, <2>2
  <2>4. QED  BY <1>4, <2>1, <2>3 DEF QueueValues
<1>6. CASE PopCas(t)
  <2>1. Len(que') = Len(que) - 1 /\ \A i \in 1..Len(que') : que'[i] = que[i + 1]
    BY <1>1, <1>6, PopStep
  <2>2. \A i \in 2..Len(que') : i + 1 \in 2..Len(que) /\ que'[i] = que[i + 1]  BY <1>2, <2>1
  <2>3. QED  BY <1>4, <2>2 DEF QueueValues
<1>7. CASE PushHeadCas(t)
  <2>1. /\ Len(que') = Len(que) + 1 /\ que'[2] = loc[t].node /\ val' = val
        /\ \A i \in 3..Len(que') : que'[i] = que[i - 1]
    BY <1>1, <1>7, PushHeadQueue, Zenon
  <2>2. val[loc[t].node] \in Values
    <3>1. NodesOK(loc[t])  BY <1>1, Zenon DEF FifoInv, LocalsOK
    <3>2. loc[t].pc = "cas" /\ loc[t].kind = "pushHead"  BY <1>7, Zenon DEF PushHeadCas, At, InCall
    <3>3. loc[t].node # Null  BY <3>1, <3>2 DEF NodesOK, TryPoints, HeadPoints
    <3>4. QED  BY <1>1, <3>2, <3>3 DEF ValueOK, TryPoints, HeadPoints
  <2>3. \A i \in 2..Len(que') : i = 2 \/ (i \in 3..Len(que') /\ i - 1 \in 2..Len(que))
    BY <1>2, <2>1
  <2>4. QED  BY <1>4, <2>1, <2>2, <2>3 DEF QueueValues
<1>8. CASE que' = que  BY <1>4, <1>8 DEF QueueValues
<1>9. QED  BY <1>5, <1>6, <1>7, <1>8, Changes, Zenon

\* A step keeps the invariant.
LEMMA RefInvStep ==
  ASSUME RefInv, [Next]_vars
  PROVE  RefInv'
<1>1. FifoInv'  BY FifoInvStep DEF RefInv
<1>2. ASSUME NEW t \in Threads, Act(t)  PROVE RefInv'
  <2>1. ASSUME NEW u \in Threads  PROVE ValueOK(u)'  BY <1>2, OwnValues, OthersValues, Zenon
  <2>2. QED  BY <1>1, <1>2, <2>1, QueueValuesStep, Zenon DEF RefInv
<1>3. CASE UNCHANGED vars
  <2>1. val' = val /\ que' = que /\ loc' = loc  BY <1>3 DEF vars, memVars
  <2>2. QED  BY <1>1, <2>1 DEF RefInv, QueueValues, ValueOK
<1>4. QED  BY <1>2, <1>3, Zenon DEF Next, Act

-----------------------------------------------------------------------------
(* The operation a thread is in, from its locals and the value at nxt.     *)

OpAt(l, v) ==
  CASE l.pc = "idle" -> Abstract!Idle
    [] l.kind = "push" /\ l.pc \in {"swing", "drop"} -> Abstract!Idle
    [] l.kind = "push" /\ l.pc \notin {"swing", "drop"} -> Abstract!Push(l.arg)
    [] l.kind = "pushHead" /\ l.pc \in {"drop", "retire"} -> Abstract!Idle
    [] l.kind = "pushHead" /\ l.pc \notin {"drop", "retire"} ->
         Abstract!PushHead(l.arg, l.pc \in TailPoints)
    [] l.kind = "pop" /\ l.pc = "value" -> Abstract!Got(v)
    [] l.kind = "pop" /\ l.pc = "drop" ->
         IF l.chk = Null THEN Abstract!Idle ELSE Abstract!Got(l.ret)
    [] l.kind = "pop" /\ l.pc = "retire" -> Abstract!Got(l.ret)
    [] OTHER -> Abstract!Pop

\* Case by case: an operation has not taken effect before its points, and
\* has at them.
BeforePush == {"pool", "alloc", "recheck", "load", "slot", "verify", "next", "move", "link"}
BeforeHead == {"pool", "alloc", "recheck", "load", "slot", "verify", "next"} \cup HeadPoints
BeforePop  == {"load", "slot", "verify", "next"} \cup HeadPoints

OpTable(l, v) ==
  /\ l.pc = "idle" => OpAt(l, v) = Abstract!Idle
  /\ l.kind = "push" /\ l.pc \in BeforePush => OpAt(l, v) = Abstract!Push(l.arg)
  /\ l.kind = "push" /\ l.pc \in {"swing", "drop"} => OpAt(l, v) = Abstract!Idle
  /\ l.kind = "pushHead" /\ l.pc \in BeforeHead => OpAt(l, v) = Abstract!PushHead(l.arg, FALSE)
  /\ l.kind = "pushHead" /\ l.pc \in TailPoints => OpAt(l, v) = Abstract!PushHead(l.arg, TRUE)
  /\ l.kind = "pushHead" /\ l.pc \in {"drop", "retire"} => OpAt(l, v) = Abstract!Idle
  /\ l.kind = "pop" /\ l.pc \in BeforePop => OpAt(l, v) = Abstract!Pop
  /\ l.kind = "pop" /\ l.pc = "value" => OpAt(l, v) = Abstract!Got(v)
  /\ l.kind = "pop" /\ l.pc = "drop" /\ l.chk = Null => OpAt(l, v) = Abstract!Idle
  /\ l.kind = "pop" /\ l.pc = "drop" /\ l.chk # Null => OpAt(l, v) = Abstract!Got(l.ret)
  /\ l.kind = "pop" /\ l.pc = "retire" => OpAt(l, v) = Abstract!Got(l.ret)

\* The table is right where a thread outside its calls has the locals Idle.
LEMMA OpAtIs ==
  ASSUME NEW l, NEW v, l.pc = "idle" => l.kind = "pop"
  PROVE  OpTable(l, v)
<1> USE DEF OpAt
<1>1. l.pc = "idle" => OpAt(l, v) = Abstract!Idle
  <2>1. "pop" # "push" /\ "pop" # "pushHead"  OBVIOUS
  <2>2. QED  BY <2>1
<1>2. l.kind = "push" /\ l.pc \in BeforePush => OpAt(l, v) = Abstract!Push(l.arg)
  BY DEF BeforePush
<1>3. l.kind = "push" /\ l.pc \in {"swing", "drop"} => OpAt(l, v) = Abstract!Idle  OBVIOUS
<1>4. l.kind = "pushHead" /\ l.pc \in BeforeHead => OpAt(l, v) = Abstract!PushHead(l.arg, FALSE)
  <2>1. l.pc \in BeforeHead => (l.pc \in TailPoints) = FALSE /\ l.pc \notin {"idle", "drop", "retire"}
    BY DEF BeforeHead, HeadPoints, TailPoints
  <2>2. l.kind = "pushHead" /\ l.pc \in BeforeHead =>
          OpAt(l, v) = Abstract!PushHead(l.arg, l.pc \in TailPoints)
    BY <2>1
  <2>3. QED  BY <2>1, <2>2, Zenon
<1>5. l.kind = "pushHead" /\ l.pc \in TailPoints => OpAt(l, v) = Abstract!PushHead(l.arg, TRUE)
  <2>1. l.pc \in TailPoints => (l.pc \in TailPoints) = TRUE /\ l.pc \notin {"idle", "drop", "retire"}
    BY DEF TailPoints
  <2>2. l.kind = "pushHead" /\ l.pc \in TailPoints =>
          OpAt(l, v) = Abstract!PushHead(l.arg, l.pc \in TailPoints)
    BY <2>1
  <2>3. QED  BY <2>1, <2>2, Zenon
<1>6. l.kind = "pushHead" /\ l.pc \in {"drop", "retire"} => OpAt(l, v) = Abstract!Idle  OBVIOUS
<1>7. l.kind = "pop" /\ l.pc \in BeforePop => OpAt(l, v) = Abstract!Pop
  BY DEF BeforePop, HeadPoints
<1>8. l.kind = "pop" /\ l.pc = "value" => OpAt(l, v) = Abstract!Got(v)  OBVIOUS
<1>9. l.kind = "pop" /\ l.pc = "drop" /\ l.chk = Null => OpAt(l, v) = Abstract!Idle  OBVIOUS
<1>10. l.kind = "pop" /\ l.pc = "drop" /\ l.chk # Null => OpAt(l, v) = Abstract!Got(l.ret)  OBVIOUS
<1>11. l.kind = "pop" /\ l.pc = "retire" => OpAt(l, v) = Abstract!Got(l.ret)  OBVIOUS
<1>12. QED
  BY <1>1, <1>2, <1>3, <1>4, <1>5, <1>6, <1>7, <1>8, <1>9, <1>10, <1>11, Zenon DEF OpTable

\* It is what the refinement mapping says.
LEMMA OpIs ==
  ASSUME NEW t \in Threads
  PROVE  OpOf(t) = OpAt(loc[t], val[loc[t].nxt]) /\ OpOf(t)' = OpAt(loc'[t], val'[loc'[t].nxt])
  BY DEF OpOf, OpAt, TailPoints, Abstract!Idle, Abstract!Push, Abstract!PushHead, Abstract!Pop,
         Abstract!Got

\* So the table says what a thread is in, before and after a step.
LEMMA Operation ==
  ASSUME NEW t \in Threads, KindOK(loc[t]), KindOK(loc[t])'
  PROVE  \E v, w : /\ v = val[loc[t].nxt] /\ w = val'[loc'[t].nxt]
                   /\ OpOf(t) = OpAt(loc[t], v) /\ OpOf(t)' = OpAt(loc'[t], w)
                   /\ OpTable(loc[t], v) /\ OpTable(loc'[t], w)
<1>1. PICK v, w : v = val[loc[t].nxt] /\ w = val'[loc'[t].nxt]  OBVIOUS
<1>2. OpOf(t) = OpAt(loc[t], v) /\ OpOf(t)' = OpAt(loc'[t], w)  BY <1>1, OpIs, Zenon
<1>3. Idle.kind = "pop"  BY DEF Idle
<1>4. \A l, x : (l.pc = "idle" => l.kind = "pop") => OpTable(l, x)  BY OpAtIs
<1>5. OpTable(loc[t], v)  BY <1>3, <1>4, Zenon DEF KindOK
<1>6. OpTable(loc'[t], w)
  <2>1. loc'[t].pc = "idle" => loc'[t] = Idle  BY Zenon DEF KindOK
  <2>2. QED  BY <1>3, <1>4, <2>1, Zenon
<1>7. QED  BY <1>1, <1>2, <1>5, <1>6, Zenon

\* A step does not change what the others are in.
LEMMA OthersOp ==
  ASSUME FifoInv, NEW t \in Threads, Act(t), NEW u \in Threads, u # t
  PROVE  OpOf(u)' = OpOf(u)
<1>1. loc'[u] = loc[u]  BY LocFrame DEF FifoInv
<1>2. CASE At(u, "value")
  <2>1. val'[loc[u].nxt] = val[loc[u].nxt]  BY <1>2, GuardedValueKept
  <2>2. QED  BY <1>1, <2>1, OpIs
<1>3. CASE ~ At(u, "value")
  <2>1. \A v, w : OpAt(loc[u], v) = OpAt(loc[u], w)  BY <1>3 DEF OpAt, At
  <2>2. QED  BY <1>1, <2>1, OpIs
<1>4. QED  BY <1>2, <1>3

Op == [t \in Threads |-> OpOf(t)]

\* So the abstract step is that of the thread.
LEMMA OpBecomes ==
  ASSUME FifoInv, NEW t \in Threads, Act(t), NEW o, OpOf(t)' = o
  PROVE  Op' = [Op EXCEPT ![t] = o] /\ Op[t] = OpOf(t)
<1>1. \A u \in Threads \ {t} : OpOf(u)' = OpOf(u)  BY OthersOp, Zenon
<1>2. Op' = [u \in Threads |-> OpOf(u)']  BY DEF Op
<1>3. QED  BY <1>1, <1>2, Zenon DEF Op

-----------------------------------------------------------------------------
(* The content of the queue.                                               *)

\* c has the values v gives to the nodes of q, but for the sentinel.
ContentIs(c, q, v) ==
  /\ c \in Seq(Values) /\ Len(q) \in Nat \ {0} /\ Len(c) = Len(q) - 1
  /\ \A i \in 1..Len(q) - 1 : c[i] = v[q[i + 1]]

\* The values of the nodes after the sentinel are such a content.
LEMMA ContentOf ==
  ASSUME NEW q \in Seq(Nodes), Len(q) > 0, NEW v, \A i \in 2..Len(q) : v[q[i]] \in Values
  PROVE  ContentIs([i \in 1..Len(q) - 1 |-> v[q[i + 1]]], q, v)
<1> DEFINE n == Len(q) - 1
           c == [i \in 1..n |-> v[q[i + 1]]]
<1>1. n \in Nat /\ n = Len(q) - 1 /\ Len(q) \in Nat \ {0}  OBVIOUS
<1>2. \A i \in 1..n : i + 1 \in 2..Len(q)  OBVIOUS
<1> HIDE DEF n
<1>3. c \in [1..n -> Values]  BY <1>2
<1>4. c \in Seq(Values) /\ Len(c) = n  BY <1>1, <1>3
<1>5. \A i \in 1..n : c[i] = v[q[i + 1]]  OBVIOUS
<1> HIDE DEF c
<1>6. ContentIs(c, q, v)  BY <1>1, <1>4, <1>5 DEF ContentIs
<1>7. QED  BY <1>6 DEF c, n

\* The content before and after a step.
LEMMA Contents ==
  ASSUME RefInv, [Next]_vars
  PROVE  ContentIs(Content, que, val) /\ ContentIs(Content', que', val')
<1>1. RefInv'  BY RefInvStep
<1>2. que \in Seq(Nodes) /\ Len(que) > 0 /\ QueueValues  BY DEF RefInv, FifoInv, TypeOK, HeadOK
<1>3. que' \in Seq(Nodes) /\ Len(que') > 0 /\ QueueValues'
  BY <1>1 DEF RefInv, FifoInv, TypeOK, HeadOK
<1>4. ContentIs([i \in 1..Len(que) - 1 |-> val[que[i + 1]]], que, val)
  BY <1>2, ContentOf DEF QueueValues
<1>5. ContentIs([i \in 1..Len(que') - 1 |-> val'[que'[i + 1]]], que', val')
  BY <1>3, ContentOf DEF QueueValues
<1>6. QED  BY <1>4, <1>5, Zenon DEF Content

\* A step that leaves the chain alone leaves the content alone.
LEMMA ContentKept ==
  ASSUME FifoInv, NEW t \in Threads, Act(t), que' = que
  PROVE  Content' = Content
<1>1. que \in Seq(Nodes) /\ \A i \in 1..Len(que) : que[i] \in InQueue  BY Positions
<1>2. \A i \in 1..Len(que) - 1 : val'[que[i + 1]] = val[que[i + 1]]
  <2>1. \A i \in 1..Len(que) - 1 : i + 1 \in 1..Len(que)  BY <1>1
  <2>2. \A n \in InQueue : val'[n] = val[n]  BY QueueValueKept
  <2>3. QED  BY <1>1, <2>1, <2>2
<1>3. QED  BY <1>2 DEF Content

\* A node linked to the last one appends its value.
LEMMA ContentAppended ==
  ASSUME NEW q \in Seq(Nodes), NEW n \in Nodes, NEW v, NEW c, NEW c1,
         ContentIs(c, q, v), ContentIs(c1, Append(q, n), v)
  PROVE  c1 = Append(c, v[n])
<1> DEFINE q1 == Append(q, n)
<1>1. Len(q1) = Len(q) + 1 /\ q1[Len(q) + 1] = n /\ \A i \in 1..Len(q) : q1[i] = q[i]
  OBVIOUS
<1> HIDE DEF q1
<1>2. /\ c \in Seq(Values) /\ Len(q) \in Nat \ {0} /\ Len(c) = Len(q) - 1
      /\ \A i \in 1..Len(q) - 1 : c[i] = v[q[i + 1]]
  BY Zenon DEF ContentIs
<1>3. /\ c1 \in Seq(Values) /\ Len(c1) = Len(q1) - 1
      /\ \A i \in 1..Len(q1) - 1 : c1[i] = v[q1[i + 1]]
  BY Zenon DEF ContentIs, q1
<1>4. Len(c1) = Len(c) + 1 /\ Len(c) \in Nat  BY <1>1, <1>2, <1>3
<1>5. c1[Len(c) + 1] = v[n] /\ v[n] \in Values
  <2>1. Len(c) + 1 \in 1..Len(q1) - 1 /\ (Len(c) + 1) + 1 = Len(q) + 1  BY <1>1, <1>2
  <2>2. c1[Len(c) + 1] = v[n]  BY <1>1, <1>3, <2>1
  <2>3. Len(c) + 1 \in 1..Len(c1)  BY <1>4
  <2>4. c1[Len(c) + 1] \in Values  BY <1>3, <2>3, ElementOfSeq
  <2>5. QED  BY <2>2, <2>4
<1>6. \A i \in 1..Len(c) : c1[i] = c[i]
  <2>1. ASSUME NEW i \in 1..Len(c)  PROVE c1[i] = c[i]
    <3>1. i \in 1..Len(q) - 1 /\ i \in 1..Len(q1) - 1 /\ i + 1 \in 1..Len(q)  BY <1>1, <1>2
    <3>2. QED  BY <1>1, <1>2, <1>3, <3>1
  <2>2. QED  BY <2>1
<1>7. \A i \in 1..Len(c1) : i \in 1..Len(c) \/ i = Len(c) + 1  BY <1>4
<1>8. /\ Append(c, v[n]) \in Seq(Values) /\ Len(Append(c, v[n])) = Len(c) + 1
      /\ Append(c, v[n])[Len(c) + 1] = v[n]
      /\ \A i \in 1..Len(c) : Append(c, v[n])[i] = c[i]
  BY <1>2, <1>5, AppendProperties
<1>9. \A i \in 1..Len(c1) : c1[i] = Append(c, v[n])[i]  BY <1>5, <1>6, <1>7, <1>8, Zenon
<1>10. QED  BY <1>3, <1>4, <1>8, <1>9, SeqEqual, Zenon

\* The value of the new sentinel leaves with the old one.
LEMMA ContentTail ==
  ASSUME NEW q, NEW q1, NEW v, NEW c, NEW c1,
         Len(q1) = Len(q) - 1, \A i \in 1..Len(q1) : q1[i] = q[i + 1],
         ContentIs(c, q, v), ContentIs(c1, q1, v)
  PROVE  c # <<>> /\ c1 = Tail(c) /\ Head(c) = v[q[2]]
<1>2. /\ c \in Seq(Values) /\ Len(q) \in Nat \ {0} /\ Len(c) = Len(q) - 1
      /\ \A i \in 1..Len(q) - 1 : c[i] = v[q[i + 1]]
  BY Zenon DEF ContentIs
<1>3. /\ c1 \in Seq(Values) /\ Len(q1) \in Nat \ {0} /\ Len(c1) = Len(q1) - 1
      /\ \A i \in 1..Len(q1) - 1 : c1[i] = v[q1[i + 1]]
  BY Zenon DEF ContentIs
<1>4. Len(c1) = Len(c) - 1 /\ Len(c) \in Nat \ {0}  BY <1>2, <1>3
<1>5. c # <<>>  BY <1>4
<1>6. Head(c) = v[q[2]]
  <2>1. Head(c) = c[1]  OBVIOUS
  <2>2. 1 \in 1..Len(q) - 1 /\ 1 + 1 = 2  BY <1>2, <1>4
  <2>3. QED  BY <1>2, <2>1, <2>2
<1>7. /\ Tail(c) \in Seq(Values) /\ Len(Tail(c)) = Len(c) - 1
      /\ \A i \in 1..Len(Tail(c)) : Tail(c)[i] = c[i + 1]
  BY <1>2, <1>5, HeadTailProperties
<1>8. \A i \in 1..Len(c1) : c1[i] = Tail(c)[i]
  <2>1. ASSUME NEW i \in 1..Len(c1)  PROVE c1[i] = Tail(c)[i]
    <3>1. /\ i \in 1..Len(q1) - 1 /\ i + 1 \in 1..Len(q1) /\ i + 1 \in 1..Len(q) - 1
          /\ i \in 1..Len(Tail(c))
      BY <1>2, <1>3, <1>4, <1>7
    <3>2. c1[i] = v[q[(i + 1) + 1]]  BY <1>3, <3>1
    <3>3. c[i + 1] = v[q[(i + 1) + 1]]  BY <1>2, <3>1
    <3>4. QED  BY <1>7, <3>1, <3>2, <3>3
  <2>2. QED  BY <2>1, Zenon
<1>9. QED  BY <1>3, <1>4, <1>5, <1>6, <1>7, <1>8, SeqEqual, Zenon

\* The value of push_head comes first.
LEMMA ContentPushed ==
  ASSUME NEW q, NEW q1, NEW v, NEW c, NEW c1, Len(q1) = Len(q) + 1,
         \A i \in 3..Len(q1) : q1[i] = q[i - 1],
         ContentIs(c, q, v), ContentIs(c1, q1, v)
  PROVE  c1 = <<v[q1[2]]>> \o c
<1> DEFINE x == v[q1[2]]
<1>2. /\ c \in Seq(Values) /\ Len(q) \in Nat \ {0} /\ Len(c) = Len(q) - 1
      /\ \A i \in 1..Len(q) - 1 : c[i] = v[q[i + 1]]
  BY Zenon DEF ContentIs
<1>3. /\ c1 \in Seq(Values) /\ Len(q1) \in Nat \ {0} /\ Len(c1) = Len(q1) - 1
      /\ \A i \in 1..Len(q1) - 1 : c1[i] = v[q1[i + 1]]
  BY Zenon DEF ContentIs
<1>4. Len(c1) = 1 + Len(c) /\ Len(c) \in Nat /\ 1 \in 1..Len(c1)  BY <1>2, <1>3
<1>5. c1[1] = x /\ x \in Values
  <2>1. 1 \in 1..Len(q1) - 1 /\ 1 + 1 = 2  BY <1>3, <1>4
  <2>2. c1[1] = x  BY <1>3, <2>1
  <2>3. QED  BY <1>3, <1>4, <2>2, ElementOfSeq
<1> HIDE DEF x
<1>6. /\ <<x>> \o c \in Seq(Values) /\ Len(<<x>> \o c) = 1 + Len(c)
      /\ \A i \in 1..1 + Len(c) : (<<x>> \o c)[i] = IF i <= 1 THEN <<x>>[i] ELSE c[i - 1]
  <2>1. <<x>> \in Seq(Values) /\ Len(<<x>>) = 1  BY <1>5
  <2>2. QED  BY <1>2, <2>1, ConcatProperties
<1>7. \A i \in 1..Len(c1) : c1[i] = (<<x>> \o c)[i]
  <2>1. ASSUME NEW i \in 1..Len(c1), i # 1  PROVE c1[i] = c[i - 1]
    <3>1. /\ i \in 1..Len(q1) - 1 /\ i + 1 \in 3..Len(q1) /\ i - 1 \in 1..Len(q) - 1
          /\ (i + 1) - 1 = i /\ (i - 1) + 1 = i
      BY <1>2, <1>3, <1>4, <2>1
    <3>2. c1[i] = v[q1[i + 1]]  BY <1>3, <3>1
    <3>3. q1[i + 1] = q[(i + 1) - 1]  BY <3>1
    <3>4. c[i - 1] = v[q[(i - 1) + 1]]  BY <1>2, <3>1
    <3>5. QED  BY <3>1, <3>2, <3>3, <3>4
  <2>2. ASSUME NEW i \in 1..Len(c1)  PROVE c1[i] = (<<x>> \o c)[i]
    <3>1. (<<x>> \o c)[i] = IF i <= 1 THEN <<x>>[i] ELSE c[i - 1]  BY <1>4, <1>6
    <3>2. CASE i = 1  BY <1>5, <3>1, <3>2
    <3>3. CASE i # 1  BY <1>4, <2>1, <3>1, <3>3
    <3>4. QED  BY <3>2, <3>3, Zenon
  <2>3. QED  BY <2>2, Zenon
<1>8. c1 = <<x>> \o c  BY <1>3, <1>4, <1>6, <1>7, SeqEqual, Zenon
<1>9. QED  BY <1>8 DEF x

-----------------------------------------------------------------------------
(* The steps.                                                              *)

\* A step within an operation is before its point or after it.
SameStage(l, m) ==
  /\ m.kind = l.kind
  /\ \/ m.arg = l.arg /\ l.kind = "push" /\ l.pc \in BeforePush /\ m.pc \in BeforePush
     \/ l.kind = "push" /\ l.pc \in {"swing", "drop"} /\ m.pc \in {"swing", "drop"}
     \/ m.arg = l.arg /\ l.kind = "pushHead" /\ l.pc \in BeforeHead /\ m.pc \in BeforeHead
     \/ m.arg = l.arg /\ l.kind = "pushHead" /\ l.pc \in TailPoints /\ m.pc \in TailPoints
     \/ l.kind = "pushHead" /\ l.pc \in {"drop", "retire"} /\ m.pc \in {"drop", "retire"}
     \/ l.kind = "pop" /\ l.pc \in BeforePop /\ m.pc \in BeforePop
     \/ l.kind = "pop" /\ l.pc = "retire" /\ m.pc = "retire" /\ m.ret = l.ret

\* It leaves the operation as it is.
LEMMA SameOp ==
  ASSUME NEW l, NEW v, NEW m, NEW w, SameStage(l, m)
  PROVE  OpAt(m, w) = OpAt(l, v)
<1>0. l.pc # "idle" /\ m.pc # "idle"
  BY DEF SameStage, BeforePush, BeforeHead, BeforePop, TailPoints, HeadPoints
<1>1. /\ l.kind = "push" /\ l.pc \in BeforePush => OpAt(l, v) = Abstract!Push(l.arg)
      /\ l.kind = "push" /\ l.pc \in {"swing", "drop"} => OpAt(l, v) = Abstract!Idle
      /\ l.kind = "pushHead" /\ l.pc \in BeforeHead => OpAt(l, v) = Abstract!PushHead(l.arg, FALSE)
      /\ l.kind = "pushHead" /\ l.pc \in TailPoints => OpAt(l, v) = Abstract!PushHead(l.arg, TRUE)
      /\ l.kind = "pushHead" /\ l.pc \in {"drop", "retire"} => OpAt(l, v) = Abstract!Idle
      /\ l.kind = "pop" /\ l.pc \in BeforePop => OpAt(l, v) = Abstract!Pop
      /\ l.kind = "pop" /\ l.pc = "retire" => OpAt(l, v) = Abstract!Got(l.ret)
  BY <1>0, OpAtIs, Zenon DEF OpTable
<1>2. /\ m.kind = "push" /\ m.pc \in BeforePush => OpAt(m, w) = Abstract!Push(m.arg)
      /\ m.kind = "push" /\ m.pc \in {"swing", "drop"} => OpAt(m, w) = Abstract!Idle
      /\ m.kind = "pushHead" /\ m.pc \in BeforeHead => OpAt(m, w) = Abstract!PushHead(m.arg, FALSE)
      /\ m.kind = "pushHead" /\ m.pc \in TailPoints => OpAt(m, w) = Abstract!PushHead(m.arg, TRUE)
      /\ m.kind = "pushHead" /\ m.pc \in {"drop", "retire"} => OpAt(m, w) = Abstract!Idle
      /\ m.kind = "pop" /\ m.pc \in BeforePop => OpAt(m, w) = Abstract!Pop
      /\ m.kind = "pop" /\ m.pc = "retire" => OpAt(m, w) = Abstract!Got(m.ret)
  BY <1>0, OpAtIs, Zenon DEF OpTable
<1>3. QED  BY <1>1, <1>2, Zenon DEF SameStage

\* The steps at which no operation begins, takes effect or ends.
QuietOp(t) ==
  /\ ~ (Link(t) \/ PopCas(t) \/ PushHeadCas(t) \/ TailLink(t))
  /\ ~ (TailHasMoved(t) \/ MoveTailOnce(t) \/ TailLinkFails(t))
  /\ ~ (At(t, "retire") /\ InCall(t, "pop") /\ (Reclaim(t) \/ FoundInHazard(t)))
  /\ ~ (ReadNext(t) /\ ~ InCall(t, "push") /\ next[loc[t].cur] = Null)

\* They leave it as it is: the queue stutters.
LEMMA QuietOpStep ==
  ASSUME FifoInv, NEW t \in Threads, Step(t), QuietOp(t)
  PROVE  OpOf(t)' = OpOf(t)
<1>1. KindOK(loc[t]) /\ NodesOK(loc[t])  BY Zenon DEF FifoInv, LocalsOK
<1>2. TypeOK  BY DEF FifoInv
<1>3. loc[t].kind \in {"push", "pop", "pushHead"}  BY <1>2, LocalTypes DEF Kinds
<1>0. KindOK(loc[t])'
  <2>1. [Next]_vars  BY DEF Act, Next
  <2>2. FifoInv'  BY <2>1, FifoInvStep
  <2>3. QED  BY <2>2, Zenon DEF FifoInv, LocalsOK
<1>5. PICK x, y : /\ x = val[loc[t].nxt] /\ OpOf(t) = OpAt(loc[t], x)
                  /\ OpOf(t)' = OpAt(loc'[t], y) /\ OpTable(loc[t], x) /\ OpTable(loc'[t], y)
  BY <1>0, <1>1, Operation, Zenon
<1>4. ASSUME SameStage(loc[t], loc'[t])  PROVE OpOf(t)' = OpOf(t)
  <2>1. \A l, m, v, w : SameStage(l, m) => OpAt(m, w) = OpAt(l, v)  BY SameOp
  <2>2. OpAt(loc'[t], y) = OpAt(loc[t], x)  BY <1>4, <2>1
  <2>3. QED  BY <1>5, <2>2, Zenon
<1> USE <1>1, <1>2, <1>3
    DEF TypeOK, At, InCall, SameStage, BeforePush, BeforeHead, BeforePop, HeadPoints, TailPoints,
        PoolPoints, PushPoints
<1>6. CASE TakeFree(t)
  <2>1. PICK n \in free : Obtain(t, n)  BY <1>6, Zenon DEF TakeFree
  <2>2. loc[t].pc = "pool" \/ loc[t].pc = "alloc"  BY <1>6, Zenon DEF TakeFree, At
  <2>3. SameStage(loc[t], loc'[t])  BY <2>1, <2>2 DEF Obtain, KindOK
  <2>4. QED  BY <1>4, <2>3, Zenon
<1>7. CASE Reuse(t)
  <2>1. SameStage(loc[t], loc'[t])  BY <1>7 DEF Reuse, Obtain, KindOK
  <2>2. QED  BY <1>4, <2>1, Zenon
<1>8. CASE Recheck(t) \/ ScanSlot(t) \/ (FoundInHazard(t) /\ At(t, "recheck"))
  <2>1. CASE Recheck(t)
    <3>1. SameStage(loc[t], loc'[t])  BY <2>1 DEF Recheck, KindOK
    <3>2. QED  BY <1>4, <3>1, Zenon
  <2>2. CASE ScanSlot(t)
    <3>1. SameStage(loc[t], loc'[t])  BY <2>2 DEF ScanSlot, Scanning, KindOK
    <3>2. QED  BY <1>4, <3>1, Zenon
  <2>3. CASE FoundInHazard(t) /\ At(t, "recheck")
    <3>1. SameStage(loc[t], loc'[t])  BY <2>3 DEF FoundInHazard, KindOK
    <3>2. QED  BY <1>4, <3>1, Zenon
  <2>4. QED  BY <1>8, <2>1, <2>2, <2>3
<1>9. CASE Load(t) \/ StoreSlot(t) \/ Verified(t) \/ Reload(t)
  <2>1. SameStage(loc[t], loc'[t])
    BY <1>9 DEF Load, StoreSlot, Verified, Reload, Goto
  <2>2. QED  BY <1>4, <2>1, Zenon
<1>10. CASE MoveTail(t) \/ LinkFails(t) \/ Swing(t)
  <2>1. SameStage(loc[t], loc'[t])  BY <1>10 DEF MoveTail, LinkFails, Swing, Goto, KindOK
  <2>2. QED  BY <1>4, <2>1, Zenon
<1>11. CASE LookAtTail(t) \/ HelpTail(t) \/ StoreNextSlot(t) \/ NextVerified(t) \/ CasFails(t)
  <2>1. SameStage(loc[t], loc'[t])
    BY <1>11 DEF LookAtTail, HelpTail, StoreNextSlot, NextVerified, CasFails, Goto, KindOK
  <2>2. QED  BY <1>4, <2>1, Zenon
<1>12. CASE LoadTail(t) \/ StoreTailSlot(t) \/ TailVerified(t) \/ ReadTailNext(t)
  <2>1. SameStage(loc[t], loc'[t])
    BY <1>12 DEF LoadTail, StoreTailSlot, TailVerified, ReadTailNext, Goto, KindOK
  <2>2. QED  BY <1>4, <2>1, Zenon
<1>13. CASE ReadNext(t)
  <2>1. loc'[t].arg = loc[t].arg  BY <1>13 DEF ReadNext
  <2>2. loc[t].kind = "push" \/ next[loc[t].cur] # Null  BY <1>13, Zenon DEF QuietOp, InCall
  <2>3. SameStage(loc[t], loc'[t])  BY <1>13, <2>1, <2>2, ReadNextStep
  <2>4. QED  BY <1>4, <2>3, Zenon
<1>14. CASE PickUpValue(t)
  <2>1. /\ loc[t].kind = "pop" /\ loc[t].pc = "value" /\ loc'[t].kind = "pop"
        /\ loc'[t].pc = "drop" /\ loc'[t].chk # Null /\ loc'[t].ret = val[loc[t].nxt]
    BY <1>14 DEF PickUpValue, KindOK, NodesOK
  <2>2. /\ OpAt(loc[t], x) = Abstract!Got(x)
        /\ OpAt(loc'[t], y) = Abstract!Got(loc'[t].ret)
    BY <1>5, <2>1, Zenon DEF OpTable
  <2>3. QED  BY <1>5, <2>1, <2>2, Zenon
<1>15. CASE Drop(t)
  <2>1. CASE loc[t].chk = Null
    <3>1. /\ loc'[t] = Idle /\ loc[t].pc = "drop" /\ loc[t].kind \in {"push", "pop"}
      BY <1>15, <2>1 DEF Drop, NodesOK
    <3>2. Idle.pc = "idle" /\ Idle.kind = "pop"  BY DEF Idle
    <3>3. OpAt(loc[t], x) = Abstract!Idle
      <4>1. loc[t].kind = "push" \/ loc[t].kind = "pop"  BY <3>1
      <4>2. loc[t].pc # "idle" /\ loc[t].pc \in {"swing", "drop"}  BY <3>1
      <4>3. QED  BY <1>5, <2>1, <3>1, <4>1, <4>2, Zenon DEF OpTable
    <3>4. OpAt(loc'[t], y) = Abstract!Idle  BY <1>5, <3>1, <3>2, Zenon DEF OpTable
    <3>5. QED  BY <1>5, <3>3, <3>4, Zenon
  <2>2. CASE loc[t].chk # Null
    <3>1. /\ loc'[t].pc = "retire" /\ loc'[t].kind = loc[t].kind /\ loc'[t].ret = loc[t].ret
          /\ loc[t].pc = "drop" /\ loc[t].kind \in {"pushHead", "pop"}
      BY <1>15, <2>2 DEF Drop, NodesOK, Idle
    <3>2. CASE loc[t].kind = "pushHead"
      <4>1. SameStage(loc[t], loc'[t])  BY <3>1, <3>2
      <4>2. QED  BY <1>4, <4>1, Zenon
    <3>3. CASE loc[t].kind = "pop"
      <4>1. OpAt(loc[t], x) = Abstract!Got(loc[t].ret)
        BY <1>5, <2>2, <3>1, <3>3, Zenon DEF OpTable
      <4>2. OpAt(loc'[t], y) = Abstract!Got(loc'[t].ret)
        BY <1>5, <3>1, <3>3, Zenon DEF OpTable
      <4>3. QED  BY <1>5, <3>1, <4>1, <4>2, Zenon
    <3>4. QED  BY <3>1, <3>2, <3>3
  <2>3. QED  BY <2>1, <2>2
<1>16. CASE (FoundInHazard(t) \/ Reclaim(t)) /\ At(t, "retire")
  <2>1. /\ loc'[t] = Idle /\ loc[t].pc = "retire" /\ loc[t].kind = "pushHead"
    BY <1>16 DEF FoundInHazard, Reclaim, KindOK, QuietOp
  <2>2. Idle.pc = "idle" /\ Idle.kind = "pop"  BY DEF Idle
  <2>3. loc[t].pc # "idle" /\ loc[t].pc \in {"drop", "retire"}  BY <2>1
  <2>4. OpAt(loc[t], x) = Abstract!Idle  BY <1>5, <2>1, <2>3, Zenon DEF OpTable
  <2>5. OpAt(loc'[t], y) = Abstract!Idle  BY <1>5, <2>1, <2>2, Zenon DEF OpTable
  <2>6. QED  BY <1>5, <2>4, <2>5, Zenon
<1>17. FoundInHazard(t) => At(t, "recheck") \/ At(t, "retire")  BY Zenon DEF FoundInHazard, Scanning
<1>18. Reclaim(t) => At(t, "retire")  BY Zenon DEF Reclaim
<1>19. QED
  BY <1>6, <1>7, <1>8, <1>9, <1>10, <1>11, <1>12, <1>13, <1>14, <1>15, <1>16, <1>17, <1>18, Zenon
     DEF Step, QuietOp

\* A head that has been verified and has no successor is alone: the queue is
\* empty when its link is read.
LEMMA EmptySeen ==
  ASSUME RefInv, [Next]_vars, NEW t \in Threads, At(t, "next"), ~ InCall(t, "push"),
         next[loc[t].cur] = Null
  PROVE  Content = <<>>
<1>1. FifoInv  BY DEF RefInv
<1>2. Guarding(t) /\ Guarded(t) = loc[t].cur /\ loc[t].pc \in CurPoints
  BY DEF Guarding, Guarded, At, CurPoints, TlPoints, PushPoints, HeadPoints
<1>3. loc[t].cur \in InQueue  BY <1>1, <1>2, Zenon DEF FifoInv, Protected
<1>4. loc[t].cur = head  BY <1>1, <1>2, <1>3, Zenon DEF FifoInv, HeadOrGone
<1>5. /\ head = que[1] /\ head = que[Len(que)] /\ Len(que) \in Nat \ {0} /\ Injective(que)
  BY <1>1, <1>3, <1>4, Positions
<1>6. Len(que) = 1
  <2>1. 1 \in 1..Len(que) /\ Len(que) \in 1..Len(que)  BY <1>5
  <2>2. QED  BY <1>5, <2>1, Zenon DEF Injective
<1>7. Content \in Seq(Values) /\ Len(Content) = Len(que) - 1  BY Contents, Zenon DEF ContentIs
<1>8. Len(Content) = 0  BY <1>6, <1>7
<1>9. QED  BY <1>7, <1>8, EmptySeq, Zenon

\* What a push has at the moment it takes effect.
LEMMA OwnValue ==
  ASSUME RefInv, NEW t \in Threads, loc[t].kind # "pop",
         loc[t].pc \in BeforePush \cup BeforeHead \cup TailPoints
  PROVE  /\ loc[t].arg \in Values
         /\ loc[t].pc \in {"link", "tlLink", "cas"} =>
              loc[t].node \in Nodes /\ val[loc[t].node] = loc[t].arg
<1>1. FifoInv /\ ValueOK(t)  BY DEF RefInv
<1>2. loc[t].arg \in Values
  BY <1>1 DEF ValueOK, BeforePush, BeforeHead, TailPoints, TryPoints, PoolPoints, PushPoints, HeadPoints
<1>3. loc[t].pc \in {"link", "tlLink", "cas"} => loc[t].node \in Nodes
  BY <1>1, Pointers DEF FifoInv, TryPoints, TailPoints, PushPoints, HeadPoints
<1>4. loc[t].pc \in {"link", "tlLink", "cas"} => val[loc[t].node] = loc[t].arg
  BY <1>1, <1>3, FifoAssumption DEF ValueOK
<1>5. QED  BY <1>2, <1>3, <1>4

\* The thread's operation, and with it Op, before and after a step.
LEMMA OpStep ==
  ASSUME FifoInv, FifoInv', NEW t \in Threads, Act(t)
  PROVE  /\ \A o : OpOf(t)' = o => Op' = [Op EXCEPT ![t] = o]
         /\ Op[t] = OpOf(t)
         /\ \E x, y : /\ x = val[loc[t].nxt] /\ y = val'[loc'[t].nxt]
                      /\ OpOf(t) = OpAt(loc[t], x) /\ OpOf(t)' = OpAt(loc'[t], y)
                      /\ OpTable(loc[t], x) /\ OpTable(loc'[t], y)
<1>1. ASSUME NEW o, OpOf(t)' = o  PROVE Op' = [Op EXCEPT ![t] = o]  BY <1>1, OpBecomes
<1>2. Op[t] = OpOf(t)  BY DEF Op
<1>3. KindOK(loc[t]) /\ KindOK(loc[t])'  BY Zenon DEF FifoInv, LocalsOK
<1>4. QED  BY <1>1, <1>2, <1>3, Operation, Zenon

\* The steps at which a push takes effect, or has to start again.
LEMMA PushSteps ==
  ASSUME RefInv, NEW t \in Threads, Step(t), NEW v, v = loc[t].arg
  PROVE  /\ Link(t) => v \in Values /\ Abstract!DoPush(t, v)
         /\ TailLink(t) => v \in Values /\ Abstract!AppendLate(t, v)
         /\ PushHeadCas(t) => v \in Values /\ Abstract!DoPushHead(t, v)
         /\ TailHasMoved(t) \/ MoveTailOnce(t) \/ TailLinkFails(t) =>
              v \in Values /\ Abstract!LookAgain(t, v)
<1>1. FifoInv /\ Act(t) /\ [Next]_vars  BY DEF RefInv, Act, Next
<1>2. FifoInv'  BY <1>1, FifoInvStep
<1>3. KindOK(loc[t]) /\ loc[t].kind \in {"push", "pop", "pushHead"} /\ TypeOK
  BY <1>1, LocalTypes, Zenon DEF FifoInv, LocalsOK, Kinds
<1>4. PICK x, y : OpOf(t) = OpAt(loc[t], x) /\ OpOf(t)' = OpAt(loc'[t], y)
                  /\ OpTable(loc[t], x) /\ OpTable(loc'[t], y)
  BY <1>1, <1>2, OpStep, Zenon
<1>5. Op[t] = OpOf(t) /\ \A o : OpOf(t)' = o => Op' = [Op EXCEPT ![t] = o]
  BY <1>1, <1>2, OpStep, Zenon
<1>6. ContentIs(Content, que, val) /\ ContentIs(Content', que', val') /\ que \in Seq(Nodes)
  BY <1>1, Contents DEF FifoInv, TypeOK
<1>7. ASSUME Link(t)  PROVE v \in Values /\ Abstract!DoPush(t, v)
  <2>1. /\ loc[t].pc = "link" /\ loc[t].kind = "push" /\ val' = val
        /\ loc'[t].pc = "swing" /\ loc'[t].kind = "push" /\ que' = Append(que, loc[t].node)
    BY <1>3, <1>7 DEF Link, Goto, At, KindOK, PushPoints, TypeOK
  <2>2. loc[t].pc \in BeforePush /\ loc'[t].pc \in {"swing", "drop"}  BY <2>1 DEF BeforePush
  <2>3. v \in Values /\ loc[t].node \in Nodes /\ val[loc[t].node] = v  BY <2>1, <2>2, OwnValue
  <2>4. OpOf(t) = Abstract!Push(v)  BY <1>4, <2>1, <2>2, Zenon DEF OpTable
  <2>5. OpOf(t)' = Abstract!Idle  BY <1>4, <2>1, <2>2, Zenon DEF OpTable
  <2>6. Content' = Append(Content, v)
    <3>1. ContentIs(Content', Append(que, loc[t].node), val)  BY <1>6, <2>1, Zenon
    <3>2. QED  BY <1>6, <2>3, <3>1, ContentAppended, Zenon
  <2>7. QED
    BY <1>5, <2>3, <2>4, <2>5, <2>6, Zenon DEF Abstract!DoPush, Abstract!Become, Op, Content
<1>8. ASSUME TailLink(t)  PROVE v \in Values /\ Abstract!AppendLate(t, v)
  <2>1. /\ loc[t].pc = "tlLink" /\ loc[t].kind = "pushHead" /\ val' = val
        /\ loc'[t].pc = "drop" /\ loc'[t].kind = "pushHead" /\ que' = Append(que, loc[t].node)
    BY <1>3, <1>8 DEF TailLink, At, KindOK, TailPoints, TypeOK
  <2>2. loc[t].pc \in TailPoints /\ loc'[t].pc \in {"drop", "retire"}  BY <2>1 DEF TailPoints
  <2>3. v \in Values /\ loc[t].node \in Nodes /\ val[loc[t].node] = v  BY <2>1, <2>2, OwnValue
  <2>4. OpOf(t) = Abstract!PushHead(v, TRUE)  BY <1>4, <2>1, <2>2, Zenon DEF OpTable
  <2>5. OpOf(t)' = Abstract!Idle  BY <1>4, <2>1, <2>2, Zenon DEF OpTable
  <2>6. Content' = Append(Content, v)
    <3>1. ContentIs(Content', Append(que, loc[t].node), val)  BY <1>6, <2>1, Zenon
    <3>2. QED  BY <1>6, <2>3, <3>1, ContentAppended, Zenon
  <2>7. QED
    BY <1>5, <2>3, <2>4, <2>5, <2>6, Zenon
       DEF Abstract!AppendLate, Abstract!Become, Op, Content
<1>9. ASSUME PushHeadCas(t)  PROVE v \in Values /\ Abstract!DoPushHead(t, v)
  <2>1. /\ loc[t].pc = "cas" /\ loc[t].kind = "pushHead"
        /\ loc'[t].pc = "drop" /\ loc'[t].kind = "pushHead"
    BY <1>3, <1>9 DEF PushHeadCas, At, InCall, TypeOK
  <2>2. loc[t].pc \in BeforeHead /\ loc'[t].pc \in {"drop", "retire"}
    BY <2>1 DEF BeforeHead, HeadPoints
  <2>3. v \in Values /\ loc[t].node \in Nodes /\ val[loc[t].node] = v  BY <2>1, <2>2, OwnValue
  <2>4. OpOf(t) = Abstract!PushHead(v, FALSE)  BY <1>4, <2>1, <2>2, Zenon DEF OpTable
  <2>5. OpOf(t)' = Abstract!Idle  BY <1>4, <2>1, <2>2, Zenon DEF OpTable
  <2>6. Content' = <<v>> \o Content
    <3>1. /\ Len(que') = Len(que) + 1 /\ que'[2] = loc[t].node /\ val' = val
          /\ \A i \in 3..Len(que') : que'[i] = que[i - 1]
      BY <1>1, <1>9, PushHeadQueue, Zenon
    <3>2. ContentIs(Content', que', val)  BY <1>6, <3>1, Zenon
    <3>3. Content' = <<val[que'[2]]>> \o Content  BY <1>6, <3>1, <3>2, ContentPushed, Zenon
    <3>4. QED  BY <2>3, <3>1, <3>3, Zenon
  <2>7. QED
    BY <1>5, <2>3, <2>4, <2>5, <2>6, Zenon DEF Abstract!DoPushHead, Abstract!Become, Op, Content
<1>10. ASSUME TailHasMoved(t) \/ MoveTailOnce(t) \/ TailLinkFails(t)
       PROVE  v \in Values /\ Abstract!LookAgain(t, v)
  <2>1. /\ loc[t].pc \in TailPoints /\ StartAgain(t) /\ que' = que
    BY <1>10 DEF TailHasMoved, MoveTailOnce, TailLinkFails, At, TailPoints
  <2>2. /\ loc[t].kind = "pushHead"
        /\ loc'[t].pc = "verify" /\ loc'[t].kind = "pushHead" /\ loc'[t].arg = v
    BY <1>3, <2>1 DEF StartAgain, KindOK, TailPoints, TypeOK
  <2>3. loc'[t].pc \in BeforeHead /\ v \in Values  BY <2>1, <2>2, OwnValue DEF BeforeHead
  <2>4. OpOf(t) = Abstract!PushHead(v, TRUE)  BY <1>4, <2>1, <2>2, Zenon DEF OpTable
  <2>5. OpOf(t)' = Abstract!PushHead(v, FALSE)  BY <1>4, <2>2, <2>3, Zenon DEF OpTable
  <2>6. Content' = Content  BY <1>1, <2>1, ContentKept, Zenon
  <2>7. QED
    BY <1>5, <2>3, <2>4, <2>5, <2>6, Zenon DEF Abstract!LookAgain, Abstract!Become, Op, Content
<1>11. QED  BY <1>7, <1>8, <1>9, <1>10

\* The steps at which a pop takes effect, or returns what it has, and at
\* which push_head finds the queue empty.
LEMMA PopSteps ==
  ASSUME RefInv, NEW t \in Threads, Step(t)
  PROVE  /\ PopCas(t) => Abstract!DoPop(t)
         /\ ReadNext(t) /\ InCall(t, "pop") /\ next[loc[t].cur] = Null => Abstract!DoPopEmpty(t)
         /\ ReadNext(t) /\ InCall(t, "pushHead") /\ next[loc[t].cur] = Null =>
              \E v \in Values : Abstract!SeeEmpty(t, v)
         /\ (Reclaim(t) \/ FoundInHazard(t)) /\ At(t, "retire") /\ InCall(t, "pop") =>
              \E v \in Values : Abstract!Return(t, v)
<1>1. FifoInv /\ Act(t) /\ [Next]_vars /\ ValueOK(t)  BY DEF RefInv, Act, Next
<1>2. FifoInv'  BY <1>1, FifoInvStep
<1>3. KindOK(loc[t]) /\ NodesOK(loc[t]) /\ TypeOK  BY <1>1, Zenon DEF FifoInv, LocalsOK
<1>4. PICK x, y : y = val'[loc'[t].nxt] /\ OpOf(t) = OpAt(loc[t], x) /\ OpOf(t)' = OpAt(loc'[t], y)
                  /\ OpTable(loc[t], x) /\ OpTable(loc'[t], y)
  BY <1>1, <1>2, OpStep, Zenon
<1>5. Op[t] = OpOf(t) /\ \A o : OpOf(t)' = o => Op' = [Op EXCEPT ![t] = o]
  BY <1>1, <1>2, OpStep, Zenon
<1>6. ASSUME PopCas(t)  PROVE Abstract!DoPop(t)
  <2>1. /\ loc[t].pc = "cas" /\ loc[t].kind = "pop" /\ loc'[t].nxt = loc[t].nxt
        /\ loc'[t].pc = "value" /\ loc'[t].kind = "pop"
    BY <1>3, <1>6 DEF PopCas, At, InCall, TypeOK
  <2>2. loc[t].pc \in BeforePop  BY <2>1 DEF BeforePop, HeadPoints
  <2>3. /\ Len(que') = Len(que) - 1 /\ \A i \in 1..Len(que') : que'[i] = que[i + 1]
        /\ val' = val /\ loc[t].nxt = que[2]
    BY <1>1, <1>6, PopStep, CasStep, Zenon
  <2>4. ContentIs(Content, que, val) /\ ContentIs(Content', que', val)
    BY <1>1, <2>3, Contents, Zenon
  <2>5. Content # <<>> /\ Content' = Tail(Content) /\ Head(Content) = val[que[2]]
    BY <2>3, <2>4, ContentTail, Zenon
  <2>6. y = Head(Content)  BY <1>4, <2>1, <2>3, <2>5, Zenon
  <2>7. OpOf(t) = Abstract!Pop  BY <1>4, <2>1, <2>2, Zenon DEF OpTable
  <2>8. OpOf(t)' = Abstract!Got(Head(Content))  BY <1>4, <2>1, <2>6, Zenon DEF OpTable
  <2>9. QED  BY <1>5, <2>5, <2>7, <2>8, Zenon DEF Abstract!DoPop, Abstract!Become, Op, Content
<1>7. ASSUME ReadNext(t), ~ InCall(t, "push"), next[loc[t].cur] = Null
      PROVE  Content = <<>> /\ Content' = Content
  <2>1. At(t, "next") /\ que' = que  BY <1>7, Zenon DEF ReadNext
  <2>2. Content = <<>>  BY <1>1, <1>7, <2>1, EmptySeen, Zenon
  <2>3. QED  BY <1>1, <2>1, <2>2, ContentKept, Zenon
<1>8. ASSUME ReadNext(t), InCall(t, "pop"), next[loc[t].cur] = Null
      PROVE  Abstract!DoPopEmpty(t)
  <2>1. /\ loc[t].pc = "next" /\ loc[t].kind = "pop" /\ loc'[t].chk = loc[t].chk
        /\ loc'[t].pc = "drop" /\ loc'[t].kind = "pop"
    BY <1>3, <1>8, ReadNextStep DEF InCall
  <2>2. loc[t].pc \in BeforePop /\ loc'[t].chk = Null  BY <1>3, <2>1 DEF BeforePop, NodesOK
  <2>3. OpOf(t) = Abstract!Pop  BY <1>4, <2>1, <2>2, Zenon DEF OpTable
  <2>4. OpOf(t)' = Abstract!Idle  BY <1>4, <2>1, <2>2, Zenon DEF OpTable
  <2>5. Content = <<>> /\ Content' = Content
    <3>1. ~ InCall(t, "push")  BY <2>1 DEF InCall
    <3>2. QED  BY <1>7, <1>8, <3>1, Zenon
  <2>6. QED  BY <1>5, <2>3, <2>4, <2>5, Zenon DEF Abstract!DoPopEmpty, Abstract!Become, Op, Content
<1>9. ASSUME ReadNext(t), InCall(t, "pushHead"), next[loc[t].cur] = Null
      PROVE  \E v \in Values : Abstract!SeeEmpty(t, v)
  <2>1. /\ loc[t].pc = "next" /\ loc[t].kind = "pushHead" /\ loc'[t].arg = loc[t].arg
        /\ loc'[t].pc = "tlLoad" /\ loc'[t].kind = "pushHead"
    <3>1. loc'[t].arg = loc[t].arg  BY <1>3, <1>9 DEF ReadNext, TypeOK
    <3>2. QED  BY <1>3, <1>9, <3>1, ReadNextStep DEF InCall
  <2>2. loc[t].pc \in BeforeHead /\ loc'[t].pc \in TailPoints /\ loc[t].kind # "pop"
    BY <2>1 DEF BeforeHead, TailPoints
  <2>3. PICK v \in Values : v = loc[t].arg  BY <2>2, OwnValue
  <2>4. OpOf(t) = Abstract!PushHead(v, FALSE)  BY <1>4, <2>1, <2>2, <2>3, Zenon DEF OpTable
  <2>5. OpOf(t)' = Abstract!PushHead(v, TRUE)  BY <1>4, <2>1, <2>2, <2>3, Zenon DEF OpTable
  <2>6. Content = <<>> /\ Content' = Content
    <3>1. ~ InCall(t, "push")  BY <2>1 DEF InCall
    <3>2. QED  BY <1>7, <1>9, <3>1, Zenon
  <2>7. Abstract!SeeEmpty(t, v)
    BY <1>5, <2>4, <2>5, <2>6, Zenon DEF Abstract!SeeEmpty, Abstract!Become, Op, Content
  <2>8. QED  BY <2>3, <2>7, Zenon
<1>10. ASSUME Reclaim(t) \/ FoundInHazard(t), At(t, "retire"), InCall(t, "pop")
       PROVE  \E v \in Values : Abstract!Return(t, v)
  <2>1. /\ loc[t].pc = "retire" /\ loc[t].kind = "pop" /\ loc'[t] = Idle /\ que' = que
    BY <1>3, <1>10 DEF Reclaim, FoundInHazard, At, InCall, TypeOK
  <2>2. loc'[t].pc = "idle"  BY <2>1 DEF Idle
  <2>3. loc[t].ret \in Values  BY <1>1, <1>3, <2>1 DEF ValueOK, NodesOK
  <2>4. PICK v \in Values : v = loc[t].ret  BY <2>3
  <2>5. OpOf(t) = Abstract!Got(v)  BY <1>4, <2>1, <2>4, Zenon DEF OpTable
  <2>6. OpOf(t)' = Abstract!Idle  BY <1>4, <2>2, Zenon DEF OpTable
  <2>7. Content' = Content  BY <1>1, <2>1, ContentKept, Zenon
  <2>8. Abstract!Return(t, v)
    BY <1>5, <2>5, <2>6, <2>7, Zenon DEF Abstract!Return, Abstract!Become, Op, Content
  <2>9. QED  BY <2>4, <2>8, Zenon
<1>11. QED  BY <1>6, <1>8, <1>9, <1>10

\* The step at which a call begins.
LEMMA CallStep ==
  ASSUME RefInv, NEW t \in Threads, NEW kind \in Kinds, Call(t, kind)
  PROVE  Abstract!Next
<1>1. FifoInv /\ Act(t) /\ [Next]_vars  BY Zenon DEF RefInv, Act, Next
<1>2. FifoInv'  BY <1>1, FifoInvStep
<1>3. KindOK(loc[t]) /\ TypeOK  BY <1>1, Zenon DEF FifoInv, LocalsOK
<1>4. PICK x, y : OpOf(t) = OpAt(loc[t], x) /\ OpOf(t)' = OpAt(loc'[t], y)
                  /\ OpTable(loc[t], x) /\ OpTable(loc'[t], y)
  BY <1>1, <1>2, OpStep, Zenon
<1>5. Op[t] = OpOf(t) /\ \A o : OpOf(t)' = o => Op' = [Op EXCEPT ![t] = o]
  BY <1>1, <1>2, OpStep, Zenon
<1>6. OpOf(t) = Abstract!Idle
  <2>1. loc[t].pc = "idle"  BY Zenon DEF Call, At
  <2>2. QED  BY <1>4, <2>1, Zenon DEF OpTable
<1>7. Content' = Content
  <2>1. que' = que  BY DEF Call
  <2>2. QED  BY <1>1, <2>1, ContentKept, Zenon
<1>8. CASE kind = "pop"
  <2>1. loc'[t].pc = "load" /\ loc'[t].kind = "pop"  BY <1>3, <1>8 DEF Call, TypeOK
  <2>2. loc'[t].pc \in BeforePop  BY <2>1 DEF BeforePop
  <2>3. OpOf(t)' = Abstract!Pop  BY <1>4, <2>1, <2>2, Zenon DEF OpTable
  <2>4. Abstract!Call(t, Abstract!Pop)
    BY <1>5, <1>6, <1>7, <2>3, Zenon DEF Abstract!Call, Abstract!Become, Op, Content
  <2>5. QED  BY <2>4, Zenon DEF Abstract!Next
<1>9. CASE kind # "pop"
  <2>1. PICK v \in Gives[t] : loc' = [loc EXCEPT ![t].pc = "pool", ![t].kind = kind, ![t].arg = v]
    BY <1>9, Zenon DEF Call
  <2>2. v \in Values  BY <2>1, FifoAssumption
  <2>3. loc'[t].pc = "pool" /\ loc'[t].kind = kind /\ loc'[t].arg = v  BY <1>3, <2>1 DEF TypeOK
  <2>4. loc'[t].pc \in BeforePush /\ loc'[t].pc \in BeforeHead  BY <2>3 DEF BeforePush, BeforeHead
  <2>5. kind = "push" \/ kind = "pushHead"  BY <1>9 DEF Kinds
  <2>6. CASE kind = "push"
    <3>1. OpOf(t)' = Abstract!Push(v)  BY <1>4, <2>3, <2>4, <2>6, Zenon DEF OpTable
    <3>2. Abstract!Call(t, Abstract!Push(v))
      BY <1>5, <1>6, <1>7, <3>1, Zenon DEF Abstract!Call, Abstract!Become, Op, Content
    <3>3. QED  BY <2>2, <3>2, Zenon DEF Abstract!Next
  <2>7. CASE kind = "pushHead"
    <3>1. OpOf(t)' = Abstract!PushHead(v, FALSE)  BY <1>4, <2>3, <2>4, <2>7, Zenon DEF OpTable
    <3>2. Abstract!Call(t, Abstract!PushHead(v, FALSE))
      BY <1>5, <1>6, <1>7, <3>1, Zenon DEF Abstract!Call, Abstract!Become, Op, Content
    <3>3. QED  BY <2>2, <3>2, Zenon DEF Abstract!Next
  <2>8. QED  BY <2>5, <2>6, <2>7
<1>10. QED  BY <1>8, <1>9

\* Every step of the queue is a step of the abstract one, or a stutter.
LEMMA RefinementStep ==
  ASSUME RefInv, NEW t \in Threads, Act(t)
  PROVE  Abstract!Next \/ UNCHANGED <<Content, Op>>
<1>1. FifoInv  BY DEF RefInv
<1>2. ASSUME NEW kind \in Kinds, Call(t, kind)  PROVE Abstract!Next  BY <1>2, CallStep
<1>3. ASSUME Step(t)  PROVE Abstract!Next \/ UNCHANGED <<Content, Op>>
  <2>1. PICK v : v = loc[t].arg  OBVIOUS
  <2>2. CASE Link(t) \/ TailLink(t) \/ PushHeadCas(t)
    <3>1. v \in Values /\ (Abstract!DoPush(t, v) \/ Abstract!AppendLate(t, v)
                            \/ Abstract!DoPushHead(t, v))
      BY <1>3, <2>1, <2>2, PushSteps, Zenon
    <3>2. QED  BY <3>1, Zenon DEF Abstract!Next
  <2>3. CASE TailHasMoved(t) \/ MoveTailOnce(t) \/ TailLinkFails(t)
    <3>1. v \in Values /\ Abstract!LookAgain(t, v)  BY <1>3, <2>1, <2>3, PushSteps, Zenon
    <3>2. QED  BY <3>1, Zenon DEF Abstract!Next
  <2>4. CASE PopCas(t)
    <3>1. Abstract!DoPop(t)  BY <1>3, <2>4, PopSteps, Zenon
    <3>2. QED  BY <3>1, Zenon DEF Abstract!Next
  <2>5. CASE At(t, "retire") /\ InCall(t, "pop") /\ (Reclaim(t) \/ FoundInHazard(t))
    <3>1. \E w \in Values : Abstract!Return(t, w)  BY <1>3, <2>5, PopSteps, Zenon
    <3>2. QED  BY <3>1, Zenon DEF Abstract!Next
  <2>6. CASE ReadNext(t) /\ ~ InCall(t, "push") /\ next[loc[t].cur] = Null
    <3>1. InCall(t, "pop") \/ InCall(t, "pushHead")
      BY <1>1, <2>6, LocalTypes DEF InCall, Kinds, FifoInv
    <3>2. Abstract!DoPopEmpty(t) \/ \E w \in Values : Abstract!SeeEmpty(t, w)
      BY <1>3, <2>6, <3>1, PopSteps, Zenon
    <3>3. QED  BY <3>2, Zenon DEF Abstract!Next
  <2>7. CASE QuietOp(t)
    <3>1. OpOf(t)' = OpOf(t)  BY <1>1, <1>3, <2>7, QuietOpStep, Zenon
    <3>2. \A u \in Threads : OpOf(u)' = OpOf(u)  BY <1>1, <3>1, OthersOp, Zenon
    <3>3. Op' = Op  BY <3>2 DEF Op
    <3>4. que' = que
      <4>1. ~ (Link(t) \/ TailLink(t) \/ PopCas(t) \/ PushHeadCas(t))  BY <2>7, Zenon DEF QuietOp
      <4>2. QED  BY <4>1, Changes, Zenon
    <3>5. Content' = Content  BY <1>1, <3>4, ContentKept, Zenon
    <3>6. QED  BY <3>3, <3>5, Zenon
  <2>8. QED  BY <2>2, <2>3, <2>4, <2>5, <2>6, <2>7, Zenon DEF QuietOp
<1>4. QED  BY <1>2, <1>3, Zenon DEF Act

\* The constructor's queue is empty, and no thread is in a call.
LEMMA RefinementInit == Init => Abstract!Init
<1> SUFFICES ASSUME Init  PROVE Abstract!Init
  OBVIOUS
<1>1. Content = <<>>
  <2>1. Len(que) = 1  BY DEF Init
  <2>2. que \in Seq(Nodes) /\ Len(que) > 0 /\ QueueValues
    BY <2>1, RefInvInit DEF RefInv, FifoInv, TypeOK
  <2>3. ContentIs([i \in 1..Len(que) - 1 |-> val[que[i + 1]]], que, val)
    BY <2>2, ContentOf DEF QueueValues
  <2>4. Content \in Seq(Values) /\ Len(Content) = Len(que) - 1
    BY <2>3, Zenon DEF ContentIs, Content
  <2>5. Len(Content) = 0  BY <2>1, <2>4
  <2>6. QED  BY <2>4, <2>5, EmptySeq, Zenon
<1>2. \A t \in Threads : OpOf(t) = Abstract!Idle
  <2>1. ASSUME NEW t \in Threads  PROVE OpOf(t) = Abstract!Idle
    <3>1. loc[t] = Idle  BY DEF Init
    <3>2. Idle.pc = "idle" /\ Idle.kind = "pop"  BY DEF Idle
    <3>3. OpTable(Idle, val[Idle.nxt])  BY <3>2, OpAtIs, Zenon
    <3>4. OpOf(t) = OpAt(Idle, val[Idle.nxt])  BY <3>1, OpIs, Zenon
    <3>5. QED  BY <3>2, <3>3, <3>4, Zenon DEF OpTable
  <2>2. QED  BY <2>1
<1>3. QED  BY <1>1, <1>2 DEF Abstract!Init

\* The queue implements AtomicFifo: every push appends, every pop takes the
\* first value or finds none, and every push_head puts its value first or,
\* once it has seen the queue empty, appends it behind whatever is there by
\* then, each at one moment between its call and its return.
THEOREM QueueIsAtomicFifo == Spec => IsAtomicFifo
<1>1. RefInv /\ [Next]_vars => [Abstract!Next]_<<Content, Op>>
  <2>1. ASSUME RefInv, NEW t \in Threads, Act(t)  PROVE [Abstract!Next]_<<Content, Op>>
    BY <2>1, RefinementStep
  <2>2. ASSUME UNCHANGED vars  PROVE UNCHANGED <<Content, Op>>
    <3>1. UNCHANGED <<val, que, loc>>  BY <2>2 DEF vars, memVars
    <3>2. QED  BY <3>1 DEF Content, Op, OpOf
  <2>3. QED  BY <2>1, <2>2 DEF Next, Act
<1>2. RefInv /\ [Next]_vars => [Abstract!Next]_Abstract!vars
  BY <1>1 DEF Abstract!vars, Content, Op
<1>3. RefInv /\ [Next]_vars => RefInv'  BY RefInvStep
<1>4. QED  BY <1>2, <1>3, RefInvInit, RefinementInit, PTL DEF Spec, IsAtomicFifo, Abstract!Spec
=============================================================================
