----------------------------- MODULE LfList_proofs -----------------------------
(***************************************************************************)
(* Proofs about LfList, for every number of threads, nodes, values and     *)
(* calls: the structure of the list, the safety of its reclamation, and    *)
(* that every call takes effect in one step of AtomicList.                 *)
(***************************************************************************)
EXTENDS LfList, FiniteSetTheorems, SequenceTheorems, TLAPS

-----------------------------------------------------------------------------
(* The inductive invariant.                                                *)

Inserters == {"insert", "pushFront"}
Takers == {"remove", "popFront", "popBack"}
\* The control points at which a call has a predecessor, a node, a successor.
PoolPoints == {"pool", "alloc", "recheck"}
ClearPoints == {"next", "set", "head"}
WalkPoints == {"read", "nxtSlot", "nxtVerify"}
CurPoints == {"test", "look", "purge", "mark", "unlink", "value"} \cup ClearPoints \cup WalkPoints
PrevPoints == {"slot", "verify", "insBefore", "insNext"} \cup CurPoints
NxtPoints == {"nxtSlot", "nxtVerify", "test", "look", "purge", "set", "head"}

\* Which control points a call of each kind comes to.
KindOK(l) ==
  /\ l.pc \in PoolPoints => l.kind \in Inserters /\ l.arg \in Values
  /\ l.pc = "insBefore" => l.kind = "insert"
  /\ l.pc = "insNext" => l.kind = "pushFront"
  /\ l.pc = "mark" => l.kind \in Takers \cup {"removeAll"}
  /\ l.pc = "value" => l.kind \in Takers
  /\ l.pc = "unlink" => l.kind = "removeAll"
  /\ l.pc \in ClearPoints => l.kind = "clear"
  /\ l.pc \in WalkPoints \cup {"test", "look", "purge"} => l.kind # "clear"
  /\ l.kind = "walk" => l.pc \in {"idle", "load", "slot", "verify", "drop"} \cup WalkPoints
  /\ l.pc = "test" => l.kind = "popBack"
  /\ l.kind \in {"pushFront", "popFront"} /\ l.pc # "idle" => l.pred = Values
  /\ l.kind = "popBack" /\ l.pc # "idle" => l.pred = {}

\* Which nodes a call has at each control point.
NodesOK(l) ==
  /\ l.chk # Null <=> l.pc \in {"recheck", "retire"}
  /\ l.node # Null <=> l.kind \in Inserters /\ l.pc \notin PoolPoints \cup {"idle", "drop"}
  /\ l.node # Null => l.node # l.chk

\* A pointer that leads somewhere: a node that has been linked once, or the end.
Known(p, nx) == p = End \/ (p \in Nodes /\ nx[p].p # Null)

\* Where a call has set its pointers.
PointersOK(l, nx) ==
  /\ l.pc \in PrevPoints => l.prev \in Holders /\ Known(l.cur, nx)
  /\ l.pc \in {"slot", "verify"} \cup ClearPoints => l.prev = HeadNode
  /\ l.pc \in CurPoints => l.cur \in Nodes
  /\ l.pc \in NxtPoints => Known(l.nxt, nx)
  /\ l.pc = "verify" /\ l.kind = "clear" => l.cur # End

\* What a call knows of the links: where a node that is being removed leads,
\* and that the search has passed by prev for a reason that is still one, if
\* prev is not marked.
LinksOK(l, nx, vl) ==
  /\ l.pc = "purge" => nx[l.cur] = [p |-> l.nxt, m |-> TRUE]
  /\ l.pc = "unlink" => nx[l.cur].m
  /\ l.pc \in {"set", "head"} => nx[l.cur].p = l.nxt
  /\ l.pc = "head" => nx[l.cur].m
  /\ l.kind # "walk" /\ l.pc \in PrevPoints /\ l.prev # HeadNode =>
       nx[l.prev].m \/ vl[l.prev] \notin l.pred

\* The hazard pointers that a thread has set are in its slots.
SlotsOK(t, l, sl) ==
  /\ l.pc = "verify" => sl[<<t, "cur">>] = l.cur
  /\ l.pc = "nxtVerify" => sl[<<t, "nxt">>] = l.nxt

\* A node in a verified hazard pointer is not free, nobody has it to link it
\* anew, and whoever has taken it out will still see the slot.
Kept(t, use, n, fr, lc) ==
  /\ n \notin fr
  /\ \A u \in Threads : /\ n # lc[u].node
                        /\ n = lc[u].chk => u # t /\ <<t, use>> \in lc[u].unseen
Guards(t, use, n, sl, fr, lc) ==
  n \in Nodes => sl[<<t, use>>] = n /\ Kept(t, use, n, fr, lc)
GuardsOK(t, l, sl, fr, lc) ==
  l.kind # "walk" =>
    /\ l.pc \in PrevPoints => Guards(t, "prev", l.prev, sl, fr, lc)
    /\ l.pc \in CurPoints \cup {"insBefore"} => Guards(t, "cur", l.cur, sl, fr, lc)
    /\ l.pc \in {"test", "look"} => Guards(t, "nxt", l.nxt, sl, fr, lc)

LocalOK(t, l, nx, vl, sl, fr, lc) ==
  /\ KindOK(l) /\ NodesOK(l) /\ PointersOK(l, nx) /\ LinksOK(l, nx, vl)
  /\ SlotsOK(t, l, sl) /\ GuardsOK(t, l, sl, fr, lc)
LocalsOK == \A t \in Threads : LocalOK(t, loc[t], next, val, slot, free, loc)

\* OnePlace in the form in which it is inductive: nothing is in two places,
\* and nothing is lost.
Distinct == \A i, j \in 1..Len(lst) : lst[i] = lst[j] => i = j
Apart ==
  /\ Linked \cap free = {}
  /\ \A t \in Threads :
       /\ Held(t) \cap (Linked \cup free) = {}
       /\ limbo[t] \cap (Linked \cup free) = {}
       /\ \A u \in Threads :
            /\ limbo[t] \cap Held(u) = {}
            /\ t # u => Held(t) \cap Held(u) = {} /\ limbo[t] \cap limbo[u] = {}
Complete ==
  \A n \in Nodes : \/ n \in Linked \cup free
                   \/ \E t \in Threads : n \in Held(t) \cup limbo[t]

\* A node that has been unlinked is marked until it is used again.
GoneMarked ==
  \A t \in Threads : /\ loc[t].chk # Null => next[loc[t].chk].m
                     /\ \A n \in limbo[t] : next[n].m
\* Links, followed from a node or not, lead to nodes that have been linked.
LinksKnown == \A h \in Holders : next[h].p # Null => Known(next[h].p, next)
\* A node that is not free has a value.
HaveValues == \A n \in Nodes \ free : val[n] \in Values

\* Either nobody clears or nobody changes the list behind its first node.
Does(t, kind) == calls[t][kind] > 0 \/ (loc[t].kind = kind /\ ~At(t, "idle"))
OneKind == \/ \A t \in Threads : ~Does(t, "clear")
           \/ \A t \in Threads, k \in Rough : ~Does(t, k)

ListInv ==
  /\ TypeOK /\ LocalsOK /\ ChainIsList /\ Distinct /\ Apart /\ Complete
  /\ GoneMarked /\ LinksKnown /\ HaveValues /\ OneKind

-----------------------------------------------------------------------------
(* Types, and what a step leaves alone.                                    *)

NodeOrNull == Nodes \cup {Null}
NodeOrEnd == Nodes \cup {End, Null}
HolderOrNull == Holders \cup {Null}
ValueOrNull == Values \cup {Null}
Record == [pc : Points, kind : Kinds, arg : ValueOrNull, pred : Preds,
           node : NodeOrNull, prev : HolderOrNull, cur : NodeOrEnd, nxt : NodeOrEnd,
           mark : BOOLEAN, chk : NodeOrNull, ret : ValueOrNull, unseen : SUBSET Slots]

LEMMA RecordIs == TypeOK => loc \in [Threads -> Record]
  BY Zenon DEF TypeOK, Record, NodeOrNull, NodeOrEnd, HolderOrNull, ValueOrNull

\* What is null, an end or a node is told apart.
LEMMA Distinctions ==
  /\ Null \notin Nodes /\ End \notin Nodes /\ HeadNode \notin Nodes
  /\ Null # End /\ HeadNode # Null /\ HeadNode # End /\ Null \notin Values
  /\ Null \in NodeOrNull /\ Null \in NodeOrEnd /\ Null \in HolderOrNull /\ Null \in ValueOrNull
  /\ End \in NodeOrEnd /\ HeadNode \in Holders /\ HeadNode \in HolderOrNull
  /\ Nodes \subseteq Holders /\ Nodes \subseteq NodeOrNull /\ Nodes \subseteq NodeOrEnd
  /\ {} \in SUBSET Slots /\ {} \in Preds /\ Values \in Preds
  BY ListAssumption DEF NodeOrNull, NodeOrEnd, HolderOrNull, ValueOrNull, Holders, Preds

\* The fields of a record of locals.
LEMMA Fields == \A q \in Record :
  /\ q.pc \in Points /\ q.kind \in Kinds /\ q.arg \in ValueOrNull /\ q.pred \in Preds
  /\ q.node \in NodeOrNull /\ q.prev \in HolderOrNull /\ q.cur \in NodeOrEnd
  /\ q.nxt \in NodeOrEnd /\ q.mark \in BOOLEAN /\ q.chk \in NodeOrNull
  /\ q.ret \in ValueOrNull /\ q.unseen \in SUBSET Slots
  BY DEF Record

\* A record of the locals stays one when a field is set, and keeps the others.
LEMMA Setters == \A q \in Record :
  /\ \A x \in Points : [q EXCEPT !.pc = x] \in Record
  /\ \A x \in Kinds : [q EXCEPT !.kind = x] \in Record
  /\ \A x \in ValueOrNull : [q EXCEPT !.arg = x] \in Record
  /\ \A x \in Preds : [q EXCEPT !.pred = x] \in Record
  /\ \A x \in NodeOrNull : [q EXCEPT !.node = x] \in Record
  /\ \A x \in HolderOrNull : [q EXCEPT !.prev = x] \in Record
  /\ \A x \in NodeOrEnd : [q EXCEPT !.cur = x] \in Record
  /\ \A x \in NodeOrEnd : [q EXCEPT !.nxt = x] \in Record
  /\ \A x \in BOOLEAN : [q EXCEPT !.mark = x] \in Record
  /\ \A x \in NodeOrNull : [q EXCEPT !.chk = x] \in Record
  /\ \A x \in ValueOrNull : [q EXCEPT !.ret = x] \in Record
  /\ \A x \in SUBSET Slots : [q EXCEPT !.unseen = x] \in Record
  BY DEF Record

\* The names of the control points and of the kinds are some.
LEMMA EveryPoint == \A p \in
    {"idle", "pool", "alloc", "recheck", "retire", "load", "slot", "verify", "read",
     "nxtSlot", "nxtVerify", "test", "look", "purge", "insBefore", "insNext", "mark",
     "unlink", "value", "next", "set", "head", "drop"} : p \in Points
  BY DEF Points
LEMMA EveryUse == "prev" \in Uses /\ "cur" \in Uses /\ "nxt" \in Uses
  BY DEF Uses

LEMMA IdleType == Idle \in Record
  BY EveryPoint, Distinctions DEF Record, Idle, Kinds

-----------------------------------------------------------------------------
(* What a step of a thread leaves to the others.                           *)

LinkType == [p : NodeOrEnd, m : BOOLEAN]
LEMMA LinkTypes ==
  ASSUME TypeOK
  PROVE  /\ next \in [Holders -> LinkType] /\ val \in [Nodes -> ValueOrNull]
         /\ slot \in [Slots -> Pointers] /\ lst \in Seq(Nodes)
         /\ \A h \in Holders : next[h] \in LinkType /\ next[h].p \in NodeOrEnd /\ next[h].m \in BOOLEAN
  BY DEF TypeOK, LinkType, NodeOrEnd, ValueOrNull

\* The locals of one thread are set.
LEMMA Became ==
  ASSUME TypeOK, NEW t \in Threads, NEW q \in Record, loc' = [loc EXCEPT ![t] = q]
  PROVE  /\ loc' \in [Threads -> Record] /\ loc'[t] = q
         /\ \A u \in Threads : u # t => loc'[u] = loc[u]
  BY RecordIs

OthersSlots(t) == \A s \in Slots : s[1] # t => slot'[s] = slot[s]
Stable(n) == (next[n].m => next'[n] = next[n]) /\ val'[n] = val[n]

\* What another thread knows, if the nodes that it guards stay guarded and what
\* it knows of them stays true.
LEMMA Others ==
  ASSUME ListInv, NEW t \in Threads, NEW u \in Threads, loc'[u] = loc[u], t # u, OthersSlots(t),
         \A use \in Uses, n \in Nodes :
           Guards(u, use, n, slot, free, loc) => Guards(u, use, n, slot', free', loc') /\ Stable(n),
         \A p \in NodeOrEnd : Known(p, next) => Known(p, next'),
         loc[u].pc \in {"set", "head"} => next'[loc[u].cur].p = next[loc[u].cur].p
  PROVE  LocalOK(u, loc'[u], next', val', slot', free', loc')
<1> DEFINE l == loc[u]
<1>1. l \in Record  BY RecordIs DEF ListInv
<1>2. LocalOK(u, l, next, val, slot, free, loc)  BY Zenon DEF ListInv, LocalsOK
<1>3. /\ l.pc \in Points /\ l.prev \in HolderOrNull /\ l.cur \in NodeOrEnd /\ l.nxt \in NodeOrEnd
  BY <1>1, Fields, Zenon
<1>4. \A use \in Uses : slot'[<<u, use>>] = slot[<<u, use>>]
  <2>1. ASSUME NEW use \in Uses  PROVE slot'[<<u, use>>] = slot[<<u, use>>]
    <3>1. <<u, use>> \in Slots /\ <<u, use>>[1] = u  BY DEF Slots
    <3>2. QED  BY <3>1, Zenon DEF OthersSlots
  <2>2. QED  BY <2>1, Zenon
<1> HIDE DEF l
<1>5. KindOK(l) /\ NodesOK(l)  BY <1>2, Zenon DEF LocalOK
<1>6. PointersOK(l, next')
  <2>1. PointersOK(l, next)  BY <1>2, Zenon DEF LocalOK
  <2>2. QED  BY <1>3, <2>1 DEF PointersOK
<1>7. SlotsOK(u, l, slot')
  <2>1. SlotsOK(u, l, slot)  BY <1>2, Zenon DEF LocalOK
  <2>2. QED  BY <1>4, <2>1, EveryUse DEF SlotsOK
<1>8. GuardsOK(u, l, slot, free, loc)  BY <1>2, Zenon DEF LocalOK
<1>9. GuardsOK(u, l, slot', free', loc')
  <2>1. \A use \in Uses : \A n : Guards(u, use, n, slot, free, loc) => Guards(u, use, n, slot', free', loc')
    <3>1. ASSUME NEW use \in Uses, NEW n, Guards(u, use, n, slot, free, loc)
          PROVE  Guards(u, use, n, slot', free', loc')
      <4>1. CASE n \in Nodes  BY <3>1, <4>1, Zenon
      <4>2. CASE n \notin Nodes  BY <4>2, Zenon DEF Guards
      <4>3. QED  BY <4>1, <4>2
    <3>2. QED  BY <3>1, Zenon
  <2>2. QED  BY <1>8, <2>1, EveryUse, Zenon DEF GuardsOK
<1>10. LinksOK(l, next', val')
  <2>1. LinksOK(l, next, val) /\ PointersOK(l, next)  BY <1>2, Zenon DEF LocalOK
  <2>2. CASE l.kind = "walk"
    <3>1. l.pc \notin {"purge", "unlink", "set", "head"}
      BY <1>5, <2>2 DEF KindOK, WalkPoints
    <3>2. QED  BY <2>2, <3>1 DEF LinksOK
  <2>3. CASE l.kind # "walk"
    <3>1. l.pc \in CurPoints => Stable(l.cur) /\ l.cur \in Nodes
      <4>1. ASSUME l.pc \in CurPoints  PROVE Stable(l.cur) /\ l.cur \in Nodes
        <5>1. Guards(u, "cur", l.cur, slot, free, loc)  BY <1>8, <2>3, <4>1, Zenon DEF GuardsOK
        <5>2. l.cur \in Nodes  BY <2>1, <4>1, Zenon DEF PointersOK
        <5>3. QED  BY <5>1, <5>2, EveryUse, Zenon
      <4>2. QED  BY <4>1
    <3>2. l.pc \in PrevPoints /\ l.prev # HeadNode => Stable(l.prev)
      <4>1. ASSUME l.pc \in PrevPoints, l.prev # HeadNode  PROVE Stable(l.prev)
        <5>1. Guards(u, "prev", l.prev, slot, free, loc)  BY <1>8, <2>3, <4>1, Zenon DEF GuardsOK
        <5>2. l.prev \in Nodes  BY <2>1, <4>1 DEF PointersOK, Holders
        <5>3. QED  BY <5>1, <5>2, EveryUse, Zenon
      <4>2. QED  BY <4>1
    <3>3. /\ l.pc = "purge" => next'[l.cur] = [p |-> l.nxt, m |-> TRUE]
      <4>1. l.pc = "purge" => next[l.cur] = [p |-> l.nxt, m |-> TRUE]  BY <2>1 DEF LinksOK
      <4>2. l.pc = "purge" => next[l.cur].m  BY <4>1
      <4>3. QED  BY <3>1, <4>1, <4>2 DEF CurPoints, Stable
    <3>4. /\ l.pc = "unlink" => next'[l.cur].m
          /\ l.pc = "head" => next'[l.cur].m
      BY <2>1, <3>1 DEF LinksOK, CurPoints, ClearPoints, Stable
    <3>5. l.pc \in {"set", "head"} => next'[l.cur].p = l.nxt
      BY <2>1 DEF LinksOK, l
    <3>6. l.pc \in PrevPoints /\ l.prev # HeadNode => next'[l.prev].m \/ val'[l.prev] \notin l.pred
      BY <2>1, <2>3, <3>2 DEF LinksOK, Stable
    <3>7. QED  BY <3>3, <3>4, <3>5, <3>6, Zenon DEF LinksOK
  <2>4. QED  BY <2>2, <2>3
<1>11. QED  BY <1>5, <1>6, <1>7, <1>9, <1>10, Zenon DEF LocalOK, l

\* A step that changes only the thread's own locals and slots, and neither the
\* nodes that it has nor the scan that it makes.
Quiet(t, q) ==
  /\ q \in Record /\ loc' = [loc EXCEPT ![t] = q]
  /\ UNCHANGED <<next, val, free, limbo, lst>>
  /\ slot' \in [Slots -> Pointers] /\ OthersSlots(t)
  /\ q.node = loc[t].node /\ q.chk = loc[t].chk
  /\ loc[t].chk # Null => q.unseen = loc[t].unseen
  /\ LocalOK(t, q, next, val, slot', free, loc)
Counted == calls' \in [Threads -> [Kinds -> Nat]] /\ stay' \in [Threads -> SUBSET Nodes] /\ OneKind'

LEMMA QuietBecame ==
  ASSUME ListInv, NEW t \in Threads, NEW q, Quiet(t, q)
  PROVE  /\ loc' \in [Threads -> Record] /\ loc'[t] = q /\ q \in Record
         /\ \A u \in Threads : u # t => loc'[u] = loc[u]
<1>1. TypeOK /\ q \in Record /\ loc' = [loc EXCEPT ![t] = q]  BY Zenon DEF Quiet, ListInv
<1>2. QED  BY <1>1, Became, Zenon

LEMMA QuietKept ==
  ASSUME ListInv, NEW t \in Threads, NEW q, Quiet(t, q), NEW u \in Threads, NEW use, NEW n \in Nodes
  PROVE  Kept(u, use, n, free, loc) => Kept(u, use, n, free', loc')
<1>1. /\ loc'[t] = q /\ free' = free
      /\ \A w \in Threads : w # t => loc'[w] = loc[w]
  BY QuietBecame, Zenon DEF Quiet
<1>2. n # Null  BY Distinctions
<1>3. QED  BY <1>1, <1>2 DEF Quiet, Kept

LEMMA QuietKeeps ==
  ASSUME ListInv, NEW t \in Threads, NEW q, Quiet(t, q), Counted
  PROVE  ListInv'
<1>1. /\ loc' \in [Threads -> Record] /\ loc'[t] = q
      /\ \A u \in Threads : u # t => loc'[u] = loc[u]
  BY QuietBecame, Zenon
<1>2. UNCHANGED <<next, val, free, limbo, lst>>  BY Zenon DEF Quiet
<1>3. TypeOK'
  <2>1. loc' \in [Threads -> [pc : Points, kind : Kinds, arg : Values \cup {Null}, pred : Preds,
                          node : Nodes \cup {Null}, prev : Holders \cup {Null},
                          cur : Nodes \cup {End, Null}, nxt : Nodes \cup {End, Null},
                          mark : BOOLEAN, chk : Nodes \cup {Null}, ret : Values \cup {Null},
                          unseen : SUBSET Slots]]
    BY <1>1, Zenon DEF Record, NodeOrNull, NodeOrEnd, HolderOrNull, ValueOrNull
  <2>2. TypeOK /\ slot' \in [Slots -> Pointers]  BY Zenon DEF ListInv, Quiet
  <2>3. QED  BY <1>2, <2>1, <2>2, Zenon DEF TypeOK, Counted
<1>4. LocalsOK'
  <2>1. ASSUME NEW u \in Threads  PROVE LocalOK(u, loc'[u], next', val', slot', free', loc')
    <3>1. CASE u = t
      <4>1. LocalOK(t, q, next, val, slot', free, loc)  BY Zenon DEF Quiet
      <4>2. GuardsOK(t, q, slot', free', loc')
        <5>1. \A use : \A n \in Nodes : Kept(t, use, n, free, loc) => Kept(t, use, n, free', loc')
          BY QuietKept, Zenon
        <5>2. \A use, n : Guards(t, use, n, slot', free, loc) => Guards(t, use, n, slot', free', loc')
          <6>1. ASSUME NEW use, NEW n, Guards(t, use, n, slot', free, loc)
                PROVE  Guards(t, use, n, slot', free', loc')
            BY <5>1, <6>1, Zenon DEF Guards
          <6>2. QED  BY <6>1, Zenon
        <5>3. QED  BY <4>1, <5>2, Zenon DEF LocalOK, GuardsOK
      <4>3. QED  BY <1>1, <1>2, <3>1, <4>1, <4>2, Zenon DEF LocalOK
    <3>2. CASE u # t
      <4>1. OthersSlots(t)  BY Zenon DEF Quiet
      <4>2. \A use \in Uses, n \in Nodes :
              Guards(u, use, n, slot, free, loc) => Guards(u, use, n, slot', free', loc') /\ Stable(n)
        <5>1. ASSUME NEW use \in Uses, NEW n \in Nodes, Guards(u, use, n, slot, free, loc)
              PROVE  Guards(u, use, n, slot', free', loc') /\ Stable(n)
          <6>1. <<u, use>> \in Slots /\ <<u, use>>[1] = u  BY DEF Slots
          <6>2. slot'[<<u, use>>] = slot[<<u, use>>]  BY <3>2, <4>1, <6>1, Zenon DEF OthersSlots
          <6>3. Kept(u, use, n, free', loc')  BY <5>1, QuietKept, Zenon DEF Guards
          <6>4. QED  BY <1>2, <5>1, <6>2, <6>3, Zenon DEF Guards, Stable
        <5>2. QED  BY <5>1, Zenon
      <4>3. \A p \in NodeOrEnd : Known(p, next) => Known(p, next')  BY <1>2, Zenon
      <4>4. QED  BY <1>1, <1>2, <3>2, <4>1, <4>2, <4>3, Others, Zenon
    <3>3. QED  BY <3>1, <3>2, Zenon
  <2>2. QED  BY <2>1, Zenon DEF LocalsOK
<1>5. \A u \in Threads : loc'[u].node = loc[u].node /\ loc'[u].chk = loc[u].chk
  BY <1>1 DEF Quiet
<1>6. ChainIsList' /\ Distinct' /\ LinksKnown' /\ HaveValues'
  BY <1>2, Zenon DEF ListInv, ChainIsList, Distinct, LinksKnown, HaveValues
<1>7. Apart' /\ Complete' /\ GoneMarked'
  <2>1. \A u \in Threads : Held(u)' = Held(u)  BY <1>5 DEF Held
  <2>2. Linked' = Linked  BY <1>2 DEF Linked
  <2>3. Apart'  BY <1>2, <2>1, <2>2 DEF Apart, ListInv
  <2>4. Complete'  BY <1>2, <2>1, <2>2 DEF Complete, ListInv
  <2>5. GoneMarked'  BY <1>2, <1>5 DEF GoneMarked, ListInv
  <2>6. QED  BY <2>3, <2>4, <2>5
<1>8. QED  BY <1>3, <1>4, <1>6, <1>7, Zenon DEF ListInv, Counted

\* A step within a call.
LEMMA SameCall ==
  ASSUME ListInv, NEW t \in Threads, ~At(t, "idle"), loc'[t].kind = loc[t].kind,
         \A u \in Threads : u # t => loc'[u].kind = loc[u].kind /\ loc'[u].pc = loc[u].pc,
         UNCHANGED calls
  PROVE  OneKind'
<1>1. \A u \in Threads : \A kind : Does(u, kind)' => Does(u, kind)
  BY DEF Does, At
<1>2. "clear" \in Kinds /\ Rough \subseteq Kinds  BY DEF Rough, Kinds
<1>3. QED  BY <1>1, <1>2, Zenon DEF OneKind, ListInv

LEMMA QuietWithin ==
  ASSUME ListInv, NEW t \in Threads, NEW q, Quiet(t, q), ~At(t, "idle"), q.kind = loc[t].kind,
         UNCHANGED <<calls, stay>>
  PROVE  ListInv'
<1>1. /\ loc'[t] = q
      /\ \A u \in Threads : u # t => loc'[u] = loc[u]
  BY QuietBecame, Zenon
<1>2. OneKind'  BY <1>1, SameCall
<1>3. Counted  BY <1>2 DEF Counted, ListInv, TypeOK
<1>4. QED  BY <1>3, QuietKeeps, Zenon

-----------------------------------------------------------------------------
(* What the invariant says of the chain and of a thread.                   *)

LEMMA Mine ==
  ASSUME ListInv, NEW t \in Threads
  PROVE  /\ loc[t] \in Record /\ KindOK(loc[t]) /\ NodesOK(loc[t]) /\ PointersOK(loc[t], next)
         /\ LinksOK(loc[t], next, val) /\ SlotsOK(t, loc[t], slot)
         /\ GuardsOK(t, loc[t], slot, free, loc)
<1>1. LocalOK(t, loc[t], next, val, slot, free, loc)  BY Zenon DEF ListInv, LocalsOK
<1>2. loc[t] \in Record  BY RecordIs DEF ListInv
<1>3. QED  BY <1>1, <1>2, Zenon DEF LocalOK

\* Where the links of the chain lead.
LEMMA Chain ==
  ASSUME ListInv
  PROVE  /\ lst \in Seq(Nodes) /\ Len(lst) \in Nat /\ Linked \subseteq Nodes
         /\ next[HeadNode].p = (IF Len(lst) = 0 THEN End ELSE lst[1])
         /\ \A i \in 1..Len(lst) :
              /\ lst[i] \in Linked
              /\ next[lst[i]].p = (IF i = Len(lst) THEN End ELSE lst[i + 1])
         /\ \A h \in Linked \cup {HeadNode} :
              next[h].p # Null /\ next[h].p \in Linked \cup {End} /\ Known(next[h].p, next)
         /\ \A n \in Linked : Known(n, next)
<1>1. lst \in Seq(Nodes) /\ Len(lst) \in Nat  BY DEF ListInv, TypeOK
<1>2. \A i \in 1..Len(lst) : lst[i] \in Nodes /\ lst[i] \in Linked  BY <1>1 DEF Linked
<1>3. Linked \subseteq Nodes  BY <1>2 DEF Linked
<1>4. next[HeadNode].p = (IF Len(lst) = 0 THEN End ELSE lst[1])
  <2>1. 0 \in 0..Len(lst)  BY <1>1
  <2>2. QED  BY <2>1 DEF ListInv, ChainIsList
<1>5. \A i \in 1..Len(lst) : next[lst[i]].p = (IF i = Len(lst) THEN End ELSE lst[i + 1])
  <2>1. ASSUME NEW i \in 1..Len(lst)
        PROVE  next[lst[i]].p = (IF i = Len(lst) THEN End ELSE lst[i + 1])
    <3>1. i \in 0..Len(lst) /\ i # 0  BY <1>1
    <3>2. QED  BY <3>1 DEF ListInv, ChainIsList
  <2>2. QED  BY <2>1, Zenon
<1>6. \A i \in 1..Len(lst) : next[lst[i]].p \in Linked \cup {End}
  <2>1. ASSUME NEW i \in 1..Len(lst)  PROVE next[lst[i]].p \in Linked \cup {End}
    <3>1. i # Len(lst) => i + 1 \in 1..Len(lst)  BY <1>1
    <3>2. QED  BY <1>2, <1>5, <3>1
  <2>2. QED  BY <2>1, Zenon
<1>7. \A h \in Linked \cup {HeadNode} : next[h].p \in Linked \cup {End}
  <2>1. next[HeadNode].p \in Linked \cup {End}
    <3>1. Len(lst) # 0 => 1 \in 1..Len(lst)  BY <1>1
    <3>2. QED  BY <1>2, <1>4, <3>1
  <2>2. \A h \in Linked : next[h].p \in Linked \cup {End}  BY <1>6 DEF Linked
  <2>3. QED  BY <2>1, <2>2
<1>8. \A h \in Linked \cup {HeadNode} : next[h].p # Null  BY <1>3, <1>7, Distinctions
<1>9. LinksKnown  BY DEF ListInv
<1>10. \A h \in Linked \cup {HeadNode} : Known(next[h].p, next)
  BY <1>3, <1>8, <1>9, Distinctions DEF LinksKnown
<1>11. \A n \in Linked : Known(n, next)  BY <1>3, <1>8 DEF Known
<1>12. QED  BY <1>1, <1>2, <1>3, <1>4, <1>5, <1>7, <1>8, <1>10, <1>11, Zenon

\* A node that is linked can be guarded, and one that is guarded and not
\* marked is linked.
LEMMA LinkedKept ==
  ASSUME ListInv, NEW n \in Linked, NEW t \in Threads, NEW use
  PROVE  Kept(t, use, n, free, loc)
<1>1. n # Null  BY Chain, Distinctions
<1>2. Apart  BY DEF ListInv
<1>3. QED  BY <1>1, <1>2 DEF Kept, Apart, Held

LEMMA KeptLinked ==
  ASSUME ListInv, NEW n \in Nodes, NEW t \in Threads, NEW use, Kept(t, use, n, free, loc), ~next[n].m
  PROVE  n \in Linked
<1>1. n # Null  BY Distinctions
<1>2. Complete /\ GoneMarked  BY DEF ListInv
<1>3. QED  BY <1>1, <1>2 DEF Kept, Complete, GoneMarked, Held

\* So is a predecessor whose link is not marked, and its link leads on.
LEMMA PrevLinked ==
  ASSUME ListInv, NEW t \in Threads, loc[t].kind # "walk", loc[t].pc \in PrevPoints, ~next[loc[t].prev].m
  PROVE  /\ loc[t].prev \in Linked \cup {HeadNode}
         /\ next[loc[t].prev].p # Null /\ next[loc[t].prev].p \in Linked \cup {End}
         /\ Known(next[loc[t].prev].p, next)
<1>1. loc[t].prev \in Holders /\ Guards(t, "prev", loc[t].prev, slot, free, loc)
  BY Mine, Zenon DEF PointersOK, GuardsOK
<1>2. loc[t].prev \in Linked \cup {HeadNode}  BY <1>1, KeptLinked DEF Guards, Holders
<1>3. QED  BY <1>2, Chain, Zenon

\* Where a known node leads.
LEMMA KnownNext ==
  ASSUME ListInv, NEW n \in Nodes, Known(n, next)
  PROVE  Known(next[n].p, next) /\ next[n].p \in Nodes \cup {End}
<1>1. next[n].p # Null /\ n \in Holders  BY Distinctions DEF Known
<1>2. Known(next[n].p, next)  BY <1>1, Zenon DEF ListInv, LinksKnown
<1>3. QED  BY <1>2 DEF Known

\* Setting a slot
LEMMA SlotSet ==
  ASSUME TypeOK, NEW t \in Threads, NEW use \in Uses, NEW p \in Pointers, SetSlot(t, use, p)
  PROVE  /\ slot' \in [Slots -> Pointers] /\ OthersSlots(t) /\ slot'[<<t, use>>] = p
         /\ \A other \in Uses : other # use => slot'[<<t, other>>] = slot[<<t, other>>]
<1>1. slot \in [Slots -> Pointers]  BY DEF TypeOK
<1>2. \A other \in Uses : <<t, other>> \in Slots  BY DEF Slots
<1>3. slot' = [slot EXCEPT ![<<t, use>>] = p]  BY DEF SetSlot
<1>4. slot' \in [Slots -> Pointers] /\ slot'[<<t, use>>] = p  BY <1>1, <1>2, <1>3
<1>5. \A s \in Slots : s # <<t, use>> => slot'[s] = slot[s]  BY <1>1, <1>3
<1>6. OthersSlots(t)  BY <1>5 DEF OthersSlots
<1>7. \A other \in Uses : other # use => slot'[<<t, other>>] = slot[<<t, other>>]
  BY <1>2, <1>5
<1>8. QED  BY <1>4, <1>6, <1>7, Zenon
LEMMA SlotsSame ==
  ASSUME TypeOK, UNCHANGED slot, NEW t
  PROVE  slot' \in [Slots -> Pointers] /\ OthersSlots(t)
  BY DEF TypeOK, OthersSlots
LEMMA ArePointers == Nodes \subseteq Pointers /\ NodeOrEnd \subseteq Pointers /\ HolderOrNull \subseteq Pointers
  BY DEF Pointers, NodeOrEnd, HolderOrNull, Holders

-----------------------------------------------------------------------------
(* The steps that change only what a thread has for itself.                *)

\* Before a search and after it, nothing is claimed of its pointers.
LEMMA Claimless ==
  ASSUME ListInv, NEW t \in Threads, NEW q, q.pc \in {"load", "drop"}, q.kind = loc[t].kind,
         q.node = loc[t].node, q.chk = Null, q.pred = loc[t].pred, q.pc = "drop" => q.node = Null,
         loc[t].pc \notin {"idle", "drop"} \cup PoolPoints
  PROVE  LocalOK(t, q, next, val, slot', free, loc)
<1>1. KindOK(loc[t]) /\ NodesOK(loc[t])  BY Mine
<1>2. KindOK(q)
  BY <1>1 DEF KindOK, PoolPoints, ClearPoints, WalkPoints
<1>3. NodesOK(q)  BY <1>1 DEF NodesOK, PoolPoints
<1>4. q.pc \notin PrevPoints \cup CurPoints \cup NxtPoints
  BY DEF PrevPoints, CurPoints, NxtPoints, ClearPoints, WalkPoints
<1>5. PointersOK(q, next) /\ LinksOK(q, next, val) /\ SlotsOK(t, q, slot')
  BY <1>4 DEF PointersOK, LinksOK, SlotsOK, ClearPoints
<1>6. GuardsOK(t, q, slot', free, loc)  BY <1>4 DEF GuardsOK
<1>7. QED  BY <1>2, <1>3, <1>5, <1>6, Zenon DEF LocalOK

\* The search starts again.
LEMMA RestartKeeps ==
  ASSUME ListInv, NEW t \in Threads, Restart(t), loc[t].pc \notin {"idle", "drop"} \cup PoolPoints,
         loc[t].chk = Null,
         UNCHANGED <<memVars, poolVars, calls, histVars>>,
         \/ UNCHANGED slot
         \/ \E use \in Uses, p \in Pointers : SetSlot(t, use, p)
  PROVE  ListInv'
<1> DEFINE l == loc[t]
           q == Restarted(l)
<1>1. l \in Record  BY Mine
<1>2. loc' = [loc EXCEPT ![t] = q]  BY Zenon DEF Restart
<1>3. q \in Record
  <2>1. /\ "load" \in Points /\ FALSE \in BOOLEAN /\ Null \in HolderOrNull /\ Null \in NodeOrEnd
        /\ Null \in NodeOrNull /\ {} \in SUBSET Slots
    BY EveryPoint, Distinctions
  <2>2. QED  BY <1>1, <2>1, Setters, Zenon DEF Restarted
<1>4. /\ q.pc = "load" /\ q.kind = l.kind /\ q.node = l.node /\ q.chk = Null /\ q.pred = l.pred
  BY <1>1 DEF Restarted, Record
<1>5. slot' \in [Slots -> Pointers] /\ OthersSlots(t)
  <2>1. TypeOK  BY DEF ListInv
  <2>2. CASE UNCHANGED slot  BY <2>1, <2>2, SlotsSame, Zenon
  <2>3. ASSUME NEW use \in Uses, NEW p \in Pointers, SetSlot(t, use, p)
        PROVE  slot' \in [Slots -> Pointers] /\ OthersSlots(t)
    BY <2>1, <2>3, SlotSet, Zenon
  <2>4. QED  BY <2>2, <2>3, Zenon
<1> HIDE DEF q
<1>6. LocalOK(t, q, next, val, slot', free, loc)  BY <1>4, Claimless
<1>7. Quiet(t, q)  BY <1>2, <1>3, <1>4, <1>5, <1>6 DEF Quiet, memVars, poolVars, histVars
<1>8. QED  BY <1>4, <1>7, QuietWithin DEF At, histVars

LEMMA LoadKeeps ==
  ASSUME ListInv, NEW t \in Threads, Load(t)
  PROVE  ListInv'
<1> DEFINE l == loc[t]
           q == [l EXCEPT !.pc = "slot", !.prev = HeadNode, !.cur = next[HeadNode].p]
<1>1. /\ l \in Record /\ KindOK(l) /\ NodesOK(l) /\ l.pc = "load"  BY Mine DEF Load, At
<1>2. loc' = [loc EXCEPT ![t] = q]  BY Zenon DEF Load
<1>3. Known(next[HeadNode].p, next) /\ next[HeadNode].p \in NodeOrEnd
  BY Chain, LinkTypes, Distinctions DEF ListInv
<1>4. q \in Record  BY <1>1, <1>3, EveryPoint, Distinctions, Setters, Zenon
<1>5. /\ q.pc = "slot" /\ q.kind = l.kind /\ q.node = l.node /\ q.chk = l.chk /\ q.pred = l.pred
      /\ q.prev = HeadNode /\ q.cur = next[HeadNode].p
  BY <1>1 DEF Record
<1>6. slot' \in [Slots -> Pointers] /\ OthersSlots(t)
  <2>1. SetSlot(t, "prev", HeadNode) /\ TypeOK  BY Zenon DEF Load, ListInv
  <2>2. HeadNode \in Pointers  BY DEF Pointers
  <2>3. QED  BY <2>1, <2>2, SlotSet, EveryUse, Zenon
<1> HIDE DEF q
<1>7. l.chk = Null  BY <1>1 DEF NodesOK
<1>8. LocalOK(t, q, next, val, slot', free, loc)
  <2>1. KindOK(q) /\ NodesOK(q)
    BY <1>1, <1>5 DEF KindOK, NodesOK, PoolPoints, ClearPoints, WalkPoints
  <2>2. PointersOK(q, next)
    BY <1>3, <1>5, Distinctions DEF PointersOK, PrevPoints, CurPoints, NxtPoints, ClearPoints, WalkPoints
  <2>3. LinksOK(q, next, val) /\ SlotsOK(t, q, slot')  BY <1>5 DEF LinksOK, SlotsOK
  <2>4. GuardsOK(t, q, slot', free, loc)
    BY <1>5, Distinctions DEF GuardsOK, Guards, CurPoints, ClearPoints, WalkPoints
  <2>5. QED  BY <2>1, <2>2, <2>3, <2>4, Zenon DEF LocalOK
<1>9. UNCHANGED <<memVars, poolVars, calls, histVars>>  BY DEF Load
<1>10. Quiet(t, q)
  BY <1>2, <1>4, <1>5, <1>6, <1>7, <1>8, <1>9 DEF Quiet, memVars, poolVars, histVars
<1>11. QED  BY <1>1, <1>5, <1>9, <1>10, QuietWithin DEF At, histVars

LEMMA StoreSlotKeeps ==
  ASSUME ListInv, NEW t \in Threads, StoreSlot(t)
  PROVE  ListInv'
<1> DEFINE l == loc[t]
           p == IF ClearDone(t, l.cur) THEN "drop" ELSE "verify"
           q == [l EXCEPT !.pc = p]
<1>1. l \in Record /\ l.pc = "slot"  BY Mine DEF StoreSlot, At
<1>2. /\ KindOK(l) /\ NodesOK(l) /\ PointersOK(l, next) /\ LinksOK(l, next, val)
  BY Mine, Zenon
<1>3. loc' = [loc EXCEPT ![t] = q]  BY Zenon DEF StoreSlot, Goto
<1>4. q \in Record  BY <1>1, EveryPoint, Setters, Zenon
<1>5. /\ q.pc = p /\ q.kind = l.kind /\ q.node = l.node /\ q.chk = l.chk /\ q.pred = l.pred
      /\ q.prev = l.prev /\ q.cur = l.cur
  BY <1>1 DEF Record
<1>6. p = "drop" => l.kind = "clear" /\ l.cur = End  BY DEF ClearDone, InCall
<1>7. l.kind = "clear" /\ l.cur = End => p = "drop"  BY DEF ClearDone, InCall
<1>8. p \in {"drop", "verify"}  OBVIOUS
<1>9. l.cur \in NodeOrEnd /\ l.cur \in Pointers  BY <1>1, Fields, ArePointers
<1>10. slot' \in [Slots -> Pointers] /\ OthersSlots(t) /\ slot'[<<t, "cur">>] = l.cur
  <2>1. SetSlot(t, "cur", l.cur)  BY DEF StoreSlot
  <2>2. QED  BY <1>9, <2>1, SlotSet, EveryUse, Zenon DEF ListInv
<1> HIDE DEF q, p
<1>11. l.chk = Null  BY <1>1, <1>2 DEF NodesOK
<1>12. LocalOK(t, q, next, val, slot', free, loc)
  <2>1. CASE p = "drop"
    <3>1. l.node = Null  BY <1>2, <1>6, <2>1 DEF NodesOK, Inserters
    <3>2. QED  BY <1>1, <1>5, <1>11, <2>1, <3>1, Claimless DEF PoolPoints
  <2>2. CASE p = "verify"
    <3>1. KindOK(q) /\ NodesOK(q)
      BY <1>1, <1>2, <1>5, <2>2 DEF KindOK, NodesOK, PoolPoints, ClearPoints, WalkPoints
    <3>2. PointersOK(q, next)
      BY <1>1, <1>2, <1>5, <1>7, <2>2, Distinctions DEF PointersOK, PrevPoints, CurPoints, NxtPoints, ClearPoints, WalkPoints
    <3>3. LinksOK(q, next, val) /\ SlotsOK(t, q, slot')
      BY <1>1, <1>2, <1>5, <1>10, <2>2 DEF LinksOK, SlotsOK, PointersOK
    <3>4. GuardsOK(t, q, slot', free, loc)
      BY <1>1, <1>2, <1>5, <2>2, Distinctions DEF GuardsOK, Guards, PointersOK, CurPoints, ClearPoints, WalkPoints
    <3>5. QED  BY <3>1, <3>2, <3>3, <3>4, Zenon DEF LocalOK
  <2>3. QED  BY <1>8, <2>1, <2>2
<1>13. Quiet(t, q)
  BY <1>3, <1>4, <1>5, <1>10, <1>11, <1>12 DEF StoreSlot, Quiet, memVars, poolVars, histVars
<1>14. QED  BY <1>1, <1>5, <1>13, QuietWithin DEF StoreSlot, At, histVars

\* A step within a call that is not in the pool.
LEMMA Within ==
  ASSUME ListInv, NEW t \in Threads, NEW q \in Record, loc' = [loc EXCEPT ![t] = q],
         UNCHANGED <<memVars, poolVars, calls, histVars>>,
         \/ UNCHANGED slot
         \/ \E use \in Uses, p \in Pointers : SetSlot(t, use, p),
         loc[t].pc \notin {"idle", "recheck", "retire"},
         q.kind = loc[t].kind, q.node = loc[t].node, q.chk = loc[t].chk,
         KindOK(q), NodesOK(q), PointersOK(q, next), LinksOK(q, next, val), SlotsOK(t, q, slot'),
         GuardsOK(t, q, slot', free, loc)
  PROVE  ListInv'
<1>1. slot' \in [Slots -> Pointers] /\ OthersSlots(t)
  <2>1. TypeOK  BY DEF ListInv
  <2>2. CASE UNCHANGED slot  BY <2>1, <2>2, SlotsSame, Zenon
  <2>3. ASSUME NEW use \in Uses, NEW p \in Pointers, SetSlot(t, use, p)
        PROVE  slot' \in [Slots -> Pointers] /\ OthersSlots(t)
    BY <2>1, <2>3, SlotSet, Zenon
  <2>4. QED  BY <2>2, <2>3, Zenon
<1>2. LocalOK(t, q, next, val, slot', free, loc)  BY Zenon DEF LocalOK
<1>3. loc[t].chk = Null  BY Mine DEF NodesOK
<1>4. Quiet(t, q)  BY <1>1, <1>2, <1>3 DEF Quiet, memVars, poolVars, histVars
<1>5. QED  BY <1>4, QuietWithin DEF At, histVars

\* clear goes on with the node that head_ leads to now.
LEMMA ClearGoesOn ==
  ASSUME ListInv, NEW t \in Threads, loc[t].kind = "clear", loc[t].pc \in {"verify", "head"},
         NEW q \in Record, loc' = [loc EXCEPT ![t] = q],
         q.kind = loc[t].kind, q.node = loc[t].node, q.chk = loc[t].chk, q.prev = loc[t].prev,
         q.pred = loc[t].pred, q.cur = next[HeadNode].p,
         q.pc = IF ClearDone(t, next[HeadNode].p) THEN "drop" ELSE "verify",
         SetSlot(t, "cur", next[HeadNode].p), UNCHANGED <<memVars, poolVars, calls, histVars>>
  PROVE  ListInv'
<1> DEFINE l == loc[t]
<1>1. l \in Record  BY Mine
<1>2. KindOK(l) /\ NodesOK(l) /\ PointersOK(l, next)  BY Mine, Zenon
<1>3. Known(next[HeadNode].p, next) /\ next[HeadNode].p \in Pointers
  BY Chain, LinkTypes, ArePointers, Distinctions DEF ListInv
<1>4. ClearDone(t, next[HeadNode].p) <=> next[HeadNode].p = End  BY Zenon DEF ClearDone, InCall
<1>5. q.pc = "drop" \/ (q.pc = "verify" /\ q.cur # End)  BY <1>4
<1>6. slot'[<<t, "cur">>] = next[HeadNode].p
  <2>1. TypeOK  BY DEF ListInv
  <2>2. QED  BY <1>3, <2>1, SlotSet, EveryUse, Zenon
<1>7. KindOK(q) /\ NodesOK(q)
  BY <1>2, <1>5 DEF KindOK, NodesOK, PoolPoints, ClearPoints, WalkPoints, Inserters
<1>8. l.prev = HeadNode  BY <1>2 DEF PointersOK, ClearPoints
<1>9. PointersOK(q, next)
  BY <1>3, <1>5, <1>8, Distinctions
  DEF PointersOK, PrevPoints, CurPoints, NxtPoints, ClearPoints, WalkPoints
<1>10. LinksOK(q, next, val) /\ SlotsOK(t, q, slot')
  BY <1>5, <1>6, <1>8 DEF LinksOK, SlotsOK
<1>11. GuardsOK(t, q, slot', free, loc)
  BY <1>5, <1>8, Distinctions DEF GuardsOK, Guards, PrevPoints, CurPoints, ClearPoints, WalkPoints
<1>12. l.pc \notin {"idle", "recheck", "retire"}  OBVIOUS
<1>13. QED
  BY <1>3, <1>7, <1>9, <1>10, <1>11, <1>12, EveryUse, Within, Zenon

LEMMA ReloadKeeps ==
  ASSUME ListInv, NEW t \in Threads, Reload(t)
  PROVE  ListInv'
<1> DEFINE l == loc[t]
           p == IF ClearDone(t, next[HeadNode].p) THEN "drop" ELSE "verify"
           q == [l EXCEPT !.cur = next[HeadNode].p, !.pc = p]
<1>1. l \in Record /\ NodesOK(l) /\ l.pc = "verify"  BY Mine DEF Reload, At
<1>2. next[HeadNode].p \in NodeOrEnd  BY LinkTypes, Distinctions DEF ListInv
<1>3. SetSlot(t, "cur", next[HeadNode].p) /\ UNCHANGED <<memVars, poolVars, calls, histVars>>
  BY Zenon DEF Reload
<1>4. CASE ~InCall(t, "clear")
  <2>1. Restart(t)  BY <1>4, Zenon DEF Reload, Restart
  <2>2. l.chk = Null /\ next[HeadNode].p \in Pointers  BY <1>1, <1>2, ArePointers DEF NodesOK
  <2>3. l.pc \notin {"idle", "drop"} \cup PoolPoints  BY <1>1 DEF PoolPoints
  <2>4. QED  BY <1>3, <2>1, <2>2, <2>3, EveryUse, RestartKeeps, Zenon
<1>5. CASE InCall(t, "clear")
  <2>1. loc' = [loc EXCEPT ![t] = q]  BY <1>5, Zenon DEF Reload
  <2>2. q \in Record  BY <1>1, <1>2, EveryPoint, Setters, Zenon
  <2>3. /\ q.kind = l.kind /\ q.node = l.node /\ q.chk = l.chk /\ q.prev = l.prev
        /\ q.pred = l.pred /\ q.cur = next[HeadNode].p
        /\ q.pc = IF ClearDone(t, next[HeadNode].p) THEN "drop" ELSE "verify"
    BY <1>1 DEF Record
  <2> HIDE DEF q
  <2>4. l.kind = "clear" /\ l.pc \in {"verify", "head"}  BY <1>1, <1>5 DEF InCall
  <2>5. QED  BY <1>3, <2>1, <2>2, <2>3, <2>4, ClearGoesOn, Zenon
<1>6. QED  BY <1>4, <1>5

LEMMA ClearHeadFailsKeeps ==
  ASSUME ListInv, NEW t \in Threads, ClearHeadFails(t)
  PROVE  ListInv'
<1> DEFINE l == loc[t]
           p == IF ClearDone(t, next[HeadNode].p) THEN "drop" ELSE "verify"
           q == [l EXCEPT !.cur = next[HeadNode].p, !.nxt = Null, !.pc = p]
<1>1. l \in Record /\ KindOK(l) /\ l.pc = "head"  BY Mine DEF ClearHeadFails, At
<1>2. next[HeadNode].p \in NodeOrEnd  BY LinkTypes, Distinctions DEF ListInv
<1>3. /\ SetSlot(t, "cur", next[HeadNode].p) /\ UNCHANGED <<memVars, poolVars, calls, histVars>>
      /\ loc' = [loc EXCEPT ![t] = q]
  BY Zenon DEF ClearHeadFails
<1>4. q \in Record  BY <1>1, <1>2, EveryPoint, Setters, Distinctions, Zenon
<1>5. /\ q.kind = l.kind /\ q.node = l.node /\ q.chk = l.chk /\ q.prev = l.prev
      /\ q.pred = l.pred /\ q.cur = next[HeadNode].p
      /\ q.pc = IF ClearDone(t, next[HeadNode].p) THEN "drop" ELSE "verify"
  BY <1>1 DEF Record
<1> HIDE DEF q
<1>6. l.kind = "clear" /\ l.pc \in {"verify", "head"}  BY <1>1 DEF KindOK, ClearPoints
<1>7. QED  BY <1>3, <1>4, <1>5, <1>6, ClearGoesOn, Zenon

LEMMA VerifiedKeeps ==
  ASSUME ListInv, NEW t \in Threads, Verified(t)
  PROVE  ListInv'
<1> DEFINE l == loc[t]
           p == IF InCall(t, "clear") THEN "next" ELSE Come(l.kind, HeadNode, l.cur)
           q == [l EXCEPT !.pc = p]
<1>1. l \in Record /\ l.pc = "verify" /\ next[HeadNode].p = l.cur  BY Mine DEF Verified, At
<1>2. KindOK(l) /\ NodesOK(l) /\ PointersOK(l, next) /\ SlotsOK(t, l, slot)  BY Mine, Zenon
<1>3. loc' = [loc EXCEPT ![t] = q] /\ UNCHANGED <<memVars, slot, poolVars, calls, histVars>>
  BY Zenon DEF Verified, Goto
<1>4. l.cur \in Linked \cup {End}  BY <1>1, Chain
<1>5. l.kind \in Kinds  BY <1>1, Fields
<1>6. \/ l.kind = "clear" /\ p = "next" /\ l.cur # End
      \/ l.kind # "clear" /\ p = "read" /\ l.cur # End
      \/ l.kind = "insert" /\ p = "insBefore" /\ l.cur = End
      \/ l.kind = "pushFront" /\ p = "insNext" /\ l.cur = End
      \/ l.kind \notin Inserters /\ p = "drop" /\ l.cur = End
  BY <1>1, <1>2, <1>5 DEF InCall, Come, Found, Inserters, PointersOK, Kinds
<1>7. q \in Record
  <2>1. p \in Points  BY <1>6, EveryPoint
  <2>2. QED  BY <1>1, <2>1, Setters, Zenon
<1>8. /\ q.pc = p /\ q.kind = l.kind /\ q.node = l.node /\ q.chk = l.chk /\ q.pred = l.pred
      /\ q.prev = l.prev /\ q.cur = l.cur
  BY <1>1 DEF Record
<1>9. l.cur # End => l.cur \in Nodes /\ Kept(t, "cur", l.cur, free, loc)
  BY <1>4, Chain, LinkedKept
<1>10. l.prev = HeadNode /\ slot[<<t, "cur">>] = l.cur  BY <1>1, <1>2 DEF PointersOK, SlotsOK, ClearPoints
<1> HIDE DEF q, p
<1>11. KindOK(q)
  BY <1>1, <1>2, <1>6, <1>8 DEF KindOK, PoolPoints, ClearPoints, WalkPoints, Inserters
<1>12. NodesOK(q)  BY <1>1, <1>2, <1>6, <1>8 DEF NodesOK, PoolPoints, Inserters
<1>13. PointersOK(q, next)
  BY <1>1, <1>2, <1>6, <1>8, <1>9
  DEF PointersOK, PrevPoints, CurPoints, NxtPoints, ClearPoints, WalkPoints
<1>14. LinksOK(q, next, val)  BY <1>6, <1>8, <1>10 DEF LinksOK
<1>15. SlotsOK(t, q, slot')  BY <1>6, <1>8 DEF SlotsOK
<1>16. GuardsOK(t, q, slot', free, loc)
  <2>1. slot' = slot /\ q.pc \notin {"test", "look"}  BY <1>3, <1>6, <1>8
  <2>2. Guards(t, "prev", q.prev, slot', free, loc)  BY <1>8, <1>10, Distinctions DEF Guards
  <2>3. Guards(t, "cur", q.cur, slot', free, loc)
    BY <1>8, <1>9, <1>10, <2>1, Distinctions DEF Guards
  <2>4. QED  BY <2>1, <2>2, <2>3 DEF GuardsOK
<1>17. l.pc \notin {"idle", "recheck", "retire"}  BY <1>1
<1>18. QED
  BY <1>3, <1>7, <1>8, <1>11, <1>12, <1>13, <1>14, <1>15, <1>16, <1>17, Within, Zenon

\* What a step that only goes on to the next control point keeps of the locals.
Same(q, l) ==
  /\ q.kind = l.kind /\ q.node = l.node /\ q.chk = l.chk /\ q.pred = l.pred /\ q.arg = l.arg
  /\ q.prev = l.prev /\ q.cur = l.cur /\ q.nxt = l.nxt

LEMMA ReadNextKeeps ==
  ASSUME ListInv, NEW t \in Threads, ReadNext(t)
  PROVE  ListInv'
<1> DEFINE l == loc[t]
           q == [l EXCEPT !.pc = "nxtSlot", !.nxt = next[l.cur].p, !.mark = next[l.cur].m]
<1>1. l \in Record /\ l.pc = "read"  BY Mine DEF ReadNext, At
<1>2. /\ KindOK(l) /\ NodesOK(l) /\ PointersOK(l, next) /\ LinksOK(l, next, val)
      /\ GuardsOK(t, l, slot, free, loc)
  BY Mine, Zenon
<1>3. loc' = [loc EXCEPT ![t] = q] /\ UNCHANGED <<memVars, slot, poolVars, calls, histVars>>
  BY Zenon DEF ReadNext
<1>4. l.cur \in Nodes /\ Known(l.cur, next)  BY <1>1, <1>2 DEF PointersOK, CurPoints, PrevPoints, WalkPoints
<1>5. Known(next[l.cur].p, next)  BY <1>4, KnownNext
<1>6. next[l.cur].p \in NodeOrEnd /\ next[l.cur].m \in BOOLEAN
  BY <1>4, LinkTypes, Distinctions DEF ListInv
<1>7. q \in Record  BY <1>1, <1>6, EveryPoint, Setters, Zenon
<1>8. /\ q.pc = "nxtSlot" /\ q.kind = l.kind /\ q.node = l.node /\ q.chk = l.chk /\ q.pred = l.pred
      /\ q.prev = l.prev /\ q.cur = l.cur /\ q.nxt = next[l.cur].p
  BY <1>1 DEF Record
<1> HIDE DEF q
<1>9. KindOK(q) /\ NodesOK(q)
  BY <1>1, <1>2, <1>8 DEF KindOK, NodesOK, PoolPoints, ClearPoints, WalkPoints
<1>10. PointersOK(q, next)
  BY <1>1, <1>2, <1>5, <1>8 DEF PointersOK, PrevPoints, CurPoints, NxtPoints, ClearPoints, WalkPoints
<1>11. LinksOK(q, next, val) /\ SlotsOK(t, q, slot')
  BY <1>1, <1>2, <1>8 DEF LinksOK, SlotsOK, PrevPoints, CurPoints, WalkPoints
<1>12. GuardsOK(t, q, slot', free, loc)
  BY <1>1, <1>2, <1>3, <1>8 DEF GuardsOK, PrevPoints, CurPoints, WalkPoints
<1>13. l.pc \notin {"idle", "recheck", "retire"}  BY <1>1
<1>14. QED
  BY <1>3, <1>7, <1>8, <1>9, <1>10, <1>11, <1>12, <1>13, Within, Zenon

\* The steps of a search that only go on to a further control point, with the
\* hazard pointer on the successor set or not.
LEMMA GoesOn ==
  ASSUME ListInv, NEW t \in Threads, NEW p \in {"read", "nxtVerify", "purge", "test", "look"}, Goto(t, p),
         UNCHANGED <<memVars, poolVars, calls, histVars>>,
         loc[t].pc \in {"nxtSlot", "nxtVerify", "test"},
         \/ UNCHANGED slot
         \/ \E x \in Pointers : SetSlot(t, "nxt", x),
         p = "nxtVerify" => slot'[<<t, "nxt">>] = loc[t].nxt,
         p \in {"purge", "test", "look"} => loc[t].kind \notin {"walk", "clear"},
         p = "test" => loc[t].kind = "popBack",
         p = "purge" => next[loc[t].cur] = [p |-> loc[t].nxt, m |-> TRUE],
         p \in {"test", "look"} => Guards(t, "nxt", loc[t].nxt, slot', free, loc)
  PROVE  ListInv'
<1> DEFINE l == loc[t]
           q == [l EXCEPT !.pc = p]
<1>1. l \in Record /\ l.pc \in {"nxtSlot", "nxtVerify", "test"}  BY Mine
<1>2. /\ KindOK(l) /\ NodesOK(l) /\ PointersOK(l, next) /\ LinksOK(l, next, val)
      /\ GuardsOK(t, l, slot, free, loc)
  BY Mine, Zenon
<1>3. loc' = [loc EXCEPT ![t] = q]  BY Zenon DEF Goto
<1>4. q \in Record  BY <1>1, EveryPoint, Setters, Zenon
<1>5. q.pc = p /\ Same(q, l)  BY <1>1 DEF Record, Same
<1>6. slot'[<<t, "prev">>] = slot[<<t, "prev">>] /\ slot'[<<t, "cur">>] = slot[<<t, "cur">>]
  <2>1. TypeOK  BY DEF ListInv
  <2>2. ASSUME NEW x \in Pointers, SetSlot(t, "nxt", x)
        PROVE  slot'[<<t, "prev">>] = slot[<<t, "prev">>] /\ slot'[<<t, "cur">>] = slot[<<t, "cur">>]
    BY <2>1, <2>2, SlotSet, EveryUse
  <2>3. QED  BY <2>2, Zenon
<1> HIDE DEF q
<1>7. KindOK(q) /\ NodesOK(q)
  BY <1>1, <1>2, <1>5 DEF KindOK, NodesOK, PoolPoints, ClearPoints, WalkPoints, Same
<1>8. PointersOK(q, next)
  BY <1>1, <1>2, <1>5
  DEF PointersOK, PrevPoints, CurPoints, NxtPoints, ClearPoints, WalkPoints, Same
<1>9. LinksOK(q, next, val) /\ SlotsOK(t, q, slot')
  BY <1>1, <1>2, <1>5 DEF LinksOK, SlotsOK, PrevPoints, CurPoints, WalkPoints, Same
<1>10. GuardsOK(t, q, slot', free, loc)
  <2>1. l.kind # "walk" =>
          Guards(t, "prev", l.prev, slot', free, loc) /\ Guards(t, "cur", l.cur, slot', free, loc)
    BY <1>1, <1>2, <1>6 DEF GuardsOK, Guards, PrevPoints, CurPoints, WalkPoints
  <2>2. QED  BY <1>5, <2>1 DEF GuardsOK, Same
<1>11. l.pc \notin {"idle", "recheck", "retire"}  BY <1>1
<1>12. \/ UNCHANGED slot
       \/ \E use \in Uses, x \in Pointers : SetSlot(t, use, x)
  BY EveryUse, Zenon
<1>13. QED
  BY <1>3, <1>4, <1>5, <1>7, <1>8, <1>9, <1>10, <1>11, <1>12, Within, Zenon DEF Same

LEMMA StoreNextSlotKeeps ==
  ASSUME ListInv, NEW t \in Threads, StoreNextSlot(t)
  PROVE  ListInv'
<1>1. loc[t] \in Record /\ loc[t].pc = "nxtSlot"  BY Mine DEF StoreNextSlot, At
<1>2. loc[t].nxt \in Pointers  BY <1>1, Fields, ArePointers
<1>3. SetSlot(t, "nxt", loc[t].nxt) /\ Goto(t, "nxtVerify") /\ UNCHANGED <<memVars, poolVars, calls, histVars>>
  BY Zenon DEF StoreNextSlot
<1>4. slot'[<<t, "nxt">>] = loc[t].nxt
  <2>1. TypeOK  BY DEF ListInv
  <2>2. QED  BY <1>2, <1>3, <2>1, SlotSet, EveryUse, Zenon
<1>5. QED  BY <1>1, <1>2, <1>3, <1>4, GoesOn, Zenon

LEMMA NextChangedKeeps ==
  ASSUME ListInv, NEW t \in Threads, NextChanged(t)
  PROVE  ListInv'
<1>1. loc[t].pc = "nxtVerify"  BY DEF NextChanged, At
<1>2. loc[t].cur \in Nodes  BY <1>1, Mine DEF PointersOK, CurPoints, WalkPoints
<1>3. next[loc[t].cur].p \in Pointers  BY <1>2, LinkTypes, ArePointers, Distinctions DEF ListInv
<1>4. SetSlot(t, "nxt", next[loc[t].cur].p) /\ Goto(t, "read") /\ UNCHANGED <<memVars, poolVars, calls, histVars>>
  BY Zenon DEF NextChanged
<1>5. QED  BY <1>1, <1>3, <1>4, GoesOn, Zenon

LEMMA SeeMarkKeeps ==
  ASSUME ListInv, NEW t \in Threads, SeeMark(t)
  PROVE  ListInv'
<1>1. loc[t] \in Record /\ loc[t].pc = "nxtVerify" /\ loc[t].kind # "walk" /\ loc[t].mark
  BY Mine DEF SeeMark, NextVerified, At, InCall
<1>2. loc[t].kind # "clear"  BY <1>1, Mine DEF KindOK, WalkPoints
<1>3. next[loc[t].cur] = [p |-> loc[t].nxt, m |-> TRUE]
  BY <1>1, Fields DEF SeeMark, NextVerified
<1>4. Goto(t, "purge") /\ UNCHANGED <<memVars, slot, poolVars, calls, histVars>>  BY Zenon DEF SeeMark
<1>5. QED  BY <1>1, <1>2, <1>3, <1>4, GoesOn, Zenon

LEMMA TryKeeps ==
  ASSUME ListInv, NEW t \in Threads, Try(t)
  PROVE  ListInv'
<1> DEFINE l == loc[t]
<1>1. l \in Record /\ l.pc = "nxtVerify" /\ l.kind # "walk" /\ ~l.mark
  BY Mine DEF Try, NextVerified, At, InCall
<1>2. l.kind # "clear" /\ slot[<<t, "nxt">>] = l.nxt /\ l.cur \in Nodes
  <2>1. KindOK(l) /\ SlotsOK(t, l, slot) /\ PointersOK(l, next)  BY Mine, Zenon
  <2>2. QED  BY <1>1, <2>1 DEF KindOK, WalkPoints, SlotsOK, PointersOK, CurPoints
<1>3. next[l.cur].p = l.nxt /\ ~next[l.cur].m
  BY <1>1, Fields DEF Try, NextVerified
<1>4. Guards(t, "cur", l.cur, slot, free, loc)
  BY <1>1, Mine DEF GuardsOK, CurPoints, WalkPoints
<1>5. l.cur \in Linked  BY <1>2, <1>3, <1>4, KeptLinked DEF Guards
<1>6. l.nxt \in Linked \cup {End}  BY <1>3, <1>5, Chain
<1>7. Guards(t, "nxt", l.nxt, slot, free, loc)
  BY <1>2, <1>6, LinkedKept, Distinctions DEF Guards
<1>8. UNCHANGED <<memVars, slot, poolVars, calls, histVars>>
  BY Zenon DEF Try
<1>9. Goto(t, IF InCall(t, "popBack") THEN "test" ELSE "look")  BY Zenon DEF Try
<1>10. CASE InCall(t, "popBack")
  <2>1. Goto(t, "test") /\ l.kind = "popBack"  BY <1>9, <1>10, Zenon DEF InCall
  <2>2. QED  BY <1>1, <1>2, <1>7, <1>8, <2>1, GoesOn, Zenon
<1>11. CASE ~InCall(t, "popBack")
  <2>1. Goto(t, "look")  BY <1>9, <1>11, Zenon
  <2>2. QED  BY <1>1, <1>2, <1>7, <1>8, <2>1, GoesOn, Zenon
<1>12. QED  BY <1>10, <1>11

LEMMA IsTailKeeps ==
  ASSUME ListInv, NEW t \in Threads, IsTail(t)
  PROVE  ListInv'
<1>1. loc[t].pc = "test"  BY DEF IsTail, At
<1>2. loc[t].kind \notin {"walk", "clear"}  BY <1>1, Mine DEF KindOK, WalkPoints
<1>3. Guards(t, "nxt", loc[t].nxt, slot, free, loc)  BY <1>1, <1>2, Mine DEF GuardsOK
<1>4. Goto(t, "look") /\ UNCHANGED <<memVars, slot, poolVars, calls, histVars>>  BY Zenon DEF IsTail
<1>5. QED  BY <1>1, <1>2, <1>3, <1>4, GoesOn, Zenon

LEMMA MatchKeeps ==
  ASSUME ListInv, NEW t \in Threads, Match(t)
  PROVE  ListInv'
<1> DEFINE l == loc[t]
           p == Found(l.kind, l.prev, l.cur)
           q == [l EXCEPT !.pc = p, !.nxt = Null]
<1>1. l \in Record /\ l.pc = "look"  BY Mine DEF Match, At
<1>2. /\ KindOK(l) /\ NodesOK(l) /\ PointersOK(l, next) /\ LinksOK(l, next, val)
      /\ GuardsOK(t, l, slot, free, loc)
  BY Mine, Zenon
<1>3. loc' = [loc EXCEPT ![t] = q] /\ SetSlot(t, "nxt", Null)
      /\ UNCHANGED <<memVars, poolVars, calls, histVars>>
  BY Zenon DEF Match
<1>4. l.cur # End /\ l.kind \notin {"walk", "clear"} /\ l.kind \in Kinds
  BY <1>1, <1>2, Fields, Distinctions DEF KindOK, PointersOK, CurPoints, WalkPoints
<1>5. \/ p = "insBefore" /\ l.kind = "insert"
      \/ p = "insNext" /\ l.kind = "pushFront"
      \/ p = "mark" /\ l.kind \in Takers \cup {"removeAll"}
      \/ p = "load" /\ l.kind = "popFront"
  BY <1>4 DEF Found, Takers, Kinds
<1>6. q \in Record
  <2>1. p \in Points  BY <1>5, EveryPoint
  <2>2. QED  BY <1>1, <2>1, Setters, Distinctions, Zenon
<1>7. /\ q.pc = p /\ q.kind = l.kind /\ q.node = l.node /\ q.chk = l.chk /\ q.pred = l.pred
      /\ q.prev = l.prev /\ q.cur = l.cur
  BY <1>1 DEF Record
<1>8. slot'[<<t, "prev">>] = slot[<<t, "prev">>] /\ slot'[<<t, "cur">>] = slot[<<t, "cur">>]
  <2>1. TypeOK /\ Null \in Pointers  BY DEF ListInv, Pointers
  <2>2. "prev" # "nxt" /\ "cur" # "nxt"  OBVIOUS
  <2>3. QED  BY <1>3, <2>1, <2>2, SlotSet, EveryUse, Zenon
<1> HIDE DEF q, p
<1>9. KindOK(q)
  BY <1>1, <1>2, <1>5, <1>7 DEF KindOK, PoolPoints, ClearPoints, WalkPoints, Takers
<1>10. NodesOK(q)  BY <1>1, <1>2, <1>5, <1>7 DEF NodesOK, PoolPoints, Takers, Inserters
<1>11. PointersOK(q, next)
  BY <1>1, <1>2, <1>5, <1>7
  DEF PointersOK, PrevPoints, CurPoints, NxtPoints, ClearPoints, WalkPoints
<1>12. LinksOK(q, next, val) /\ SlotsOK(t, q, slot')
  BY <1>1, <1>2, <1>5, <1>7 DEF LinksOK, SlotsOK, PrevPoints, CurPoints
<1>13. GuardsOK(t, q, slot', free, loc)
  <2>1. Guards(t, "prev", l.prev, slot', free, loc) /\ Guards(t, "cur", l.cur, slot', free, loc)
    BY <1>1, <1>2, <1>4, <1>8 DEF GuardsOK, Guards, PrevPoints, CurPoints
  <2>2. QED  BY <1>5, <1>7, <2>1 DEF GuardsOK
<1>14. l.pc \notin {"idle", "recheck", "retire"} /\ Null \in Pointers  BY <1>1 DEF Pointers
<1>15. QED
  BY <1>3, <1>6, <1>7, <1>9, <1>10, <1>11, <1>12, <1>13, <1>14, EveryUse, Within, Zenon

\* A failed compare_exchange, or a node that another thread marks first.
LEMMA FailsKeep ==
  ASSUME ListInv, NEW t \in Threads, PurgeFails(t) \/ InsertFails(t) \/ MarkFails(t) \/ LeaveMarked(t)
  PROVE  ListInv'
<1>1. loc[t].pc \in {"purge", "insBefore", "insNext", "mark", "unlink"}
  BY DEF PurgeFails, InsertFails, MarkFails, LeaveMarked, At
<1>2. loc[t].chk = Null  BY <1>1, Mine DEF NodesOK
<1>3. Restart(t) /\ UNCHANGED <<memVars, poolVars, calls, histVars>>
  BY Zenon DEF PurgeFails, InsertFails, MarkFails, LeaveMarked
<1>4. loc[t].prev \in Holders  BY <1>1, Mine DEF PointersOK, PrevPoints, CurPoints
<1>5. next[loc[t].prev].p \in Pointers  BY <1>4, LinkTypes, ArePointers DEF ListInv
<1>6. UNCHANGED slot \/ SetSlot(t, "cur", next[loc[t].prev].p)
  BY Zenon DEF PurgeFails, InsertFails, MarkFails, LeaveMarked
<1>7. loc[t].pc \notin {"idle", "drop"} \cup PoolPoints  BY <1>1 DEF PoolPoints
<1>8. QED  BY <1>2, <1>3, <1>5, <1>6, <1>7, EveryUse, RestartKeeps, Zenon

LEMMA InsertAgainKeeps ==
  ASSUME ListInv, NEW t \in Threads, InsertAgain(t)
  PROVE  ListInv'
<1> DEFINE l == loc[t]
           p == next[l.prev].p
           q == [l EXCEPT !.cur = p]
<1>1. l \in Record /\ l.pc = "insNext" /\ ~next[l.prev].m  BY Mine DEF InsertAgain, At
<1>2. /\ KindOK(l) /\ NodesOK(l) /\ PointersOK(l, next) /\ LinksOK(l, next, val)
      /\ GuardsOK(t, l, slot, free, loc)
  BY Mine, Zenon
<1>3. loc' = [loc EXCEPT ![t] = q] /\ SetSlot(t, "cur", p)
      /\ UNCHANGED <<memVars, poolVars, calls, histVars>>
  BY Zenon DEF InsertAgain
<1>4. l.kind = "pushFront" /\ l.prev \in Holders
  BY <1>1, <1>2 DEF KindOK, PointersOK, PrevPoints
<1>5. Known(p, next) /\ p \in Pointers /\ p \in NodeOrEnd
  <2>1. Known(p, next)
    <3>1. l.kind # "walk" /\ l.pc \in PrevPoints  BY <1>1, <1>4 DEF PrevPoints
    <3>2. QED  BY <1>1, <3>1, PrevLinked, Zenon
  <2>2. p \in NodeOrEnd  BY <1>4, LinkTypes DEF ListInv
  <2>3. QED  BY <2>1, <2>2, ArePointers
<1>6. q \in Record  BY <1>1, <1>5, Setters, Zenon
<1>7. /\ q.pc = "insNext" /\ q.kind = l.kind /\ q.node = l.node /\ q.chk = l.chk /\ q.pred = l.pred
      /\ q.prev = l.prev /\ q.cur = p
  BY <1>1 DEF Record
<1>8. slot'[<<t, "prev">>] = slot[<<t, "prev">>]
  <2>1. TypeOK  BY DEF ListInv
  <2>2. "prev" # "cur"  OBVIOUS
  <2>3. QED  BY <1>3, <1>5, <2>1, <2>2, SlotSet, EveryUse, Zenon
<1> HIDE DEF q, p
<1>9. KindOK(q) /\ NodesOK(q)
  BY <1>1, <1>2, <1>7 DEF KindOK, NodesOK, PoolPoints, ClearPoints, WalkPoints
<1>10. PointersOK(q, next)
  BY <1>1, <1>4, <1>5, <1>7
  DEF PointersOK, PrevPoints, CurPoints, NxtPoints, ClearPoints, WalkPoints
<1>11. LinksOK(q, next, val) /\ SlotsOK(t, q, slot')
  BY <1>1, <1>2, <1>7 DEF LinksOK, SlotsOK
<1>12. GuardsOK(t, q, slot', free, loc)
  BY <1>1, <1>2, <1>7, <1>8 DEF GuardsOK, Guards, CurPoints, ClearPoints, WalkPoints
<1>13. l.pc \notin {"idle", "recheck", "retire"}  BY <1>1
<1>14. QED
  BY <1>3, <1>5, <1>6, <1>7, <1>9, <1>10, <1>11, <1>12, <1>13, EveryUse, Within, Zenon

LEMMA TakeValueKeeps ==
  ASSUME ListInv, NEW t \in Threads, TakeValue(t)
  PROVE  ListInv'
<1> DEFINE l == loc[t]
           q == [l EXCEPT !.pc = "drop", !.ret = val[l.cur]]
<1>1. l \in Record /\ l.pc = "value"  BY Mine DEF TakeValue, At
<1>2. KindOK(l) /\ NodesOK(l) /\ PointersOK(l, next)  BY Mine, Zenon
<1>3. loc' = [loc EXCEPT ![t] = q] /\ UNCHANGED <<memVars, slot, poolVars, calls, histVars>>
  BY Zenon DEF TakeValue
<1>4. val[l.cur] \in ValueOrNull  BY <1>1, <1>2, LinkTypes DEF PointersOK, CurPoints, ListInv
<1>5. q \in Record  BY <1>1, <1>4, EveryPoint, Setters, Zenon
<1>6. /\ q.pc = "drop" /\ q.kind = l.kind /\ q.node = l.node /\ q.chk = l.chk /\ q.pred = l.pred
  BY <1>1 DEF Record
<1> HIDE DEF q
<1>7. l.chk = Null /\ l.node = Null /\ l.pc \notin {"idle", "drop"} \cup PoolPoints
  BY <1>1, <1>2 DEF KindOK, NodesOK, PoolPoints, Takers, Inserters
<1>8. LocalOK(t, q, next, val, slot', free, loc)  BY <1>6, <1>7, Claimless
<1>9. l.pc \notin {"idle", "recheck", "retire"}  BY <1>1
<1>10. QED  BY <1>3, <1>5, <1>6, <1>8, <1>9, Within, Zenon DEF LocalOK

LEMMA ClearReadNextKeeps ==
  ASSUME ListInv, NEW t \in Threads, ClearReadNext(t)
  PROVE  ListInv'
<1> DEFINE l == loc[t]
           q == [l EXCEPT !.pc = "set", !.nxt = next[l.cur].p]
<1>1. l \in Record /\ l.pc = "next"  BY Mine DEF ClearReadNext, At
<1>2. /\ KindOK(l) /\ NodesOK(l) /\ PointersOK(l, next) /\ LinksOK(l, next, val)
      /\ GuardsOK(t, l, slot, free, loc)
  BY Mine, Zenon
<1>3. loc' = [loc EXCEPT ![t] = q] /\ UNCHANGED <<memVars, slot, poolVars, calls, histVars>>
  BY Zenon DEF ClearReadNext
<1>4. l.cur \in Nodes /\ Known(l.cur, next)
  BY <1>1, <1>2 DEF PointersOK, CurPoints, PrevPoints, ClearPoints
<1>5. Known(next[l.cur].p, next)  BY <1>4, KnownNext
<1>6. next[l.cur].p \in NodeOrEnd  BY <1>4, LinkTypes, Distinctions DEF ListInv
<1>7. q \in Record  BY <1>1, <1>6, EveryPoint, Setters, Zenon
<1>8. /\ q.pc = "set" /\ q.kind = l.kind /\ q.node = l.node /\ q.chk = l.chk /\ q.pred = l.pred
      /\ q.prev = l.prev /\ q.cur = l.cur /\ q.nxt = next[l.cur].p
  BY <1>1 DEF Record
<1> HIDE DEF q
<1>9. KindOK(q) /\ NodesOK(q)
  BY <1>1, <1>2, <1>8 DEF KindOK, NodesOK, PoolPoints, ClearPoints, WalkPoints
<1>10. PointersOK(q, next)
  BY <1>1, <1>2, <1>5, <1>8 DEF PointersOK, PrevPoints, CurPoints, NxtPoints, ClearPoints, WalkPoints
<1>11. LinksOK(q, next, val) /\ SlotsOK(t, q, slot')
  BY <1>1, <1>2, <1>8 DEF LinksOK, SlotsOK, PrevPoints, CurPoints, ClearPoints
<1>12. GuardsOK(t, q, slot', free, loc)
  BY <1>1, <1>2, <1>3, <1>8 DEF GuardsOK, PrevPoints, CurPoints, ClearPoints
<1>13. l.pc \notin {"idle", "recheck", "retire"}  BY <1>1
<1>14. QED
  BY <1>3, <1>7, <1>8, <1>9, <1>10, <1>11, <1>12, <1>13, Within, Zenon

LEMMA DropKeeps ==
  ASSUME ListInv, NEW t \in Threads, Drop(t)
  PROVE  ListInv'
<1> DEFINE l == loc[t]
<1>1. l \in Record /\ NodesOK(l) /\ l.pc = "drop"  BY Mine DEF Drop, At
<1>2. l.node = Null /\ l.chk = Null  BY <1>1 DEF NodesOK
<1>3. loc' = [loc EXCEPT ![t] = Idle] /\ UNCHANGED <<memVars, poolVars, calls, histVars>>
  BY Zenon DEF Drop
<1>4. Idle \in Record  BY IdleType
<1>5. slot' \in [Slots -> Pointers] /\ OthersSlots(t)
  <2>1. slot' = [s \in Slots |-> IF s[1] = t THEN Null ELSE slot[s]]  BY Zenon DEF Drop
  <2>2. slot \in [Slots -> Pointers] /\ Null \in Pointers  BY DEF ListInv, TypeOK, Pointers
  <2>3. slot' \in [Slots -> Pointers]  BY <2>1, <2>2
  <2>4. \A s \in Slots : s[1] # t => slot'[s] = slot[s]  BY <2>1
  <2>5. QED  BY <2>3, <2>4, Zenon DEF OthersSlots
<1>6. Idle.pc = "idle" /\ Idle.kind = "walk" /\ Idle.node = Null /\ Idle.chk = Null
  BY DEF Idle
<1>7. LocalOK(t, Idle, next, val, slot', free, loc)
  <2>1. KindOK(Idle) /\ NodesOK(Idle)
    BY <1>6 DEF KindOK, NodesOK, PoolPoints, ClearPoints, WalkPoints, Inserters
  <2>2. PointersOK(Idle, next)
    BY <1>6 DEF PointersOK, PrevPoints, CurPoints, NxtPoints, ClearPoints, WalkPoints
  <2>3. LinksOK(Idle, next, val) /\ SlotsOK(t, Idle, slot')  BY <1>6 DEF LinksOK, SlotsOK
  <2>4. GuardsOK(t, Idle, slot', free, loc)  BY <1>6 DEF GuardsOK
  <2>5. QED  BY <2>1, <2>2, <2>3, <2>4, Zenon DEF LocalOK
<1>8. Quiet(t, Idle)
  BY <1>2, <1>3, <1>4, <1>5, <1>6, <1>7 DEF Quiet, memVars, poolVars, histVars
<1>9. OneKind'
  <2>1. loc'[t] = Idle /\ \A u \in Threads : u # t => loc'[u] = loc[u]
    BY <1>8, QuietBecame, Zenon
  <2>2. \A u \in Threads : \A kind : Does(u, kind)' => Does(u, kind)
    BY <1>3, <1>6, <2>1 DEF Does, At
  <2>3. "clear" \in Kinds /\ Rough \subseteq Kinds  BY DEF Rough, Kinds
  <2>4. QED  BY <2>2, <2>3, Zenon DEF OneKind, ListInv
<1>10. Counted  BY <1>3, <1>9 DEF Counted, ListInv, TypeOK, histVars
<1>11. QED  BY <1>8, <1>10, QuietKeeps, Zenon

\* What the calls are made with.
LEMMA RequestTypes ==
  ASSUME NEW kind \in Kinds, NEW r \in Requests(kind)
  PROVE  /\ r.arg \in ValueOrNull /\ r.pred \in Preds
         /\ kind \in Inserters => r.arg \in Values
         /\ kind \in {"pushFront", "popFront"} => r.pred = Values
         /\ kind = "popBack" => r.pred = {}
<1>1. CASE kind = "insert"
  BY <1>1, ListAssumption DEF Requests, ValueOrNull
<1>2. CASE kind = "pushFront"
  BY <1>2, ListAssumption, Distinctions DEF Requests, ValueOrNull
<1>3. CASE kind \in {"remove", "removeAll"}
  BY <1>3, ListAssumption DEF Requests, ValueOrNull, Inserters
<1>4. CASE kind = "popFront"
  BY <1>4, Distinctions DEF Requests, ValueOrNull, Inserters
<1>5. CASE kind \notin {"insert", "pushFront", "remove", "removeAll", "popFront"}
  BY <1>5, Distinctions DEF Requests, ValueOrNull, Inserters
<1>6. QED  BY <1>1, <1>2, <1>3, <1>4, <1>5

LEMMA CallKeeps ==
  ASSUME ListInv, NEW t \in Threads, NEW kind \in Kinds, Call(t, kind)
  PROVE  ListInv'
<1> DEFINE l == loc[t]
           p == IF kind \in {"insert", "pushFront"} THEN "pool" ELSE "load"
<1>1. l \in Record /\ NodesOK(l) /\ l.pc = "idle"  BY Mine DEF Call, At
<1>2. l.node = Null /\ l.chk = Null  BY <1>1 DEF NodesOK
<1>3. PICK r \in Requests(kind) :
        loc' = [loc EXCEPT ![t].pc = p, ![t].kind = kind, ![t].arg = r.arg, ![t].pred = r.pred]
  BY Zenon DEF Call
<1> DEFINE q == [l EXCEPT !.pc = p, !.kind = kind, !.arg = r.arg, !.pred = r.pred]
<1>4. loc' = [loc EXCEPT ![t] = q]  BY <1>3, Zenon
<1>5. /\ r.arg \in ValueOrNull /\ r.pred \in Preds
      /\ kind \in Inserters => r.arg \in Values
      /\ kind \in {"pushFront", "popFront"} => r.pred = Values
      /\ kind = "popBack" => r.pred = {}
  BY RequestTypes, Zenon
<1>6. \/ kind \in Inserters /\ p = "pool"
      \/ kind \notin Inserters /\ p = "load"
  BY DEF Inserters
<1>7. q \in Record
  <2>1. p \in Points  BY <1>6, EveryPoint
  <2>2. QED  BY <1>1, <1>5, <2>1, Setters, Zenon
<1>8. /\ q.pc = p /\ q.kind = kind /\ q.arg = r.arg /\ q.pred = r.pred
      /\ q.node = l.node /\ q.chk = l.chk
  BY <1>1 DEF Record
<1>9. UNCHANGED <<memVars, slot, poolVars, lst>>  BY DEF Call
<1> HIDE DEF q, p
<1>10. LocalOK(t, q, next, val, slot', free, loc)
  <2>1. KindOK(q)
    BY <1>5, <1>6, <1>8 DEF KindOK, PoolPoints, ClearPoints, WalkPoints, Inserters
  <2>2. NodesOK(q)  BY <1>2, <1>6, <1>8 DEF NodesOK, PoolPoints
  <2>3. PointersOK(q, next)
    BY <1>6, <1>8 DEF PointersOK, PrevPoints, CurPoints, NxtPoints, ClearPoints, WalkPoints
  <2>4. LinksOK(q, next, val) /\ SlotsOK(t, q, slot')
    BY <1>6, <1>8 DEF LinksOK, SlotsOK, PrevPoints, CurPoints, ClearPoints, WalkPoints
  <2>5. GuardsOK(t, q, slot', free, loc)
    BY <1>6, <1>8 DEF GuardsOK, PrevPoints, CurPoints, ClearPoints, WalkPoints
  <2>6. QED  BY <2>1, <2>2, <2>3, <2>4, <2>5, Zenon DEF LocalOK
<1>11. slot' \in [Slots -> Pointers] /\ OthersSlots(t)
  BY <1>9, SlotsSame, Zenon DEF ListInv
<1>12. Quiet(t, q)
  BY <1>2, <1>4, <1>7, <1>8, <1>9, <1>10, <1>11 DEF Quiet, memVars, poolVars
<1>13. calls \in [Threads -> [Kinds -> Nat]] /\ stay \in [Threads -> SUBSET Nodes]
  BY DEF ListInv, TypeOK
<1>14. /\ calls[t][kind] > 0 /\ calls' = [calls EXCEPT ![t][kind] = @ - 1]
  BY DEF Call
<1>15. calls' \in [Threads -> [Kinds -> Nat]]
  <2>1. calls[t] \in [Kinds -> Nat] /\ calls[t][kind] \in Nat  BY <1>13
  <2>2. calls[t][kind] - 1 \in Nat  BY <1>14, <2>1
  <2>3. QED  BY <1>13, <1>14, <2>1, <2>2
<1>16. stay' \in [Threads -> SUBSET Nodes]
  <2>1. stay' = IF kind = "walk" THEN [stay EXCEPT ![t] = Present] ELSE stay  BY Zenon DEF Call
  <2>2. Present \in SUBSET Nodes  BY DEF Present
  <2>3. QED  BY <1>13, <2>1, <2>2
<1>17. OneKind'
  <2>1. loc'[t] = q /\ \A u \in Threads : u # t => loc'[u] = loc[u]
    BY <1>12, QuietBecame, Zenon
  <2>2. \A u \in Threads, k \in Kinds : Does(u, k)' => Does(u, k)
    <3>1. ASSUME NEW u \in Threads, NEW k \in Kinds, Does(u, k)'  PROVE Does(u, k)
      <4>1. calls'[u][k] > 0 => calls[u][k] > 0
        <5>1. calls[u] \in [Kinds -> Nat] /\ calls[u][k] \in Nat  BY <1>13
        <5>2. calls'[u][k] = IF u = t /\ k = kind THEN calls[u][k] - 1 ELSE calls[u][k]
          BY <1>13, <1>14
        <5>3. QED  BY <5>1, <5>2
      <4>2. u = t /\ q.kind = k => calls[u][k] > 0  BY <1>8, <1>14
      <4>3. QED  BY <2>1, <3>1, <4>1, <4>2 DEF Does, At
    <3>2. QED  BY <3>1, Zenon
  <2>3. "clear" \in Kinds /\ Rough \subseteq Kinds  BY DEF Rough, Kinds
  <2>4. QED  BY <2>2, <2>3, Zenon DEF OneKind, ListInv
<1>18. Counted  BY <1>15, <1>16, <1>17, Zenon DEF Counted
<1>19. QED  BY <1>12, <1>18, QuietKeeps, Zenon

-----------------------------------------------------------------------------
(* The step to the next node: the hazard pointers exchange their slots.    *)

LEMMA ExceptType ==
  ASSUME NEW S, NEW P, NEW f \in [S -> P], NEW s \in S, NEW x \in P
  PROVE  [f EXCEPT ![s] = x] \in [S -> P]
OBVIOUS

LEMMA SwapIs ==
  ASSUME ListInv, NEW t \in Threads, Advance(t)
  PROVE  /\ slot' \in [Slots -> Pointers] /\ OthersSlots(t)
         /\ slot'[<<t, "prev">>] = slot[<<t, "cur">>] /\ slot'[<<t, "cur">>] = slot[<<t, "nxt">>]
<1>1. slot \in [Slots -> Pointers] /\ Null \in Pointers  BY DEF ListInv, TypeOK, Pointers
<1>2. slot' = IF loc[t].nxt = End THEN [Swapped(t) EXCEPT ![<<t, "nxt">>] = Null] ELSE Swapped(t)
  BY Zenon DEF Advance
<1>3. \A s \in Slots : s[1] = t => s[2] \in Uses /\ <<t, Former(s[2])>> \in Slots
  BY DEF Slots, Uses, Former
<1>4. Swapped(t) \in [Slots -> Pointers]
  <2>1. \A s \in Slots : (IF s[1] = t THEN slot[<<t, Former(s[2])>>] ELSE slot[s]) \in Pointers
    BY <1>1, <1>3
  <2>2. QED  BY <2>1 DEF Swapped
<1>5. slot' \in [Slots -> Pointers]
  <2>1. \A f \in [Slots -> Pointers] : [f EXCEPT ![<<t, "nxt">>] = Null] \in [Slots -> Pointers]
    <3>1. <<t, "nxt">> \in Slots  BY DEF Slots, Uses
    <3>2. QED  BY <1>1, <3>1, ExceptType, Zenon
  <2>2. QED  BY <1>2, <1>4, <2>1, Zenon
<1>6. \A s \in Slots : s # <<t, "nxt">> => slot'[s] = Swapped(t)[s]  BY <1>2, <1>4
<1>7. OthersSlots(t)
  <2>1. ASSUME NEW s \in Slots, s[1] # t  PROVE slot'[s] = slot[s]
    <3>1. s # <<t, "nxt">>  BY <2>1
    <3>2. Swapped(t)[s] = slot[s]  BY <2>1 DEF Swapped
    <3>3. QED  BY <1>6, <3>1, <3>2
  <2>2. QED  BY <2>1, Zenon DEF OthersSlots
<1>8. slot'[<<t, "prev">>] = slot[<<t, "cur">>]
  <2>1. <<t, "prev">> \in Slots /\ <<t, "prev">> # <<t, "nxt">>  BY DEF Slots, Uses
  <2>2. Swapped(t)[<<t, "prev">>] = slot[<<t, "cur">>]  BY <2>1 DEF Swapped, Former
  <2>3. QED  BY <1>6, <2>1, <2>2
<1>9. slot'[<<t, "cur">>] = slot[<<t, "nxt">>]
  <2>1. <<t, "cur">> \in Slots /\ <<t, "cur">> # <<t, "nxt">>  BY DEF Slots, Uses
  <2>2. Swapped(t)[<<t, "cur">>] = slot[<<t, "nxt">>]  BY <2>1 DEF Swapped, Former
  <2>3. QED  BY <1>6, <2>1, <2>2
<1>10. QED  BY <1>5, <1>7, <1>8, <1>9

\* A scan that has still to look at a slot follows it to its new name.
LEMMA FollowIs ==
  ASSUME NEW t \in Threads, NEW unseen
  PROVE  /\ Follow(t, unseen) \in SUBSET Slots
         /\ <<t, "cur">> \in unseen => <<t, "prev">> \in Follow(t, unseen)
         /\ <<t, "nxt">> \in unseen => <<t, "cur">> \in Follow(t, unseen)
         /\ \A u \in Threads, use \in Uses :
              u # t /\ <<u, use>> \in unseen => <<u, use>> \in Follow(t, unseen)
<1>1. <<t, "prev">> \in Slots /\ <<t, "cur">> \in Slots  BY DEF Slots, Uses
<1>2. \A u \in Threads, use \in Uses : <<u, use>> \in Slots /\ <<u, use>>[1] = u  BY DEF Slots
<1>3. Former("prev") = "cur" /\ Former("cur") = "nxt"  BY DEF Former
<1>4. Follow(t, unseen) \in SUBSET Slots  BY DEF Follow
<1>5. <<t, "cur">> \in unseen => <<t, "prev">> \in Follow(t, unseen)  BY <1>1, <1>3 DEF Follow
<1>6. <<t, "nxt">> \in unseen => <<t, "cur">> \in Follow(t, unseen)  BY <1>1, <1>3 DEF Follow
<1>7. \A u \in Threads, use \in Uses :
        u # t /\ <<u, use>> \in unseen => <<u, use>> \in Follow(t, unseen)
  BY <1>2 DEF Follow
<1>8. QED  BY <1>4, <1>5, <1>6, <1>7

\* What is known of a thread does not depend on its own scan.
LEMMA Unscanned ==
  ASSUME NEW l, NEW k, Same(k, l), k.pc = l.pc, NEW t, NEW nx, NEW vl, NEW sl, NEW fr, NEW lc,
         LocalOK(t, l, nx, vl, sl, fr, lc)
  PROVE  LocalOK(t, k, nx, vl, sl, fr, lc)
<1>1. /\ KindOK(l) /\ NodesOK(l) /\ PointersOK(l, nx) /\ LinksOK(l, nx, vl)
      /\ SlotsOK(t, l, sl) /\ GuardsOK(t, l, sl, fr, lc)
  BY Zenon DEF LocalOK
<1>2. KindOK(k) /\ NodesOK(k)  BY <1>1 DEF KindOK, NodesOK, Same
<1>3. PointersOK(k, nx)  BY <1>1 DEF PointersOK, Same
<1>4. LinksOK(k, nx, vl) /\ SlotsOK(t, k, sl)  BY <1>1 DEF LinksOK, SlotsOK, Same
<1>5. GuardsOK(t, k, sl, fr, lc)  BY <1>1 DEF GuardsOK, Same
<1>6. QED  BY <1>2, <1>3, <1>4, <1>5, Zenon DEF LocalOK

LEMMA AdvanceKeeps ==
  ASSUME ListInv, NEW t \in Threads, Advance(t), lst' = lst, stay' \in [Threads -> SUBSET Nodes],
         loc[t].pc \in {"nxtVerify", "test", "look"}, loc[t].kind # "clear",
         loc[t].kind # "walk" =>
           /\ Guards(t, "nxt", loc[t].nxt, slot, free, loc)
           /\ next[loc[t].cur].m \/ val[loc[t].cur] \notin loc[t].pred
  PROVE  ListInv'
<1> DEFINE l == loc[t]
           p == Come(l.kind, l.cur, l.nxt)
           q == [l EXCEPT !.prev = l.cur, !.cur = l.nxt, !.nxt = Null, !.mark = FALSE, !.pc = p]
<1>1. l \in Record  BY Mine
<1>2. /\ KindOK(l) /\ NodesOK(l) /\ PointersOK(l, next) /\ LinksOK(l, next, val)
      /\ GuardsOK(t, l, slot, free, loc)
  BY Mine, Zenon
<1>3. UNCHANGED <<memVars, poolVars, calls>>
      /\ loc' = [u \in Threads |-> IF u # t THEN [loc[u] EXCEPT !.unseen = Follow(t, @)] ELSE q]
  BY Zenon DEF Advance
<1>4. /\ slot' \in [Slots -> Pointers] /\ OthersSlots(t)
      /\ slot'[<<t, "prev">>] = slot[<<t, "cur">>] /\ slot'[<<t, "cur">>] = slot[<<t, "nxt">>]
  BY SwapIs, Zenon
<1>5. /\ l.cur \in Nodes /\ Known(l.cur, next) /\ Known(l.nxt, next)
  BY <1>2 DEF PointersOK, PrevPoints, CurPoints, NxtPoints, WalkPoints
<1>6. l.cur # HeadNode /\ l.cur # End  BY <1>5, Distinctions
<1>7. \/ p = "read" /\ l.nxt # End
      \/ p = "insBefore" /\ l.kind = "insert"
      \/ p = "insNext" /\ l.kind = "pushFront"
      \/ p \in {"load", "drop"} /\ l.kind \notin Inserters
  BY <1>1, <1>6, Fields DEF Come, Found, Inserters, Kinds
<1>8. p = "load" => l.kind # "walk"  BY <1>6 DEF Come, Found
<1>9. q \in Record
  <2>1. p \in Points  BY <1>7, EveryPoint
  <2>2. l.cur \in HolderOrNull  BY <1>5, Distinctions DEF HolderOrNull, Holders
  <2>3. l.nxt \in NodeOrEnd  BY <1>1, Fields
  <2>4. QED  BY <1>1, <2>1, <2>2, <2>3, Setters, Distinctions, Zenon
<1>10. /\ q.pc = p /\ q.kind = l.kind /\ q.node = l.node /\ q.chk = l.chk /\ q.pred = l.pred
       /\ q.prev = l.cur /\ q.cur = l.nxt
  BY <1>1 DEF Record
<1> HIDE DEF q, p
<1>11. loc \in [Threads -> Record]  BY RecordIs DEF ListInv
<1>12. \A u \in Threads : u # t =>
         /\ loc'[u] \in Record /\ Same(loc'[u], loc[u]) /\ loc'[u].pc = loc[u].pc
         /\ loc'[u].unseen = Follow(t, loc[u].unseen)
  <2>1. ASSUME NEW u \in Threads, u # t
        PROVE  /\ loc'[u] \in Record /\ Same(loc'[u], loc[u]) /\ loc'[u].pc = loc[u].pc
               /\ loc'[u].unseen = Follow(t, loc[u].unseen)
    <3>1. loc'[u] = [loc[u] EXCEPT !.unseen = Follow(t, loc[u].unseen)]  BY <1>3, <2>1
    <3>2. loc[u] \in Record  BY <1>11
    <3>3. Follow(t, loc[u].unseen) \in SUBSET Slots  BY FollowIs, Zenon
    <3>4. loc'[u] \in Record  BY <3>1, <3>2, <3>3, Setters, Zenon
    <3>5. Same(loc'[u], loc[u]) /\ loc'[u].pc = loc[u].pc /\ loc'[u].unseen = Follow(t, loc[u].unseen)
      BY <3>1, <3>2 DEF Record, Same
    <3>6. QED  BY <3>4, <3>5
  <2>2. QED  BY <2>1, Zenon
<1>13. loc'[t] = q  BY <1>3
<1>14. loc' \in [Threads -> Record]
  <2>1. \A u \in Threads : loc'[u] \in Record  BY <1>9, <1>12, <1>13
  <2>2. QED  BY <1>3, <2>1
<1>15. l.chk = Null  BY <1>2 DEF NodesOK
<1>16. \A u \in Threads : loc'[u].node = loc[u].node /\ loc'[u].chk = loc[u].chk
  BY <1>10, <1>12, <1>13 DEF Same
\* Whoever scans still sees the slots under their new names.
<1>17. \A n \in Nodes :
         /\ Kept(t, "cur", n, free, loc) => Kept(t, "prev", n, free', loc')
         /\ Kept(t, "nxt", n, free, loc) => Kept(t, "cur", n, free', loc')
         /\ \A u \in Threads, use \in Uses :
              u # t /\ Kept(u, use, n, free, loc) => Kept(u, use, n, free', loc')
  <2>1. ASSUME NEW n \in Nodes
        PROVE  /\ Kept(t, "cur", n, free, loc) => Kept(t, "prev", n, free', loc')
               /\ Kept(t, "nxt", n, free, loc) => Kept(t, "cur", n, free', loc')
               /\ \A u \in Threads, use \in Uses :
                    u # t /\ Kept(u, use, n, free, loc) => Kept(u, use, n, free', loc')
    <3>1. free' = free /\ n # loc'[t].chk  BY <1>3, <1>15, <1>16, Distinctions DEF poolVars
    <3>2. \A w \in Threads : w # t =>
            /\ <<t, "cur">> \in loc[w].unseen => <<t, "prev">> \in loc'[w].unseen
            /\ <<t, "nxt">> \in loc[w].unseen => <<t, "cur">> \in loc'[w].unseen
            /\ \A u \in Threads, use \in Uses :
                 u # t /\ <<u, use>> \in loc[w].unseen => <<u, use>> \in loc'[w].unseen
      BY <1>12, FollowIs
    <3>3. QED  BY <1>16, <3>1, <3>2 DEF Kept
  <2>2. QED  BY <2>1, Zenon
<1>18. TypeOK'
  <2>1. loc' \in [Threads -> [pc : Points, kind : Kinds, arg : Values \cup {Null}, pred : Preds,
                          node : Nodes \cup {Null}, prev : Holders \cup {Null},
                          cur : Nodes \cup {End, Null}, nxt : Nodes \cup {End, Null},
                          mark : BOOLEAN, chk : Nodes \cup {Null}, ret : Values \cup {Null},
                          unseen : SUBSET Slots]]
    BY <1>14, Zenon DEF Record, NodeOrNull, NodeOrEnd, HolderOrNull, ValueOrNull
  <2>2. TypeOK  BY DEF ListInv
  <2>3. UNCHANGED <<next, val, free, limbo, calls, lst>>  BY <1>3, Zenon DEF memVars, poolVars
  <2>4. QED  BY <1>4, <2>1, <2>2, <2>3, Zenon DEF TypeOK
<1>19. LocalOK(t, q, next', val', slot', free', loc')
  <2>1. UNCHANGED <<next, val, free>>  BY <1>3 DEF memVars, poolVars
  <2>2. KindOK(q)
    BY <1>2, <1>7, <1>8, <1>10 DEF KindOK, PoolPoints, ClearPoints, WalkPoints, Inserters
  <2>3. NodesOK(q)  BY <1>2, <1>7, <1>10, <1>15 DEF NodesOK, PoolPoints, Inserters
  <2>4. PointersOK(q, next)
    BY <1>5, <1>7, <1>10, Distinctions
    DEF PointersOK, PrevPoints, CurPoints, NxtPoints, ClearPoints, WalkPoints, Known, Holders
  <2>5. LinksOK(q, next, val)  BY <1>7, <1>10 DEF LinksOK
  <2>6. SlotsOK(t, q, slot')  BY <1>7, <1>10 DEF SlotsOK
  <2>7. GuardsOK(t, q, slot', free', loc')
    <3>1. CASE l.kind = "walk"  BY <1>10, <3>1 DEF GuardsOK
    <3>2. CASE l.kind # "walk"
      <4>1. Guards(t, "cur", l.cur, slot, free, loc)
        BY <1>2, <3>2 DEF GuardsOK, CurPoints, WalkPoints
      <4>2. Guards(t, "prev", q.prev, slot', free', loc')
        BY <1>4, <1>10, <1>17, <4>1 DEF Guards
      <4>3. Guards(t, "cur", q.cur, slot', free', loc')
        BY <1>4, <1>10, <1>17, <3>2 DEF Guards
      <4>4. q.pc \notin {"test", "look"}  BY <1>7, <1>10
      <4>5. QED  BY <4>2, <4>3, <4>4 DEF GuardsOK
    <3>3. QED  BY <3>1, <3>2
  <2>8. QED  BY <2>1, <2>2, <2>3, <2>4, <2>5, <2>6, <2>7, Zenon DEF LocalOK
<1>20. ASSUME NEW u \in Threads, u # t  PROVE LocalOK(u, loc'[u], next', val', slot', free', loc')
  <2>1. UNCHANGED <<next, val, free>>  BY <1>3 DEF memVars, poolVars
  <2>2. LocalOK(u, loc[u], next, val, slot, free, loc)  BY Zenon DEF ListInv, LocalsOK
  <2>3. \A use \in Uses : slot'[<<u, use>>] = slot[<<u, use>>]
    <3>1. \A use \in Uses : <<u, use>> \in Slots /\ <<u, use>>[1] = u  BY DEF Slots
    <3>2. QED  BY <1>4, <1>20, <3>1, Zenon DEF OthersSlots
  <2>4. KindOK(loc[u]) /\ NodesOK(loc[u]) /\ PointersOK(loc[u], next) /\ LinksOK(loc[u], next, val)
        /\ SlotsOK(u, loc[u], slot) /\ GuardsOK(u, loc[u], slot, free, loc)
    BY <2>2, Zenon DEF LocalOK
  <2>5. SlotsOK(u, loc[u], slot')  BY <2>3, <2>4, EveryUse DEF SlotsOK
  <2>6. \A use \in Uses : \A n :
          Guards(u, use, n, slot, free, loc) => Guards(u, use, n, slot', free', loc')
    BY <1>17, <1>20, <2>3, Zenon DEF Guards
  <2>7. GuardsOK(u, loc[u], slot', free', loc')  BY <2>4, <2>6, EveryUse, Zenon DEF GuardsOK
  <2>8. LocalOK(u, loc[u], next', val', slot', free', loc')
    BY <2>1, <2>4, <2>5, <2>7, Zenon DEF LocalOK
  <2>9. QED  BY <1>12, <1>20, <2>8, Unscanned, Zenon
<1>21. LocalsOK'
  <2>1. \A u \in Threads : LocalOK(u, loc'[u], next', val', slot', free', loc')
    BY <1>13, <1>19, <1>20, Zenon
  <2>2. QED  BY <2>1, Zenon DEF LocalsOK
<1>22. UNCHANGED <<next, val, free, limbo, lst>>  BY <1>3 DEF memVars, poolVars
<1>23. ChainIsList' /\ Distinct' /\ LinksKnown' /\ HaveValues'
  BY <1>22, Zenon DEF ListInv, ChainIsList, Distinct, LinksKnown, HaveValues
<1>24. Apart' /\ Complete' /\ GoneMarked'
  <2>1. \A u \in Threads : Held(u)' = Held(u)  BY <1>16 DEF Held
  <2>2. Linked' = Linked  BY <1>22 DEF Linked
  <2>3. Apart'  BY <1>22, <2>1, <2>2 DEF Apart, ListInv
  <2>4. Complete'  BY <1>22, <2>1, <2>2 DEF Complete, ListInv
  <2>5. GoneMarked'  BY <1>16, <1>22 DEF GoneMarked, ListInv
  <2>6. QED  BY <2>3, <2>4, <2>5
<1>25. OneKind'
  <2>1. \A u \in Threads : u # t => loc'[u].kind = loc[u].kind /\ loc'[u].pc = loc[u].pc
    BY <1>12 DEF Same
  <2>2. ~At(t, "idle") /\ loc'[t].kind = loc[t].kind /\ UNCHANGED calls  BY <1>3, <1>10, <1>13 DEF At
  <2>3. QED  BY <2>1, <2>2, SameCall, Zenon
<1>26. QED  BY <1>18, <1>21, <1>23, <1>24, <1>25, Zenon DEF ListInv

LEMMA PassingKeeps ==
  ASSUME ListInv, NEW t \in Threads, Visit(t) \/ PassBy(t) \/ IsNotTail(t) \/ MarkedMeanwhile(t)
  PROVE  ListInv'
<1> DEFINE l == loc[t]
<1>1. /\ KindOK(l) /\ PointersOK(l, next) /\ SlotsOK(t, l, slot) /\ GuardsOK(t, l, slot, free, loc)
      /\ l \in Record
  BY Mine, Zenon
<1>2. Advance(t) /\ lst' = lst  BY Zenon DEF Visit, PassBy, IsNotTail, MarkedMeanwhile, histVars
<1>3. stay \in [Threads -> SUBSET Nodes]  BY DEF ListInv, TypeOK
<1>4. CASE Visit(t)
  <2>1. l.pc = "nxtVerify" /\ l.kind = "walk"  BY <1>4 DEF Visit, NextVerified, At, InCall
  <2>2. stay' = IF l.mark THEN stay ELSE [stay EXCEPT ![t] = @ \ {l.cur}]  BY <1>4, Zenon DEF Visit
  <2>3. stay' \in [Threads -> SUBSET Nodes]  BY <1>3, <2>2
  <2>4. QED  BY <1>2, <2>1, <2>3, AdvanceKeeps
<1>5. CASE PassBy(t)
  <2>1. l.pc = "nxtVerify" /\ l.kind # "walk" /\ ~l.mark /\ val[l.cur] \notin l.pred
    BY <1>5 DEF PassBy, NextVerified, At, InCall
  <2>2. l.kind # "clear" /\ slot[<<t, "nxt">>] = l.nxt /\ l.cur \in Nodes
    BY <1>1, <2>1 DEF KindOK, WalkPoints, SlotsOK, PointersOK, CurPoints
  <2>3. next[l.cur].p = l.nxt /\ ~next[l.cur].m
    BY <1>1, <1>5, <2>1, Fields DEF PassBy, NextVerified
  <2>4. Guards(t, "cur", l.cur, slot, free, loc)  BY <1>1, <2>1 DEF GuardsOK, CurPoints, WalkPoints
  <2>5. l.cur \in Linked  BY <2>2, <2>3, <2>4, KeptLinked DEF Guards
  <2>6. l.nxt \in Linked \cup {End}  BY <2>3, <2>5, Chain
  <2>7. Guards(t, "nxt", l.nxt, slot, free, loc)
    BY <2>2, <2>6, LinkedKept, Distinctions DEF Guards
  <2>8. stay' \in [Threads -> SUBSET Nodes]  BY <1>3, <1>5 DEF PassBy, histVars
  <2>9. QED  BY <1>2, <2>1, <2>2, <2>7, <2>8, AdvanceKeeps
<1>6. CASE IsNotTail(t) \/ MarkedMeanwhile(t)
  <2>1. l.pc \in {"test", "look"}  BY <1>6 DEF IsNotTail, MarkedMeanwhile, At
  <2>2. l.kind \notin {"walk", "clear"}  BY <1>1, <2>1 DEF KindOK, WalkPoints
  <2>3. Guards(t, "nxt", l.nxt, slot, free, loc)  BY <1>1, <2>1, <2>2 DEF GuardsOK
  <2>4. next[l.cur].m \/ val[l.cur] \notin l.pred
    <3>1. CASE IsNotTail(t)
      <4>1. l.pc = "test"  BY <3>1 DEF IsNotTail, At
      <4>2. l.pred = {}  BY <1>1, <4>1 DEF KindOK
      <4>3. QED  BY <4>2
    <3>2. CASE MarkedMeanwhile(t)  BY <3>2 DEF MarkedMeanwhile
    <3>3. QED  BY <1>6, <3>1, <3>2
  <2>5. stay' \in [Threads -> SUBSET Nodes]  BY <1>3, <1>6 DEF IsNotTail, MarkedMeanwhile, histVars
  <2>6. QED  BY <1>2, <2>1, <2>2, <2>3, <2>4, <2>5, AdvanceKeeps
<1>7. QED  BY <1>4, <1>5, <1>6

-----------------------------------------------------------------------------
(* The node pool: a node changes hands.                                    *)

\* What all threads know after a step of one of them.
LEMMA LocalsKeep ==
  ASSUME ListInv, NEW t \in Threads, NEW q \in Record, loc' = [loc EXCEPT ![t] = q], OthersSlots(t),
         LocalOK(t, q, next', val', slot', free', loc'),
         \A u \in Threads, use \in Uses, n \in Nodes :
           u # t /\ Guards(u, use, n, slot, free, loc) => Kept(u, use, n, free', loc') /\ Stable(n),
         \A p \in NodeOrEnd : Known(p, next) => Known(p, next'),
         \A u \in Threads : u # t /\ loc[u].pc \in {"set", "head"} =>
           next'[loc[u].cur].p = next[loc[u].cur].p
  PROVE  LocalsOK'
<1>1. /\ loc'[t] = q
      /\ \A u \in Threads : u # t => loc'[u] = loc[u]
  BY Became, Zenon DEF ListInv
<1>2. ASSUME NEW u \in Threads, u # t  PROVE LocalOK(u, loc'[u], next', val', slot', free', loc')
  <2>1. ASSUME NEW use \in Uses, NEW n \in Nodes, Guards(u, use, n, slot, free, loc)
        PROVE  Guards(u, use, n, slot', free', loc') /\ Stable(n)
    <3>1. <<u, use>> \in Slots /\ <<u, use>>[1] = u  BY DEF Slots
    <3>2. slot'[<<u, use>>] = slot[<<u, use>>]  BY <1>2, <3>1, Zenon DEF OthersSlots
    <3>3. Kept(u, use, n, free', loc') /\ Stable(n)  BY <1>2, <2>1, Zenon
    <3>4. QED  BY <2>1, <3>2, <3>3, Zenon DEF Guards
  <2>2. \A use \in Uses, n \in Nodes :
          Guards(u, use, n, slot, free, loc) => Guards(u, use, n, slot', free', loc') /\ Stable(n)
    BY <2>1, Zenon
  <2>3. loc[u].pc \in {"set", "head"} => next'[loc[u].cur].p = next[loc[u].cur].p
    BY <1>2, Zenon
  <2>4. loc'[u] = loc[u]  BY <1>1, <1>2, Zenon
  <2>5. QED  BY <1>2, <2>2, <2>3, <2>4, Others, Zenon
<1>3. \A u \in Threads : LocalOK(u, loc'[u], next', val', slot', free', loc')
  BY <1>1, <1>2, Zenon
<1>4. QED  BY <1>3, Zenon DEF LocalsOK

LEMMA TypeKeeps ==
  ASSUME ListInv, NEW t \in Threads, NEW q \in Record, loc' = [loc EXCEPT ![t] = q],
         next' \in [Holders -> LinkType], val' \in [Nodes -> ValueOrNull],
         slot' \in [Slots -> Pointers], free' \subseteq Nodes, limbo' \in [Threads -> SUBSET Nodes],
         lst' \in Seq(Nodes), stay' \in [Threads -> SUBSET Nodes], calls' = calls
  PROVE  TypeOK'
<1>1. loc' \in [Threads -> Record]  BY Became, Zenon DEF ListInv
<1>2. loc' \in [Threads -> [pc : Points, kind : Kinds, arg : Values \cup {Null}, pred : Preds,
                          node : Nodes \cup {Null}, prev : Holders \cup {Null},
                          cur : Nodes \cup {End, Null}, nxt : Nodes \cup {End, Null},
                          mark : BOOLEAN, chk : Nodes \cup {Null}, ret : Values \cup {Null},
                          unseen : SUBSET Slots]]
  BY <1>1, Zenon DEF Record, NodeOrNull, NodeOrEnd, HolderOrNull, ValueOrNull
<1>3. calls \in [Threads -> [Kinds -> Nat]]  BY DEF ListInv, TypeOK
<1>4. next' \in [Holders -> [p : Nodes \cup {End, Null}, m : BOOLEAN]]
  BY Zenon DEF LinkType, NodeOrEnd
<1>5. val' \in [Nodes -> Values \cup {Null}]  BY Zenon DEF ValueOrNull
<1>6. QED  BY <1>2, <1>3, <1>4, <1>5, Zenon DEF TypeOK

LEMMA PoolKeeps ==
  ASSUME ListInv, NEW t \in Threads, NEW q \in Record, loc' = [loc EXCEPT ![t] = q],
         UNCHANGED <<next, slot, calls, histVars>>,
         loc[t].pc # "idle", q.kind = loc[t].kind, q.pc \in {"load", "alloc", "recheck", "retire"},
         KindOK(q), NodesOK(q),
         val' \in [Nodes -> ValueOrNull], free' \subseteq Nodes, limbo' \in [Threads -> SUBSET Nodes],
         \A u \in Threads, use \in Uses, n \in Nodes :
           u # t /\ Guards(u, use, n, slot, free, loc) => Kept(u, use, n, free', loc') /\ val'[n] = val[n],
         Apart', Complete', HaveValues', GoneMarked'
  PROVE  ListInv'
<1>1. UNCHANGED <<next, slot, calls, lst, stay>>  BY DEF histVars
<1>2. slot' \in [Slots -> Pointers] /\ OthersSlots(t)
  BY <1>1, SlotsSame, Zenon DEF ListInv
<1>3. TypeOK'
  <2>1. /\ next \in [Holders -> LinkType] /\ lst \in Seq(Nodes)
        /\ stay \in [Threads -> SUBSET Nodes]
    BY LinkTypes DEF ListInv, TypeOK
  <2>2. QED  BY <1>1, <1>2, <2>1, TypeKeeps, Zenon
<1>4. LocalOK(t, q, next', val', slot', free', loc')
  <2>1. q.pc \notin PrevPoints \cup CurPoints \cup NxtPoints
    BY DEF PrevPoints, CurPoints, NxtPoints, ClearPoints, WalkPoints
  <2>2. PointersOK(q, next') /\ LinksOK(q, next', val') /\ SlotsOK(t, q, slot')
    BY <2>1 DEF PointersOK, LinksOK, SlotsOK, ClearPoints
  <2>3. GuardsOK(t, q, slot', free', loc')  BY <2>1 DEF GuardsOK
  <2>4. QED  BY <2>2, <2>3, Zenon DEF LocalOK
<1>5. LocalsOK'
  <2>1. \A u \in Threads, use \in Uses, n \in Nodes :
           u # t /\ Guards(u, use, n, slot, free, loc) => Kept(u, use, n, free', loc') /\ Stable(n)
    BY <1>1, Zenon DEF Stable
  <2>2. \A p \in NodeOrEnd : Known(p, next) => Known(p, next')  BY <1>1, Zenon
  <2>3. \A u \in Threads : u # t /\ loc[u].pc \in {"set", "head"} =>
          next'[loc[u].cur].p = next[loc[u].cur].p
    BY <1>1, Zenon
  <2>4. QED  BY <1>2, <1>4, <2>1, <2>2, <2>3, LocalsKeep, Zenon
<1>6. ChainIsList' /\ Distinct' /\ LinksKnown'
  BY <1>1, Zenon DEF ListInv, ChainIsList, Distinct, LinksKnown
<1>7. OneKind'
  <2>1. loc'[t] = q /\ \A u \in Threads : u # t => loc'[u] = loc[u]
    BY Became, Zenon DEF ListInv
  <2>2. QED  BY <1>1, <2>1, SameCall DEF At
<1>8. QED  BY <1>3, <1>5, <1>6, <1>7, Zenon DEF ListInv

\* A node that nobody can have guarded is taken for the value.
LEMMA ObtainIs ==
  ASSUME ListInv, NEW t \in Threads, NEW n \in Nodes, Obtain(t, n), loc[t].pc \in PoolPoints
  PROVE  \E q \in Record :
           /\ loc' = [loc EXCEPT ![t] = q] /\ q.kind = loc[t].kind /\ q.pc = "load"
           /\ KindOK(q) /\ NodesOK(q) /\ q.node = n /\ q.chk = Null
           /\ q.arg = loc[t].arg /\ q.pred = loc[t].pred
           /\ val' \in [Nodes -> ValueOrNull] /\ val'[n] \in Values
           /\ val'[n] = loc[t].arg /\ \A m \in Nodes : m # n => val'[m] = val[m]
<1> DEFINE l == loc[t]
           q == [l EXCEPT !.pc = "load", !.node = n, !.chk = Null]
<1>1. l \in Record /\ KindOK(l) /\ NodesOK(l)  BY Mine
<1>2. loc' = [loc EXCEPT ![t] = q] /\ val' = [val EXCEPT ![n] = l.arg]  BY Zenon DEF Obtain
<1>3. n \in NodeOrNull /\ n # Null  BY Distinctions
<1>4. q \in Record  BY <1>1, <1>3, EveryPoint, Setters, Distinctions, Zenon
<1>5. /\ q.pc = "load" /\ q.kind = l.kind /\ q.node = n /\ q.chk = Null /\ q.pred = l.pred
      /\ q.arg = l.arg
  BY <1>1 DEF Record
<1> HIDE DEF q
<1>6. l.kind \in Inserters /\ l.arg \in Values /\ l.pc # "idle"  BY <1>1 DEF KindOK, PoolPoints
<1>7. KindOK(q)  BY <1>1, <1>5, <1>6 DEF KindOK, PoolPoints, ClearPoints, WalkPoints
<1>8. NodesOK(q)  BY <1>3, <1>5, <1>6 DEF NodesOK, PoolPoints
<1>9. val \in [Nodes -> ValueOrNull] /\ l.arg \in ValueOrNull  BY <1>1, LinkTypes, Fields DEF ListInv
<1>10. val' \in [Nodes -> ValueOrNull]  BY <1>2, <1>9, ExceptType, Zenon
<1>11. val'[n] = l.arg /\ \A m \in Nodes : m # n => val'[m] = val[m]  BY <1>2, <1>9
<1>12. QED  BY <1>2, <1>4, <1>5, <1>6, <1>7, <1>8, <1>10, <1>11, Zenon

\* The nodes that a thread has at each point.
LEMMA HeldIs ==
  ASSUME ListInv, NEW t \in Threads
  PROVE  /\ loc[t].pc \in {"pool", "alloc"} => Held(t) = {}
         /\ loc[t].pc = "recheck" =>
              loc[t].chk \in Nodes /\ loc[t].node = Null /\ Held(t) = {loc[t].chk}
         /\ loc[t].pc = "retire" =>
              loc[t].chk \in Nodes /\ loc[t].chk \in Held(t) /\ loc[t].node # loc[t].chk
<1>1. loc[t] \in Record /\ NodesOK(loc[t])  BY Mine
<1>2. loc[t].chk \in NodeOrNull  BY <1>1, Fields
<1>3. QED  BY <1>1, <1>2 DEF NodesOK, NodeOrNull, Held, PoolPoints

LEMMA TakeFreeKeeps ==
  ASSUME ListInv, NEW t \in Threads, TakeFree(t)
  PROVE  ListInv'
<1>1. loc[t].pc \in {"pool", "alloc"}  BY DEF TakeFree, At
<1>2. PICK n \in free : Obtain(t, n) /\ free' = free \ {n}  BY Zenon DEF TakeFree
<1>3. UNCHANGED <<next, slot, limbo, calls, histVars>>  BY DEF TakeFree
<1>4. free \subseteq Nodes /\ n \in Nodes /\ limbo \in [Threads -> SUBSET Nodes]
  BY DEF ListInv, TypeOK
<1>5. loc[t].pc \in PoolPoints  BY <1>1 DEF PoolPoints
<1>6. PICK q \in Record :
        /\ loc' = [loc EXCEPT ![t] = q] /\ q.kind = loc[t].kind /\ q.pc = "load"
        /\ KindOK(q) /\ NodesOK(q) /\ q.node = n /\ q.chk = Null
        /\ val' \in [Nodes -> ValueOrNull] /\ val'[n] \in Values
        /\ \A m \in Nodes : m # n => val'[m] = val[m]
  BY <1>2, <1>4, <1>5, ObtainIs, Zenon
<1>7. /\ loc'[t] = q
      /\ \A u \in Threads : u # t => loc'[u] = loc[u]
  BY <1>6, Became, Zenon DEF ListInv
<1>8. Held(t)' = {n} /\ Held(t) = {} /\ \A u \in Threads : u # t => Held(u)' = Held(u)
  <2>1. n # Null  BY <1>4, Distinctions
  <2>2. QED  BY <1>1, <1>6, <1>7, <2>1, HeldIs DEF Held
<1>9. UNCHANGED <<next, limbo, lst>> /\ Linked' = Linked  BY <1>3 DEF histVars, Linked
<1>10. Apart'  BY <1>2, <1>8, <1>9 DEF Apart, ListInv
<1>11. Complete'  BY <1>2, <1>8, <1>9 DEF Complete, ListInv
<1>12. HaveValues'  BY <1>2, <1>6 DEF HaveValues, ListInv
<1>13. GoneMarked'  BY <1>6, <1>7, <1>9 DEF GoneMarked, ListInv
<1>14. \A u \in Threads, use \in Uses, m \in Nodes :
         u # t /\ Guards(u, use, m, slot, free, loc) => Kept(u, use, m, free', loc') /\ val'[m] = val[m]
  <2>1. ASSUME NEW u \in Threads, NEW use \in Uses, NEW m \in Nodes, Guards(u, use, m, slot, free, loc)
        PROVE  Kept(u, use, m, free', loc') /\ val'[m] = val[m]
    <3>1. Kept(u, use, m, free, loc) /\ m # Null  BY <2>1, Distinctions DEF Guards
    <3>2. m # n  BY <3>1 DEF Kept
    <3>3. QED  BY <1>2, <1>6, <1>7, <3>1, <3>2 DEF Kept
  <2>2. QED  BY <2>1, Zenon
<1>15. free' \subseteq Nodes /\ limbo' \in [Threads -> SUBSET Nodes]  BY <1>2, <1>4, <1>9
<1>16. UNCHANGED <<next, slot, calls, histVars>> /\ loc[t].pc # "idle"
       /\ q.pc \in {"load", "alloc", "recheck", "retire"}
  BY <1>1, <1>3, <1>6
<1>17. QED
  BY <1>6, <1>10, <1>11, <1>12, <1>13, <1>14, <1>15, <1>16, PoolKeeps, Zenon

LEMMA ReuseKeeps ==
  ASSUME ListInv, NEW t \in Threads, Reuse(t)
  PROVE  ListInv'
<1> DEFINE n == loc[t].chk
<1>1. loc[t].pc = "recheck" /\ loc[t].unseen = {}  BY DEF Reuse, At
<1>2. Obtain(t, n) /\ UNCHANGED <<next, slot, poolVars, calls, histVars>>  BY Zenon DEF Reuse
<1>3. n \in Nodes /\ loc[t].node = Null /\ Held(t) = {n}  BY <1>1, HeldIs
<1>4. free \subseteq Nodes /\ limbo \in [Threads -> SUBSET Nodes]
  BY DEF ListInv, TypeOK
<1>5. loc[t].pc \in PoolPoints  BY <1>1 DEF PoolPoints
<1>6. PICK q \in Record :
        /\ loc' = [loc EXCEPT ![t] = q] /\ q.kind = loc[t].kind /\ q.pc = "load"
        /\ KindOK(q) /\ NodesOK(q) /\ q.node = n /\ q.chk = Null
        /\ val' \in [Nodes -> ValueOrNull] /\ val'[n] \in Values
        /\ \A m \in Nodes : m # n => val'[m] = val[m]
  BY <1>2, <1>3, <1>5, ObtainIs, Zenon
<1>7. /\ loc'[t] = q
      /\ \A u \in Threads : u # t => loc'[u] = loc[u]
  BY <1>6, Became, Zenon DEF ListInv
<1>8. \A u \in Threads : Held(u)' = Held(u)
  <2>1. n # Null  BY <1>3, Distinctions
  <2>2. QED  BY <1>3, <1>6, <1>7, <2>1 DEF Held
<1>9. UNCHANGED <<next, free, limbo, lst>> /\ Linked' = Linked  BY <1>2 DEF poolVars, histVars, Linked
<1>10. Apart' /\ Complete'  BY <1>8, <1>9 DEF Apart, Complete, ListInv
<1>11. HaveValues'  BY <1>6, <1>9 DEF HaveValues, ListInv
<1>12. GoneMarked'  BY <1>6, <1>7, <1>9 DEF GoneMarked, ListInv
<1>13. \A u \in Threads, use \in Uses, m \in Nodes :
         u # t /\ Guards(u, use, m, slot, free, loc) => Kept(u, use, m, free', loc') /\ val'[m] = val[m]
  <2>1. ASSUME NEW u \in Threads, NEW use \in Uses, NEW m \in Nodes, Guards(u, use, m, slot, free, loc)
        PROVE  Kept(u, use, m, free', loc') /\ val'[m] = val[m]
    <3>1. Kept(u, use, m, free, loc) /\ m # Null  BY <2>1, Distinctions DEF Guards
    <3>2. m # n  BY <1>1, <3>1 DEF Kept
    <3>3. QED  BY <1>6, <1>7, <1>9, <3>1, <3>2 DEF Kept
  <2>2. QED  BY <2>1, Zenon
<1>14. free' \subseteq Nodes /\ limbo' \in [Threads -> SUBSET Nodes]  BY <1>4, <1>9
<1>15. UNCHANGED <<next, slot, calls, histVars>> /\ loc[t].pc # "idle"
       /\ q.pc \in {"load", "alloc", "recheck", "retire"}
  BY <1>1, <1>2, <1>6
<1>16. QED
  BY <1>6, <1>10, <1>11, <1>12, <1>13, <1>14, <1>15, PoolKeeps, Zenon

LEMMA RecheckKeeps ==
  ASSUME ListInv, NEW t \in Threads, Recheck(t)
  PROVE  ListInv'
<1> DEFINE l == loc[t]
<1>1. l \in Record /\ KindOK(l) /\ NodesOK(l) /\ l.pc = "pool"  BY Mine DEF Recheck, At
<1>2. PICK n \in limbo[t] :
        /\ loc' = [loc EXCEPT ![t].pc = "recheck", ![t].chk = n, ![t].unseen = SlotsOfOthers(t)]
        /\ limbo' = [limbo EXCEPT ![t] = @ \ {n}]
  BY Zenon DEF Recheck
<1>3. UNCHANGED <<memVars, slot, free, calls, histVars>>  BY DEF Recheck
<1> DEFINE q == [l EXCEPT !.pc = "recheck", !.chk = n, !.unseen = SlotsOfOthers(t)]
<1>4. /\ free \subseteq Nodes /\ limbo \in [Threads -> SUBSET Nodes] /\ val \in [Nodes -> ValueOrNull]
  BY LinkTypes DEF ListInv, TypeOK
<1>5. n \in Nodes /\ n # Null /\ n \in NodeOrNull  BY <1>4, Distinctions
<1>6. SlotsOfOthers(t) \in SUBSET Slots
      /\ \A u \in Threads, use \in Uses : u # t => <<u, use>> \in SlotsOfOthers(t)
  BY DEF SlotsOfOthers, Slots
<1>7. loc' = [loc EXCEPT ![t] = q]  BY <1>2, Zenon
<1>8. q \in Record  BY <1>1, <1>5, <1>6, EveryPoint, Setters, Zenon
<1>9. /\ q.pc = "recheck" /\ q.kind = l.kind /\ q.node = l.node /\ q.chk = n /\ q.pred = l.pred
      /\ q.arg = l.arg /\ q.unseen = SlotsOfOthers(t)
  BY <1>1 DEF Record
<1> HIDE DEF q
<1>10. /\ loc'[t] = q
       /\ \A u \in Threads : u # t => loc'[u] = loc[u]
  BY <1>7, <1>8, Became, Zenon DEF ListInv
<1>11. Held(t) = {} /\ Held(t)' = {n} /\ \A u \in Threads : u # t => Held(u)' = Held(u)
  BY <1>1, <1>5, <1>9, <1>10, HeldIs DEF Held
<1>12. UNCHANGED <<next, val, free, lst>> /\ Linked' = Linked  BY <1>3 DEF memVars, histVars, Linked
<1>13. limbo'[t] = limbo[t] \ {n} /\ \A u \in Threads : u # t => limbo'[u] = limbo[u]
  BY <1>2, <1>4
<1>14. Apart'  BY <1>11, <1>12, <1>13 DEF Apart, ListInv
<1>15. Complete'  BY <1>11, <1>12, <1>13 DEF Complete, ListInv
<1>16. HaveValues'  BY <1>12 DEF HaveValues, ListInv
<1>17. GoneMarked'  BY <1>9, <1>10, <1>12, <1>13 DEF GoneMarked, ListInv
<1>18. \A u \in Threads, use \in Uses, m \in Nodes :
         u # t /\ Guards(u, use, m, slot, free, loc) => Kept(u, use, m, free', loc') /\ val'[m] = val[m]
  <2>1. ASSUME NEW u \in Threads, NEW use \in Uses, NEW m \in Nodes, u # t,
               Guards(u, use, m, slot, free, loc)
        PROVE  Kept(u, use, m, free', loc') /\ val'[m] = val[m]
    <3>1. Kept(u, use, m, free, loc)  BY <2>1, Zenon DEF Guards
    <3>2. QED  BY <1>6, <1>9, <1>10, <1>12, <2>1, <3>1 DEF Kept
  <2>2. QED  BY <2>1, Zenon
<1>19. KindOK(q) /\ NodesOK(q)
  BY <1>1, <1>5, <1>9 DEF KindOK, NodesOK, PoolPoints, ClearPoints, WalkPoints
<1>20. /\ free' \subseteq Nodes /\ limbo' \in [Threads -> SUBSET Nodes]
       /\ val' \in [Nodes -> ValueOrNull]
  BY <1>2, <1>4, <1>12
<1>21. UNCHANGED <<next, slot, calls, histVars>> /\ l.pc # "idle"
       /\ q.pc \in {"load", "alloc", "recheck", "retire"}
  BY <1>1, <1>3, <1>9 DEF memVars
<1>22. QED
  BY <1>7, <1>8, <1>9, <1>14, <1>15, <1>16, <1>17, <1>18, <1>19, <1>20, <1>21, PoolKeeps, Zenon

LEMMA ScanSlotKeeps ==
  ASSUME ListInv, NEW t \in Threads, ScanSlot(t)
  PROVE  ListInv'
<1> DEFINE l == loc[t]
<1>1. l \in Record /\ KindOK(l) /\ NodesOK(l) /\ l.pc \in {"retire", "recheck"}
  BY Mine DEF ScanSlot, Scanning, At
<1>2. PICK s \in l.unseen : /\ slot[s] # l.chk
                            /\ loc' = [loc EXCEPT ![t].unseen = @ \ {s}]
  BY Zenon DEF ScanSlot
<1>3. UNCHANGED <<memVars, slot, poolVars, calls, histVars>>  BY DEF ScanSlot
<1> DEFINE q == [l EXCEPT !.unseen = l.unseen \ {s}]
<1>4. loc' = [loc EXCEPT ![t] = q]  BY <1>2, Zenon
<1>5. l.unseen \ {s} \in SUBSET Slots  BY <1>1, Fields
<1>6. q \in Record  BY <1>1, <1>5, Setters, Zenon
<1>7. q.pc = l.pc /\ q.arg = l.arg /\ Same(q, l) /\ q.unseen = l.unseen \ {s}
  BY <1>1 DEF Record, Same
<1> HIDE DEF q
<1>8. /\ loc'[t] = q
      /\ \A u \in Threads : u # t => loc'[u] = loc[u]
  BY <1>4, <1>6, Became, Zenon DEF ListInv
<1>9. \A u \in Threads : loc'[u].node = loc[u].node /\ loc'[u].chk = loc[u].chk
  BY <1>7, <1>8 DEF Same
<1>10. \A u \in Threads : Held(u)' = Held(u)  BY <1>9 DEF Held
<1>11. UNCHANGED <<next, val, free, limbo, lst>> /\ Linked' = Linked
  BY <1>3 DEF memVars, poolVars, histVars, Linked
<1>12. Apart' /\ Complete'  BY <1>10, <1>11 DEF Apart, Complete, ListInv
<1>13. HaveValues'  BY <1>11 DEF HaveValues, ListInv
<1>14. GoneMarked'  BY <1>9, <1>11 DEF GoneMarked, ListInv
<1>15. \A u \in Threads, use \in Uses, m \in Nodes :
         u # t /\ Guards(u, use, m, slot, free, loc) => Kept(u, use, m, free', loc') /\ val'[m] = val[m]
  <2>1. ASSUME NEW u \in Threads, NEW use \in Uses, NEW m \in Nodes, u # t,
               Guards(u, use, m, slot, free, loc)
        PROVE  Kept(u, use, m, free', loc') /\ val'[m] = val[m]
    <3>1. Kept(u, use, m, free, loc) /\ slot[<<u, use>>] = m  BY <2>1, Zenon DEF Guards
    <3>2. m = l.chk => <<u, use>> \in q.unseen  BY <1>2, <1>7, <3>1 DEF Kept
    <3>3. \A w \in Threads : m = loc'[w].chk => u # w /\ <<u, use>> \in loc'[w].unseen
      BY <1>7, <1>8, <2>1, <3>1, <3>2 DEF Kept, Same
    <3>4. QED  BY <1>9, <1>11, <3>1, <3>3 DEF Kept
  <2>2. QED  BY <2>1, Zenon
<1>16. KindOK(q) /\ NodesOK(q)
  BY <1>1, <1>7 DEF KindOK, NodesOK, PoolPoints, ClearPoints, WalkPoints, Same
<1>17. /\ free' \subseteq Nodes /\ limbo' \in [Threads -> SUBSET Nodes]
       /\ val' \in [Nodes -> ValueOrNull]
  BY <1>11, LinkTypes DEF ListInv, TypeOK
<1>18. UNCHANGED <<next, slot, calls, histVars>> /\ l.pc # "idle" /\ q.kind = l.kind
       /\ q.pc \in {"load", "alloc", "recheck", "retire"}
  BY <1>1, <1>3, <1>7 DEF memVars, Same
<1>19. QED
  BY <1>4, <1>6, <1>12, <1>13, <1>14, <1>15, <1>16, <1>17, <1>18, PoolKeeps, Zenon

\* The thread gives up the node that it has scanned for.
LEMMA ResumedIs ==
  ASSUME ListInv, NEW t \in Threads, loc[t].pc \in {"retire", "recheck"},
         loc' = [loc EXCEPT ![t] = Resumed(@)]
  PROVE  /\ loc[t].chk \in Nodes /\ loc[t].chk \in Held(t)
         /\ \E q \in Record :
              /\ loc' = [loc EXCEPT ![t] = q] /\ loc'[t] = q
              /\ q.kind = loc[t].kind /\ q.pc \in {"load", "alloc"}
              /\ q.node = loc[t].node /\ q.chk = Null
              /\ KindOK(q) /\ NodesOK(q)
              /\ q.arg = loc[t].arg /\ q.pred = loc[t].pred
         /\ \A u \in Threads : u # t => loc'[u] = loc[u]
         /\ Held(t)' = Held(t) \ {loc[t].chk} /\ \A u \in Threads : u # t => Held(u)' = Held(u)
<1> DEFINE l == loc[t]
           q == Resumed(l)
<1>1. l \in Record /\ KindOK(l) /\ NodesOK(l)  BY Mine
<1>2. loc' = [loc EXCEPT ![t] = q]  BY Zenon
<1>3. q \in Record
  <2>1. /\ "load" \in Points /\ "alloc" \in Points /\ FALSE \in BOOLEAN /\ Null \in HolderOrNull
        /\ Null \in NodeOrEnd /\ Null \in NodeOrNull /\ {} \in SUBSET Slots
    BY EveryPoint, Distinctions
  <2>2. Restarted(l) \in Record  BY <1>1, <2>1, Setters, Zenon DEF Restarted
  <2>3. [l EXCEPT !.pc = "alloc", !.chk = Null, !.unseen = {}] \in Record
    BY <1>1, <2>1, Setters, Zenon
  <2>4. QED  BY <2>2, <2>3, Zenon DEF Resumed
<1>4. /\ q.kind = l.kind /\ q.node = l.node /\ q.chk = Null /\ q.arg = l.arg /\ q.pred = l.pred
      /\ q.pc = IF l.pc = "retire" THEN "load" ELSE "alloc"
  BY <1>1 DEF Resumed, Restarted, Record
<1> HIDE DEF q
<1>5. /\ loc'[t] = q
      /\ \A u \in Threads : u # t => loc'[u] = loc[u]
  BY <1>2, <1>3, Became, Zenon DEF ListInv
<1>6. l.chk \in Nodes /\ l.chk \in Held(t) /\ l.node # l.chk
  BY HeldIs, <1>1, Distinctions
<1>7. KindOK(q) /\ NodesOK(q)
  BY <1>1, <1>4 DEF KindOK, NodesOK, PoolPoints, ClearPoints, WalkPoints
<1>8. Held(t)' = Held(t) \ {l.chk} /\ \A u \in Threads : u # t => Held(u)' = Held(u)
  BY <1>4, <1>5, <1>6 DEF Held
<1>9. q.pc \in {"load", "alloc"}  BY <1>4
<1>10. QED  BY <1>2, <1>3, <1>4, <1>5, <1>6, <1>7, <1>8, <1>9, Zenon

LEMMA FoundInHazardKeeps ==
  ASSUME ListInv, NEW t \in Threads, FoundInHazard(t)
  PROVE  ListInv'
<1> DEFINE n == loc[t].chk
<1>1. loc[t].pc \in {"retire", "recheck"}  BY DEF FoundInHazard, Scanning, At
<1>2. /\ limbo' = [limbo EXCEPT ![t] = @ \cup {n}] /\ loc' = [loc EXCEPT ![t] = Resumed(@)]
      /\ UNCHANGED <<memVars, slot, free, calls, histVars>>
  BY Zenon DEF FoundInHazard
<1>3. /\ n \in Nodes /\ n \in Held(t)
      /\ \A u \in Threads : u # t => loc'[u] = loc[u]
      /\ Held(t)' = Held(t) \ {n} /\ \A u \in Threads : u # t => Held(u)' = Held(u)
  BY <1>1, <1>2, ResumedIs, Zenon
<1>4. PICK q \in Record :
        /\ loc' = [loc EXCEPT ![t] = q] /\ loc'[t] = q
        /\ q.kind = loc[t].kind /\ q.pc \in {"load", "alloc"}
        /\ q.node = loc[t].node /\ q.chk = Null
        /\ KindOK(q) /\ NodesOK(q)
  BY <1>1, <1>2, ResumedIs, Zenon
<1>5. n # Null  BY <1>3, Distinctions
<1>6. UNCHANGED <<next, val, free, lst>> /\ Linked' = Linked  BY <1>2 DEF memVars, histVars, Linked
<1>7. limbo \in [Threads -> SUBSET Nodes]  BY DEF ListInv, TypeOK
<1>8. limbo'[t] = limbo[t] \cup {n} /\ \A u \in Threads : u # t => limbo'[u] = limbo[u]
  BY <1>2, <1>7
<1>9. Apart'  BY <1>3, <1>6, <1>8 DEF Apart, ListInv
<1>10. Complete'  BY <1>3, <1>6, <1>8 DEF Complete, ListInv
<1>11. HaveValues'  BY <1>6 DEF HaveValues, ListInv
<1>12. GoneMarked'  BY <1>3, <1>4, <1>5, <1>6, <1>8 DEF GoneMarked, ListInv
<1>13. \A u \in Threads, use \in Uses, m \in Nodes :
         u # t /\ Guards(u, use, m, slot, free, loc) => Kept(u, use, m, free', loc') /\ val'[m] = val[m]
  <2>1. ASSUME NEW u \in Threads, NEW use \in Uses, NEW m \in Nodes, u # t,
               Guards(u, use, m, slot, free, loc)
        PROVE  Kept(u, use, m, free', loc') /\ val'[m] = val[m]
    <3>1. Kept(u, use, m, free, loc) /\ m # Null  BY <2>1, Distinctions DEF Guards
    <3>2. QED  BY <1>3, <1>4, <1>6, <3>1 DEF Kept
  <2>2. QED  BY <2>1, Zenon
<1>14. /\ free' \subseteq Nodes /\ limbo' \in [Threads -> SUBSET Nodes]
       /\ val' \in [Nodes -> ValueOrNull]
  BY <1>2, <1>3, <1>6, <1>7, LinkTypes DEF ListInv, TypeOK
<1>15. UNCHANGED <<next, slot, calls, histVars>> /\ loc[t].pc # "idle"
       /\ q.pc \in {"load", "alloc", "recheck", "retire"}
  BY <1>1, <1>2, <1>4 DEF memVars
<1>16. QED
  BY <1>4, <1>9, <1>10, <1>11, <1>12, <1>13, <1>14, <1>15, PoolKeeps, Zenon

LEMMA ReclaimKeeps ==
  ASSUME ListInv, NEW t \in Threads, Reclaim(t)
  PROVE  ListInv'
<1> DEFINE n == loc[t].chk
<1>1. loc[t].pc \in {"retire", "recheck"} /\ loc[t].unseen = {}  BY DEF Reclaim, At
<1>2. /\ free' = free \cup {n} /\ val' = [val EXCEPT ![n] = Null]
      /\ loc' = [loc EXCEPT ![t] = Resumed(@)] /\ UNCHANGED <<next, slot, limbo, calls, histVars>>
  BY Zenon DEF Reclaim
<1>3. /\ n \in Nodes /\ n \in Held(t)
      /\ \A u \in Threads : u # t => loc'[u] = loc[u]
      /\ Held(t)' = Held(t) \ {n} /\ \A u \in Threads : u # t => Held(u)' = Held(u)
  BY <1>1, <1>2, ResumedIs, Zenon
<1>4. PICK q \in Record :
        /\ loc' = [loc EXCEPT ![t] = q] /\ loc'[t] = q
        /\ q.kind = loc[t].kind /\ q.pc \in {"load", "alloc"}
        /\ q.node = loc[t].node /\ q.chk = Null
        /\ KindOK(q) /\ NodesOK(q)
  BY <1>1, <1>2, ResumedIs, Zenon
<1>5. n # Null  BY <1>3, Distinctions
<1>6. UNCHANGED <<next, limbo, lst>> /\ Linked' = Linked  BY <1>2 DEF histVars, Linked
<1>7. /\ limbo \in [Threads -> SUBSET Nodes] /\ free \subseteq Nodes
      /\ val \in [Nodes -> ValueOrNull] /\ Null \in ValueOrNull
  BY LinkTypes, Distinctions DEF ListInv, TypeOK
<1>8. \A m \in Nodes : m # n => val'[m] = val[m]  BY <1>2, <1>7
<1>9. Apart'
  BY <1>2, <1>3, <1>6 DEF Apart, ListInv
<1>10. Complete'  BY <1>2, <1>3, <1>6 DEF Complete, ListInv
<1>11. HaveValues'  BY <1>2, <1>8 DEF HaveValues, ListInv
<1>12. GoneMarked'  BY <1>3, <1>4, <1>5, <1>6 DEF GoneMarked, ListInv
<1>13. \A u \in Threads, use \in Uses, m \in Nodes :
         u # t /\ Guards(u, use, m, slot, free, loc) => Kept(u, use, m, free', loc') /\ val'[m] = val[m]
  <2>1. ASSUME NEW u \in Threads, NEW use \in Uses, NEW m \in Nodes, u # t,
               Guards(u, use, m, slot, free, loc)
        PROVE  Kept(u, use, m, free', loc') /\ val'[m] = val[m]
    <3>1. Kept(u, use, m, free, loc) /\ m # Null  BY <2>1, Distinctions DEF Guards
    <3>2. m # n  BY <1>1, <3>1 DEF Kept
    <3>3. QED  BY <1>2, <1>3, <1>4, <1>8, <3>1, <3>2 DEF Kept
  <2>2. QED  BY <2>1, Zenon
<1>14. free' \subseteq Nodes /\ limbo' \in [Threads -> SUBSET Nodes]  BY <1>2, <1>3, <1>7
<1>15. val' \in [Nodes -> ValueOrNull]  BY <1>2, <1>3, <1>7, ExceptType, Zenon
<1>16. UNCHANGED <<next, slot, calls, histVars>> /\ loc[t].pc # "idle"
       /\ q.pc \in {"load", "alloc", "recheck", "retire"}
  BY <1>1, <1>2, <1>4
<1>17. QED
  BY <1>4, <1>9, <1>10, <1>11, <1>12, <1>13, <1>14, <1>15, <1>16, PoolKeeps, Zenon

-----------------------------------------------------------------------------
(* Marks.                                                                  *)

\* Who guards what does not depend on the control point of a thread.
LEMMA GotoKept ==
  ASSUME ListInv, NEW t \in Threads, NEW q \in Record, loc' = [loc EXCEPT ![t] = q], free' = free,
         q.node = loc[t].node, q.chk = loc[t].chk, q.unseen = loc[t].unseen,
         NEW u \in Threads, NEW use, NEW n, Kept(u, use, n, free, loc)
  PROVE  Kept(u, use, n, free', loc')
<1>1. /\ loc'[t] = q
      /\ \A w \in Threads : w # t => loc'[w] = loc[w]
  BY Became, Zenon DEF ListInv
<1>2. QED  BY <1>1 DEF Kept

LEMMA SetMarkKeeps ==
  ASSUME ListInv, NEW t \in Threads, NEW p \in {"unlink", "value", "head"}, Goto(t, p),
         SetMark(loc[t].cur), UNCHANGED <<val, slot, poolVars, calls, lst>>,
         loc[t].pc = (IF p = "head" THEN "set" ELSE "mark"),
         p = "unlink" <=> loc[t].kind = "removeAll"
  PROVE  ListInv'
<1> DEFINE l == loc[t]
           n == l.cur
           q == [l EXCEPT !.pc = p]
<1>1. l \in Record  BY Mine
<1>2. /\ KindOK(l) /\ NodesOK(l) /\ PointersOK(l, next) /\ LinksOK(l, next, val)
      /\ GuardsOK(t, l, slot, free, loc)
  BY Mine, Zenon
<1>3. loc' = [loc EXCEPT ![t] = q]  BY Zenon DEF Goto
<1>4. q \in Record  BY <1>1, EveryPoint, Setters, Zenon
<1>5. q.pc = p /\ Same(q, l) /\ q.unseen = l.unseen  BY <1>1 DEF Record, Same
<1> HIDE DEF q
<1>6. n \in Nodes /\ n \in Holders /\ n # HeadNode
  BY <1>2, Distinctions DEF PointersOK, CurPoints, ClearPoints
<1>7. next \in [Holders -> LinkType] /\ \A h \in Holders : next[h].p \in NodeOrEnd /\ next[h].m \in BOOLEAN
  BY LinkTypes DEF ListInv
<1>8. next' = [next EXCEPT ![n] = Marked(@)] /\ stay' = [u \in Threads |-> stay[u] \ {n}]
  BY Zenon DEF SetMark
<1>9. next' \in [Holders -> LinkType]
  <2>1. \A k \in LinkType : Marked(k) \in LinkType
    <3>1. \A k \in LinkType, b \in BOOLEAN : [k EXCEPT !.m = b] \in LinkType  BY DEF LinkType
    <3>2. TRUE \in BOOLEAN  OBVIOUS
    <3>3. QED  BY <3>1, <3>2, Zenon DEF Marked
  <2>2. Marked(next[n]) \in LinkType  BY <1>6, <1>7, <2>1
  <2>3. QED  BY <1>6, <1>7, <1>8, <2>2, ExceptType, Zenon
<1>10. \A h \in Holders : next'[h].p = next[h].p /\ (next[h].m => next'[h] = next[h])
  <2>1. \A k \in LinkType : Marked(k).p = k.p /\ (k.m => Marked(k) = k)
    BY DEF Marked, LinkType
  <2>2. \A h \in Holders : next'[h] = IF h = n THEN Marked(next[h]) ELSE next[h]
    BY <1>7, <1>8
  <2>3. QED  BY <1>7, <2>1, <2>2
<1>11. next'[n].m /\ next'[HeadNode] = next[HeadNode]
  <2>1. \A k \in LinkType : Marked(k).m = TRUE  BY DEF Marked, LinkType
  <2>2. HeadNode \in Holders /\ next[n] \in LinkType  BY <1>6, <1>7, Distinctions
  <2>3. QED  BY <1>6, <1>7, <1>8, <2>1, <2>2
<1>12. \A k \in NodeOrEnd : Known(k, next) => Known(k, next')  BY <1>10 DEF Known, Holders
<1>13. \A u \in Threads, use \in Uses, m \in Nodes :
         Guards(u, use, m, slot, free, loc) => Kept(u, use, m, free', loc') /\ Stable(m)
  <2>1. ASSUME NEW u \in Threads, NEW use \in Uses, NEW m \in Nodes, Guards(u, use, m, slot, free, loc)
        PROVE  Kept(u, use, m, free', loc') /\ Stable(m)
    <3>1. free' = free /\ val' = val  BY DEF poolVars
    <3>2. Kept(u, use, m, free, loc)  BY <2>1, Zenon DEF Guards
    <3>3. Kept(u, use, m, free', loc')  BY <1>3, <1>4, <1>5, <3>1, <3>2, GotoKept, Zenon DEF Same
    <3>4. Stable(m)  BY <1>10, <3>1 DEF Stable, Holders
    <3>5. QED  BY <3>3, <3>4
  <2>2. QED  BY <2>1, Zenon
<1>14. slot' \in [Slots -> Pointers] /\ OthersSlots(t)
  BY SlotsSame, Zenon DEF ListInv
<1>15. LocalOK(t, q, next', val', slot', free', loc')
  <2>1. l.kind # "walk" /\ l.pc \in CurPoints /\ l.pc \in PrevPoints
    BY <1>2 DEF KindOK, PrevPoints, CurPoints, WalkPoints, ClearPoints
  <2>2. KindOK(q)
    BY <1>2, <1>5, <2>1 DEF KindOK, PoolPoints, ClearPoints, WalkPoints, Same, Takers
  <2>3. NodesOK(q)  BY <1>2, <1>5 DEF NodesOK, PoolPoints, Same, KindOK, Takers, Inserters
  <2>4. PointersOK(q, next')
    <3>1. Known(l.cur, next') /\ (p = "head" => Known(l.nxt, next'))
      BY <1>1, <1>2, <1>12, <2>1, Fields DEF PointersOK, NxtPoints
    <3>2. QED
      BY <1>2, <1>5, <2>1, <3>1
      DEF PointersOK, PrevPoints, CurPoints, NxtPoints, ClearPoints, WalkPoints, Same
  <2>5. LinksOK(q, next', val')
    <3>1. l.prev \in Holders  BY <1>2, <2>1 DEF PointersOK
    <3>2. l.prev # HeadNode => next'[l.prev].m \/ val[l.prev] \notin l.pred
      BY <1>2, <1>10, <2>1, <3>1 DEF LinksOK
    <3>3. p = "head" => next'[n].p = l.nxt  BY <1>2, <1>6, <1>10 DEF LinksOK
    <3>4. QED  BY <1>5, <1>11, <3>2, <3>3 DEF LinksOK, Same
  <2>6. SlotsOK(t, q, slot')  BY <1>5 DEF SlotsOK
  <2>7. GuardsOK(t, q, slot', free', loc')
    <3>1. Guards(t, "prev", l.prev, slot, free, loc) /\ Guards(t, "cur", l.cur, slot, free, loc)
      BY <1>2, <2>1 DEF GuardsOK
    <3>2. Guards(t, "prev", l.prev, slot', free', loc') /\ Guards(t, "cur", l.cur, slot', free', loc')
      BY <1>13, <3>1, EveryUse, Zenon DEF Guards
    <3>3. QED  BY <1>5, <3>2 DEF GuardsOK, Same
  <2>8. QED  BY <2>2, <2>3, <2>4, <2>5, <2>6, <2>7, Zenon DEF LocalOK
<1>16. LocalsOK'
  <2>1. \A u \in Threads : u # t /\ loc[u].pc \in {"set", "head"} =>
          next'[loc[u].cur].p = next[loc[u].cur].p
    <3>1. \A u \in Threads : loc[u].pc \in {"set", "head"} => loc[u].cur \in Holders
      BY Mine DEF PointersOK, CurPoints, ClearPoints, Holders
    <3>2. QED  BY <1>10, <3>1
  <2>2. QED  BY <1>3, <1>4, <1>12, <1>13, <1>14, <1>15, <2>1, LocalsKeep, Zenon
<1>17. UNCHANGED <<val, free, limbo, calls, lst>> /\ Linked' = Linked  BY DEF poolVars, Linked
<1>18. TypeOK'
  <2>1. /\ val \in [Nodes -> ValueOrNull] /\ free \subseteq Nodes /\ limbo \in [Threads -> SUBSET Nodes]
        /\ lst \in Seq(Nodes) /\ stay \in [Threads -> SUBSET Nodes]
    BY LinkTypes DEF ListInv, TypeOK
  <2>2. stay' \in [Threads -> SUBSET Nodes]  BY <1>8, <2>1
  <2>3. QED  BY <1>3, <1>4, <1>9, <1>14, <1>17, <2>1, <2>2, TypeKeeps, Zenon
<1>19. ChainIsList'
  <2>1. lst \in Seq(Nodes)  BY LinkTypes DEF ListInv
  <2>2. \A i \in 0..Len(lst) : (IF i = 0 THEN HeadNode ELSE lst[i]) \in Holders
    BY <2>1, Distinctions DEF Holders
  <2>3. QED  BY <1>10, <1>11, <1>17, <2>2 DEF ChainIsList, ListInv
<1>20. \A u \in Threads : loc'[u].node = loc[u].node /\ loc'[u].chk = loc[u].chk
                          /\ (u # t => loc'[u] = loc[u])
  <2>1. /\ loc'[t] = q
        /\ \A w \in Threads : w # t => loc'[w] = loc[w]
    BY <1>3, <1>4, Became, Zenon DEF ListInv
  <2>2. QED  BY <1>5, <2>1 DEF Same
<1>21. Distinct' /\ Apart' /\ Complete' /\ HaveValues'
  <2>1. \A u \in Threads : Held(u)' = Held(u)  BY <1>20 DEF Held
  <2>2. Apart' /\ Complete'  BY <1>17, <2>1 DEF Apart, Complete, ListInv
  <2>3. QED  BY <1>17, <2>2 DEF Distinct, HaveValues, ListInv
<1>22. GoneMarked'
  <2>1. \A u \in Threads : loc[u].chk \in NodeOrNull /\ limbo[u] \subseteq Nodes
    BY Mine, Fields DEF ListInv, TypeOK
  <2>2. \A m \in Nodes : next[m].m => next'[m].m  BY <1>10 DEF Holders
  <2>3. QED  BY <1>17, <1>20, <2>1, <2>2 DEF GoneMarked, ListInv, NodeOrNull
<1>23. LinksKnown'  BY <1>7, <1>10, <1>12 DEF LinksKnown, ListInv
<1>24. OneKind'
  <2>1. loc'[t].kind = loc[t].kind  BY <1>3, <1>4, <1>5, Became DEF ListInv, Same
  <2>2. ~At(t, "idle") /\ UNCHANGED calls  BY DEF At
  <2>3. QED  BY <1>20, <2>1, <2>2, SameCall
<1>25. QED
  BY <1>16, <1>18, <1>19, <1>21, <1>22, <1>23, <1>24, Zenon DEF ListInv

LEMMA MarkKeeps ==
  ASSUME ListInv, NEW t \in Threads, Mark(t) \/ ClearMark(t)
  PROVE  ListInv'
<1>1. KindOK(loc[t])  BY Mine
<1>2. SetMark(loc[t].cur) /\ UNCHANGED <<val, slot, poolVars, calls, lst>>
  BY Zenon DEF Mark, ClearMark
<1>3. CASE Mark(t)
  <2>1. Goto(t, IF InCall(t, "removeAll") THEN "unlink" ELSE "value") /\ loc[t].pc = "mark"
    BY <1>3, Zenon DEF Mark, At
  <2>2. CASE InCall(t, "removeAll")
    <3>1. Goto(t, "unlink") /\ loc[t].kind = "removeAll"  BY <2>1, <2>2, Zenon DEF InCall
    <3>2. QED  BY <1>2, <2>1, <3>1, SetMarkKeeps
  <2>3. CASE ~InCall(t, "removeAll")
    <3>1. Goto(t, "value") /\ loc[t].kind # "removeAll"  BY <2>1, <2>3, Zenon DEF InCall
    <3>2. QED  BY <1>2, <2>1, <3>1, SetMarkKeeps
  <2>4. QED  BY <2>2, <2>3
<1>4. CASE ClearMark(t)
  <2>1. Goto(t, "head") /\ loc[t].pc = "set"  BY <1>4, Zenon DEF ClearMark, At
  <2>2. loc[t].kind # "removeAll"  BY <1>1, <2>1 DEF KindOK, ClearPoints
  <2>3. QED  BY <1>2, <2>1, <2>2, SetMarkKeeps
<1>5. QED  BY <1>3, <1>4

-----------------------------------------------------------------------------
(* The chain changes.                                                      *)

HolderAt(s, i) == IF i = 0 THEN HeadNode ELSE s[i]

LEMMA SubSeqIs ==
  ASSUME NEW E, NEW s \in Seq(E), NEW m \in Int, NEW n \in Int, 1 <= m, n <= Len(s), m - 1 <= n
  PROVE  /\ SubSeq(s, m, n) \in Seq(E) /\ Len(SubSeq(s, m, n)) = (n - m) + 1
         /\ \A j \in 1..((n - m) + 1) : SubSeq(s, m, n)[j] = s[(m + j) - 1]
OBVIOUS

LEMMA Removed ==
  ASSUME NEW E, NEW s \in Seq(E), NEW i \in 1..Len(s)
  PROVE  /\ RemovedAt(s, i) \in Seq(E) /\ Len(RemovedAt(s, i)) = Len(s) - 1
         /\ \A j \in 1..(Len(s) - 1) : RemovedAt(s, i)[j] = IF j < i THEN s[j] ELSE s[j + 1]
<1> DEFINE a == SubSeq(s, 1, i - 1)
           b == SubSeq(s, i + 1, Len(s))
<1>1. Len(s) \in Nat /\ i \in Nat /\ \A j \in 1..Len(s) : s[j] \in E  OBVIOUS
<1>2. a \in Seq(E) /\ Len(a) = i - 1 /\ \A j \in 1..(i - 1) : a[j] = s[j]
  <2>1. 1 \in Int /\ i - 1 \in Int /\ 1 <= 1 /\ i - 1 <= Len(s) /\ 1 - 1 <= i - 1  BY <1>1
  <2>2. /\ a \in Seq(E) /\ Len(a) = ((i - 1) - 1) + 1
        /\ \A j \in 1..(((i - 1) - 1) + 1) : a[j] = s[(1 + j) - 1]
    BY <2>1, SubSeqIs, Zenon
  <2> HIDE DEF a
  <2>3. QED  BY <1>1, <2>2
<1>3. b \in Seq(E) /\ Len(b) = Len(s) - i /\ \A j \in 1..(Len(s) - i) : b[j] = s[i + j]
  <2>1. /\ i + 1 \in Int /\ Len(s) \in Int /\ 1 <= i + 1 /\ Len(s) <= Len(s)
        /\ (i + 1) - 1 <= Len(s)
    BY <1>1
  <2>2. /\ b \in Seq(E) /\ Len(b) = (Len(s) - (i + 1)) + 1
        /\ \A j \in 1..((Len(s) - (i + 1)) + 1) : b[j] = s[((i + 1) + j) - 1]
    BY <2>1, SubSeqIs, Zenon
  <2> HIDE DEF b
  <2>3. QED  BY <1>1, <2>2
<1> HIDE DEF a, b
<1>4. /\ a \o b \in Seq(E) /\ Len(a \o b) = Len(a) + Len(b)
      /\ \A j \in 1..(Len(a) + Len(b)) : (a \o b)[j] = IF j <= Len(a) THEN a[j] ELSE b[j - Len(a)]
  BY <1>2, <1>3, ConcatProperties, Zenon
<1>5. RemovedAt(s, i) = a \o b  BY DEF RemovedAt, a, b
<1> DEFINE r == RemovedAt(s, i)
<1>6. r \in Seq(E) /\ Len(r) = Len(s) - 1  BY <1>1, <1>2, <1>3, <1>4, <1>5
<1>7. \A j \in 1..(Len(s) - 1) : r[j] = IF j <= Len(a) THEN a[j] ELSE b[j - Len(a)]
  BY <1>1, <1>2, <1>3, <1>4, <1>5
<1>8. \A j \in 1..(Len(s) - 1) : r[j] = IF j < i THEN s[j] ELSE s[j + 1]
  <2>1. ASSUME NEW j \in 1..(Len(s) - 1)  PROVE r[j] = IF j < i THEN s[j] ELSE s[j + 1]
    <3>1. CASE j < i
      <4>1. j \in 1..(i - 1) /\ j <= Len(a)  BY <1>1, <1>2, <3>1
      <4>2. QED  BY <1>2, <1>7, <3>1, <4>1
    <3>2. CASE ~(j < i)
      <4>1. ~(j <= Len(a)) /\ j - Len(a) \in 1..(Len(s) - i) /\ i + (j - Len(a)) = j + 1
        BY <1>1, <1>2, <3>2
      <4>2. r[j] = b[j - Len(a)]  BY <1>7, <4>1
      <4>3. b[j - Len(a)] = s[i + (j - Len(a))]  BY <1>3, <4>1, Zenon
      <4>4. QED  BY <3>2, <4>1, <4>2, <4>3
    <3>3. QED  BY <3>1, <3>2
  <2>2. QED  BY <2>1, Zenon
<1>9. QED  BY <1>6, <1>8, Zenon

\* What a sequence with an element put behind the i-th has at each place.
HasInserted(r, s, i, n) ==
  \A j \in 1..(Len(s) + 1) : r[j] = IF j <= i THEN s[j] ELSE IF j = i + 1 THEN n ELSE s[j - 1]

LEMMA InsertedAny ==
  ASSUME NEW E, NEW s \in Seq(E), NEW i \in 0..Len(s), NEW n \in E
  PROVE  /\ InsertedAt(s, i, n) \in Seq(E) /\ Len(InsertedAt(s, i, n)) = Len(s) + 1
         /\ HasInserted(InsertedAt(s, i, n), s, i, n)
<1> DEFINE a == SubSeq(s, 1, i)
           b == SubSeq(s, i + 1, Len(s))
           c == <<n>>
<1>1. Len(s) \in Nat /\ i \in Nat /\ \A j \in 1..Len(s) : s[j] \in E  OBVIOUS
<1>2. a \in Seq(E) /\ Len(a) = i /\ \A j \in 1..i : a[j] = s[j]
  <2>1. 1 \in Int /\ i \in Int /\ 1 <= 1 /\ i <= Len(s) /\ 1 - 1 <= i  BY <1>1
  <2>2. /\ a \in Seq(E) /\ Len(a) = (i - 1) + 1
        /\ \A j \in 1..((i - 1) + 1) : a[j] = s[(1 + j) - 1]
    <3>1. ASSUME NEW F, s \in Seq(F), NEW m \in Int, NEW k \in Int, 1 <= m, k <= Len(s), m - 1 <= k
          PROVE  /\ SubSeq(s, m, k) \in Seq(F) /\ Len(SubSeq(s, m, k)) = (k - m) + 1
                 /\ \A j \in 1..((k - m) + 1) : SubSeq(s, m, k)[j] = s[(m + j) - 1]
      BY <3>1, SubSeqIs, Zenon
    <3>2. QED  BY <2>1, <3>1, Zenon
  <2> HIDE DEF a
  <2>3. QED  BY <1>1, <2>2
<1>3. b \in Seq(E) /\ Len(b) = Len(s) - i /\ \A j \in 1..(Len(s) - i) : b[j] = s[i + j]
  <2>1. /\ i + 1 \in Int /\ Len(s) \in Int /\ 1 <= i + 1 /\ Len(s) <= Len(s)
        /\ (i + 1) - 1 <= Len(s)
    BY <1>1
  <2>2. /\ b \in Seq(E) /\ Len(b) = (Len(s) - (i + 1)) + 1
        /\ \A j \in 1..((Len(s) - (i + 1)) + 1) : b[j] = s[((i + 1) + j) - 1]
    BY <2>1, SubSeqIs, Zenon
  <2> HIDE DEF b
  <2>3. QED  BY <1>1, <2>2
<1>4. c \in Seq(E) /\ Len(c) = 1 /\ c[1] = n  OBVIOUS
<1> HIDE DEF a, b, c
<1>5. /\ a \o c \in Seq(E) /\ Len(a \o c) = Len(a) + Len(c)
      /\ \A j \in 1..(Len(a) + Len(c)) : (a \o c)[j] = IF j <= Len(a) THEN a[j] ELSE c[j - Len(a)]
  BY <1>2, <1>4, ConcatProperties, Zenon
<1> DEFINE d == a \o c
<1>6. /\ d \in Seq(E) /\ Len(d) = i + 1
      /\ \A j \in 1..i : d[j] = s[j]
      /\ d[i + 1] = n
  <2>1. Len(a) = i /\ Len(c) = 1 /\ Len(a) + Len(c) = i + 1  BY <1>1, <1>2, <1>4
  <2>2. \A j \in 1..(i + 1) : d[j] = IF j <= i THEN a[j] ELSE c[j - i]  BY <1>5, <2>1
  <2>3. i + 1 \in 1..(i + 1) /\ ~(i + 1 <= i) /\ (i + 1) - i = 1  BY <1>1
  <2>4. d[i + 1] = c[(i + 1) - i]  BY <2>2, <2>3, Zenon
  <2>5. d[i + 1] = n  BY <1>4, <2>3, <2>4
  <2>6. \A j \in 1..i : d[j] = s[j]  BY <1>1, <1>2, <2>2
  <2>7. QED  BY <1>5, <2>1, <2>5, <2>6
<1> HIDE DEF d
<1>7. /\ d \o b \in Seq(E) /\ Len(d \o b) = Len(d) + Len(b)
      /\ \A j \in 1..(Len(d) + Len(b)) : (d \o b)[j] = IF j <= Len(d) THEN d[j] ELSE b[j - Len(d)]
  BY <1>3, <1>6, ConcatProperties, Zenon
<1>8. InsertedAt(s, i, n) = d \o b  BY DEF InsertedAt, a, b, c, d
<1> DEFINE r == InsertedAt(s, i, n)
<1>9. r \in Seq(E) /\ Len(r) = Len(s) + 1  BY <1>1, <1>3, <1>6, <1>7, <1>8
<1>10. \A j \in 1..(Len(s) + 1) : r[j] = IF j <= i + 1 THEN d[j] ELSE b[j - (i + 1)]
  BY <1>1, <1>3, <1>6, <1>7, <1>8
<1>11. \A j \in 1..(Len(s) + 1) : r[j] = IF j <= i THEN s[j] ELSE IF j = i + 1 THEN n ELSE s[j - 1]
  <2>1. ASSUME NEW j \in 1..(Len(s) + 1)
        PROVE  r[j] = IF j <= i THEN s[j] ELSE IF j = i + 1 THEN n ELSE s[j - 1]
    <3>1. CASE j <= i
      <4>1. j \in 1..i /\ j <= i + 1  BY <1>1, <3>1
      <4>2. QED  BY <1>6, <1>10, <3>1, <4>1
    <3>2. CASE j = i + 1  BY <1>1, <1>6, <1>10, <3>2
    <3>3. CASE j > i + 1
      <4>1. /\ ~(j <= i) /\ j # i + 1 /\ ~(j <= i + 1)
            /\ j - (i + 1) \in 1..(Len(s) - i) /\ i + (j - (i + 1)) = j - 1
        BY <1>1, <3>3
      <4>2. QED  BY <1>3, <1>10, <4>1
    <3>4. QED  BY <1>1, <3>1, <3>2, <3>3
  <2>2. QED  BY <2>1, Zenon
<1>12. HasInserted(r, s, i, n)  BY <1>11, Zenon DEF HasInserted
<1>13. QED  BY <1>9, <1>12, Zenon

LEMMA Inserted ==
  ASSUME NEW s \in Seq(Nodes), NEW i \in 0..Len(s), NEW n \in Nodes
  PROVE  /\ InsertedAt(s, i, n) \in Seq(Nodes) /\ Len(InsertedAt(s, i, n)) = Len(s) + 1
         /\ \A j \in 1..(Len(s) + 1) :
              InsertedAt(s, i, n)[j] = IF j <= i THEN s[j] ELSE IF j = i + 1 THEN n ELSE s[j - 1]
<1>1. InsertedAt(s, i, n) \in Seq(Nodes)  BY InsertedAny
<1>2. Len(InsertedAt(s, i, n)) = Len(s) + 1  BY InsertedAny
<1>3. HasInserted(InsertedAt(s, i, n), s, i, n)  BY InsertedAny
<1>4. QED  BY <1>1, <1>2, <1>3, Zenon DEF HasInserted

\* Where a node of the chain is, and what it leads to.
LEMMA PlaceIs ==
  ASSUME ListInv, NEW h \in Linked \cup {HeadNode}
  PROVE  /\ PlaceOf(h, lst) \in 0..Len(lst) /\ HolderAt(lst, PlaceOf(h, lst)) = h
         /\ \A j \in 0..Len(lst) : HolderAt(lst, j) = h => j = PlaceOf(h, lst)
         /\ next[h].p = IF PlaceOf(h, lst) = Len(lst) THEN End ELSE lst[PlaceOf(h, lst) + 1]
<1>1. Len(lst) \in Nat /\ Linked \subseteq Nodes /\ \A j \in 1..Len(lst) : lst[j] \in Linked
  BY Chain
<1>2. HeadNode \notin Linked  BY <1>1, Distinctions
<1>3. PlaceOf(h, lst) \in 0..Len(lst) /\ HolderAt(lst, PlaceOf(h, lst)) = h
  <2>1. CASE h = HeadNode  BY <1>1, <2>1 DEF PlaceOf, HolderAt
  <2>2. CASE h # HeadNode
    <3>1. \E j \in 1..Len(lst) : lst[j] = h  BY <2>2 DEF Linked
    <3>2. PlaceOf(h, lst) \in 1..Len(lst) /\ lst[PlaceOf(h, lst)] = h  BY <2>2, <3>1, Zenon DEF PlaceOf
    <3>3. QED  BY <1>1, <3>2 DEF HolderAt
  <2>3. QED  BY <2>1, <2>2
<1>4. \A j \in 0..Len(lst) : HolderAt(lst, j) = h => j = PlaceOf(h, lst)
  <2>1. Distinct  BY DEF ListInv
  <2>2. QED  BY <1>1, <1>2, <1>3, <2>1 DEF HolderAt, Distinct
<1>5. next[h].p = IF PlaceOf(h, lst) = Len(lst) THEN End ELSE lst[PlaceOf(h, lst) + 1]
  <2>1. ChainIsList  BY DEF ListInv
  <2>2. QED  BY <1>3, <2>1 DEF ChainIsList, HolderAt
<1>6. QED  BY <1>3, <1>4, <1>5, Zenon

\* An unlinking takes the node out behind its predecessor.
LEMMA UnlinkIs ==
  ASSUME ListInv, NEW h \in Linked \cup {HeadNode}, NEW n \in Nodes, next[h].p = n, Unlink(n),
         next'[h] = Link(next[n].p), \A g \in Holders : g # h => next'[g] = next[g]
  PROVE  /\ n \in Linked /\ PlaceOf(n, lst) \in 1..Len(lst) /\ lst' = RemovedAt(lst, PlaceOf(n, lst))
         /\ lst' \in Seq(Nodes) /\ ChainIsList' /\ Distinct' /\ Linked' = Linked \ {n}
<1> DEFINE k == PlaceOf(h, lst)
           i == PlaceOf(n, lst)
           s == RemovedAt(lst, i)
<1>1. /\ lst \in Seq(Nodes) /\ Len(lst) \in Nat /\ Linked \subseteq Nodes
      /\ \A j \in 1..Len(lst) : lst[j] \in Linked
  BY Chain
<1>2. /\ k \in 0..Len(lst) /\ HolderAt(lst, k) = h
      /\ \A j \in 0..Len(lst) : HolderAt(lst, j) = h => j = k
      /\ next[h].p = IF k = Len(lst) THEN End ELSE lst[k + 1]
  BY PlaceIs, Zenon
<1>3. k # Len(lst) /\ lst[k + 1] = n /\ k + 1 \in 1..Len(lst)
  <2>1. n # End  BY Distinctions
  <2>2. QED  BY <1>1, <1>2, <2>1
<1>4. n \in Linked /\ n # HeadNode  BY <1>1, <1>3, Distinctions
<1>5. /\ i \in 0..Len(lst) /\ HolderAt(lst, i) = n
      /\ \A j \in 0..Len(lst) : HolderAt(lst, j) = n => j = i
      /\ next[n].p = IF i = Len(lst) THEN End ELSE lst[i + 1]
  BY <1>4, PlaceIs, Zenon
<1>6. i = k + 1
  <2>1. k + 1 \in 0..Len(lst) /\ HolderAt(lst, k + 1) = n  BY <1>1, <1>2, <1>3 DEF HolderAt
  <2>2. QED  BY <1>5, <2>1, Zenon
<1>7. i \in 1..Len(lst)  BY <1>3, <1>6
<1>8. lst' = s  BY Zenon DEF Unlink, RemovedAt
<1>9. /\ s \in Seq(Nodes) /\ Len(s) = Len(lst) - 1
      /\ \A j \in 1..(Len(lst) - 1) : s[j] = IF j < i THEN lst[j] ELSE lst[j + 1]
  BY <1>1, <1>7, Removed, Zenon
<1> HIDE DEF s, i, k
<1>10. Distinct  BY DEF ListInv
<1>11. ChainIsList
  BY DEF ListInv
<1>12. \A j \in 0..Len(lst) :
         /\ HolderAt(lst, j) \in Holders
         /\ next[HolderAt(lst, j)].p = IF j = Len(lst) THEN End ELSE lst[j + 1]
  <2>1. \A j \in 0..Len(lst) : HolderAt(lst, j) \in Holders
    BY <1>1, Distinctions DEF HolderAt, Holders
  <2>2. QED  BY <1>11, <2>1 DEF ChainIsList, HolderAt
<1>13. \A j \in 0..Len(s) : HolderAt(s, j) = HolderAt(lst, IF j <= k THEN j ELSE j + 1)
  <2>1. ASSUME NEW j \in 0..Len(s), j <= k  PROVE HolderAt(s, j) = HolderAt(lst, j)
    BY <1>1, <1>2, <1>6, <1>9, <2>1 DEF HolderAt
  <2>2. ASSUME NEW j \in 0..Len(s), ~(j <= k)  PROVE HolderAt(s, j) = HolderAt(lst, j + 1)
    BY <1>1, <1>2, <1>6, <1>9, <2>2 DEF HolderAt
  <2>3. QED  BY <2>1, <2>2
<1>14. ASSUME NEW j \in 0..Len(s)
       PROVE  next'[HolderAt(s, j)].p = IF j = Len(s) THEN End ELSE s[j + 1]
  <2>1. CASE j = k
    <3>1. HolderAt(s, j) = h  BY <1>2, <1>13, <2>1
    <3>2. next'[h].p = next[n].p  BY DEF Link
    <3>3. j = Len(s) <=> i = Len(lst)  BY <1>1, <1>2, <1>6, <1>9, <2>1
    <3>4. j # Len(s) => s[j + 1] = lst[i + 1]  BY <1>1, <1>2, <1>6, <1>9, <2>1
    <3>5. QED  BY <1>5, <3>1, <3>2, <3>3, <3>4
  <2>2. CASE j < k
    <3>1. HolderAt(s, j) = HolderAt(lst, j) /\ j \in 0..Len(lst)
      <4>1. j <= k /\ j \in 0..Len(lst)  BY <1>1, <1>2, <1>9, <2>2
      <4>2. HolderAt(s, j) = HolderAt(lst, IF j <= k THEN j ELSE j + 1)  BY <1>13, Zenon
      <4>3. QED  BY <4>1, <4>2
    <3>2. HolderAt(lst, j) # h  BY <1>2, <2>2, <3>1
    <3>3. next'[HolderAt(lst, j)] = next[HolderAt(lst, j)]  BY <1>12, <3>1, <3>2
    <3>4. j # Len(s) /\ j # Len(lst) /\ s[j + 1] = lst[j + 1]  BY <1>1, <1>2, <1>3, <1>6, <1>9, <2>2
    <3>5. QED  BY <1>12, <3>1, <3>3, <3>4
  <2>3. CASE j > k
    <3>1. HolderAt(s, j) = HolderAt(lst, j + 1) /\ j + 1 \in 0..Len(lst)
      BY <1>1, <1>2, <1>9, <1>13, <2>3
    <3>2. HolderAt(lst, j + 1) # h  BY <1>2, <2>3, <3>1
    <3>3. next'[HolderAt(lst, j + 1)] = next[HolderAt(lst, j + 1)]  BY <1>12, <3>1, <3>2
    <3>4. j = Len(s) <=> j + 1 = Len(lst)  BY <1>1, <1>9
    <3>5. j # Len(s) => s[j + 1] = lst[(j + 1) + 1]
      <4>1. j # Len(s) => j + 1 \in 1..(Len(lst) - 1) /\ ~(j + 1 < i)  BY <1>1, <1>2, <1>6, <1>9, <2>3
      <4>2. QED  BY <1>9, <4>1
    <3>6. next[HolderAt(lst, j + 1)].p = IF j + 1 = Len(lst) THEN End ELSE lst[(j + 1) + 1]
      BY <1>12, <3>1
    <3>7. QED  BY <3>1, <3>3, <3>4, <3>5, <3>6
  <2>4. QED  BY <1>1, <1>2, <1>9, <2>1, <2>2, <2>3
<1>15. ~next'[HeadNode].m
  <2>1. ~next[HeadNode].m /\ HeadNode \in Holders  BY <1>11, Distinctions DEF ChainIsList
  <2>2. CASE h = HeadNode  BY <2>2 DEF Link
  <2>3. CASE h # HeadNode  BY <2>1, <2>3
  <2>4. QED  BY <2>2, <2>3
<1>16. ChainIsList'
  <2>1. \A j \in 0..Len(lst') :
          next'[IF j = 0 THEN HeadNode ELSE lst'[j]].p = IF j = Len(lst') THEN End ELSE lst'[j + 1]
    BY <1>8, <1>14, Zenon DEF HolderAt
  <2>2. QED  BY <1>15, <2>1, Zenon DEF ChainIsList
<1>17. Distinct'
  <2>1. ASSUME NEW a \in 1..Len(s), NEW b \in 1..Len(s), s[a] = s[b]  PROVE a = b
    <3>1. /\ (IF a < i THEN a ELSE a + 1) \in 1..Len(lst)
          /\ (IF b < i THEN b ELSE b + 1) \in 1..Len(lst)
      BY <1>1, <1>7, <1>9
    <3>2. s[a] = lst[IF a < i THEN a ELSE a + 1] /\ s[b] = lst[IF b < i THEN b ELSE b + 1]
      BY <1>1, <1>9
    <3>3. (IF a < i THEN a ELSE a + 1) = (IF b < i THEN b ELSE b + 1)
      <4>1. lst[IF a < i THEN a ELSE a + 1] = lst[IF b < i THEN b ELSE b + 1]  BY <2>1, <3>2, Zenon
      <4>2. QED  BY <1>10, <3>1, <4>1, Zenon DEF Distinct
    <3>4. QED  BY <1>1, <1>7, <1>9, <3>3
  <2>2. QED  BY <1>8, <2>1, Zenon DEF Distinct
<1>18. Linked' = Linked \ {n}
  <2>1. lst[i] = n  BY <1>5, <1>7 DEF HolderAt
  <2>2. ASSUME NEW x \in Linked'  PROVE x \in Linked \ {n}
    <3>1. PICK j \in 1..Len(s) : x = s[j]  BY <1>8, <2>2 DEF Linked
    <3>2. PICK m \in 1..Len(lst) : m # i /\ x = lst[m]
      <4>1. (IF j < i THEN j ELSE j + 1) \in 1..Len(lst) /\ (IF j < i THEN j ELSE j + 1) # i
        BY <1>1, <1>7, <1>9
      <4>2. x = lst[IF j < i THEN j ELSE j + 1]  BY <1>1, <1>9, <3>1
      <4>3. QED  BY <4>1, <4>2, Zenon
    <3>3. x # n  BY <1>7, <1>10, <2>1, <3>2 DEF Distinct
    <3>4. QED  BY <1>1, <3>2, <3>3
  <2>3. ASSUME NEW x \in Linked \ {n}  PROVE x \in Linked'
    <3>1. PICK m \in 1..Len(lst) : x = lst[m]  BY DEF Linked
    <3>2. m # i  BY <2>1, <3>1
    <3>3. (IF m < i THEN m ELSE m - 1) \in 1..Len(s)  BY <1>1, <1>7, <1>9, <3>2
    <3>4. x = s[IF m < i THEN m ELSE m - 1]  BY <1>1, <1>7, <1>9, <3>1, <3>2, <3>3
    <3>5. QED  BY <1>8, <3>3, <3>4 DEF Linked
  <2>4. QED  BY <2>2, <2>3
<1>19. QED  BY <1>4, <1>7, <1>8, <1>9, <1>16, <1>17, <1>18, Zenon DEF s, i

\* An insertion puts the node behind its predecessor.
LEMMA InsertIs ==
  ASSUME ListInv, NEW h \in Linked \cup {HeadNode}, NEW n \in Nodes, n \notin Linked, LinkBehind(h, n),
         next'[h] = Link(n), next'[n] = Link(next[h].p),
         \A g \in Holders : g # h /\ g # n => next'[g] = next[g]
  PROVE  /\ PlaceOf(h, lst) \in 0..Len(lst) /\ lst' = InsertedAt(lst, PlaceOf(h, lst), n)
         /\ lst' \in Seq(Nodes) /\ ChainIsList' /\ Distinct' /\ Linked' = Linked \cup {n}
<1> DEFINE k == PlaceOf(h, lst)
           s == InsertedAt(lst, k, n)
<1>1. /\ lst \in Seq(Nodes) /\ Len(lst) \in Nat /\ Linked \subseteq Nodes
      /\ \A j \in 1..Len(lst) : lst[j] \in Linked
  BY Chain
<1>2. /\ k \in 0..Len(lst) /\ HolderAt(lst, k) = h
      /\ \A j \in 0..Len(lst) : HolderAt(lst, j) = h => j = k
      /\ next[h].p = IF k = Len(lst) THEN End ELSE lst[k + 1]
  BY PlaceIs, Zenon
<1>3. lst' = s  BY Zenon DEF LinkBehind, InsertedAt
<1>4. /\ s \in Seq(Nodes) /\ Len(s) = Len(lst) + 1
      /\ \A j \in 1..(Len(lst) + 1) :
           s[j] = IF j <= k THEN lst[j] ELSE IF j = k + 1 THEN n ELSE lst[j - 1]
  BY <1>1, <1>2, Inserted, Zenon
<1> HIDE DEF s, k
<1>5. Distinct /\ ChainIsList  BY DEF ListInv
<1>6. \A j \in 0..Len(lst) :
         /\ HolderAt(lst, j) \in Holders /\ HolderAt(lst, j) # n
         /\ next[HolderAt(lst, j)].p = IF j = Len(lst) THEN End ELSE lst[j + 1]
  <2>1. \A j \in 0..Len(lst) : HolderAt(lst, j) \in Holders /\ HolderAt(lst, j) # n
    BY <1>1, Distinctions DEF HolderAt, Holders
  <2>2. QED  BY <1>5, <2>1 DEF ChainIsList, HolderAt
<1>7. /\ \A j \in 0..k : HolderAt(s, j) = HolderAt(lst, j)
      /\ HolderAt(s, k + 1) = n
      /\ \A j \in (k + 2)..Len(s) : HolderAt(s, j) = HolderAt(lst, j - 1)
  <2>1. \A j \in 0..k : HolderAt(s, j) = HolderAt(lst, j)  BY <1>1, <1>2, <1>4 DEF HolderAt
  <2>2. HolderAt(s, k + 1) = n
    <3>1. k + 1 \in 1..(Len(lst) + 1) /\ ~(k + 1 <= k) /\ k + 1 # 0  BY <1>1, <1>2
    <3>2. s[k + 1] = n  BY <1>4, <3>1
    <3>3. QED  BY <3>1, <3>2 DEF HolderAt
  <2>3. ASSUME NEW j \in (k + 2)..Len(s)  PROVE HolderAt(s, j) = HolderAt(lst, j - 1)
    <3>1. j \in 1..(Len(lst) + 1) /\ ~(j <= k) /\ j # k + 1 /\ j # 0 /\ j - 1 # 0
      BY <1>1, <1>2, <1>4
    <3>2. s[j] = lst[j - 1]  BY <1>4, <3>1
    <3>3. QED  BY <3>1, <3>2 DEF HolderAt
  <2>4. QED  BY <2>1, <2>2, <2>3, Zenon
<1>8. \A j \in 0..Len(lst) : j # k =>
        next'[HolderAt(lst, j)].p = IF j = Len(lst) THEN End ELSE lst[j + 1]
  <2>1. ASSUME NEW j \in 0..Len(lst), j # k
        PROVE  next'[HolderAt(lst, j)].p = IF j = Len(lst) THEN End ELSE lst[j + 1]
    <3>1. HolderAt(lst, j) # h  BY <1>2, <2>1, Zenon
    <3>2. next'[HolderAt(lst, j)] = next[HolderAt(lst, j)]  BY <1>6, <3>1, Zenon
    <3>3. QED  BY <1>6, <3>2
  <2>2. QED  BY <2>1, Zenon
<1>9. ASSUME NEW j \in 0..Len(s)
      PROVE  next'[HolderAt(s, j)].p = IF j = Len(s) THEN End ELSE s[j + 1]
  <2>1. CASE j = k
    <3>1. HolderAt(s, j) = h /\ j # Len(s) /\ j \in 0..k  BY <1>1, <1>2, <1>4, <1>7, <2>1
    <3>2. s[j + 1] = n  BY <1>1, <1>2, <1>4, <2>1
    <3>3. QED  BY <3>1, <3>2 DEF Link
  <2>2. CASE j = k + 1
    <3>1. HolderAt(s, j) = n  BY <1>7, <2>2
    <3>2. j = Len(s) <=> k = Len(lst)  BY <1>1, <1>2, <1>4, <2>2
    <3>3. k # Len(lst) => s[j + 1] = lst[k + 1]
      <4>1. k # Len(lst) => j + 1 \in 1..(Len(lst) + 1) /\ ~(j + 1 <= k) /\ j + 1 # k + 1 /\ (j + 1) - 1 = k + 1
        BY <1>1, <1>2, <1>4, <2>2
      <4>2. QED  BY <1>4, <4>1
    <3>4. next'[n].p = next[h].p  BY DEF Link
    <3>5. QED  BY <1>2, <3>1, <3>2, <3>3, <3>4
  <2>3. CASE j < k
    <3>1. /\ HolderAt(s, j) = HolderAt(lst, j) /\ j \in 0..Len(lst) /\ j # k /\ j # Len(lst)
          /\ j # Len(s)
      <4>1. j \in 0..k /\ j \in 0..Len(lst) /\ j # k /\ j # Len(lst) /\ j # Len(s)
        BY <1>1, <1>2, <1>4, <2>3
      <4>2. QED  BY <1>7, <4>1
    <3>2. s[j + 1] = lst[j + 1]
      <4>1. j + 1 \in 1..(Len(lst) + 1) /\ j + 1 <= k  BY <1>1, <1>2, <1>4, <2>3
      <4>2. QED  BY <1>4, <4>1
    <3>3. QED  BY <1>8, <3>1, <3>2
  <2>4. CASE j > k + 1
    <3>1. HolderAt(s, j) = HolderAt(lst, j - 1) /\ j - 1 \in 0..Len(lst) /\ j - 1 # k
      <4>1. j \in (k + 2)..Len(s) /\ j - 1 \in 0..Len(lst) /\ j - 1 # k  BY <1>1, <1>2, <1>4, <2>4
      <4>2. QED  BY <1>7, <4>1
    <3>2. j = Len(s) <=> j - 1 = Len(lst)  BY <1>1, <1>4
    <3>3. j # Len(s) => s[j + 1] = lst[(j - 1) + 1]
      <4>1. ASSUME j # Len(s)  PROVE s[j + 1] = lst[(j - 1) + 1]
        <5>1. k \in Nat /\ j \in Nat /\ j < Len(lst) + 1  BY <1>1, <1>2, <1>4, <4>1
        <5>2. j + 1 \in 1..(Len(lst) + 1)  BY <1>1, <5>1
        <5>3. ~(j + 1 <= k) /\ j + 1 # k + 1  BY <2>4, <5>1
        <5>4. (j + 1) - 1 = j /\ (j - 1) + 1 = j  BY <5>1
        <5>5. s[j + 1] = lst[(j + 1) - 1]  BY <1>4, <5>2, <5>3
        <5>6. QED  BY <5>4, <5>5, Zenon
      <4>2. QED  BY <4>1, Zenon
    <3>4. next'[HolderAt(lst, j - 1)].p = IF j - 1 = Len(lst) THEN End ELSE lst[(j - 1) + 1]
      BY <1>8, <3>1, Zenon
    <3>5. QED  BY <3>1, <3>2, <3>3, <3>4
  <2>5. QED  BY <1>1, <1>2, <1>4, <2>1, <2>2, <2>3, <2>4
<1>10. ~next'[HeadNode].m
  <2>1. ~next[HeadNode].m /\ HeadNode \in Holders /\ HeadNode # n  BY <1>5, Distinctions DEF ChainIsList
  <2>2. CASE h = HeadNode  BY <2>2 DEF Link
  <2>3. CASE h # HeadNode  BY <2>1, <2>3
  <2>4. QED  BY <2>2, <2>3
<1>11. ChainIsList'
  <2>1. \A j \in 0..Len(lst') :
          next'[IF j = 0 THEN HeadNode ELSE lst'[j]].p = IF j = Len(lst') THEN End ELSE lst'[j + 1]
    BY <1>3, <1>9, Zenon DEF HolderAt
  <2>2. QED  BY <1>10, <2>1, Zenon DEF ChainIsList
<1>12. \A a \in 1..Len(s) :
         \/ a = k + 1 /\ s[a] = n
         \/ /\ a # k + 1 /\ (IF a <= k THEN a ELSE a - 1) \in 1..Len(lst)
            /\ s[a] = lst[IF a <= k THEN a ELSE a - 1] /\ s[a] # n
  <2>1. ASSUME NEW a \in 1..Len(s)
        PROVE  \/ a = k + 1 /\ s[a] = n
               \/ /\ a # k + 1 /\ (IF a <= k THEN a ELSE a - 1) \in 1..Len(lst)
                  /\ s[a] = lst[IF a <= k THEN a ELSE a - 1] /\ s[a] # n
    <3>1. a \in 1..(Len(lst) + 1)  BY <1>4
    <3>2. s[a] = IF a <= k THEN lst[a] ELSE IF a = k + 1 THEN n ELSE lst[a - 1]  BY <1>4, <3>1
    <3>3. a # k + 1 => (IF a <= k THEN a ELSE a - 1) \in 1..Len(lst)  BY <1>1, <1>2, <3>1
    <3>4. QED  BY <1>1, <1>2, <3>1, <3>2, <3>3
  <2>2. QED  BY <2>1, Zenon
<1>13. Distinct'
  <2>1. ASSUME NEW a \in 1..Len(s), NEW b \in 1..Len(s), s[a] = s[b]  PROVE a = b
    <3>1. CASE s[a] = n
      <4>1. a = k + 1 /\ b = k + 1  BY <1>12, <2>1, <3>1, Zenon
      <4>2. QED  BY <4>1
    <3>2. CASE s[a] # n
      <4>1. /\ a # k + 1 /\ (IF a <= k THEN a ELSE a - 1) \in 1..Len(lst)
            /\ s[a] = lst[IF a <= k THEN a ELSE a - 1]
            /\ b # k + 1 /\ (IF b <= k THEN b ELSE b - 1) \in 1..Len(lst)
            /\ s[b] = lst[IF b <= k THEN b ELSE b - 1]
        BY <1>12, <2>1, <3>2, Zenon
      <4>2. (IF a <= k THEN a ELSE a - 1) = (IF b <= k THEN b ELSE b - 1)
        BY <1>5, <2>1, <4>1, Zenon DEF Distinct
      <4>3. QED  BY <1>1, <1>2, <1>4, <4>1, <4>2
    <3>3. QED  BY <3>1, <3>2
  <2>2. QED  BY <1>3, <2>1, Zenon DEF Distinct
<1>14. Linked' = Linked \cup {n}
  <2>1. ASSUME NEW x \in Linked'  PROVE x \in Linked \cup {n}
    <3>1. PICK a \in 1..Len(s) : x = s[a]  BY <1>3, <2>1 DEF Linked
    <3>2. QED  BY <1>1, <1>12, <3>1, Zenon
  <2>2. n \in Linked'
    <3>1. k + 1 \in 1..Len(s) /\ s[k + 1] = n  BY <1>1, <1>2, <1>4
    <3>2. QED  BY <1>3, <3>1 DEF Linked
  <2>3. ASSUME NEW x \in Linked  PROVE x \in Linked'
    <3>1. PICK m \in 1..Len(lst) : x = lst[m]  BY DEF Linked
    <3>2. (IF m <= k THEN m ELSE m + 1) \in 1..Len(s)  BY <1>1, <1>2, <1>4
    <3>3. x = s[IF m <= k THEN m ELSE m + 1]
      <4>1. CASE m <= k  BY <1>1, <1>4, <3>1, <4>1
      <4>2. CASE ~(m <= k)
        <5>1. m + 1 \in 1..(Len(lst) + 1) /\ ~(m + 1 <= k) /\ m + 1 # k + 1 /\ (m + 1) - 1 = m
          BY <1>1, <1>2, <4>2
        <5>2. QED  BY <1>4, <3>1, <4>2, <5>1
      <4>3. QED  BY <4>1, <4>2
    <3>4. QED  BY <1>3, <3>2, <3>3 DEF Linked
  <2>4. QED  BY <2>1, <2>2, <2>3
<1>15. QED  BY <1>2, <1>3, <1>4, <1>11, <1>13, <1>14, Zenon DEF s, k

\* While a call clears the list, the links that others change are those of
\* head_ and of nodes that are not linked yet.
LEMMA HeadOnly ==
  ASSUME ListInv, NEW t \in Threads, NEW u \in Threads, loc[u].pc \in {"set", "head"},
         loc[t].pc \in PrevPoints, loc[t].kind # "walk", ~next[loc[t].prev].m
  PROVE  loc[t].prev = HeadNode
<1>1. /\ KindOK(loc[t]) /\ PointersOK(loc[t], next) /\ LinksOK(loc[t], next, val)
      /\ loc[t].kind \in Kinds /\ KindOK(loc[u])
  BY Mine, Fields
<1>2. loc[u].kind = "clear" /\ loc[t].pc # "idle"
  BY <1>1 DEF KindOK, ClearPoints, PrevPoints, CurPoints, WalkPoints
<1>3. Does(u, "clear") /\ Does(t, loc[t].kind)  BY <1>2 DEF Does, At
<1>4. loc[t].kind \notin Rough
  BY <1>3, Zenon DEF OneKind, ListInv
<1>5. CASE loc[t].kind = "clear"
  <2>1. loc[t].pc \in {"slot", "verify"} \cup ClearPoints
    BY <1>1, <1>5 DEF KindOK, PrevPoints, CurPoints, Takers
  <2>2. QED  BY <1>1, <2>1 DEF PointersOK
<1>6. CASE loc[t].kind # "clear"
  <2>1. loc[t].kind \in {"pushFront", "popFront"}  BY <1>1, <1>4, <1>6 DEF Rough, Kinds
  <2>2. loc[t].pred = Values  BY <1>1, <1>2, <2>1 DEF KindOK
  <2>3. loc[t].prev \in Linked \cup {HeadNode}  BY PrevLinked
  <2>4. CASE loc[t].prev = HeadNode  BY <2>4
  <2>5. CASE loc[t].prev # HeadNode
    <3>1. loc[t].prev \in Nodes \ free  BY <2>3, <2>5, Chain DEF ListInv, Apart
    <3>2. val[loc[t].prev] \in Values  BY <3>1 DEF ListInv, HaveValues
    <3>3. val[loc[t].prev] \notin Values  BY <1>1, <2>2, <2>5 DEF LinksOK
    <3>4. QED  BY <3>2, <3>3
  <2>6. QED  BY <2>4, <2>5
<1>7. QED  BY <1>5, <1>6

\* The steps that take a marked node out of the chain.
Unlinks(t) ==
  /\ loc[t].pc \in {"purge", "unlink", "head"} /\ loc[t].kind # "walk"
  /\ next[loc[t].prev] = Link(loc[t].cur) /\ next[loc[t].cur].m
  /\ next' = [next EXCEPT ![loc[t].prev] = Link(next[loc[t].cur].p)]
  /\ Retire(t)
  /\ UNCHANGED <<val, poolVars, calls, stay>>

LEMMA AllUnlink ==
  ASSUME ListInv, NEW t \in Threads, Purge(t) \/ UnlinkMarked(t) \/ ClearHead(t)
  PROVE  Unlinks(t)
<1>1. KindOK(loc[t]) /\ LinksOK(loc[t], next, val)  BY Mine
<1>2. Retire(t) /\ UNCHANGED <<val, poolVars, calls, stay>>  BY Zenon DEF Purge, UnlinkMarked, ClearHead
<1>3. CASE Purge(t)
  <2>1. loc[t].pc = "purge" /\ Splice(t, loc[t].nxt)  BY <1>3 DEF Purge, At
  <2>2. next[loc[t].cur].m /\ next[loc[t].cur].p = loc[t].nxt  BY <1>1, <2>1 DEF LinksOK
  <2>3. loc[t].kind # "walk"  BY <1>1, <2>1 DEF KindOK, WalkPoints
  <2>4. QED  BY <1>2, <2>1, <2>2, <2>3 DEF Unlinks, Splice
<1>4. CASE UnlinkMarked(t)
  <2>1. loc[t].pc = "unlink" /\ Splice(t, next[loc[t].cur].p)  BY <1>4 DEF UnlinkMarked, At
  <2>2. next[loc[t].cur].m  BY <1>1, <2>1 DEF LinksOK
  <2>3. loc[t].kind # "walk"  BY <1>1, <2>1 DEF KindOK
  <2>4. QED  BY <1>2, <2>1, <2>2, <2>3 DEF Unlinks, Splice
<1>5. CASE ClearHead(t)
  <2>1. loc[t].pc = "head" /\ Splice(t, loc[t].nxt)  BY <1>5 DEF ClearHead, At
  <2>2. next[loc[t].cur].m /\ next[loc[t].cur].p = loc[t].nxt  BY <1>1, <2>1 DEF LinksOK
  <2>3. loc[t].kind # "walk"  BY <1>1, <2>1 DEF KindOK, ClearPoints
  <2>4. QED  BY <1>2, <2>1, <2>2, <2>3 DEF Unlinks, Splice
<1>6. QED  BY <1>3, <1>4, <1>5

LEMMA UnlinksIs ==
  ASSUME ListInv, NEW t \in Threads, Unlinks(t)
  PROVE  /\ loc[t].prev \in Linked \cup {HeadNode} /\ loc[t].prev \in Holders
         /\ next[loc[t].prev].p = loc[t].cur /\ ~next[loc[t].prev].m
         /\ loc[t].cur \in Linked /\ loc[t].cur \in Nodes /\ loc[t].cur # loc[t].prev
         /\ next'[loc[t].prev] = Link(next[loc[t].cur].p)
         /\ \A g \in Holders : g # loc[t].prev => next'[g] = next[g]
         /\ PlaceOf(loc[t].cur, lst) \in 1..Len(lst) /\ lst' = RemovedAt(lst, PlaceOf(loc[t].cur, lst))
         /\ lst' \in Seq(Nodes) /\ ChainIsList' /\ Distinct' /\ Linked' = Linked \ {loc[t].cur}
<1> DEFINE h == loc[t].prev
           n == loc[t].cur
<1>1. h \in Holders /\ n \in Nodes /\ loc[t].pc \in PrevPoints /\ loc[t].kind # "walk"
  BY Mine DEF Unlinks, PointersOK, PrevPoints, CurPoints, ClearPoints
<1>2. next[h].p = n /\ ~next[h].m /\ next[n].m  BY DEF Unlinks, Link
<1>3. h \in Linked \cup {HeadNode}  BY <1>1, <1>2, PrevLinked
<1>4. next' = [next EXCEPT ![h] = Link(next[n].p)] /\ Unlink(n)  BY Zenon DEF Unlinks, Retire
<1>5. next \in [Holders -> LinkType]  BY LinkTypes DEF ListInv
<1>6. next'[h] = Link(next[n].p) /\ \A g \in Holders : g # h => next'[g] = next[g]
  BY <1>1, <1>4, <1>5
<1> HIDE DEF h, n
<1>7. /\ n \in Linked /\ PlaceOf(n, lst) \in 1..Len(lst) /\ lst' = RemovedAt(lst, PlaceOf(n, lst))
      /\ lst' \in Seq(Nodes) /\ ChainIsList' /\ Distinct' /\ Linked' = Linked \ {n}
  BY <1>1, <1>2, <1>3, <1>4, <1>6, UnlinkIs, Zenon
<1>8. n # h  BY <1>2
<1>9. QED  BY <1>1, <1>2, <1>3, <1>6, <1>7, <1>8, Zenon DEF h, n

LEMMA UnlinkKeeps ==
  ASSUME ListInv, NEW t \in Threads, Unlinks(t)
  PROVE  ListInv'
<1> DEFINE l == loc[t]
           h == l.prev
           n == l.cur
           q == [l EXCEPT !.pc = "retire", !.chk = n, !.unseen = SlotsOfOthers(t)]
<1>1. l \in Record /\ KindOK(l) /\ NodesOK(l)  BY Mine
<1>2. l.pc \in {"purge", "unlink", "head"} /\ l.kind # "walk" /\ next[n].m  BY DEF Unlinks
<1>3. /\ h \in Linked \cup {HeadNode} /\ h \in Holders /\ next[h].p = n /\ ~next[h].m
      /\ n \in Linked /\ n \in Nodes /\ n # h
      /\ next'[h] = Link(next[n].p) /\ \A g \in Holders : g # h => next'[g] = next[g]
      /\ lst' \in Seq(Nodes) /\ ChainIsList' /\ Distinct' /\ Linked' = Linked \ {n}
  BY UnlinksIs, Zenon
<1>4. /\ SetSlot(t, "cur", Null) /\ UNCHANGED <<val, poolVars, calls, stay>>
      /\ loc' = [loc EXCEPT ![t].pc = "retire", ![t].chk = n, ![t].unseen = SlotsOfOthers(t)]
  BY Zenon DEF Unlinks, Retire
<1>5. UNCHANGED <<val, free, limbo, calls, stay>>  BY <1>4 DEF poolVars
<1>6. loc' = [loc EXCEPT ![t] = q]  BY <1>4, Zenon
<1>7. SlotsOfOthers(t) \in SUBSET Slots
      /\ \A u \in Threads, use \in Uses : u # t => <<u, use>> \in SlotsOfOthers(t)
  BY DEF SlotsOfOthers, Slots
<1>8. n # Null /\ n \in NodeOrNull  BY <1>3, Distinctions
<1>9. q \in Record  BY <1>1, <1>7, <1>8, EveryPoint, Setters, Zenon
<1>10. /\ q.pc = "retire" /\ q.kind = l.kind /\ q.node = l.node /\ q.chk = n /\ q.pred = l.pred
       /\ q.unseen = SlotsOfOthers(t)
  BY <1>1 DEF Record
<1> HIDE DEF q
<1>11. /\ loc'[t] = q
       /\ \A u \in Threads : u # t => loc'[u] = loc[u]
  BY <1>6, <1>9, Became, Zenon DEF ListInv
<1>12. slot' \in [Slots -> Pointers] /\ OthersSlots(t)
  <2>1. Null \in Pointers /\ TypeOK  BY DEF Pointers, ListInv
  <2>2. QED  BY <1>4, <2>1, SlotSet, EveryUse, Zenon
<1>13. next[n].p \in NodeOrEnd /\ next[n].p # Null /\ Known(next[n].p, next) /\ n \in Holders
  BY <1>3, Chain, LinkTypes, Distinctions DEF ListInv
<1>14. next' \in [Holders -> LinkType]
  <2>1. \A p \in NodeOrEnd : Link(p) \in LinkType  BY DEF Link, LinkType
  <2>2. next' = [next EXCEPT ![h] = Link(next[n].p)]  BY Zenon DEF Unlinks
  <2>3. Link(next[n].p) \in LinkType /\ next \in [Holders -> LinkType]
    BY <1>13, <2>1, LinkTypes, Zenon DEF ListInv
  <2>4. QED  BY <1>3, <2>2, <2>3, ExceptType, Zenon
<1>15. \A g \in Holders : next[g].m => next'[g] = next[g]  BY <1>3
<1>16. \A p \in NodeOrEnd : Known(p, next) => Known(p, next')
  BY <1>3, <1>13 DEF Known, Holders, Link
<1>17. l.chk = Null  BY <1>1, <1>2 DEF NodesOK
<1>18. l.node # n
  <2>1. l.node # Null => l.node \in Held(t)  BY DEF Held
  <2>2. Apart  BY DEF ListInv
  <2>3. QED  BY <1>3, <1>8, <2>1, <2>2 DEF Apart
<1>19. \A u \in Threads, use \in Uses, m \in Nodes :
         u # t /\ Guards(u, use, m, slot, free, loc) => Kept(u, use, m, free', loc') /\ Stable(m)
  <2>1. ASSUME NEW u \in Threads, NEW use \in Uses, NEW m \in Nodes, u # t,
               Guards(u, use, m, slot, free, loc)
        PROVE  Kept(u, use, m, free', loc') /\ Stable(m)
    <3>1. Kept(u, use, m, free, loc)  BY <2>1, Zenon DEF Guards
    <3>2. Kept(u, use, m, free', loc')  BY <1>5, <1>7, <1>10, <1>11, <2>1, <3>1 DEF Kept
    <3>3. Stable(m)  BY <1>5, <1>15 DEF Stable, Holders
    <3>4. QED  BY <3>2, <3>3
  <2>2. QED  BY <2>1, Zenon
<1>20. LocalOK(t, q, next', val', slot', free', loc')
  <2>1. KindOK(q)
    BY <1>1, <1>2, <1>10 DEF KindOK, PoolPoints, ClearPoints, WalkPoints
  <2>2. NodesOK(q)  BY <1>1, <1>2, <1>8, <1>10, <1>18 DEF NodesOK, PoolPoints
  <2>3. q.pc \notin PrevPoints \cup CurPoints \cup NxtPoints
    BY <1>10 DEF PrevPoints, CurPoints, NxtPoints, ClearPoints, WalkPoints
  <2>4. PointersOK(q, next') /\ LinksOK(q, next', val') /\ SlotsOK(t, q, slot')
    BY <1>10, <2>3 DEF PointersOK, LinksOK, SlotsOK, ClearPoints
  <2>5. GuardsOK(t, q, slot', free', loc')  BY <1>10, <2>3 DEF GuardsOK
  <2>6. QED  BY <2>1, <2>2, <2>4, <2>5, Zenon DEF LocalOK
<1>21. LocalsOK'
  <2>1. ASSUME NEW u \in Threads, u # t, loc[u].pc \in {"set", "head"}
        PROVE  next'[loc[u].cur].p = next[loc[u].cur].p
    <3>1. h = HeadNode
      <4>1. l.pc \in PrevPoints  BY <1>2 DEF PrevPoints, CurPoints, ClearPoints
      <4>2. QED  BY <1>2, <1>3, <2>1, <4>1, HeadOnly
    <3>2. loc[u].cur \in Nodes  BY <2>1, Mine DEF PointersOK, CurPoints, ClearPoints
    <3>3. QED  BY <1>3, <3>1, <3>2, Distinctions
  <2>2. \A u \in Threads : u # t /\ loc[u].pc \in {"set", "head"} =>
          next'[loc[u].cur].p = next[loc[u].cur].p
    BY <2>1, Zenon
  <2>3. QED  BY <1>6, <1>9, <1>12, <1>16, <1>19, <1>20, <2>2, LocalsKeep, Zenon
<1>22. TypeOK'
  <2>1. /\ val \in [Nodes -> ValueOrNull] /\ free \subseteq Nodes /\ limbo \in [Threads -> SUBSET Nodes]
        /\ stay \in [Threads -> SUBSET Nodes]
    BY LinkTypes DEF ListInv, TypeOK
  <2>2. QED  BY <1>3, <1>5, <1>6, <1>9, <1>12, <1>14, <2>1, TypeKeeps, Zenon
<1>23. Held(t)' = Held(t) \cup {n} /\ \A u \in Threads : u # t => Held(u)' = Held(u)
  BY <1>8, <1>10, <1>11, <1>17 DEF Held
<1>24. Apart'
  <2>1. Apart  BY DEF ListInv
  <2>2. QED  BY <1>3, <1>5, <1>23, <2>1 DEF Apart
<1>25. Complete'
  <2>1. Complete  BY DEF ListInv
  <2>2. QED  BY <1>3, <1>5, <1>23, <2>1 DEF Complete
<1>26. GoneMarked'
  <2>1. GoneMarked /\ limbo \in [Threads -> SUBSET Nodes]  BY DEF ListInv, TypeOK
  <2>2. \A u \in Threads : loc[u].chk \in NodeOrNull  BY Mine, Fields
  <2>3. \A m \in Nodes : next[m].m => next'[m].m  BY <1>15 DEF Holders
  <2>4. next'[q.chk].m  BY <1>2, <1>3, <1>10, <2>3
  <2>5. ASSUME NEW u \in Threads  PROVE loc'[u].chk # Null => next'[loc'[u].chk].m
    BY <1>11, <2>1, <2>2, <2>3, <2>4 DEF GoneMarked, NodeOrNull
  <2>6. ASSUME NEW u \in Threads, NEW m \in limbo'[u]  PROVE next'[m].m
    BY <1>5, <2>1, <2>3, <2>6 DEF GoneMarked
  <2>7. QED  BY <2>5, <2>6, Zenon DEF GoneMarked
<1>27. LinksKnown'
  <2>1. ASSUME NEW g \in Holders, next'[g].p # Null  PROVE Known(next'[g].p, next')
    <3>1. CASE g = h  BY <1>3, <1>13, <1>16, <3>1 DEF Link
    <3>2. CASE g # h
      <4>1. next'[g] = next[g] /\ next[g].p \in NodeOrEnd  BY <1>3, <3>2, LinkTypes DEF ListInv
      <4>2. Known(next[g].p, next)  BY <2>1, <4>1 DEF ListInv, LinksKnown
      <4>3. QED  BY <1>16, <4>1, <4>2
    <3>3. QED  BY <3>1, <3>2
  <2>2. QED  BY <2>1, Zenon DEF LinksKnown
<1>28. HaveValues'  BY <1>5 DEF HaveValues, ListInv
<1>29. OneKind'
  <2>1. ~At(t, "idle") /\ loc'[t].kind = loc[t].kind  BY <1>2, <1>10, <1>11 DEF At
  <2>2. QED  BY <1>5, <1>11, <2>1, SameCall
<1>30. QED
  BY <1>3, <1>21, <1>22, <1>24, <1>25, <1>26, <1>27, <1>28, <1>29, Zenon DEF ListInv

LEMMA InsertsIs ==
  ASSUME ListInv, NEW t \in Threads, InsertNode(t)
  PROVE  /\ loc[t].pc \in {"insBefore", "insNext"} /\ loc[t].kind \in Inserters
         /\ loc[t].prev \in Linked \cup {HeadNode} /\ loc[t].prev \in Holders
         /\ next[loc[t].prev].p = loc[t].cur /\ ~next[loc[t].prev].m
         /\ loc[t].cur \in Linked \cup {End}
         /\ loc[t].node \in Nodes /\ loc[t].node \in Held(t) /\ loc[t].node \notin Linked
         /\ loc[t].node # loc[t].prev
         /\ next'[loc[t].prev] = Link(loc[t].node) /\ next'[loc[t].node] = Link(loc[t].cur)
         /\ \A g \in Holders : g # loc[t].prev /\ g # loc[t].node => next'[g] = next[g]
         /\ PlaceOf(loc[t].prev, lst) \in 0..Len(lst)
         /\ lst' = InsertedAt(lst, PlaceOf(loc[t].prev, lst), loc[t].node)
         /\ lst' \in Seq(Nodes) /\ ChainIsList' /\ Distinct' /\ Linked' = Linked \cup {loc[t].node}
<1> DEFINE l == loc[t]
           h == l.prev
           n == l.node
<1>1. l \in Record /\ KindOK(l) /\ NodesOK(l) /\ PointersOK(l, next)  BY Mine
<1>2. l.pc \in {"insBefore", "insNext"} /\ next[h] = Link(l.cur)
  BY DEF InsertNode, At
<1>3. l.kind \in Inserters /\ l.kind # "walk" /\ l.pc \in PrevPoints /\ h \in Holders
  BY <1>1, <1>2 DEF KindOK, Inserters, PointersOK, PrevPoints
<1>4. next[h].p = l.cur /\ ~next[h].m  BY <1>2 DEF Link
<1>5. h \in Linked \cup {HeadNode} /\ l.cur \in Linked \cup {End}  BY <1>3, <1>4, PrevLinked
<1>6. n \in Nodes /\ n \in Held(t)
  <2>1. n # Null /\ n \in NodeOrNull  BY <1>1, <1>2, <1>3, Fields DEF NodesOK, PoolPoints
  <2>2. QED  BY <2>1 DEF NodeOrNull, Held
<1>7. n \notin Linked
  <2>1. Apart  BY DEF ListInv
  <2>2. QED  BY <1>6, <2>1 DEF Apart
<1>8. n # h  BY <1>5, <1>6, <1>7, Distinctions
<1>9. next' = [next EXCEPT ![n] = Link(l.cur), ![h] = Link(n)] /\ LinkBehind(h, n)
  BY Zenon DEF InsertNode
<1>10. next \in [Holders -> LinkType] /\ n \in Holders  BY <1>6, LinkTypes, Distinctions DEF ListInv
<1>11. /\ next'[h] = Link(n) /\ next'[n] = Link(l.cur)
       /\ \A g \in Holders : g # h /\ g # n => next'[g] = next[g]
  BY <1>3, <1>8, <1>9, <1>10
<1> HIDE DEF h, n
<1>12. /\ PlaceOf(h, lst) \in 0..Len(lst) /\ lst' = InsertedAt(lst, PlaceOf(h, lst), n)
       /\ lst' \in Seq(Nodes) /\ ChainIsList' /\ Distinct' /\ Linked' = Linked \cup {n}
  <2>1. next'[n] = Link(next[h].p)  BY <1>4, <1>11
  <2>2. QED  BY <1>5, <1>6, <1>7, <1>9, <1>11, <2>1, InsertIs, Zenon
<1>13. QED
  BY <1>2, <1>3, <1>4, <1>5, <1>6, <1>7, <1>8, <1>11, <1>12, Zenon DEF h, n

LEMMA InsertNodeKeeps ==
  ASSUME ListInv, NEW t \in Threads, InsertNode(t)
  PROVE  ListInv'
<1> DEFINE l == loc[t]
           h == l.prev
           n == l.node
           q == [l EXCEPT !.pc = "drop", !.node = Null]
<1>1. l \in Record /\ KindOK(l) /\ NodesOK(l)  BY Mine
<1>2. /\ l.pc \in {"insBefore", "insNext"} /\ l.kind \in Inserters
      /\ h \in Linked \cup {HeadNode} /\ h \in Holders /\ next[h].p = l.cur /\ ~next[h].m
      /\ l.cur \in Linked \cup {End} /\ n \in Nodes /\ n \in Held(t) /\ n \notin Linked /\ n # h
      /\ next'[h] = Link(n) /\ next'[n] = Link(l.cur)
      /\ \A g \in Holders : g # h /\ g # n => next'[g] = next[g]
      /\ lst' \in Seq(Nodes) /\ ChainIsList' /\ Distinct' /\ Linked' = Linked \cup {n}
  BY InsertsIs, Zenon
<1>3. loc' = [loc EXCEPT ![t] = q] /\ UNCHANGED <<val, slot, poolVars, calls, stay>>
  BY Zenon DEF InsertNode
<1>4. UNCHANGED <<val, slot, free, limbo, calls, stay>>  BY <1>3 DEF poolVars
<1>5. q \in Record  BY <1>1, EveryPoint, Setters, Distinctions, Zenon
<1>6. q.pc = "drop" /\ q.kind = l.kind /\ q.node = Null /\ q.chk = l.chk /\ q.pred = l.pred
  BY <1>1 DEF Record
<1> HIDE DEF q
<1>7. /\ loc'[t] = q
      /\ \A u \in Threads : u # t => loc'[u] = loc[u]
  BY <1>3, <1>5, Became, Zenon DEF ListInv
<1>8. slot' \in [Slots -> Pointers] /\ OthersSlots(t)
  BY <1>4, SlotsSame, Zenon DEF ListInv
<1>9. l.chk = Null /\ n # Null /\ n \in Holders  BY <1>1, <1>2, Distinctions DEF NodesOK
<1>10. l.cur \in NodeOrEnd /\ l.cur # Null /\ Known(l.cur, next)
  BY <1>2, Chain, Distinctions DEF NodeOrEnd, Known
<1>11. next' \in [Holders -> LinkType]
  <2>1. \A p \in NodeOrEnd : Link(p) \in LinkType  BY DEF Link, LinkType
  <2>2. next' = [[next EXCEPT ![n] = Link(l.cur)] EXCEPT ![h] = Link(n)]  BY Zenon DEF InsertNode
  <2>3. Link(l.cur) \in LinkType /\ Link(n) \in LinkType /\ next \in [Holders -> LinkType]
    BY <1>2, <1>10, <2>1, LinkTypes, Distinctions DEF ListInv, NodeOrEnd
  <2>4. [next EXCEPT ![n] = Link(l.cur)] \in [Holders -> LinkType]
    BY <1>9, <2>3, ExceptType, Zenon
  <2>5. QED  BY <1>2, <2>2, <2>3, <2>4, ExceptType, Zenon
<1>12. \A p \in NodeOrEnd : Known(p, next) => Known(p, next')
  BY <1>2, <1>9, <1>10 DEF Known, Holders, Link
<1>13. \A u \in Threads, use \in Uses, m \in Nodes :
         u # t /\ Guards(u, use, m, slot, free, loc) => Kept(u, use, m, free', loc') /\ Stable(m)
  <2>1. ASSUME NEW u \in Threads, NEW use \in Uses, NEW m \in Nodes, u # t,
               Guards(u, use, m, slot, free, loc)
        PROVE  Kept(u, use, m, free', loc') /\ Stable(m)
    <3>1. Kept(u, use, m, free, loc) /\ m # Null  BY <2>1, Distinctions DEF Guards
    <3>2. Kept(u, use, m, free', loc')  BY <1>4, <1>6, <1>7, <1>9, <3>1 DEF Kept
    <3>3. m # n  BY <3>1 DEF Kept
    <3>4. Stable(m)  BY <1>2, <1>4, <3>3 DEF Stable, Holders
    <3>5. QED  BY <3>2, <3>4
  <2>2. QED  BY <2>1, Zenon
<1>14. LocalOK(t, q, next', val', slot', free', loc')
  <2>1. KindOK(q)
    BY <1>1, <1>2, <1>6 DEF KindOK, PoolPoints, ClearPoints, WalkPoints, Inserters
  <2>2. NodesOK(q)  BY <1>6, <1>9 DEF NodesOK
  <2>3. q.pc \notin PrevPoints \cup CurPoints \cup NxtPoints
    BY <1>6 DEF PrevPoints, CurPoints, NxtPoints, ClearPoints, WalkPoints
  <2>4. PointersOK(q, next') /\ LinksOK(q, next', val') /\ SlotsOK(t, q, slot')
    BY <1>6, <2>3 DEF PointersOK, LinksOK, SlotsOK, ClearPoints
  <2>5. GuardsOK(t, q, slot', free', loc')  BY <1>6, <2>3 DEF GuardsOK
  <2>6. QED  BY <2>1, <2>2, <2>4, <2>5, Zenon DEF LocalOK
<1>15. LocalsOK'
  <2>1. ASSUME NEW u \in Threads, u # t, loc[u].pc \in {"set", "head"}
        PROVE  next'[loc[u].cur].p = next[loc[u].cur].p
    <3>1. h = HeadNode
      <4>1. l.pc \in PrevPoints /\ l.kind # "walk"  BY <1>2 DEF PrevPoints, Inserters
      <4>2. QED  BY <1>2, <2>1, <4>1, HeadOnly
    <3>2. loc[u].cur \in Nodes /\ loc[u].cur # n
      <4>1. KindOK(loc[u]) /\ PointersOK(loc[u], next) /\ GuardsOK(u, loc[u], slot, free, loc)
        BY Mine
      <4>2. /\ loc[u].kind = "clear" /\ loc[u].pc \in CurPoints /\ loc[u].cur \in Nodes
        BY <2>1, <4>1 DEF KindOK, PointersOK, CurPoints, ClearPoints
      <4>3. Guards(u, "cur", loc[u].cur, slot, free, loc)  BY <4>1, <4>2 DEF GuardsOK
      <4>4. QED  BY <4>2, <4>3 DEF Guards, Kept
    <3>3. QED  BY <1>2, <3>1, <3>2, Distinctions
  <2>2. \A u \in Threads : u # t /\ loc[u].pc \in {"set", "head"} =>
          next'[loc[u].cur].p = next[loc[u].cur].p
    BY <2>1, Zenon
  <2>3. QED  BY <1>3, <1>5, <1>8, <1>12, <1>13, <1>14, <2>2, LocalsKeep, Zenon
<1>16. TypeOK'
  <2>1. /\ val \in [Nodes -> ValueOrNull] /\ free \subseteq Nodes /\ limbo \in [Threads -> SUBSET Nodes]
        /\ stay \in [Threads -> SUBSET Nodes]
    BY LinkTypes DEF ListInv, TypeOK
  <2>2. QED  BY <1>2, <1>3, <1>4, <1>5, <1>8, <1>11, <2>1, TypeKeeps, Zenon
<1>17. Held(t)' = {} /\ Held(t) = {n} /\ \A u \in Threads : u # t => Held(u)' = Held(u)
  BY <1>6, <1>7, <1>9 DEF Held
<1>18. Apart'
  <2>1. Apart  BY DEF ListInv
  <2>2. QED  BY <1>2, <1>4, <1>17, <2>1 DEF Apart
<1>19. Complete'
  <2>1. Complete  BY DEF ListInv
  <2>2. QED  BY <1>2, <1>4, <1>17, <2>1 DEF Complete
<1>20. GoneMarked'
  <2>1. GoneMarked /\ Apart /\ limbo \in [Threads -> SUBSET Nodes]  BY DEF ListInv, TypeOK
  <2>2. \A u \in Threads : loc[u].chk \in NodeOrNull  BY Mine, Fields
  <2>3. \A m \in Nodes : next[m].m /\ m # n => next'[m].m  BY <1>2 DEF Holders
  <2>4. ASSUME NEW u \in Threads, loc'[u].chk # Null  PROVE next'[loc'[u].chk].m
    <3>1. u # t /\ loc'[u].chk = loc[u].chk  BY <1>6, <1>7, <1>9, <2>4
    <3>2. loc[u].chk \in Held(u)  BY <2>4, <3>1 DEF Held
    <3>3. loc[u].chk # n  BY <1>2, <2>1, <3>1, <3>2 DEF Apart
    <3>4. QED  BY <2>1, <2>2, <2>3, <2>4, <3>1, <3>3 DEF GoneMarked, NodeOrNull
  <2>5. ASSUME NEW u \in Threads, NEW m \in limbo'[u]  PROVE next'[m].m
    <3>1. m # n  BY <1>2, <1>4, <2>1 DEF Apart
    <3>2. QED  BY <1>4, <2>1, <2>3, <3>1 DEF GoneMarked
  <2>6. QED  BY <2>4, <2>5, Zenon DEF GoneMarked
<1>21. LinksKnown'
  <2>1. ASSUME NEW g \in Holders, next'[g].p # Null  PROVE Known(next'[g].p, next')
    <3>1. CASE g = h
      <4>1. next'[g].p = n /\ next'[n].p # Null  BY <1>2, <1>10, <3>1 DEF Link
      <4>2. QED  BY <1>2, <4>1 DEF Known
    <3>2. CASE g = n  BY <1>2, <1>10, <1>12, <3>2 DEF Link
    <3>3. CASE g # h /\ g # n
      <4>1. next'[g] = next[g] /\ next[g].p \in NodeOrEnd  BY <1>2, <3>3, LinkTypes DEF ListInv
      <4>2. Known(next[g].p, next)  BY <2>1, <4>1 DEF ListInv, LinksKnown
      <4>3. QED  BY <1>12, <4>1, <4>2
    <3>4. QED  BY <3>1, <3>2, <3>3
  <2>2. QED  BY <2>1, Zenon DEF LinksKnown
<1>22. HaveValues'  BY <1>4 DEF HaveValues, ListInv
<1>23. OneKind'
  <2>1. ~At(t, "idle") /\ loc'[t].kind = loc[t].kind  BY <1>2, <1>6, <1>7 DEF At
  <2>2. QED  BY <1>4, <1>7, <2>1, SameCall
<1>24. QED
  BY <1>2, <1>15, <1>16, <1>18, <1>19, <1>20, <1>21, <1>22, <1>23, Zenon DEF ListInv

-----------------------------------------------------------------------------
(* The invariant holds at first, and every step keeps it.                  *)

LEMMA ListInit ==
  ASSUME Init, ClearIsAlone
  PROVE  ListInv
<1>1. PICK s \in [1..Len(Start) -> Nodes] :
       /\ \A i, j \in DOMAIN s : s[i] = s[j] => i = j
       /\ lst = s
       /\ free = Nodes \ {s[i] : i \in DOMAIN s}
       /\ next = [n \in Holders |->
                    IF Start # <<>> /\ n = HeadNode THEN Link(s[1])
                    ELSE IF \E i \in DOMAIN s : s[i] = n /\ i < Len(Start)
                    THEN Link(s[1 + CHOOSE i \in DOMAIN s : s[i] = n])
                    ELSE IF n = HeadNode \/ n \notin free THEN Link(End) ELSE Link(Null)]
       /\ val = [n \in Nodes |-> IF n \in free THEN Null
                                 ELSE Start[CHOOSE i \in DOMAIN s : s[i] = n]]
  BY Zenon DEF Init
<1>2. /\ slot = [x \in Slots |-> Null] /\ limbo = [t \in Threads |-> {}]
      /\ loc = [t \in Threads |-> Idle] /\ calls \in Calls /\ stay = [t \in Threads |-> {}]
  BY DEF Init
<1> DEFINE N == Len(Start)
<1>3. Start \in Seq(Values) /\ N \in Nat /\ \A i \in 1..N : Start[i] \in Values
  BY ListAssumption
<1>4. DOMAIN s = 1..N /\ \A i \in 1..N : s[i] \in Nodes  OBVIOUS
<1>5. lst \in Seq(Nodes) /\ Len(lst) = N /\ \A i \in 1..N : lst[i] = s[i]
  BY <1>1, <1>3, <1>4
<1>6. Linked = {s[i] : i \in DOMAIN s} /\ Linked \subseteq Nodes /\ free = Nodes \ Linked
  BY <1>1, <1>4, <1>5 DEF Linked
<1>7. \A i \in 1..N : (CHOOSE j \in DOMAIN s : s[j] = s[i]) = i
  BY <1>1, <1>4
<1>8. \A i \in 1..N : s[i] \in Linked /\ s[i] # HeadNode /\ s[i] \in Holders /\ s[i] \notin free
  BY <1>4, <1>6, Distinctions DEF Holders
<1>9. \A i \in 1..N : next[s[i]] = IF i = N THEN Link(End) ELSE Link(s[i + 1])
  <2>1. ASSUME NEW i \in 1..N  PROVE next[s[i]] = IF i = N THEN Link(End) ELSE Link(s[i + 1])
    <3>1. (\E j \in DOMAIN s : s[j] = s[i] /\ j < N) <=> i < N  BY <1>1, <1>3, <1>4
    <3>2. next[s[i]] = IF i < N THEN Link(s[1 + CHOOSE j \in DOMAIN s : s[j] = s[i]]) ELSE Link(End)
      BY <1>1, <1>8, <3>1
    <3>3. 1 + (CHOOSE j \in DOMAIN s : s[j] = s[i]) = i + 1
      <4>1. (CHOOSE j \in DOMAIN s : s[j] = s[i]) = i  BY <1>7, Zenon
      <4>2. 1 + i = i + 1  BY <1>3
      <4>3. QED  BY <4>1, <4>2, Zenon
    <3>4. QED  BY <1>3, <3>2, <3>3
  <2>2. QED  BY <2>1, Zenon
<1>10. next[HeadNode] = IF N = 0 THEN Link(End) ELSE Link(s[1])
  <2>1. Start # <<>> <=> N # 0  BY <1>3
  <2>2. \A i \in DOMAIN s : s[i] # HeadNode  BY <1>4, <1>8
  <2>3. HeadNode \in Holders  BY Distinctions
  <2>4. QED  BY <1>1, <2>1, <2>2, <2>3
<1>11. \A n \in free : next[n] = Link(Null)
  <2>1. \A n \in free : n \in Holders /\ n # HeadNode /\ \A i \in DOMAIN s : s[i] # n
    BY <1>1, <1>6, Distinctions
  <2>2. QED  BY <1>1, <2>1
<1>12. \A n \in Linked : val[n] \in Values
  <2>1. ASSUME NEW i \in 1..N  PROVE val[s[i]] \in Values
    <3>1. val[s[i]] = Start[i]  BY <1>1, <1>4, <1>7, <1>8
    <3>2. QED  BY <1>3, <3>1
  <2>2. QED  BY <1>4, <1>6, <2>1
<1>13. \A h \in Holders : \/ h = HeadNode
                          \/ \E i \in 1..N : h = s[i]
                          \/ h \in free
  BY <1>4, <1>6 DEF Holders
<1>14. \A h \in Holders : /\ next[h].p \in NodeOrEnd /\ ~next[h].m /\ next[h] \in LinkType
                          /\ next[h].p # Null => next[h].p \in Linked \cup {End}
  <2>1. \A p \in NodeOrEnd : Link(p).p = p /\ ~Link(p).m /\ Link(p) \in LinkType
    BY DEF Link, LinkType
  <2>2. \A i \in 1..N : s[i] \in NodeOrEnd /\ s[i] \in Linked  BY <1>4, <1>8, Distinctions
  <2>3. ASSUME NEW h \in Holders
        PROVE  \E p \in NodeOrEnd : next[h] = Link(p) /\ (p # Null => p \in Linked \cup {End})
    <3>1. CASE h = HeadNode
      <4>1. N # 0 => 1 \in 1..N  BY <1>3
      <4>2. QED  BY <1>10, <2>2, <3>1, <4>1, Distinctions
    <3>2. CASE \E i \in 1..N : h = s[i]
      <4>1. PICK i \in 1..N : h = s[i]  BY <3>2
      <4>2. i # N => i + 1 \in 1..N  BY <1>3
      <4>3. QED  BY <1>9, <2>2, <4>1, <4>2, Distinctions
    <3>3. CASE h \in free  BY <1>11, <3>3, Distinctions
    <3>4. QED  BY <1>13, <3>1, <3>2, <3>3
  <2>4. QED  BY <2>1, <2>3
<1>15. TypeOK
  <2>1. next \in [Holders -> [p : Nodes \cup {End, Null}, m : BOOLEAN]]
    <3>1. next \in [Holders -> LinkType]  BY <1>1, <1>14
    <3>2. QED  BY <3>1, Zenon DEF LinkType, NodeOrEnd
  <2>2. val \in [Nodes -> Values \cup {Null}]
    <3>1. \A n \in free : val[n] = Null  BY <1>1, <1>6
    <3>2. \A n \in Nodes : n \in free \/ n \in Linked  BY <1>6, Zenon
    <3>3. \A n \in Nodes : val[n] \in Values \cup {Null}  BY <1>12, <3>1, <3>2
    <3>4. QED  BY <1>1, <3>3
  <2>3. slot \in [Slots -> Pointers]  BY <1>2 DEF Pointers
  <2>4. limbo \in [Threads -> SUBSET Nodes] /\ stay \in [Threads -> SUBSET Nodes] /\ free \subseteq Nodes
    BY <1>2, <1>6
  <2>5. loc \in [Threads -> Record]  BY <1>2, IdleType
  <2>6. calls \in [Threads -> [Kinds -> Nat]]  BY <1>2, ListAssumption
  <2>7. loc \in [Threads -> [pc : Points, kind : Kinds, arg : Values \cup {Null}, pred : Preds,
                          node : Nodes \cup {Null}, prev : Holders \cup {Null},
                          cur : Nodes \cup {End, Null}, nxt : Nodes \cup {End, Null},
                          mark : BOOLEAN, chk : Nodes \cup {Null}, ret : Values \cup {Null},
                          unseen : SUBSET Slots]]
    BY <2>5, Zenon DEF Record, NodeOrNull, NodeOrEnd, HolderOrNull, ValueOrNull
  <2>8. QED  BY <1>5, <2>1, <2>2, <2>3, <2>4, <2>6, <2>7, Zenon DEF TypeOK
<1>16. \A t \in Threads : loc[t] = Idle /\ limbo[t] = {}  BY <1>2
<1>17. Idle.pc = "idle" /\ Idle.kind = "walk" /\ Idle.node = Null /\ Idle.chk = Null
  BY DEF Idle
<1>18. LocalsOK
  <2>1. ASSUME NEW t \in Threads  PROVE LocalOK(t, Idle, next, val, slot, free, loc)
    <3>1. KindOK(Idle) /\ NodesOK(Idle)
      BY <1>17 DEF KindOK, NodesOK, PoolPoints, ClearPoints, WalkPoints, Inserters
    <3>2. PointersOK(Idle, next)
      BY <1>17 DEF PointersOK, PrevPoints, CurPoints, NxtPoints, ClearPoints, WalkPoints
    <3>3. LinksOK(Idle, next, val) /\ SlotsOK(t, Idle, slot)  BY <1>17 DEF LinksOK, SlotsOK
    <3>4. GuardsOK(t, Idle, slot, free, loc)  BY <1>17 DEF GuardsOK
    <3>5. QED  BY <3>1, <3>2, <3>3, <3>4, Zenon DEF LocalOK
  <2>2. QED  BY <1>16, <2>1, Zenon DEF LocalsOK
<1>19. ChainIsList
  <2>1. ~next[HeadNode].m  BY <1>14, Distinctions
  <2>2. ASSUME NEW i \in 0..Len(lst)
        PROVE  next[IF i = 0 THEN HeadNode ELSE lst[i]].p = IF i = Len(lst) THEN End ELSE lst[i + 1]
    <3>1. CASE i = 0
      <4>1. N # 0 => 1 \in 1..N  BY <1>3
      <4>2. QED  BY <1>3, <1>5, <1>10, <3>1, <4>1 DEF Link
    <3>2. CASE i # 0
      <4>1. i \in 1..N /\ lst[i] = s[i] /\ (i # N => i + 1 \in 1..N)  BY <1>3, <1>5, <3>2
      <4>2. next[s[i]] = IF i = N THEN Link(End) ELSE Link(s[i + 1])  BY <1>9, <4>1, Zenon
      <4>3. next[s[i]].p = IF i = N THEN End ELSE s[i + 1]  BY <4>2 DEF Link
      <4>4. QED  BY <1>5, <3>2, <4>1, <4>3
    <3>3. QED  BY <3>1, <3>2
  <2>3. QED  BY <2>1, <2>2 DEF ChainIsList
<1>20. Distinct  BY <1>1, <1>4, <1>5 DEF Distinct
<1>21. \A t \in Threads : Held(t) = {}  BY <1>16, <1>17 DEF Held
<1>22. Apart /\ Complete  BY <1>6, <1>16, <1>21 DEF Apart, Complete
<1>23. GoneMarked  BY <1>16, <1>17 DEF GoneMarked
<1>24. LinksKnown
  <2>1. \A n \in Linked : next[n].p # Null
    <3>1. \A i \in 1..N : next[s[i]].p # Null
      <4>1. ASSUME NEW i \in 1..N  PROVE next[s[i]].p # Null
        <5>1. i # N => s[i + 1] \in Nodes  BY <1>3, <1>4
        <5>2. next[s[i]] = IF i = N THEN Link(End) ELSE Link(s[i + 1])  BY <1>9, Zenon
        <5>3. QED  BY <5>1, <5>2, Distinctions DEF Link
      <4>2. QED  BY <4>1, Zenon
    <3>2. QED  BY <1>4, <1>6, <3>1
  <2>2. QED  BY <1>6, <1>14, <2>1 DEF LinksKnown, Known
<1>25. HaveValues  BY <1>6, <1>12 DEF HaveValues
<1>26. OneKind
  <2>1. calls \in [Threads -> [Kinds -> Nat]]  BY <1>15 DEF TypeOK
  <2>2. \A t \in Threads, k \in Kinds : calls[t][k] = 0 => ~Does(t, k)
    BY <1>16, <1>17, <2>1 DEF Does, At
  <2>3. "clear" \in Kinds /\ Rough \subseteq Kinds  BY DEF Rough, Kinds
  <2>4. QED  BY <1>2, <2>2, <2>3, Zenon DEF ClearIsAlone, OneKind
<1>27. QED
  BY <1>15, <1>18, <1>19, <1>20, <1>22, <1>23, <1>24, <1>25, <1>26, Zenon DEF ListInv

LEMMA Unchanged ==
  ASSUME ListInv, UNCHANGED vars
  PROVE  ListInv'
<1>1. UNCHANGED <<next, val, slot, free, limbo, loc, calls, lst, stay>>
  BY Zenon DEF vars, memVars, poolVars, histVars
<1>2. TypeOK' /\ ChainIsList' /\ Distinct' /\ Complete' /\ GoneMarked' /\ LinksKnown' /\ HaveValues'
  <2>1. Linked' = Linked /\ \A t \in Threads : Held(t)' = Held(t)  BY <1>1, Zenon DEF Linked, Held
  <2>2. TypeOK' /\ ChainIsList' /\ Distinct'
    BY <1>1, Zenon DEF ListInv, TypeOK, ChainIsList, Distinct
  <2>3. Complete' /\ GoneMarked' /\ LinksKnown' /\ HaveValues'
    BY <1>1, <2>1 DEF ListInv, Complete, GoneMarked, LinksKnown, HaveValues, Known
  <2>4. QED  BY <2>2, <2>3
<1>3. Apart'
  <2>1. Linked' = Linked /\ \A t \in Threads : Held(t)' = Held(t)  BY <1>1, Zenon DEF Linked, Held
  <2>2. QED  BY <1>1, <2>1 DEF ListInv, Apart
<1>4. LocalsOK'
  <2>1. LocalsOK  BY DEF ListInv
  <2>2. QED  BY <1>1, <2>1, Zenon DEF LocalsOK
<1>5. OneKind'  BY <1>1 DEF ListInv, OneKind, Does, At
<1>6. QED  BY <1>2, <1>3, <1>4, <1>5, Zenon DEF ListInv

LEMMA StepKeeps ==
  ASSUME ListInv, NEW t \in Threads, Step(t)
  PROVE  ListInv'
<1>1. CASE TakeFree(t)  BY <1>1, TakeFreeKeeps, Zenon
<1>2. CASE Recheck(t)  BY <1>2, RecheckKeeps, Zenon
<1>3. CASE ScanSlot(t)  BY <1>3, ScanSlotKeeps, Zenon
<1>4. CASE FoundInHazard(t)  BY <1>4, FoundInHazardKeeps, Zenon
<1>5. CASE Reclaim(t)  BY <1>5, ReclaimKeeps, Zenon
<1>6. CASE Reuse(t)  BY <1>6, ReuseKeeps, Zenon
<1>7. CASE Load(t)  BY <1>7, LoadKeeps, Zenon
<1>8. CASE StoreSlot(t)  BY <1>8, StoreSlotKeeps, Zenon
<1>9. CASE Reload(t)  BY <1>9, ReloadKeeps, Zenon
<1>10. CASE Verified(t)  BY <1>10, VerifiedKeeps, Zenon
<1>11. CASE ReadNext(t)  BY <1>11, ReadNextKeeps, Zenon
<1>12. CASE StoreNextSlot(t)  BY <1>12, StoreNextSlotKeeps, Zenon
<1>13. CASE NextChanged(t)  BY <1>13, NextChangedKeeps, Zenon
<1>14. CASE SeeMark(t)  BY <1>14, SeeMarkKeeps, Zenon
<1>15. CASE Try(t)  BY <1>15, TryKeeps, Zenon
<1>16. CASE Visit(t) \/ PassBy(t) \/ IsNotTail(t) \/ MarkedMeanwhile(t)
  BY <1>16, PassingKeeps, Zenon
<1>17. CASE IsTail(t)  BY <1>17, IsTailKeeps, Zenon
<1>18. CASE Match(t)  BY <1>18, MatchKeeps, Zenon
<1>19. CASE Purge(t) \/ UnlinkMarked(t) \/ ClearHead(t)  BY <1>19, AllUnlink, UnlinkKeeps, Zenon
<1>20. CASE PurgeFails(t) \/ InsertFails(t) \/ MarkFails(t) \/ LeaveMarked(t)
  BY <1>20, FailsKeep, Zenon
<1>21. CASE InsertNode(t)  BY <1>21, InsertNodeKeeps, Zenon
<1>22. CASE InsertAgain(t)  BY <1>22, InsertAgainKeeps, Zenon
<1>23. CASE Mark(t) \/ ClearMark(t)  BY <1>23, MarkKeeps, Zenon
<1>24. CASE TakeValue(t)  BY <1>24, TakeValueKeeps, Zenon
<1>25. CASE ClearReadNext(t)  BY <1>25, ClearReadNextKeeps, Zenon
<1>26. CASE ClearHeadFails(t)  BY <1>26, ClearHeadFailsKeeps, Zenon
<1>27. CASE Drop(t)  BY <1>27, DropKeeps, Zenon
<1>28. QED
  BY <1>1, <1>2, <1>3, <1>4, <1>5, <1>6, <1>7, <1>8, <1>9, <1>10, <1>11, <1>12, <1>13, <1>14,
     <1>15, <1>16, <1>17, <1>18, <1>19, <1>20, <1>21, <1>22, <1>23, <1>24, <1>25, <1>26, <1>27,
     Zenon DEF Step

LEMMA NextKeeps == ListInv /\ [Next]_vars => ListInv'
<1>1. ASSUME ListInv, UNCHANGED vars  PROVE ListInv'  BY <1>1, Unchanged, Zenon
<1>2. ASSUME ListInv, NEW t \in Threads, Step(t)  PROVE ListInv'  BY <1>2, StepKeeps, Zenon
<1>3. ASSUME ListInv, NEW t \in Threads, NEW kind \in Kinds, Call(t, kind)  PROVE ListInv'
  BY <1>3, CallKeeps, Zenon
<1>4. QED  BY <1>1, <1>2, <1>3, Zenon DEF Next

LEMMA AlwaysListInv == ASSUME ClearIsAlone  PROVE Spec => []ListInv
<1>1. Init => ListInv  BY ListInit, Zenon
<1>2. QED  BY <1>1, NextKeeps, PTL DEF Spec

-----------------------------------------------------------------------------
(* What the threads touch, and the structure of the list.                  *)

\* What a search or a removal touches is guarded.
LEMMA ReadsAreGuarded ==
  ASSUME ListInv, NEW t \in Threads, loc[t].kind # "walk"
  PROVE  Reads(t) \cap free = {}
<1> DEFINE l == loc[t]
<1>1. GuardsOK(t, l, slot, free, loc) /\ PointersOK(l, next)  BY Mine, Zenon
<1>2. l.pc \in CurPoints => l.cur \notin free
  <2>1. ASSUME l.pc \in CurPoints  PROVE l.cur \notin free
    <3>1. Guards(t, "cur", l.cur, slot, free, loc)  BY <1>1, <2>1, Zenon DEF GuardsOK
    <3>2. l.cur \in Nodes  BY <1>1, <2>1, Zenon DEF PointersOK
    <3>3. QED  BY <3>1, <3>2, Zenon DEF Guards, Kept
  <2>2. QED  BY <2>1
<1>3. l.pc \in PrevPoints => l.prev \notin free
  <2>1. ASSUME l.pc \in PrevPoints  PROVE l.prev \notin free
    <3>1. Guards(t, "prev", l.prev, slot, free, loc)  BY <1>1, <2>1, Zenon DEF GuardsOK
    <3>2. free \subseteq Nodes  BY Zenon DEF ListInv, TypeOK
    <3>3. QED  BY <3>1, <3>2, Zenon DEF Guards, Kept
  <2>2. QED  BY <2>1
<1> HIDE DEF l
<1>4. Reads(t) = CASE l.pc \in {"read", "nxtVerify", "test", "look", "mark", "value", "next", "set"} ->
                        {l.cur}
                   [] l.pc \in {"purge", "insBefore", "insNext"} -> {l.prev}
                   [] l.pc = "unlink" -> {l.cur, l.prev}
                   [] OTHER -> {}
  BY DEF Reads, l
<1>5. CASE l.pc \in {"read", "nxtVerify", "test", "look", "mark", "value", "next", "set"}
  <2>1. Reads(t) = {l.cur}  BY <1>4, <1>5
  <2>2. l.pc \in CurPoints  BY <1>5 DEF CurPoints, ClearPoints, WalkPoints
  <2>3. QED  BY <1>2, <2>1, <2>2
<1>6. CASE l.pc \in {"purge", "insBefore", "insNext"}
  <2>1. Reads(t) = {l.prev}  BY <1>4, <1>6
  <2>2. l.pc \in PrevPoints  BY <1>6 DEF PrevPoints, CurPoints
  <2>3. QED  BY <1>3, <2>1, <2>2
<1>7. CASE l.pc = "unlink"
  <2>1. Reads(t) = {l.cur, l.prev}  BY <1>4, <1>7
  <2>2. l.pc \in CurPoints /\ l.pc \in PrevPoints  BY <1>7 DEF PrevPoints, CurPoints
  <2>3. QED  BY <1>2, <1>3, <2>1, <2>2
<1>8. CASE l.pc \notin {"read", "nxtVerify", "test", "look", "mark", "value", "next", "set",
                        "purge", "insBefore", "insNext", "unlink"}
  BY <1>4, <1>8
<1>9. QED  BY <1>5, <1>6, <1>7, <1>8

\* Nothing is linked twice.
LEMMA LengthIs == ListInv => Cardinality(Linked) = Len(lst)
<1> SUFFICES ASSUME ListInv  PROVE Cardinality(Linked) = Len(lst)
  OBVIOUS
<1>1. lst \in Seq(Nodes) /\ Len(lst) \in Nat /\ Distinct  BY Chain, Zenon DEF ListInv
<1> DEFINE f == [i \in 1..Len(lst) |-> lst[i]]
<1>2. f \in Bijection(1..Len(lst), Linked)
  <2>1. f \in [1..Len(lst) -> Linked]  BY DEF Linked
  <2>2. f \in Injection(1..Len(lst), Linked)
    <3>1. \A i, j \in 1..Len(lst) : f[i] = f[j] => i = j  BY <1>1 DEF Distinct
    <3>2. QED  BY <2>1, <3>1, Zenon DEF Injection, IsInjective
  <2>3. f \in Surjection(1..Len(lst), Linked)
    <3>1. \A x \in Linked : \E i \in 1..Len(lst) : f[i] = x  BY DEF Linked
    <3>2. QED  BY <2>1, <3>1, Zenon DEF Surjection
  <2>4. QED  BY <2>2, <2>3, Zenon DEF Bijection
<1>3. ExistsBijection(1..Len(lst), Linked)  BY <1>2, Zenon DEF ExistsBijection
<1>4. Cardinality(Linked) = Len(lst)
  BY <1>1, <1>3, FS_CountingElements, Zenon
<1>5. QED  BY <1>4

\* No node is in two places.
LEMMA PlacesAre ==
  ASSUME ListInv, NEW n \in Nodes
  PROVE  \E x : Places(n) = {x}
<1>1. Apart /\ Complete  BY DEF ListInv
<1> DEFINE h == {u \in Threads : n \in Held(u)}
           m == {u \in Threads : n \in limbo[u]}
<1>2. CASE n \in Linked
  <2>1. n \notin free /\ h = {} /\ m = {}  BY <1>1, <1>2 DEF Apart
  <2>2. Places(n) = {<<"list">>}  BY <1>2, <2>1 DEF Places
  <2>3. QED  BY <2>2, Zenon
<1>3. CASE n \in free
  <2>1. n \notin Linked /\ h = {} /\ m = {}  BY <1>1, <1>3 DEF Apart
  <2>2. Places(n) = {<<"free">>}  BY <1>3, <2>1 DEF Places
  <2>3. QED  BY <2>2, Zenon
<1>4. CASE \E t \in Threads : n \in Held(t)
  <2>1. PICK t \in Threads : n \in Held(t)  BY <1>4
  <2>2. n \notin Linked /\ n \notin free /\ h = {t} /\ m = {}  BY <1>1, <2>1 DEF Apart
  <2>3. Places(n) = {<<"held", t>>}  BY <2>2 DEF Places
  <2>4. QED  BY <2>3, Zenon
<1>5. CASE \E t \in Threads : n \in limbo[t]
  <2>1. PICK t \in Threads : n \in limbo[t]  BY <1>5
  <2>2. n \notin Linked /\ n \notin free /\ h = {} /\ m = {t}  BY <1>1, <2>1 DEF Apart
  <2>3. Places(n) = {<<"limbo", t>>}  BY <2>2 DEF Places
  <2>4. QED  BY <2>3, Zenon
<1>6. n \in Linked \/ n \in free \/ (\E t \in Threads : n \in Held(t)) \/ (\E t \in Threads : n \in limbo[t])
  BY <1>1 DEF Complete
<1>7. QED  BY <1>2, <1>3, <1>4, <1>5, <1>6, Zenon

LEMMA NodesInOnePlace == ListInv => OnePlace
<1>1. ASSUME ListInv, NEW n \in Nodes  PROVE Cardinality(Places(n)) = 1
  <2>1. PICK x : Places(n) = {x}  BY <1>1, PlacesAre, Zenon
  <2>2. QED  BY <2>1, FS_Singleton
<1>2. QED  BY <1>1, LengthIs, Zenon DEF OnePlace

-----------------------------------------------------------------------------
(* What a call has, and what its search has found.                         *)

\* A call has a value to return only when it returns; a new node has the value
\* that is inserted; what was accepted is what was asked for, and what
\* pop_front has accepted stands behind the head.
FoundOK(l, vl) ==
  /\ l.ret # Null => l.pc = "drop"
  /\ l.node # Null => vl[l.node] = l.arg
  /\ l.pc \in {"look", "mark"} /\ l.kind # "popBack" => vl[l.cur] \in l.pred
  /\ l.pc = "insBefore" => l.cur = End \/ vl[l.cur] \in l.pred
  /\ l.pc = "mark" /\ l.kind = "popFront" => l.prev = HeadNode
FoundKept == \A t \in Threads : FoundOK(loc[t], val)
FoundInv == ListInv /\ FoundKept

\* A step changes no other call's part, but the scan's when slots are exchanged.
SameArgs(l, k) == /\ k.pc = l.pc /\ k.kind = l.kind /\ k.arg = l.arg /\ k.pred = l.pred
                  /\ k.node = l.node /\ k.cur = l.cur /\ k.prev = l.prev /\ k.ret = l.ret
\* What a step does to a call's own part, and where the call ends.
Proceeds(t) ==
  \/ Drop(t) /\ loc[t].pc = "drop" /\ loc'[t] = Idle
  \/ /\ loc'[t].kind = loc[t].kind /\ loc'[t].arg = loc[t].arg /\ loc'[t].pred = loc[t].pred
     /\ loc[t].pc \notin {"idle", "drop"}
     /\ loc'[t].ret = loc[t].ret \/ (loc'[t].pc = "drop" /\ TakeValue(t))
     /\ loc[t].pc = "value" => TakeValue(t)
     /\ loc'[t].pc = "value" => Mark(t)
     /\ loc'[t].pc = "drop" =>
          \/ loc[t].kind \in {"walk", "clear", "remove", "removeAll"}
          \/ TakeValue(t) \/ InsertNode(t) \/ loc[t].pc = "verify"
     /\ loc'[t].pc # "idle"
     /\ loc[t].pc = "verify" => Reload(t) \/ Verified(t)
     /\ loc'[t].pc \in SeenPoints /\ loc[t].kind = "popFront" =>
          \/ loc[t].pc = "verify" \/ loc'[t].prev # HeadNode
          \/ loc[t].pc \in SeenPoints /\ loc'[t].prev = loc[t].prev /\ loc'[t].cur = loc[t].cur
     /\ loc'[t].node # Null => loc'[t].node = loc[t].node \/ val'[loc'[t].node] = loc[t].arg
     /\ loc'[t].pc = "look" =>
          \/ loc[t].kind = "popBack"
          \/ val'[loc'[t].cur] \in loc[t].pred
     /\ loc'[t].pc = "mark" =>
          /\ loc[t].pc = "look" /\ loc'[t].cur = loc[t].cur
          /\ loc[t].kind = "popFront" => loc'[t].prev = HeadNode
     /\ loc'[t].pc = "insBefore" =>
          \/ loc'[t].cur = End
          \/ loc[t].pc = "look" /\ loc[t].kind = "insert" /\ loc'[t].cur = loc[t].cur

LEMMA StepProceeds ==
  ASSUME ListInv, NEW t \in Threads, Step(t)
  PROVE  Proceeds(t) /\ \A u \in Threads : u # t => SameArgs(loc[u], loc'[u])
<1>1. loc \in [Threads -> Record] /\ loc[t] \in Record /\ KindOK(loc[t])
  BY RecordIs, Mine, Zenon DEF ListInv
<1> USE DEF SeenPoints
<1>2. DOMAIN loc = Threads /\ loc[t] \in Record  BY <1>1
<1>3. CASE TakeFree(t)  BY <1>2, <1>3 DEF TakeFree, Obtain, Record, Proceeds, SameArgs, At
<1>4. CASE Recheck(t)  BY <1>2, <1>4 DEF Recheck, Record, Proceeds, SameArgs, At
<1>5. CASE ScanSlot(t)  BY <1>2, <1>5 DEF ScanSlot, Scanning, Record, Proceeds, SameArgs, At
<1>6. CASE FoundInHazard(t)
  BY <1>2, <1>6 DEF FoundInHazard, Scanning, Resumed, Restarted, Record, Proceeds, SameArgs, At
<1>7. CASE Reclaim(t)
  BY <1>2, <1>7 DEF Reclaim, Resumed, Restarted, Record, Proceeds, SameArgs, At
<1>8. CASE Reuse(t)  BY <1>2, <1>8 DEF Reuse, Obtain, Record, Proceeds, SameArgs, At
<1>9. CASE Load(t)  BY <1>2, <1>9 DEF Load, Record, Proceeds, SameArgs, At
<1>10. CASE StoreSlot(t)
  BY <1>2, <1>10 DEF StoreSlot, Goto, ClearDone, InCall, Record, Proceeds, SameArgs, At
<1>11. CASE Reload(t)  BY <1>2, <1>11 DEF Reload, Restarted, Record, Proceeds, SameArgs, At
<1>12. CASE Verified(t)
  <2>1. loc[t].kind # "clear" =>
          /\ Come(loc[t].kind, HeadNode, loc[t].cur) \notin {"idle", "look", "mark", "value"}
          /\ Come(loc[t].kind, HeadNode, loc[t].cur) = "insBefore" => loc[t].cur = End
    <3>1. loc[t].kind \in Kinds  BY <1>1, Fields
    <3>2. QED  BY <3>1 DEF Come, Found, Kinds
  <2>2. QED
    BY <1>2, <1>12, <2>1 DEF Verified, Goto, InCall, Record, Proceeds, SameArgs, At
<1>13. CASE ReadNext(t)  BY <1>2, <1>13 DEF ReadNext, Record, Proceeds, SameArgs, At
<1>14. CASE StoreNextSlot(t)  BY <1>2, <1>14 DEF StoreNextSlot, Goto, Record, Proceeds, SameArgs, At
<1>15. CASE NextChanged(t)  BY <1>2, <1>15 DEF NextChanged, Goto, Record, Proceeds, SameArgs, At
<1>16. CASE SeeMark(t)
  BY <1>2, <1>16 DEF SeeMark, NextVerified, Goto, Record, Proceeds, SameArgs, At
<1>17. CASE Try(t)
  BY <1>2, <1>17 DEF Try, NextVerified, Goto, InCall, memVars, Record, Proceeds, SameArgs, At
<1>18. CASE Visit(t) \/ PassBy(t) \/ IsNotTail(t) \/ MarkedMeanwhile(t)
  <2>1. Advance(t) /\ loc[t].pc \notin {"idle", "drop", "value", "verify"}
    BY <1>18 DEF Visit, PassBy, IsNotTail, MarkedMeanwhile, NextVerified, At
  <2>2. loc[t].kind # "clear" /\ loc[t].kind \in Kinds
    BY <1>1, <1>18, Fields DEF Visit, PassBy, IsNotTail, MarkedMeanwhile, NextVerified, At, KindOK, WalkPoints
  <2>3. /\ loc[t].cur # HeadNode
        /\ Come(loc[t].kind, loc[t].cur, loc[t].nxt) \notin {"idle", "look", "mark", "value"}
        /\ Come(loc[t].kind, loc[t].cur, loc[t].nxt) = "drop" =>
             loc[t].kind \in {"walk", "remove", "removeAll"}
    <3>1. loc[t].cur # HeadNode  BY <1>2, Fields, Distinctions DEF NodeOrEnd
    <3>2. QED  BY <2>2, <3>1 DEF Come, Found, Kinds
  <2>4. Come(loc[t].kind, loc[t].cur, loc[t].nxt) = "insBefore" => loc[t].nxt = End
    BY <2>2 DEF Come
  <2>5. \A u \in Threads : u # t => loc'[u] = [loc[u] EXCEPT !.unseen = Follow(t, @)]
    BY <2>1 DEF Advance
  <2>6. loc'[t] = [loc[t] EXCEPT !.prev = loc[t].cur, !.cur = loc[t].nxt, !.nxt = Null, !.mark = FALSE,
                           !.pc = Come(loc[t].kind, loc[t].cur, loc[t].nxt)]
    BY <2>1 DEF Advance
  <2>7. Proceeds(t)
    BY <1>2, <2>1, <2>3, <2>4, <2>6 DEF Record, Proceeds
  <2>8. ASSUME NEW u \in Threads, u # t  PROVE SameArgs(loc[u], loc'[u])
    <3>1. loc[u] \in Record  BY <1>1
    <3>2. \A q \in Record : \A x : SameArgs(q, [q EXCEPT !.unseen = x])  BY DEF Record, SameArgs
    <3>3. loc'[u] = [loc[u] EXCEPT !.unseen = Follow(t, loc[u].unseen)]  BY <2>5, <2>8, Zenon
    <3>4. QED  BY <3>1, <3>2, <3>3, Zenon
  <2>9. QED  BY <2>7, <2>8, Zenon
<1>19. CASE IsTail(t)
  BY <1>1, <1>2, <1>19 DEF IsTail, Goto, Record, Proceeds, SameArgs, At, KindOK
<1>20. CASE Match(t)
  <2>1. loc[t].pc = "look" /\ loc[t].kind # "clear" /\ loc[t].kind \in Kinds
    BY <1>1, <1>20, Fields DEF Match, At, KindOK
  <2>2. /\ Found(loc[t].kind, loc[t].prev, loc[t].cur) # "look"
        /\ Found(loc[t].kind, loc[t].prev, loc[t].cur) \notin {"idle", "read", "value"}
        /\ Found(loc[t].kind, loc[t].prev, loc[t].cur) = "drop" => loc[t].kind = "walk"
        /\ Found(loc[t].kind, loc[t].prev, loc[t].cur) = "insBefore" => loc[t].kind = "insert"
        /\ Found(loc[t].kind, loc[t].prev, loc[t].cur) = "mark" /\ loc[t].kind = "popFront" =>
             loc[t].prev = HeadNode
    <3>1. loc[t].cur # End  BY <2>1, Mine, Distinctions DEF PointersOK, CurPoints
    <3>2. QED  BY <2>1, <3>1 DEF Found, Kinds
  <2>3. QED  BY <1>2, <1>20, <2>1, <2>2 DEF Match, Record, Proceeds, SameArgs
<1>21. CASE Purge(t) \/ UnlinkMarked(t) \/ ClearHead(t)
  <2>1. Retire(t) /\ loc[t].pc \notin {"idle", "drop", "value", "verify"}  BY <1>21 DEF Purge, UnlinkMarked, ClearHead, At
  <2>2. QED  BY <1>2, <2>1 DEF Retire, Record, Proceeds, SameArgs
<1>22. CASE PurgeFails(t) \/ InsertFails(t) \/ MarkFails(t) \/ LeaveMarked(t)
  <2>1. Restart(t) /\ loc[t].pc \notin {"idle", "drop", "value", "verify"}
    BY <1>22 DEF PurgeFails, InsertFails, MarkFails, LeaveMarked, At
  <2>2. QED  BY <1>2, <2>1 DEF Restart, Restarted, Record, Proceeds, SameArgs
<1>23. CASE InsertNode(t)  BY <1>2, <1>23 DEF InsertNode, Record, Proceeds, SameArgs, At
<1>24. CASE InsertAgain(t)  BY <1>2, <1>24 DEF InsertAgain, Record, Proceeds, SameArgs, At
<1>25. CASE Mark(t) \/ ClearMark(t)
  BY <1>2, <1>25 DEF Mark, ClearMark, Goto, Record, Proceeds, SameArgs, At
<1>26. CASE TakeValue(t)  BY <1>2, <1>26 DEF TakeValue, Record, Proceeds, SameArgs, At
<1>27. CASE ClearReadNext(t)  BY <1>2, <1>27 DEF ClearReadNext, Record, Proceeds, SameArgs, At
<1>28. CASE ClearHeadFails(t)  BY <1>2, <1>28 DEF ClearHeadFails, Record, Proceeds, SameArgs, At
<1>29. CASE Drop(t)  BY <1>2, <1>29 DEF Drop, Proceeds, SameArgs, At
<1>30. QED
  BY <1>3, <1>4, <1>5, <1>6, <1>7, <1>8, <1>9, <1>10, <1>11, <1>12, <1>13, <1>14, <1>15, <1>16,
     <1>17, <1>18, <1>19, <1>20, <1>21, <1>22, <1>23, <1>24, <1>25, <1>26, <1>27, <1>28, <1>29,
     Zenon DEF Step

\* The value of a node changes only while nobody has the node for an insertion,
\* is at it or can reach it.
Loose(n) == /\ n \notin Linked
            /\ \A u \in Threads : n # loc[u].node /\ \A use : ~Kept(u, use, n, free, loc)
LEMMA ValuesChange ==
  ASSUME ListInv, NEW t \in Threads, Step(t)
  PROVE  \A n \in Nodes : val'[n] = val[n] \/ Loose(n)
<1>1. CASE TakeFree(t)
  <2>1. PICK n \in free : Obtain(t, n)  BY <1>1 DEF TakeFree
  <2>2. Loose(n)
    <3>1. n \in Nodes /\ n # Null  BY Distinctions DEF ListInv, TypeOK
    <3>2. n \notin Linked /\ \A u \in Threads : n # loc[u].node
      BY <3>1 DEF ListInv, Apart, Held
    <3>3. QED  BY <3>2, Zenon DEF Loose, Kept
  <2>3. \A m \in Nodes : m # n => val'[m] = val[m]
    BY <2>1, LinkTypes DEF Obtain, ListInv
  <2>4. QED  BY <2>2, <2>3, Zenon
<1>2. CASE Reclaim(t) \/ Reuse(t)
  <2>1. /\ loc[t].pc \in {"retire", "recheck"} /\ loc[t].unseen = {}
        /\ \A m \in Nodes : m # loc[t].chk => val'[m] = val[m]
    BY <1>2, LinkTypes DEF Reclaim, Reuse, Obtain, At, ListInv
  <2>2. /\ loc[t].chk \in Nodes /\ loc[t].chk \in Held(t) /\ loc[t].node # loc[t].chk
    BY <2>1, HeldIs, Distinctions
  <2>3. Loose(loc[t].chk)
    <3>1. loc[t].chk # Null  BY <2>2, Distinctions
    <3>2. loc[t].chk \notin Linked  BY <2>2 DEF ListInv, Apart
    <3>3. \A u \in Threads : loc[t].chk # loc[u].node
      <4>1. ASSUME NEW u \in Threads, u # t, loc[t].chk = loc[u].node  PROVE FALSE
        <5>1. loc[t].chk \in Held(u)  BY <3>1, <4>1 DEF Held
        <5>2. Held(t) \cap Held(u) = {}  BY <4>1, Zenon DEF ListInv, Apart
        <5>3. QED  BY <2>2, <5>1, <5>2
      <4>2. QED  BY <2>2, <4>1
    <3>4. \A u \in Threads : \A use : ~Kept(u, use, loc[t].chk, free, loc)
      BY <2>1 DEF Kept
    <3>5. QED  BY <3>2, <3>3, <3>4, Zenon DEF Loose
  <2>4. QED  BY <2>1, <2>3, Zenon
<1>3. CASE ~(TakeFree(t) \/ Reclaim(t) \/ Reuse(t))
  <2>1. CASE \/ Recheck(t) \/ ScanSlot(t) \/ FoundInHazard(t) \/ Load(t) \/ StoreSlot(t)
    BY <2>1, Zenon DEF memVars, Recheck, ScanSlot, FoundInHazard, Load, StoreSlot
  <2>6. CASE Reload(t) \/ Verified(t) \/ ReadNext(t) \/ StoreNextSlot(t) \/ NextChanged(t)
    BY <2>6, Zenon DEF memVars, Reload, Verified, ReadNext, StoreNextSlot, NextChanged
  <2>2. CASE \/ Visit(t) \/ SeeMark(t) \/ Try(t) \/ PassBy(t) \/ IsTail(t) \/ IsNotTail(t)
             \/ MarkedMeanwhile(t) \/ Match(t)
    BY <2>2 DEF memVars, Visit, SeeMark, Try, PassBy, IsTail, IsNotTail, MarkedMeanwhile, Advance, Match
  <2>3. CASE \/ Purge(t) \/ PurgeFails(t) \/ InsertNode(t) \/ InsertAgain(t) \/ InsertFails(t)
             \/ Mark(t) \/ MarkFails(t) \/ UnlinkMarked(t) \/ LeaveMarked(t)
    BY <2>3 DEF memVars, Purge, PurgeFails, InsertNode, InsertAgain, InsertFails, Mark, MarkFails,
                UnlinkMarked, LeaveMarked
  <2>4. CASE \/ TakeValue(t) \/ ClearReadNext(t) \/ ClearMark(t) \/ ClearHead(t)
             \/ ClearHeadFails(t) \/ Drop(t)
    BY <2>4 DEF memVars, TakeValue, ClearReadNext, ClearMark, ClearHead, ClearHeadFails, Drop
  <2>5. QED  BY <1>3, <2>1, <2>2, <2>3, <2>4, <2>6, Zenon DEF Step
<1>4. QED  BY <1>1, <1>2, <1>3

\* A step keeps what calls have and have found.
LEMMA FoundStep ==
  ASSUME FoundInv, NEW t \in Threads, Step(t)
  PROVE  FoundKept'
<1>1. ListInv /\ \A u \in Threads : FoundOK(loc[u], val)  BY DEF FoundInv, FoundKept
<1>2. Proceeds(t) /\ \A u \in Threads : u # t => SameArgs(loc[u], loc'[u])
  BY <1>1, StepProceeds, Zenon
<1>3. ASSUME NEW u \in Threads, loc[u].pc \in {"look", "mark", "insBefore"}
      PROVE  \/ loc[u].pc = "insBefore" /\ loc[u].cur = End
             \/ val'[loc[u].cur] = val[loc[u].cur]
  <2>1. KindOK(loc[u]) /\ PointersOK(loc[u], next) /\ GuardsOK(u, loc[u], slot, free, loc)
    BY <1>1, Mine, Zenon
  <2>2. loc[u].kind # "walk" /\ loc[u].pc \in PrevPoints /\ loc[u].pc \in CurPoints \cup {"insBefore"}
    BY <1>3, <2>1 DEF KindOK, PrevPoints, CurPoints, WalkPoints
  <2>3. Known(loc[u].cur, next) /\ Guards(u, "cur", loc[u].cur, slot, free, loc)
    BY <2>1, <2>2, Zenon DEF PointersOK, GuardsOK
  <2>4. CASE loc[u].cur # End
    <3>1. loc[u].cur \in Nodes  BY <2>3, <2>4, Zenon DEF Known
    <3>2. Kept(u, "cur", loc[u].cur, free, loc)  BY <2>3, <3>1, Zenon DEF Guards
    <3>3. QED  BY <1>1, <3>1, <3>2, ValuesChange, Zenon DEF Loose
  <2>5. loc[u].pc \in {"look", "mark"} => loc[u].cur # End
    BY <2>1, Distinctions DEF PointersOK, CurPoints
  <2>6. QED  BY <1>3, <2>4, <2>5
<1>4. ASSUME NEW u \in Threads, loc[u].node # Null  PROVE val'[loc[u].node] = val[loc[u].node]
  <2>1. loc[u].node \in Nodes  BY <1>1, <1>4, Mine, Fields DEF NodeOrNull
  <2>2. QED  BY <1>1, <2>1, ValuesChange, Zenon DEF Loose
<1>5. ASSUME NEW u \in Threads, u # t  PROVE FoundOK(loc'[u], val')
  <2>1. SameArgs(loc[u], loc'[u]) /\ FoundOK(loc[u], val)  BY <1>1, <1>2, <1>5
  <2>2. QED  BY <1>3, <1>4, <2>1 DEF SameArgs, FoundOK
<1>6. FoundOK(loc'[t], val')
  <2>1. CASE loc'[t] = Idle  BY <2>1 DEF Idle, FoundOK
  <2>2. CASE loc'[t] # Idle
    <3>1. FoundOK(loc[t], val)  BY <1>1
    <3>2. /\ loc[t].pc \notin {"idle", "drop"} /\ loc'[t].kind = loc[t].kind /\ loc'[t].arg = loc[t].arg
          /\ loc'[t].pred = loc[t].pred
      BY <1>2, <2>2, Zenon DEF Proceeds
    <3>3. loc'[t].node # Null => val'[loc'[t].node] = loc[t].arg
      BY <1>2, <1>4, <2>2, <3>1 DEF Proceeds, FoundOK
    <3>4. loc'[t].pc = "look" /\ loc[t].kind # "popBack" => val'[loc'[t].cur] \in loc[t].pred
      BY <1>2, <2>2 DEF Proceeds
    <3>5. loc'[t].pc = "mark" =>
            /\ loc[t].kind # "popBack" => val'[loc'[t].cur] \in loc[t].pred
            /\ loc[t].kind = "popFront" => loc'[t].prev = HeadNode
      BY <1>2, <1>3, <2>2, <3>1 DEF Proceeds, FoundOK
    <3>6. loc'[t].pc = "insBefore" => loc'[t].cur = End \/ val'[loc'[t].cur] \in loc[t].pred
      BY <1>2, <1>3, <2>2, <3>1 DEF Proceeds, FoundOK
    <3>7. loc'[t].ret # Null => loc'[t].pc = "drop"
      BY <1>2, <2>2, <3>1, <3>2 DEF Proceeds, FoundOK
    <3>8. QED  BY <3>1, <3>2, <3>3, <3>4, <3>5, <3>6, <3>7 DEF FoundOK
  <2>3. QED  BY <2>1, <2>2
<1>7. QED  BY <1>5, <1>6, Zenon DEF FoundKept

LEMMA FoundCall ==
  ASSUME FoundInv, NEW t \in Threads, NEW kind \in Kinds, Call(t, kind)
  PROVE  FoundKept'
<1>1. ListInv /\ \A u \in Threads : FoundOK(loc[u], val)  BY DEF FoundInv, FoundKept
<1>2. loc \in [Threads -> Record] /\ loc[t] \in Record /\ NodesOK(loc[t])
  BY <1>1, RecordIs, Mine, Zenon DEF ListInv
<1>3. val' = val  BY DEF Call, memVars
<1>4. PICK r \in Requests(kind) :
        loc' = [loc EXCEPT ![t].pc = IF kind \in {"insert", "pushFront"} THEN "pool" ELSE "load",
                           ![t].kind = kind, ![t].arg = r.arg, ![t].pred = r.pred]
  BY Zenon DEF Call
<1>5. \A u \in Threads : u # t => loc'[u] = loc[u]  BY <1>2, <1>4
<1>6. /\ loc'[t].node = loc[t].node /\ loc'[t].ret = loc[t].ret /\ loc'[t].pc \in {"pool", "load"}
  BY <1>2, <1>4 DEF Record
<1>7. loc[t].node = Null /\ loc[t].ret = Null  BY <1>1, <1>2 DEF Call, At, NodesOK, FoundOK
<1>8. FoundOK(loc'[t], val')  BY <1>6, <1>7 DEF FoundOK
<1>9. \A u \in Threads : FoundOK(loc'[u], val')  BY <1>1, <1>3, <1>5, <1>8
<1>10. QED  BY <1>9 DEF FoundKept

LEMMA FoundInit == ASSUME Init, ClearIsAlone  PROVE FoundInv
<1>1. \A t \in Threads : loc[t] = Idle  BY DEF Init
<1>2. FoundOK(Idle, val)  BY DEF Idle, FoundOK
<1>3. QED  BY <1>1, <1>2, ListInit, Zenon DEF FoundKept, FoundInv

LEMMA FoundNext == FoundInv /\ [Next]_vars => FoundInv'
<1>1. ASSUME FoundInv, UNCHANGED vars  PROVE FoundInv'
  <2>1. ListInv'  BY <1>1, Unchanged, Zenon DEF FoundInv
  <2>2. UNCHANGED <<val, loc>>  BY <1>1, Zenon DEF vars, memVars
  <2>3. QED  BY <1>1, <2>1, <2>2, Zenon DEF FoundInv, FoundKept
<1>2. ASSUME FoundInv, NEW t \in Threads, Step(t)  PROVE FoundInv'
  BY <1>2, StepKeeps, FoundStep, Zenon DEF FoundInv
<1>3. ASSUME FoundInv, NEW t \in Threads, NEW kind \in Kinds, Call(t, kind)  PROVE FoundInv'
  BY <1>3, CallKeeps, FoundCall, Zenon DEF FoundInv
<1>4. QED  BY <1>1, <1>2, <1>3, Zenon DEF Next

-----------------------------------------------------------------------------
(* A sorted list stays one.                                                *)

Ordered(s, vl) == \A i, j \in 1..Len(s) : i < j => vl[s[i]] <= vl[s[j]]
InOrder == Ordered(lst, val)
\* What the arguments of insertions are.
ArgsOK(l) ==
  /\ l.pc # "idle" /\ l.kind = "insert" => l.arg \in Values /\ l.pred = {v \in Values : v > l.arg}
  /\ l.pc # "idle" /\ l.kind = "pushFront" => l.arg \in Fronts
ArgsKept == \A t \in Threads : ArgsOK(loc[t])
SortedInv == FoundInv /\ InOrder /\ ArgsKept

LEMMA RemovedOrdered ==
  ASSUME NEW s \in Seq(Nodes), NEW i \in 1..Len(s), NEW vl, Ordered(s, vl)
  PROVE  Ordered(RemovedAt(s, i), vl)
<1> DEFINE r == RemovedAt(s, i)
<1>0. Len(s) \in Nat  OBVIOUS
<1>1. /\ Len(r) = Len(s) - 1
      /\ \A j \in 1..(Len(s) - 1) : r[j] = IF j < i THEN s[j] ELSE s[j + 1]
  BY Removed, Zenon
<1> HIDE DEF r
<1>2. ASSUME NEW j \in 1..Len(r), NEW k \in 1..Len(r), j < k  PROVE vl[r[j]] <= vl[r[k]]
  <2>1. PICK x \in 1..Len(s) : r[j] = s[x] /\ x = IF j < i THEN j ELSE j + 1  BY <1>0, <1>1
  <2>2. PICK y \in 1..Len(s) : r[k] = s[y] /\ y = IF k < i THEN k ELSE k + 1  BY <1>0, <1>1
  <2>3. x < y  BY <1>0, <1>1, <1>2, <2>1, <2>2
  <2>4. vl[s[x]] <= vl[s[y]]  BY <2>3 DEF Ordered
  <2>5. QED  BY <2>1, <2>2, <2>4
<1>3. QED  BY <1>2 DEF Ordered, r

LEMMA InsertedOrdered ==
  ASSUME NEW s \in Seq(Nodes), NEW i \in 0..Len(s), NEW n \in Nodes, NEW vl, Ordered(s, vl),
         vl[n] \in Int, \A j \in 1..Len(s) : vl[s[j]] \in Int,
         i # 0 => vl[s[i]] <= vl[n], i # Len(s) => vl[n] <= vl[s[i + 1]]
  PROVE  Ordered(InsertedAt(s, i, n), vl)
<1> DEFINE r == InsertedAt(s, i, n)
<1>1. /\ Len(r) = Len(s) + 1 /\ Len(s) \in Nat
      /\ \A j \in 1..(Len(s) + 1) : r[j] = IF j <= i THEN s[j] ELSE IF j = i + 1 THEN n ELSE s[j - 1]
  BY Inserted
<1> HIDE DEF r
<1>2. \A j \in 1..Len(s) : j <= i => vl[s[j]] <= vl[n]
  <2>1. ASSUME NEW j \in 1..Len(s), j <= i  PROVE vl[s[j]] <= vl[n]
    <3>1. i \in 1..Len(s) /\ vl[s[i]] <= vl[n]  BY <1>1, <2>1
    <3>2. j = i \/ vl[s[j]] <= vl[s[i]]  BY <2>1, <3>1 DEF Ordered
    <3>3. QED  BY <3>1, <3>2
  <2>2. QED  BY <2>1, Zenon
<1>3. \A j \in 1..Len(s) : j > i => vl[n] <= vl[s[j]]
  <2>1. ASSUME NEW j \in 1..Len(s), j > i  PROVE vl[n] <= vl[s[j]]
    <3>1. i + 1 \in 1..Len(s) /\ vl[n] <= vl[s[i + 1]]  BY <1>1, <2>1
    <3>2. j = i + 1 \/ vl[s[i + 1]] <= vl[s[j]]  BY <1>1, <2>1, <3>1 DEF Ordered
    <3>3. QED  BY <3>1, <3>2
  <2>2. QED  BY <2>1, Zenon
<1>4. ASSUME NEW j \in 1..Len(r), NEW k \in 1..Len(r), j < k  PROVE vl[r[j]] <= vl[r[k]]
  <2>1. CASE j = i + 1
    <3>1. k - 1 \in 1..Len(s) /\ k - 1 > i /\ r[k] = s[k - 1] /\ r[j] = n  BY <1>1, <1>4, <2>1
    <3>2. QED  BY <1>3, <3>1
  <2>2. CASE k = i + 1
    <3>1. j \in 1..Len(s) /\ j <= i /\ r[j] = s[j] /\ r[k] = n  BY <1>1, <1>4, <2>2
    <3>2. QED  BY <1>2, <3>1
  <2>3. CASE j # i + 1 /\ k # i + 1
    <3>1. PICK x \in 1..Len(s) : r[j] = s[x] /\ x = IF j <= i THEN j ELSE j - 1  BY <1>1, <2>3
    <3>2. PICK y \in 1..Len(s) : r[k] = s[y] /\ y = IF k <= i THEN k ELSE k - 1  BY <1>1, <2>3
    <3>3. x < y  BY <1>4, <2>3, <3>1, <3>2
    <3>4. vl[s[x]] <= vl[s[y]]  BY <3>3 DEF Ordered
    <3>5. QED  BY <3>1, <3>2, <3>4
  <2>4. QED  BY <2>1, <2>2, <2>3
<1>5. QED  BY <1>4 DEF Ordered, r

\* What the values are in the use of a list as a sorted one.
LEMMA SortedMeans ==
  ASSUME SortedUse
  PROVE  /\ \A v \in Values : v \in Int
         /\ \A f \in Fronts : f \in Values /\ \A v \in Values : f <= v
         /\ \A i, j \in 1..Len(Start) : i < j => Start[i] <= Start[j]
         /\ \A q \in Inserts : q.pred = {v \in Values : v > q.arg}
  BY ListAssumption, Zenon DEF SortedUse

\* An insertion puts its node where it belongs.
LEMMA InsertOrdered ==
  ASSUME SortedInv, SortedUse, NEW t \in Threads, InsertNode(t)
  PROVE  InOrder'
<1> DEFINE l == loc[t]
<1>1. /\ l.pc \in {"insBefore", "insNext"} /\ l.kind \in Inserters
      /\ l.prev \in Linked \cup {HeadNode}
      /\ next[l.prev].p = l.cur /\ ~next[l.prev].m /\ l.node \in Nodes
      /\ PlaceOf(l.prev, lst) \in 0..Len(lst)
      /\ lst' = InsertedAt(lst, PlaceOf(l.prev, lst), l.node)
  BY InsertsIs, Zenon DEF SortedInv, FoundInv
<1>2. KindOK(l) /\ LinksOK(l, next, val) /\ FoundOK(l, val) /\ ArgsOK(l)
  BY Mine, Zenon DEF SortedInv, FoundInv, FoundKept, ArgsKept
<1>3. /\ lst \in Seq(Nodes) /\ Len(lst) \in Nat /\ Linked \subseteq Nodes
      /\ \A j \in 1..Len(lst) : lst[j] \in Linked
  BY Chain DEF SortedInv, FoundInv
<1>4. \A n \in Linked : val[n] \in Values /\ val[n] \in Int
  <2>1. Linked \cap free = {}  BY Zenon DEF SortedInv, FoundInv, ListInv, Apart
  <2>2. HaveValues  BY Zenon DEF SortedInv, FoundInv, ListInv
  <2>3. \A n \in Linked : val[n] \in Values  BY <1>3, <2>1, <2>2 DEF HaveValues
  <2>4. QED  BY <2>3, SortedMeans, Zenon
<1>5. /\ PlaceOf(l.prev, lst) # 0 => l.prev # HeadNode /\ lst[PlaceOf(l.prev, lst)] = l.prev
      /\ PlaceOf(l.prev, lst) # Len(lst) => lst[PlaceOf(l.prev, lst) + 1] = l.cur
  <2>1. /\ HolderAt(lst, PlaceOf(l.prev, lst)) = l.prev
        /\ next[l.prev].p = IF PlaceOf(l.prev, lst) = Len(lst) THEN End ELSE lst[PlaceOf(l.prev, lst) + 1]
    BY <1>1, PlaceIs, Zenon DEF SortedInv, FoundInv
  <2>2. l.prev = HeadNode => PlaceOf(l.prev, lst) = 0  BY DEF PlaceOf
  <2>3. QED  BY <1>1, <2>1, <2>2 DEF HolderAt
<1>6. val' = val  BY DEF InsertNode
<1> HIDE DEF l
<1>7. l.node # Null /\ val[l.node] = l.arg  BY <1>1, <1>2, Distinctions DEF FoundOK
<1>8. PlaceOf(l.prev, lst) # 0 => l.prev \in Linked /\ val[l.prev] \in Values /\ val[l.prev] \notin l.pred
  BY <1>1, <1>2, <1>4, <1>5 DEF LinksOK, PrevPoints, Inserters
<1>9. PlaceOf(l.prev, lst) # Len(lst) => l.cur \in Linked /\ val[l.cur] \in Values /\ l.cur # End
  <2>1. PlaceOf(l.prev, lst) # Len(lst) => PlaceOf(l.prev, lst) + 1 \in 1..Len(lst)  BY <1>1, <1>3
  <2>2. QED  BY <1>3, <1>4, <1>5, <2>1, Distinctions
<1>10. /\ val[l.node] \in Int
       /\ PlaceOf(l.prev, lst) # 0 => val[l.prev] <= val[l.node]
       /\ PlaceOf(l.prev, lst) # Len(lst) => val[l.node] <= val[l.cur]
  <2>1. CASE l.pc = "insBefore"
    <3>1. l.kind = "insert"  BY <1>2, <2>1 DEF KindOK
    <3>2. l.arg \in Values /\ l.pred = {v \in Values : v > l.arg}  BY <1>2, <2>1, <3>1 DEF ArgsOK
    <3>3. l.cur = End \/ val[l.cur] \in l.pred  BY <1>2, <2>1 DEF FoundOK
    <3>4. l.arg \in Int /\ \A v \in Values : v \in Int  BY <3>2, SortedMeans
    <3>5. PlaceOf(l.prev, lst) # 0 => val[l.prev] <= l.arg  BY <1>8, <3>2, <3>4
    <3>6. PlaceOf(l.prev, lst) # Len(lst) => l.arg <= val[l.cur]  BY <1>9, <3>2, <3>3, <3>4
    <3>7. QED  BY <1>7, <3>4, <3>5, <3>6
  <2>2. CASE l.pc = "insNext"
    <3>1. l.kind = "pushFront"  BY <1>2, <2>2 DEF KindOK
    <3>2. l.pred = Values /\ l.arg \in Fronts  BY <1>2, <2>2, <3>1 DEF KindOK, ArgsOK
    <3>3. PlaceOf(l.prev, lst) = 0  BY <1>8, <3>2
    <3>4. l.arg \in Int /\ \A v \in Values : l.arg <= v
      BY <3>2, SortedMeans
    <3>5. QED  BY <1>7, <1>9, <3>3, <3>4
  <2>3. QED  BY <1>1, <2>1, <2>2
<1>11. Ordered(InsertedAt(lst, PlaceOf(l.prev, lst), l.node), val)
  <2>1. Ordered(lst, val)  BY DEF SortedInv, InOrder
  <2>2. \A j \in 1..Len(lst) : val[lst[j]] \in Int  BY <1>3, <1>4
  <2>3. /\ PlaceOf(l.prev, lst) # 0 => val[lst[PlaceOf(l.prev, lst)]] <= val[l.node]
        /\ PlaceOf(l.prev, lst) # Len(lst) => val[l.node] <= val[lst[PlaceOf(l.prev, lst) + 1]]
    BY <1>5, <1>10
  <2>4. l.node \in Nodes /\ PlaceOf(l.prev, lst) \in 0..Len(lst) /\ lst \in Seq(Nodes) /\ val[l.node] \in Int
    BY <1>1, <1>3, <1>10
  <2>5. QED  BY <2>1, <2>2, <2>3, <2>4, InsertedOrdered, Zenon
<1>12. lst' = InsertedAt(lst, PlaceOf(l.prev, lst), l.node)  BY <1>1
<1>13. QED  BY <1>6, <1>11, <1>12, Zenon DEF InOrder

\* A step keeps the arguments.
LEMMA ArgsStep ==
  ASSUME SortedInv, NEW t \in Threads, Step(t)
  PROVE  ArgsKept'
<1>1. ListInv /\ \A u \in Threads : ArgsOK(loc[u])  BY DEF SortedInv, FoundInv, ArgsKept
<1>2. Proceeds(t) /\ \A u \in Threads : u # t => SameArgs(loc[u], loc'[u])
  BY <1>1, StepProceeds, Zenon
<1>3. ASSUME NEW u \in Threads, u # t  PROVE ArgsOK(loc'[u])
  BY <1>1, <1>2, <1>3 DEF SameArgs, ArgsOK
<1>4. ArgsOK(loc'[t])
  <2>1. CASE loc'[t] = Idle  BY <2>1 DEF Idle, ArgsOK
  <2>2. CASE loc'[t] # Idle  BY <1>1, <1>2, <2>2 DEF Proceeds, ArgsOK
  <2>3. QED  BY <2>1, <2>2
<1>5. QED  BY <1>3, <1>4, Zenon DEF ArgsKept

LEMMA OrderStep ==
  ASSUME SortedInv, SortedUse, NEW t \in Threads, Step(t)
  PROVE  InOrder'
<1>1. ListInv /\ Ordered(lst, val)  BY DEF SortedInv, FoundInv, InOrder
<1>2. CASE Purge(t) \/ UnlinkMarked(t) \/ ClearHead(t)
  <2>1. Unlinks(t)  BY <1>1, <1>2, AllUnlink, Zenon
  <2>2. PlaceOf(loc[t].cur, lst) \in 1..Len(lst) /\ lst' = RemovedAt(lst, PlaceOf(loc[t].cur, lst))
    BY <1>1, <2>1, UnlinksIs, Zenon
  <2>3. lst \in Seq(Nodes) /\ val' = val  BY <1>1, <2>1, Chain DEF Unlinks
  <2>4. Ordered(RemovedAt(lst, PlaceOf(loc[t].cur, lst)), val)
    BY <1>1, <2>2, <2>3, RemovedOrdered, Zenon
  <2>5. QED  BY <2>2, <2>3, <2>4, Zenon DEF InOrder
<1>3. CASE InsertNode(t)  BY <1>3, InsertOrdered, Zenon
<1>4. CASE ~(Purge(t) \/ UnlinkMarked(t) \/ ClearHead(t) \/ InsertNode(t))
  <2>1. lst' = lst
    <3>1. CASE \/ TakeFree(t) \/ Reclaim(t) \/ Reuse(t)
               \/ Recheck(t) \/ ScanSlot(t) \/ FoundInHazard(t) \/ Load(t) \/ StoreSlot(t)
      BY <3>1, Zenon DEF histVars, TakeFree, Reclaim, Reuse, Recheck, ScanSlot, FoundInHazard, Load, StoreSlot
    <3>2. CASE Reload(t) \/ Verified(t) \/ ReadNext(t) \/ StoreNextSlot(t) \/ NextChanged(t)
      BY <3>2, Zenon DEF histVars, Reload, Verified, ReadNext, StoreNextSlot, NextChanged
    <3>3. CASE \/ Visit(t) \/ SeeMark(t) \/ Try(t) \/ PassBy(t) \/ IsTail(t) \/ IsNotTail(t)
               \/ MarkedMeanwhile(t) \/ Match(t)
      BY <3>3, Zenon DEF histVars, Visit, SeeMark, Try, PassBy, IsTail, IsNotTail, MarkedMeanwhile, Match
    <3>4. CASE \/ PurgeFails(t) \/ InsertAgain(t) \/ InsertFails(t)
               \/ Mark(t) \/ MarkFails(t) \/ LeaveMarked(t)
      BY <3>4, Zenon DEF histVars, PurgeFails, InsertAgain, InsertFails, Mark, MarkFails, LeaveMarked
    <3>5. CASE \/ TakeValue(t) \/ ClearReadNext(t) \/ ClearMark(t) \/ ClearHeadFails(t) \/ Drop(t)
      BY <3>5, Zenon DEF histVars, TakeValue, ClearReadNext, ClearMark, ClearHeadFails, Drop
    <3>6. QED  BY <1>4, <3>1, <3>2, <3>3, <3>4, <3>5, Zenon DEF Step
  <2>2. \A i \in 1..Len(lst) : val'[lst[i]] = val[lst[i]]
    <3>1. \A i \in 1..Len(lst) : lst[i] \in Linked /\ lst[i] \in Nodes  BY <1>1, Chain
    <3>2. QED  BY <1>1, <3>1, ValuesChange, Zenon DEF Loose
  <2>3. Ordered(lst, val')  BY <1>1, <2>2 DEF Ordered
  <2>4. QED  BY <2>1, <2>3, Zenon DEF InOrder
<1>5. QED  BY <1>2, <1>3, <1>4

LEMMA ArgsCall ==
  ASSUME SortedInv, SortedUse, NEW t \in Threads, NEW kind \in Kinds, Call(t, kind)
  PROVE  ArgsKept' /\ InOrder'
<1>1. ListInv /\ InOrder /\ \A u \in Threads : ArgsOK(loc[u])  BY DEF SortedInv, FoundInv, ArgsKept
<1>2. loc \in [Threads -> Record] /\ loc[t] \in Record
  BY <1>1, RecordIs, Mine, Zenon DEF ListInv
<1>3. lst' = lst /\ val' = val  BY DEF Call, memVars
<1>4. PICK r \in Requests(kind) :
        loc' = [loc EXCEPT ![t].pc = IF kind \in {"insert", "pushFront"} THEN "pool" ELSE "load",
                           ![t].kind = kind, ![t].arg = r.arg, ![t].pred = r.pred]
  BY Zenon DEF Call
<1>5. \A u \in Threads : u # t => loc'[u] = loc[u]  BY <1>2, <1>4
<1>6. /\ loc'[t].kind = kind /\ loc'[t].arg = r.arg /\ loc'[t].pred = r.pred
      /\ loc'[t].pc \in {"pool", "load"}
  BY <1>2, <1>4 DEF Record
<1>8. kind = "insert" => r.arg \in Values /\ r.pred = {v \in Values : v > r.arg}
  <2>1. ASSUME kind = "insert"  PROVE r.arg \in Values /\ r.pred = {v \in Values : v > r.arg}
    <3>1. r \in Inserts  BY <2>1 DEF Requests
    <3>2. r.arg \in Values  BY <3>1, ListAssumption
    <3>3. QED  BY <3>1, <3>2, SortedMeans, Zenon
  <2>2. QED  BY <2>1
<1>9. kind = "pushFront" => r.arg \in Fronts  BY DEF Requests
<1>10. ArgsOK(loc'[t])  BY <1>6, <1>8, <1>9 DEF ArgsOK
<1>11. \A u \in Threads : ArgsOK(loc'[u])  BY <1>1, <1>3, <1>5, <1>10
<1>12. QED  BY <1>1, <1>3, <1>11 DEF ArgsKept, InOrder

LEMMA SortedInit ==
  ASSUME Init, ClearIsAlone, SortedUse
  PROVE  SortedInv
<1>1. PICK s \in [1..Len(Start) -> Nodes] :
       /\ \A i, j \in DOMAIN s : s[i] = s[j] => i = j
       /\ lst = s
       /\ free = Nodes \ {s[i] : i \in DOMAIN s}
       /\ val = [n \in Nodes |-> IF n \in free THEN Null
                                 ELSE Start[CHOOSE i \in DOMAIN s : s[i] = n]]
  BY Zenon DEF Init
<1>2. Len(Start) \in Nat  BY ListAssumption
<1>3. DOMAIN s = 1..Len(Start) /\ Len(lst) = Len(Start) /\ \A i \in 1..Len(Start) : lst[i] = s[i] /\ s[i] \in Nodes
  BY <1>1, <1>2
<1>4. ASSUME NEW i \in 1..Len(Start)  PROVE val[s[i]] = Start[i]
  <2>1. (CHOOSE j \in DOMAIN s : s[j] = s[i]) = i  BY <1>1, <1>3
  <2>2. s[i] \in Nodes /\ s[i] \notin free  BY <1>1, <1>3
  <2>3. val[s[i]] = Start[CHOOSE j \in DOMAIN s : s[j] = s[i]]  BY <1>1, <2>2
  <2>4. QED  BY <2>1, <2>3, Zenon
<1>5. InOrder  BY <1>3, <1>4, SortedMeans DEF InOrder, Ordered
<1>6. ArgsKept
  <2>1. \A t \in Threads : loc[t] = Idle  BY DEF Init
  <2>2. ArgsOK(Idle)  BY DEF Idle, ArgsOK
  <2>3. QED  BY <2>1, <2>2, Zenon DEF ArgsKept
<1>7. QED  BY <1>5, <1>6, FoundInit, Zenon DEF SortedInv

LEMMA SortedNext == ASSUME SortedUse  PROVE SortedInv /\ [Next]_vars => SortedInv'
<1>1. ASSUME SortedInv, UNCHANGED vars  PROVE SortedInv'
  <2>1. FoundInv'  BY <1>1, FoundNext, Zenon DEF SortedInv
  <2>2. UNCHANGED <<val, lst, loc>>  BY <1>1, Zenon DEF vars, memVars, poolVars, histVars
  <2>3. InOrder' /\ ArgsKept'  BY <1>1, <2>2, Zenon DEF SortedInv, InOrder, ArgsKept
  <2>4. QED  BY <2>1, <2>3, Zenon DEF SortedInv
<1>2. ASSUME SortedInv, NEW t \in Threads, Step(t)  PROVE SortedInv'
  BY <1>2, StepKeeps, FoundStep, OrderStep, ArgsStep, Zenon DEF SortedInv, FoundInv
<1>3. ASSUME SortedInv, NEW t \in Threads, NEW kind \in Kinds, Call(t, kind)  PROVE SortedInv'
  BY <1>3, CallKeeps, FoundCall, ArgsCall, Zenon DEF SortedInv, FoundInv
<1>4. QED  BY <1>1, <1>2, <1>3, Zenon DEF Next

-----------------------------------------------------------------------------
(* The elements are the nodes that are linked and not marked, in order.    *)

Elements == {elems[i] : i \in 1..Len(elems)}
\* What stands in s stands in r in the same order.
InRank(s, r) ==
  \A a, b \in 1..Len(s), i, j \in 1..Len(r) : a < b /\ s[a] = r[i] /\ s[b] = r[j] => i < j
ElemsInv == FoundInv /\ ElemsInOrder

LEMMA ElemsAre ==
  ASSUME ListInv, ElemsInOrder
  PROVE  /\ elems \in Seq(Nodes) /\ Len(elems) \in Nat
         /\ \A a \in 1..Len(elems) : elems[a] \in Present /\ elems[a] \in Linked /\ elems[a] \in Nodes
         /\ \A n \in Present : \E a \in 1..Len(elems) : elems[a] = n
         /\ \A a, b \in 1..Len(elems) : elems[a] = elems[b] => a = b
         /\ InRank(elems, lst)
         /\ \A n : n \in Present <=> n \in Linked /\ ~next[n].m
<1>1. elems \in Seq(Nodes) /\ Len(elems) \in Nat  BY DEF ElemsInOrder
<1>2. Elements = Present  BY Zenon DEF ElemsInOrder, Elements
<1>3. \A a \in 1..Len(elems) : elems[a] \in Present  BY <1>2 DEF Elements
<1>4. \A n \in Present : \E a \in 1..Len(elems) : elems[a] = n  BY <1>2 DEF Elements
<1>5. Linked \subseteq Nodes  BY Chain
<1>6. \A n : n \in Present <=> n \in Linked /\ ~next[n].m
  <2>1. \A n : (\E i \in 1..Len(lst) : lst[i] = n) <=> n \in Linked  BY DEF Linked
  <2>2. QED  BY <1>5, <2>1 DEF Present
<1>7. InRank(elems, lst)  BY Zenon DEF ElemsInOrder, InRank
<1>8. ASSUME NEW a \in 1..Len(elems), NEW b \in 1..Len(elems), elems[a] = elems[b], a < b  PROVE FALSE
  <2>1. PICK i \in 1..Len(lst) : lst[i] = elems[a]  BY <1>3, <1>6 DEF Linked
  <2>2. i < i  BY <1>7, <1>8, <2>1 DEF InRank
  <2>3. i \in Nat /\ Len(lst) \in Nat  BY Chain
  <2>4. QED  BY <2>2, <2>3
<1>9. \A a, b \in 1..Len(elems) : elems[a] = elems[b] => a = b
  <2>1. ASSUME NEW a \in 1..Len(elems), NEW b \in 1..Len(elems), elems[a] = elems[b]  PROVE a = b
    <3>1. ~(a < b) /\ ~(b < a)  BY <1>8, <2>1
    <3>2. QED  BY <1>1, <3>1
  <2>2. QED  BY <2>1, Zenon
<1>10. QED  BY <1>1, <1>3, <1>4, <1>5, <1>6, <1>7, <1>9, Zenon

\* What is removed from a sequence, or inserted, keeps the rest in order.
LEMMA RankRemoved ==
  ASSUME NEW s \in Seq(Nodes), NEW r \in Seq(Nodes), InRank(s, r), NEW i \in 1..Len(r)
  PROVE  InRank(s, RemovedAt(r, i))
<1> DEFINE q == RemovedAt(r, i)
<1>0. Len(s) \in Nat /\ Len(r) \in Nat  OBVIOUS
<1>1. /\ Len(q) = Len(r) - 1
      /\ \A j \in 1..(Len(r) - 1) : q[j] = IF j < i THEN r[j] ELSE r[j + 1]
  BY Removed, Zenon
<1> HIDE DEF q
<1>2. ASSUME NEW a \in 1..Len(s), NEW b \in 1..Len(s), NEW x \in 1..Len(q), NEW y \in 1..Len(q),
             a < b, s[a] = q[x], s[b] = q[y]
      PROVE  x < y
  <2>1. PICK v \in 1..Len(r) : q[x] = r[v] /\ v = IF x < i THEN x ELSE x + 1  BY <1>0, <1>1
  <2>2. PICK w \in 1..Len(r) : q[y] = r[w] /\ w = IF y < i THEN y ELSE y + 1  BY <1>0, <1>1
  <2>3. v < w  BY <1>2, <2>1, <2>2 DEF InRank
  <2>4. QED  BY <1>0, <1>1, <2>1, <2>2, <2>3
<1>3. QED  BY <1>2, Zenon DEF InRank, q

LEMMA RankLess ==
  ASSUME NEW s \in Seq(Nodes), NEW r \in Seq(Nodes), InRank(s, r), NEW i \in 1..Len(s)
  PROVE  InRank(RemovedAt(s, i), r)
<1> DEFINE q == RemovedAt(s, i)
<1>0. Len(s) \in Nat /\ Len(r) \in Nat  OBVIOUS
<1>1. /\ Len(q) = Len(s) - 1
      /\ \A j \in 1..(Len(s) - 1) : q[j] = IF j < i THEN s[j] ELSE s[j + 1]
  BY Removed, Zenon
<1> HIDE DEF q
<1>2. ASSUME NEW a \in 1..Len(q), NEW b \in 1..Len(q), NEW x \in 1..Len(r), NEW y \in 1..Len(r),
             a < b, q[a] = r[x], q[b] = r[y]
      PROVE  x < y
  <2>1. PICK v \in 1..Len(s) : q[a] = s[v] /\ v = IF a < i THEN a ELSE a + 1  BY <1>0, <1>1
  <2>2. PICK w \in 1..Len(s) : q[b] = s[w] /\ w = IF b < i THEN b ELSE b + 1  BY <1>0, <1>1
  <2>3. v < w  BY <1>0, <1>1, <1>2, <2>1, <2>2
  <2>4. s[v] = r[x] /\ s[w] = r[y]  BY <1>2, <2>1, <2>2, Zenon
  <2>5. QED  BY <2>3, <2>4, Zenon DEF InRank
<1>3. QED  BY <1>2, Zenon DEF InRank, q

LEMMA RankInserted ==
  ASSUME NEW s \in Seq(Nodes), NEW r \in Seq(Nodes), InRank(s, r), NEW n \in Nodes,
         NEW k \in 0..Len(s), NEW i \in 0..Len(r),
         \A a \in 1..Len(s) : s[a] # n, \A x \in 1..Len(r) : r[x] # n,
         \A x, y \in 1..Len(r) : r[x] = r[y] => x = y,
         k = 0 <=> i = 0, k # 0 => s[k] = r[i]
  PROVE  InRank(InsertedAt(s, k, n), InsertedAt(r, i, n))
<1> DEFINE S == InsertedAt(s, k, n)
           R == InsertedAt(r, i, n)
<1>0. Len(s) \in Nat /\ Len(r) \in Nat /\ k \in Nat /\ i \in Nat  OBVIOUS
<1>1. /\ Len(S) = Len(s) + 1
      /\ \A j \in 1..(Len(s) + 1) : S[j] = IF j <= k THEN s[j] ELSE IF j = k + 1 THEN n ELSE s[j - 1]
  BY Inserted, ZenonT(60)
<1>2. /\ Len(R) = Len(r) + 1
      /\ \A j \in 1..(Len(r) + 1) : R[j] = IF j <= i THEN r[j] ELSE IF j = i + 1 THEN n ELSE r[j - 1]
  BY Inserted, ZenonT(60)
<1> HIDE DEF S, R
\* Elements before the place are before the other's place, those behind it behind.
<1>3. ASSUME NEW a \in 1..Len(s), NEW x \in 1..Len(r), s[a] = r[x]
      PROVE  a <= k <=> x <= i
  <2>1. CASE k = 0
    <3>1. i = 0  BY <2>1
    <3>2. ~(a <= k) /\ ~(x <= i)  BY <1>0, <2>1, <3>1
    <3>3. QED  BY <3>2
  <2>2. CASE k # 0
    <3>1. k \in 1..Len(s) /\ i \in 1..Len(r) /\ s[k] = r[i]  BY <1>0, <1>1, <1>2, <2>2
    <3>2. a < k => x < i  BY <1>3, <3>1 DEF InRank
    <3>3. k < a => i < x  BY <1>3, <3>1 DEF InRank
    <3>4. a = k => x = i  BY <1>3, <3>1
    <3>5. QED  BY <1>0, <1>1, <1>2, <3>2, <3>3, <3>4
  <2>3. QED  BY <2>1, <2>2
<1>4. ASSUME NEW a \in 1..Len(S), NEW b \in 1..Len(S), NEW x \in 1..Len(R), NEW y \in 1..Len(R),
             a < b, S[a] = R[x], S[b] = R[y]
      PROVE  x < y
  <2>1. a = k + 1 <=> x = i + 1
    <3>1. a = k + 1 => S[a] = n  BY <1>0, <1>1
    <3>2. x = i + 1 => R[x] = n  BY <1>2
    <3>3. a # k + 1 => S[a] # n
      <4>1. ASSUME a # k + 1  PROVE S[a] # n
        <5>1. PICK v \in 1..Len(s) : S[a] = s[v]  BY <1>0, <1>1, <4>1
        <5>2. QED  BY <5>1
      <4>2. QED  BY <4>1
    <3>4. x # i + 1 => R[x] # n
      <4>1. ASSUME x # i + 1  PROVE R[x] # n
        <5>1. PICK v \in 1..Len(r) : R[x] = r[v]  BY <1>2, <4>1
        <5>2. QED  BY <5>1
      <4>2. QED  BY <4>1
    <3>5. QED  BY <1>4, <3>1, <3>2, <3>3, <3>4
  <2>2. b = k + 1 <=> y = i + 1
    <3>1. b = k + 1 => S[b] = n  BY <1>0, <1>1
    <3>2. y = i + 1 => R[y] = n  BY <1>2
    <3>3. b # k + 1 => S[b] # n
      <4>1. ASSUME b # k + 1  PROVE S[b] # n
        <5>1. PICK v \in 1..Len(s) : S[b] = s[v]  BY <1>0, <1>1, <4>1
        <5>2. QED  BY <5>1
      <4>2. QED  BY <4>1
    <3>4. y # i + 1 => R[y] # n
      <4>1. ASSUME y # i + 1  PROVE R[y] # n
        <5>1. PICK v \in 1..Len(r) : R[y] = r[v]  BY <1>2, <4>1
        <5>2. QED  BY <5>1
      <4>2. QED  BY <4>1
    <3>5. QED  BY <1>4, <3>1, <3>2, <3>3, <3>4
  <2>3. a # k + 1 => \E v \in 1..Len(s), w \in 1..Len(r) :
          /\ S[a] = s[v] /\ v = IF a <= k THEN a ELSE a - 1
          /\ R[x] = r[w] /\ w = IF x <= i THEN x ELSE x - 1
    <3>1. ASSUME a # k + 1
          PROVE  /\ (IF a <= k THEN a ELSE a - 1) \in 1..Len(s)
                 /\ S[a] = s[IF a <= k THEN a ELSE a - 1]
      BY <1>0, <1>1, <3>1
    <3>2. ASSUME x # i + 1
          PROVE  /\ (IF x <= i THEN x ELSE x - 1) \in 1..Len(r)
                 /\ R[x] = r[IF x <= i THEN x ELSE x - 1]
      BY <1>0, <1>2, <3>2
    <3>3. QED  BY <2>1, <3>1, <3>2, Zenon
  <2>4. b # k + 1 => \E v \in 1..Len(s), w \in 1..Len(r) :
          /\ S[b] = s[v] /\ v = IF b <= k THEN b ELSE b - 1
          /\ R[y] = r[w] /\ w = IF y <= i THEN y ELSE y - 1
    <3>1. ASSUME b # k + 1
          PROVE  /\ (IF b <= k THEN b ELSE b - 1) \in 1..Len(s)
                 /\ S[b] = s[IF b <= k THEN b ELSE b - 1]
      BY <1>0, <1>1, <3>1
    <3>2. ASSUME y # i + 1
          PROVE  /\ (IF y <= i THEN y ELSE y - 1) \in 1..Len(r)
                 /\ R[y] = r[IF y <= i THEN y ELSE y - 1]
      BY <1>0, <1>2, <3>2
    <3>3. QED  BY <2>2, <3>1, <3>2, Zenon
  <2>5. CASE a = k + 1
    <3>1. b # k + 1  BY <1>4, <2>5
    <3>2. PICK v \in 1..Len(s), w \in 1..Len(r) :
            /\ S[b] = s[v] /\ v = IF b <= k THEN b ELSE b - 1
            /\ R[y] = r[w] /\ w = IF y <= i THEN y ELSE y - 1
      BY <2>4, <3>1, Zenon
    <3>3. s[v] = r[w]  BY <1>4, <3>2, Zenon
    <3>4. v <= k <=> w <= i  BY <1>3, <3>3, Zenon
    <3>5. v > k  BY <1>0, <1>1, <1>4, <2>5, <3>2
    <3>6. QED  BY <1>0, <1>1, <1>2, <2>1, <2>5, <3>2, <3>4, <3>5
  <2>6. CASE b = k + 1
    <3>1. a # k + 1  BY <1>4, <2>6
    <3>2. PICK v \in 1..Len(s), w \in 1..Len(r) :
            /\ S[a] = s[v] /\ v = IF a <= k THEN a ELSE a - 1
            /\ R[x] = r[w] /\ w = IF x <= i THEN x ELSE x - 1
      BY <2>3, <3>1, Zenon
    <3>3. s[v] = r[w]  BY <1>4, <3>2, Zenon
    <3>4. v <= k <=> w <= i  BY <1>3, <3>3, Zenon
    <3>5. v <= k  BY <1>0, <1>1, <1>4, <2>6, <3>2
    <3>6. QED  BY <1>0, <1>1, <1>2, <2>1, <2>2, <2>6, <3>1, <3>2, <3>4, <3>5
  <2>7. CASE a # k + 1 /\ b # k + 1
    <3>1. PICK v \in 1..Len(s), w \in 1..Len(r) :
            /\ S[a] = s[v] /\ v = IF a <= k THEN a ELSE a - 1
            /\ R[x] = r[w] /\ w = IF x <= i THEN x ELSE x - 1
      BY <2>3, <2>7, Zenon
    <3>2. PICK v2 \in 1..Len(s), w2 \in 1..Len(r) :
            /\ S[b] = s[v2] /\ v2 = IF b <= k THEN b ELSE b - 1
            /\ R[y] = r[w2] /\ w2 = IF y <= i THEN y ELSE y - 1
      BY <2>4, <2>7, Zenon
    <3>3. s[v] = r[w] /\ s[v2] = r[w2]  BY <1>4, <3>1, <3>2, Zenon
    <3>4. v < v2  BY <1>0, <1>1, <1>4, <2>7, <3>1, <3>2
    <3>5. w < w2  BY <3>3, <3>4, Zenon DEF InRank
    <3>6. QED  BY <1>2, <2>1, <2>2, <2>7, <3>1, <3>2, <3>5
  <2>8. QED  BY <2>5, <2>6, <2>7
<1>5. QED  BY <1>4, Zenon DEF InRank, S, R

\* What is in a sequence after a removal and after an insertion.
LEMMA RangeRemoved ==
  ASSUME NEW s \in Seq(Nodes), NEW i \in 1..Len(s), \A a, b \in 1..Len(s) : s[a] = s[b] => a = b
  PROVE  {RemovedAt(s, i)[j] : j \in 1..Len(RemovedAt(s, i))} = {s[j] : j \in 1..Len(s)} \ {s[i]}
<1> DEFINE q == RemovedAt(s, i)
<1>0. Len(s) \in Nat  OBVIOUS
<1>1. /\ Len(q) = Len(s) - 1
      /\ \A j \in 1..(Len(s) - 1) : q[j] = IF j < i THEN s[j] ELSE s[j + 1]
  BY Removed, Zenon
<1> HIDE DEF q
<1>2. ASSUME NEW j \in 1..Len(q)  PROVE \E v \in 1..Len(s) : v # i /\ q[j] = s[v]
  <2>1. (IF j < i THEN j ELSE j + 1) \in 1..Len(s) /\ (IF j < i THEN j ELSE j + 1) # i
    BY <1>0, <1>1
  <2>2. q[j] = s[IF j < i THEN j ELSE j + 1]  BY <1>0, <1>1
  <2>3. QED  BY <2>1, <2>2, Zenon
<1>3. ASSUME NEW v \in 1..Len(s), v # i  PROVE \E j \in 1..Len(q) : q[j] = s[v]
  <2>1. (IF v < i THEN v ELSE v - 1) \in 1..Len(q)  BY <1>0, <1>1, <1>3
  <2>2. q[IF v < i THEN v ELSE v - 1] = s[v]  BY <1>0, <1>1, <1>3, <2>1
  <2>3. QED  BY <2>1, <2>2, Zenon
<1>4. {q[j] : j \in 1..Len(q)} = {s[j] : j \in 1..Len(s)} \ {s[i]}
  BY <1>2, <1>3
<1>5. QED  BY <1>4, Zenon DEF q

LEMMA RangeInserted ==
  ASSUME NEW s \in Seq(Nodes), NEW i \in 0..Len(s), NEW n \in Nodes
  PROVE  {InsertedAt(s, i, n)[j] : j \in 1..Len(InsertedAt(s, i, n))} = {s[j] : j \in 1..Len(s)} \cup {n}
<1> DEFINE q == InsertedAt(s, i, n)
<1>0. Len(s) \in Nat  OBVIOUS
<1>1. /\ Len(q) = Len(s) + 1
      /\ \A j \in 1..(Len(s) + 1) : q[j] = IF j <= i THEN s[j] ELSE IF j = i + 1 THEN n ELSE s[j - 1]
  BY Inserted, Zenon
<1> HIDE DEF q
<1>2. ASSUME NEW j \in 1..Len(q), j # i + 1  PROVE \E v \in 1..Len(s) : q[j] = s[v]
  <2>1. (IF j <= i THEN j ELSE j - 1) \in 1..Len(s)  BY <1>0, <1>1, <1>2
  <2>2. q[j] = s[IF j <= i THEN j ELSE j - 1]  BY <1>0, <1>1, <1>2
  <2>3. QED  BY <2>1, <2>2, Zenon
<1>3. ASSUME NEW v \in 1..Len(s)  PROVE \E j \in 1..Len(q) : q[j] = s[v]
  <2>1. (IF v <= i THEN v ELSE v + 1) \in 1..Len(q)  BY <1>0, <1>1
  <2>2. q[IF v <= i THEN v ELSE v + 1] = s[v]  BY <1>0, <1>1, <2>1
  <2>3. QED  BY <2>1, <2>2, Zenon
<1>4. i + 1 \in 1..Len(q) /\ q[i + 1] = n  BY <1>0, <1>1
<1>5. {q[j] : j \in 1..Len(q)} = {s[j] : j \in 1..Len(s)} \cup {n}
  <2>1. \A j \in 1..Len(q) : q[j] \in {s[v] : v \in 1..Len(s)} \cup {n}  BY <1>2, <1>4
  <2>2. \A v \in 1..Len(s) : s[v] \in {q[j] : j \in 1..Len(q)}  BY <1>3
  <2>3. n \in {q[j] : j \in 1..Len(q)}  BY <1>4
  <2>4. \A z : z \in {q[j] : j \in 1..Len(q)} <=> z \in {s[j] : j \in 1..Len(s)} \cup {n}
    BY <2>1, <2>2, <2>3, Zenon
  <2>5. QED  BY <2>4, Zenon
<1>6. QED  BY <1>5, Zenon DEF q

\* Where an element is.
LEMMA ElementPlace ==
  ASSUME ListInv, ElemsInOrder, NEW n \in Present
  PROVE  PlaceOf(n, elems) \in 1..Len(elems) /\ elems[PlaceOf(n, elems)] = n
<1>1. \E j \in 1..Len(elems) : elems[j] = n  BY ElemsAre
<1>2. n # HeadNode  BY Distinctions DEF Present
<1>3. QED  BY <1>1, <1>2, Zenon DEF PlaceOf

LEMMA SameElems ==
  ASSUME ElemsInOrder, Present' = Present, lst' = lst, elems' = elems
  PROVE  ElemsInOrder'
<1>1. elems' \in Seq(Nodes)  BY Zenon DEF ElemsInOrder
<1>2. {elems'[j] : j \in 1..Len(elems')} = Present'
  <2>1. {elems[j] : j \in 1..Len(elems)} = Present  BY Zenon DEF ElemsInOrder
  <2>2. QED  BY <2>1
<1>3. InRank(elems', lst')
  <2>1. InRank(elems, lst)  BY Zenon DEF ElemsInOrder, InRank
  <2>2. QED  BY <2>1, Zenon
<1>4. QED  BY <1>1, <1>2, <1>3, Zenon DEF ElemsInOrder, InRank

\* A mark takes the node out of the elements, if it is one.
LEMMA MarksIs ==
  ASSUME ListInv, ElemsInOrder, NEW t \in Threads, Mark(t) \/ ClearMark(t)
  PROVE  /\ loc[t].cur \in Nodes /\ lst' = lst /\ val' = val
         /\ Present' = Present \ {loc[t].cur}
         /\ loc[t].cur \notin Present => elems' = elems
         /\ loc[t].cur \in Present => elems' = RemovedAt(elems, PlaceOf(loc[t].cur, elems))
         /\ ElemsInOrder'
<1> DEFINE n == loc[t].cur
           i == PlaceOf(n, elems)
<1>1. /\ elems \in Seq(Nodes) /\ Len(elems) \in Nat
      /\ \A a, b \in 1..Len(elems) : elems[a] = elems[b] => a = b
      /\ InRank(elems, lst)
      /\ \A m : m \in Present <=> m \in Linked /\ ~next[m].m
  BY ElemsAre, Zenon
<1>2. SetMark(n) /\ UNCHANGED <<val, slot, poolVars, calls, lst>>  BY Zenon DEF Mark, ClearMark
<1>3. lst' = lst /\ val' = val  BY <1>2
<1>4. loc[t].pc \in {"mark", "set"}  BY DEF Mark, ClearMark, At
<1>5. n \in Nodes /\ n \in Holders /\ Kept(t, "cur", n, free, loc)
  <2>1. loc[t].kind # "walk" /\ loc[t].pc \in CurPoints
    BY <1>4, Mine DEF KindOK, CurPoints, ClearPoints, WalkPoints
  <2>2. n \in Nodes  BY <2>1, Mine DEF PointersOK
  <2>3. Guards(t, "cur", n, slot, free, loc)  BY <2>1, Mine, Zenon DEF GuardsOK
  <2>4. QED  BY <2>2, <2>3, Distinctions DEF Guards
<1>6. ~next[n].m => n \in Present
  BY <1>1, <1>5, KeptLinked
<1>7. /\ next' = [next EXCEPT ![n] = Marked(@)]
      /\ elems' = IF next[n].m THEN elems ELSE RemovedAt(elems, i)
  BY <1>2, Zenon DEF SetMark
<1>8. \A h \in Holders : next'[h].m <=> next[h].m \/ h = n
  <2>1. \A k \in LinkType : Marked(k).m = TRUE  BY DEF Marked, LinkType
  <2>2. next \in [Holders -> LinkType]  BY LinkTypes DEF ListInv
  <2>3. ASSUME NEW h \in Holders  PROVE next'[h].m <=> next[h].m \/ h = n
    <3>1. CASE h = n
      <4>1. next'[h] = Marked(next[h]) /\ next[h] \in LinkType  BY <1>5, <1>7, <2>2, <3>1
      <4>2. next'[h].m = TRUE  BY <2>1, <4>1, Zenon
      <4>3. QED  BY <3>1, <4>2
    <3>2. CASE h # n
      <4>1. next'[h] = next[h]  BY <1>7, <2>2, <3>2
      <4>2. QED  BY <3>2, <4>1
    <3>3. QED  BY <3>1, <3>2
  <2>4. QED  BY <2>3, Zenon
<1> HIDE DEF n, i
<1>9. Present' = Present \ {n}
  <2>1. Present' = {m \in Nodes : (\E j \in 1..Len(lst) : lst[j] = m) /\ ~next'[m].m}  BY <1>3 DEF Present
  <2>2. \A m \in Nodes : next'[m].m <=> next[m].m \/ m = n  BY <1>8 DEF Holders
  <2>3. QED  BY <2>1, <2>2 DEF Present
<1>10. CASE next[n].m
  <2>1. n \notin Present /\ elems' = elems /\ Present' = Present  BY <1>1, <1>7, <1>9, <1>10
  <2>2. ElemsInOrder'  BY <1>3, <2>1, SameElems
  <2>3. QED  BY <1>3, <1>5, <1>9, <2>1, <2>2, Zenon DEF n
<1>11. CASE ~next[n].m
  <2>1. n \in Present /\ elems' = RemovedAt(elems, i)  BY <1>6, <1>7, <1>11
  <2>2. i \in 1..Len(elems) /\ elems[i] = n  BY <2>1, ElementPlace, Zenon DEF i
  <2>3. elems' \in Seq(Nodes)  BY <1>1, <2>1, <2>2, Removed
  <2>4. {elems'[j] : j \in 1..Len(elems')} = Present'
    <3>1. {elems[j] : j \in 1..Len(elems)} = Present  BY Zenon DEF ElemsInOrder
    <3>2. {RemovedAt(elems, i)[j] : j \in 1..Len(RemovedAt(elems, i))} =
            {elems[j] : j \in 1..Len(elems)} \ {elems[i]}
      BY <1>1, <2>2, RangeRemoved, Zenon
    <3>3. QED  BY <1>9, <2>1, <2>2, <3>1, <3>2, Zenon
  <2>5. InRank(elems', lst')
    <3>1. lst \in Seq(Nodes)  BY Chain
    <3>2. InRank(RemovedAt(elems, i), lst)  BY <1>1, <2>2, <3>1, RankLess, Zenon
    <3>3. QED  BY <1>3, <2>1, <3>2, Zenon
  <2>6. ElemsInOrder'  BY <2>3, <2>4, <2>5, Zenon DEF ElemsInOrder, InRank
  <2>7. QED  BY <1>3, <1>5, <1>9, <2>1, <2>6, Zenon DEF i, n
<1>12. QED  BY <1>10, <1>11

\* An unlinking changes no element.
LEMMA ElemsUnlink ==
  ASSUME ListInv, ElemsInOrder, NEW t \in Threads, Unlinks(t)
  PROVE  Present' = Present /\ elems' = elems /\ val' = val /\ ElemsInOrder'
<1> DEFINE h == loc[t].prev
           n == loc[t].cur
           i == PlaceOf(n, lst)
<1>1. /\ h \in Linked \cup {HeadNode} /\ h \in Holders /\ ~next[h].m
      /\ n \in Linked /\ n \in Nodes
      /\ next'[h] = Link(next[n].p)
      /\ \A g \in Holders : g # h => next'[g] = next[g]
      /\ i \in 1..Len(lst) /\ lst' = RemovedAt(lst, i)
      /\ lst' \in Seq(Nodes) /\ Linked' = Linked \ {n}
  BY UnlinksIs, Zenon
<1>2. next[n].m /\ elems' = elems /\ val' = val  BY Zenon DEF Unlinks, Retire, Unlink
<1> HIDE DEF h, n, i
<1>3. \A g \in Holders : next'[g].m <=> next[g].m
  <2>1. ASSUME NEW g \in Holders  PROVE next'[g].m <=> next[g].m
    <3>1. CASE g = h
      <4>1. next'[h].m = FALSE  BY <1>1 DEF Link
      <4>2. QED  BY <1>1, <3>1, <4>1
    <3>2. CASE g # h
      <4>1. next'[g] = next[g]  BY <1>1, <3>2, Zenon
      <4>2. QED  BY <4>1
    <3>3. QED  BY <3>1, <3>2
  <2>2. QED  BY <2>1, Zenon
<1>4. Present' = Present
  <2>1. \A m : m \in Present <=> m \in Linked /\ ~next[m].m  BY ElemsAre, Zenon
  <2>2. \A m : m \in Present' <=> m \in Linked' /\ ~next'[m].m
    <3>1. \A m : (\E j \in 1..Len(lst') : lst'[j] = m) <=> m \in Linked'  BY DEF Linked
    <3>2. Linked' \subseteq Nodes  BY <1>1, Chain
    <3>3. QED  BY <3>1, <3>2 DEF Present
  <2>3. Linked \subseteq Holders  BY Chain DEF Holders
  <2>4. \A m : m \in Linked' <=> m \in Linked /\ m # n  BY <1>1
  <2>5. \A m \in Linked : next'[m].m <=> next[m].m  BY <1>3, <2>3
  <2>6. \A m : m \in Present' <=> m \in Present  BY <1>2, <2>1, <2>2, <2>4, <2>5
  <2>7. QED  BY <2>6
<1>5. InRank(elems', lst')
  <2>1. lst \in Seq(Nodes) /\ elems \in Seq(Nodes) /\ InRank(elems, lst)  BY Chain, ElemsAre, Zenon
  <2>2. InRank(elems, RemovedAt(lst, i))  BY <1>1, <2>1, RankRemoved, Zenon
  <2>3. QED  BY <1>1, <1>2, <2>2, Zenon
<1>6. ElemsInOrder'
  <2>1. elems \in Seq(Nodes) /\ {elems[j] : j \in 1..Len(elems)} = Present  BY Zenon DEF ElemsInOrder
  <2>2. elems' \in Seq(Nodes) /\ {elems'[j] : j \in 1..Len(elems')} = Present'  BY <1>2, <1>4, <2>1, Zenon
  <2>3. QED  BY <1>5, <2>2, Zenon DEF ElemsInOrder, InRank
<1>7. QED  BY <1>2, <1>4, <1>6

\* An insertion puts the node behind prev among the elements too.
LEMMA ElemsInsert ==
  ASSUME ListInv, ElemsInOrder, NEW t \in Threads, InsertNode(t)
  PROVE  /\ PlaceOf(loc[t].prev, elems) \in 0..Len(elems)
         /\ PlaceOf(loc[t].prev, elems) = 0 <=> loc[t].prev = HeadNode
         /\ loc[t].prev # HeadNode => elems[PlaceOf(loc[t].prev, elems)] = loc[t].prev
         /\ elems' = InsertedAt(elems, PlaceOf(loc[t].prev, elems), loc[t].node)
         /\ loc[t].node \notin Present /\ Present' = Present \cup {loc[t].node} /\ val' = val
         /\ ElemsInOrder'
<1> DEFINE h == loc[t].prev
           n == loc[t].node
           i == PlaceOf(h, lst)
           k == PlaceOf(h, elems)
<1>1. /\ h \in Linked \cup {HeadNode} /\ h \in Holders /\ ~next[h].m
      /\ n \in Nodes /\ n \notin Linked /\ n # h
      /\ next'[h] = Link(n) /\ next'[n] = Link(loc[t].cur)
      /\ \A g \in Holders : g # h /\ g # n => next'[g] = next[g]
      /\ i \in 0..Len(lst) /\ lst' = InsertedAt(lst, i, n)
      /\ lst' \in Seq(Nodes) /\ Linked' = Linked \cup {n}
  BY InsertsIs, Zenon
<1>2. elems' = InsertedAt(elems, k, n) /\ val' = val  BY Zenon DEF InsertNode, LinkBehind
<1>3. HolderAt(lst, i) = h /\ \A j \in 0..Len(lst) : HolderAt(lst, j) = h => j = i
  BY <1>1, PlaceIs, Zenon
<1>4. /\ elems \in Seq(Nodes) /\ Len(elems) \in Nat /\ InRank(elems, lst)
      /\ \A a \in 1..Len(elems) : elems[a] \in Linked
      /\ \A m : m \in Present <=> m \in Linked /\ ~next[m].m
  BY ElemsAre, Zenon
<1>5. /\ lst \in Seq(Nodes) /\ Len(lst) \in Nat /\ Linked \subseteq Nodes
      /\ \A j \in 1..Len(lst) : lst[j] \in Linked
  BY Chain
<1>6. h = HeadNode => k = 0 /\ i = 0  BY DEF PlaceOf
<1>7. h # HeadNode => k \in 1..Len(elems) /\ elems[k] = h /\ i # 0 /\ lst[i] = h
  <2>1. ASSUME h # HeadNode  PROVE k \in 1..Len(elems) /\ elems[k] = h /\ i # 0 /\ lst[i] = h
    <3>1. h \in Present  BY <1>1, <1>4, <2>1
    <3>2. k \in 1..Len(elems) /\ elems[k] = h  BY <3>1, ElementPlace
    <3>3. i # 0 /\ lst[i] = h  BY <1>3, <2>1 DEF HolderAt
    <3>4. QED  BY <3>2, <3>3
  <2>2. QED  BY <2>1
<1> HIDE DEF h, n, i, k
<1>8. k \in 0..Len(elems) /\ (k = 0 <=> h = HeadNode)
  <2>1. CASE h = HeadNode  BY <1>4, <1>6, <2>1
  <2>2. CASE h # HeadNode  BY <1>4, <1>7, <2>2
  <2>3. QED  BY <2>1, <2>2
<1>9. Present' = Present \cup {n} /\ n \notin Present
  <2>1. \A m : m \in Present' <=> m \in Linked' /\ ~next'[m].m
    <3>1. \A m : (\E j \in 1..Len(lst') : lst'[j] = m) <=> m \in Linked'  BY DEF Linked
    <3>2. Linked' \subseteq Nodes  BY <1>1, <1>5
    <3>3. QED  BY <3>1, <3>2 DEF Present
  <2>2. ~next'[n].m /\ ~next'[h].m  BY <1>1 DEF Link
  <2>3. \A g \in Linked : next'[g].m <=> next[g].m
    <3>1. ASSUME NEW g \in Linked  PROVE next'[g].m <=> next[g].m
      <4>1. g \in Holders /\ g # n  BY <1>1, <1>5 DEF Holders
      <4>2. CASE g = h
        <5>1. next'[h].m = FALSE  BY <1>1 DEF Link
        <5>2. QED  BY <1>1, <4>2, <5>1
      <4>3. CASE g # h
        <5>1. next'[g] = next[g]  BY <1>1, <4>1, <4>3, Zenon
        <5>2. QED  BY <5>1
      <4>4. QED  BY <4>2, <4>3
    <3>2. QED  BY <3>1, Zenon
  <2>4. QED  BY <1>1, <1>4, <2>1, <2>2, <2>3
<1>10. elems' \in Seq(Nodes)  BY <1>1, <1>2, <1>4, <1>8, Inserted, Zenon
<1>11. {elems'[j] : j \in 1..Len(elems')} = Present'
  <2>1. {elems[j] : j \in 1..Len(elems)} = Present  BY Zenon DEF ElemsInOrder
  <2>2. {InsertedAt(elems, k, n)[j] : j \in 1..Len(InsertedAt(elems, k, n))} =
          {elems[j] : j \in 1..Len(elems)} \cup {n}
    <3>1. elems \in Seq(Nodes) /\ k \in 0..Len(elems) /\ n \in Nodes  BY <1>1, <1>4, <1>8, Zenon
    <3>2. QED  BY <3>1, RangeInserted, Zenon
  <2>3. QED  BY <1>2, <1>9, <2>1, <2>2, Zenon
<1>12. InRank(elems', lst')
  <2>1. \A a \in 1..Len(elems) : elems[a] # n  BY <1>1, <1>4
  <2>2. \A j \in 1..Len(lst) : lst[j] # n  BY <1>1, <1>5
  <2>3. \A x, y \in 1..Len(lst) : lst[x] = lst[y] => x = y  BY Zenon DEF ListInv, Distinct
  <2>4. k = 0 <=> i = 0
    <3>1. h = HeadNode => k = 0 /\ i = 0  BY <1>6
    <3>2. h # HeadNode => k # 0 /\ i # 0  BY <1>4, <1>7
    <3>3. QED  BY <3>1, <3>2
  <2>5. k # 0 => elems[k] = lst[i]
    <3>1. k # 0 => h # HeadNode  BY <1>6
    <3>2. QED  BY <1>7, <3>1
  <2>6. InRank(InsertedAt(elems, k, n), InsertedAt(lst, i, n))
    BY <1>1, <1>4, <1>5, <1>8, <2>1, <2>2, <2>3, <2>4, <2>5, RankInserted, Zenon
  <2>7. QED  BY <1>1, <1>2, <2>6, Zenon
<1>13. ElemsInOrder'  BY <1>10, <1>11, <1>12, Zenon DEF ElemsInOrder, InRank
<1>14. QED  BY <1>2, <1>7, <1>8, <1>9, <1>13, Zenon DEF h, n, k

\* No other step changes the links, what is linked or what is in the list.
Changes(t) ==
  Purge(t) \/ UnlinkMarked(t) \/ ClearHead(t) \/ InsertNode(t) \/ Mark(t) \/ ClearMark(t)
LEMMA OthersKeepElems ==
  ASSUME NEW t \in Threads, Step(t), ~Changes(t)
  PROVE  UNCHANGED <<next, lst, elems>>
<1>1. CASE \/ TakeFree(t) \/ Reclaim(t) \/ Reuse(t)
           \/ Recheck(t) \/ ScanSlot(t) \/ FoundInHazard(t) \/ Load(t) \/ StoreSlot(t)
  BY <1>1, Zenon DEF histVars, memVars, TakeFree, Reclaim, Reuse, Recheck, ScanSlot, FoundInHazard, Load,
                     StoreSlot
<1>2. CASE Reload(t) \/ Verified(t) \/ ReadNext(t) \/ StoreNextSlot(t) \/ NextChanged(t)
  BY <1>2, Zenon DEF histVars, memVars, Reload, Verified, ReadNext, StoreNextSlot, NextChanged
<1>3. CASE Visit(t) \/ PassBy(t) \/ IsNotTail(t) \/ MarkedMeanwhile(t)
  <2>1. Advance(t) /\ UNCHANGED <<lst, elems>>
    BY <1>3, Zenon DEF histVars, Visit, PassBy, IsNotTail, MarkedMeanwhile
  <2>2. next' = next  BY <2>1, Zenon DEF memVars, Advance
  <2>3. QED  BY <2>1, <2>2
<1>4. CASE SeeMark(t) \/ Try(t) \/ IsTail(t) \/ Match(t)
  BY <1>4, Zenon DEF histVars, memVars, SeeMark, Try, IsTail, Match
<1>5. CASE PurgeFails(t) \/ InsertAgain(t) \/ InsertFails(t) \/ MarkFails(t) \/ LeaveMarked(t)
  BY <1>5, Zenon DEF histVars, memVars, PurgeFails, InsertAgain, InsertFails, MarkFails, LeaveMarked
<1>6. CASE TakeValue(t) \/ ClearReadNext(t) \/ ClearHeadFails(t) \/ Drop(t)
  BY <1>6, Zenon DEF histVars, memVars, TakeValue, ClearReadNext, ClearHeadFails, Drop
<1>7. QED  BY <1>1, <1>2, <1>3, <1>4, <1>5, <1>6, Zenon DEF Step, Changes

LEMMA ElemsSame ==
  ASSUME ElemsInOrder, UNCHANGED <<next, lst, elems>>
  PROVE  Present' = Present /\ ElemsInOrder'
<1>1. Present' = Present  BY DEF Present
<1>2. QED  BY <1>1, SameElems

LEMMA ElemsStep ==
  ASSUME ListInv, ElemsInOrder, NEW t \in Threads, Step(t)
  PROVE  ElemsInOrder'
<1>1. CASE Purge(t) \/ UnlinkMarked(t) \/ ClearHead(t)
  BY <1>1, AllUnlink, ElemsUnlink, Zenon
<1>2. CASE InsertNode(t)  BY <1>2, ElemsInsert, Zenon
<1>3. CASE Mark(t) \/ ClearMark(t)  BY <1>3, MarksIs, Zenon
<1>4. CASE ~Changes(t)  BY <1>4, OthersKeepElems, ElemsSame
<1>5. QED  BY <1>1, <1>2, <1>3, <1>4, Zenon DEF Changes

LEMMA ElemsInit == ASSUME Init, ListInv  PROVE ElemsInOrder
<1>1. elems = lst  BY Zenon DEF Init
<1>2. \A h \in Holders : next[h].m = FALSE
  <2>1. PICK s \in [1..Len(Start) -> Nodes] :
          next = [n \in Holders |->
                    IF Start # <<>> /\ n = HeadNode THEN Link(s[1])
                    ELSE IF \E i \in DOMAIN s : s[i] = n /\ i < Len(Start)
                    THEN Link(s[1 + CHOOSE i \in DOMAIN s : s[i] = n])
                    ELSE IF n = HeadNode \/ n \notin free THEN Link(End) ELSE Link(Null)]
    BY Zenon DEF Init
  <2>2. \A h \in Holders : \E p : next[h] = Link(p)  BY <2>1, Zenon
  <2>3. \A p : Link(p).m = FALSE  BY DEF Link
  <2>4. QED  BY <2>2, <2>3, Zenon
<1>3. lst \in Seq(Nodes) /\ Len(lst) \in Nat /\ \A i \in 1..Len(lst) : lst[i] \in Nodes  BY Chain
<1>4. {elems[j] : j \in 1..Len(elems)} = Present
  <2>1. \A m \in Nodes : ~next[m].m  BY <1>2 DEF Holders
  <2>2. QED  BY <1>1, <1>3, <2>1 DEF Present
<1>5. InRank(elems, lst)
  <2>1. \A i, j \in 1..Len(lst) : lst[i] = lst[j] => i = j  BY Zenon DEF ListInv, Distinct
  <2>2. QED  BY <1>1, <1>3, <2>1 DEF InRank
<1>6. QED  BY <1>1, <1>3, <1>4, <1>5, Zenon DEF ElemsInOrder, InRank

LEMMA ElemsNext == ASSUME ListInv, ElemsInOrder, [Next]_vars  PROVE ElemsInOrder'
<1>1. ASSUME UNCHANGED vars  PROVE ElemsInOrder'
  BY <1>1, ElemsSame, Zenon DEF vars, memVars, histVars
<1>2. ASSUME NEW t \in Threads, Step(t)  PROVE ElemsInOrder'  BY <1>2, ElemsStep, Zenon
<1>3. ASSUME NEW t \in Threads, NEW kind \in Kinds, Call(t, kind)  PROVE ElemsInOrder'
  BY <1>3, ElemsSame, Zenon DEF Call, memVars
<1>4. QED  BY <1>1, <1>2, <1>3, Zenon DEF Next
-----------------------------------------------------------------------------
(* The content of the list.                                                *)

Entry(n, vl) == [id |-> n, value |-> vl[n]]
Entries == [id : Nodes, value : Values]
\* c has an entry for every node of s, with the value that vl gives to it.
ContentIs(c, s, vl) ==
  c \in Seq(Entries) /\ Len(c) = Len(s) /\ \A j \in 1..Len(s) : c[j] = Entry(s[j], vl)

LEMMA EntryIs ==
  \A n \in Nodes : \A vl : /\ Entry(n, vl).id = n /\ Entry(n, vl).value = vl[n]
                           /\ vl[n] \in Values => Entry(n, vl) \in Entries
  BY DEF Entry, Entries

LEMMA ContentOf ==
  ASSUME NEW s \in Seq(Nodes), NEW vl, \A j \in 1..Len(s) : vl[s[j]] \in Values
  PROVE  ContentIs([j \in 1..Len(s) |-> [id |-> s[j], value |-> vl[s[j]]]], s, vl)
<1> DEFINE c == [j \in 1..Len(s) |-> [id |-> s[j], value |-> vl[s[j]]]]
<1>1. Len(s) \in Nat /\ \A j \in 1..Len(s) : s[j] \in Nodes  OBVIOUS
<1>2. \A j \in 1..Len(s) : c[j] = Entry(s[j], vl)  BY DEF Entry
<1>3. c \in [1..Len(s) -> Entries]
  <2>1. \A j \in 1..Len(s) : [id |-> s[j], value |-> vl[s[j]]] \in Entries  BY <1>1 DEF Entries
  <2>2. QED  BY <2>1, Zenon
<1> HIDE DEF c
<1>4. c \in Seq(Entries) /\ Len(c) = Len(s)  BY <1>1, <1>3
<1>5. QED  BY <1>2, <1>4, Zenon DEF ContentIs, c

LEMMA SameContents ==
  ASSUME NEW s, NEW vl, NEW c, NEW d, ContentIs(c, s, vl), ContentIs(d, s, vl)
  PROVE  c = d
<1>1. Len(c) = Len(d) /\ c \in Seq(Entries) /\ d \in Seq(Entries)  BY DEF ContentIs
<1>2. \A j \in 1..Len(c) : c[j] = d[j]  BY DEF ContentIs
<1>3. QED  BY <1>1, <1>2, SeqEqual, Zenon

\* The content without, and with, an element
LEMMA ContentRemoved ==
  ASSUME NEW s \in Seq(Nodes), NEW vl, NEW c, ContentIs(c, s, vl), NEW i \in 1..Len(s)
  PROVE  ContentIs(RemovedAt(c, i), RemovedAt(s, i), vl)
<1> DEFINE r == RemovedAt(s, i)
           d == RemovedAt(c, i)
<1>0. Len(s) \in Nat  OBVIOUS
<1>1. c \in Seq(Entries) /\ Len(c) = Len(s) /\ \A j \in 1..Len(s) : c[j] = Entry(s[j], vl)
  BY Zenon DEF ContentIs
<1>2. /\ Len(r) = Len(s) - 1
      /\ \A j \in 1..(Len(s) - 1) : r[j] = IF j < i THEN s[j] ELSE s[j + 1]
  BY Removed
<1>3. i \in 1..Len(c)  BY <1>1
<1>4. /\ d \in Seq(Entries) /\ Len(d) = Len(c) - 1
      /\ \A j \in 1..(Len(c) - 1) : d[j] = IF j < i THEN c[j] ELSE c[j + 1]
  BY <1>1, <1>3, Removed
<1> HIDE DEF r, d
<1>5. \A j \in 1..Len(r) : d[j] = Entry(r[j], vl)
  <2>1. ASSUME NEW j \in 1..Len(r)  PROVE d[j] = Entry(r[j], vl)
    <3>1. CASE j < i
      <4>1. d[j] = c[j] /\ r[j] = s[j] /\ j \in 1..Len(s)  BY <1>0, <1>1, <1>2, <1>4, <3>1
      <4>2. QED  BY <1>1, <4>1, Zenon
    <3>2. CASE ~(j < i)
      <4>1. d[j] = c[j + 1] /\ r[j] = s[j + 1] /\ j + 1 \in 1..Len(s)  BY <1>0, <1>1, <1>2, <1>4, <3>2
      <4>2. QED  BY <1>1, <4>1, Zenon
    <3>3. QED  BY <3>1, <3>2
  <2>2. QED  BY <2>1, Zenon
<1>6. Len(d) = Len(r)  BY <1>1, <1>2, <1>4
<1>7. QED  BY <1>4, <1>5, <1>6, Zenon DEF ContentIs, r, d

LEMMA ContentInserted ==
  ASSUME NEW s \in Seq(Nodes), NEW vl, NEW c, ContentIs(c, s, vl), NEW k \in 0..Len(s),
         NEW n \in Nodes, vl[n] \in Values
  PROVE  ContentIs(InsertedAt(c, k, Entry(n, vl)), InsertedAt(s, k, n), vl)
<1> DEFINE r == InsertedAt(s, k, n)
           x == Entry(n, vl)
           d == InsertedAt(c, k, x)
<1>0. Len(s) \in Nat /\ k \in Nat  OBVIOUS
<1>1. c \in Seq(Entries) /\ Len(c) = Len(s) /\ \A j \in 1..Len(s) : c[j] = Entry(s[j], vl)
  BY Zenon DEF ContentIs
<1>2. /\ Len(r) = Len(s) + 1
      /\ \A j \in 1..(Len(s) + 1) : r[j] = IF j <= k THEN s[j] ELSE IF j = k + 1 THEN n ELSE s[j - 1]
  BY Inserted, ZenonT(60)
<1>3. k \in 0..Len(c) /\ x \in Entries  BY <1>1, EntryIs
<1> HIDE DEF x
<1>4. d \in Seq(Entries)  BY <1>1, <1>3, InsertedAny
<1>5. Len(d) = Len(c) + 1  BY <1>1, <1>3, InsertedAny
<1>6. \A j \in 1..(Len(c) + 1) : d[j] = IF j <= k THEN c[j] ELSE IF j = k + 1 THEN x ELSE c[j - 1]
  <2>1. HasInserted(d, c, k, x)  BY <1>1, <1>3, InsertedAny
  <2>2. QED  BY <2>1, Zenon DEF HasInserted
<1> HIDE DEF r, d
<1>7. \A j \in 1..Len(r) : d[j] = Entry(r[j], vl)
  <2>1. ASSUME NEW j \in 1..Len(r)  PROVE d[j] = Entry(r[j], vl)
    <3>1. CASE j <= k
      <4>1. d[j] = c[j] /\ r[j] = s[j] /\ j \in 1..Len(s)  BY <1>0, <1>1, <1>2, <1>6, <3>1
      <4>2. QED  BY <1>1, <4>1, Zenon
    <3>2. CASE j = k + 1
      <4>1. d[j] = x /\ r[j] = n  BY <1>0, <1>1, <1>2, <1>6, <3>2
      <4>2. QED  BY <4>1, Zenon DEF x
    <3>3. CASE j > k + 1
      <4>1. d[j] = c[j - 1] /\ r[j] = s[j - 1] /\ j - 1 \in 1..Len(s)  BY <1>0, <1>1, <1>2, <1>6, <3>3
      <4>2. QED  BY <1>1, <4>1, Zenon
    <3>4. QED  BY <1>0, <1>2, <3>1, <3>2, <3>3
  <2>2. QED  BY <2>1, Zenon
<1>8. Len(d) = Len(r)  BY <1>1, <1>2, <1>5
<1>9. QED  BY <1>4, <1>7, <1>8, Zenon DEF ContentIs, r, d, x

\* So a step that changes the elements changes the content.
Valued == /\ elems \in Seq(Nodes)
          /\ \A j \in 1..Len(elems) : elems[j] \in Linked /\ val[elems[j]] \in Values
LEMMA ElementValues == ListInv /\ ElemsInOrder => Valued
<1> SUFFICES ASSUME ListInv, ElemsInOrder  PROVE Valued
  OBVIOUS
<1>1. elems \in Seq(Nodes) /\ \A j \in 1..Len(elems) : elems[j] \in Linked  BY ElemsAre, Zenon
<1>2. \A n \in Linked : n \in Nodes \ free  BY Chain DEF ListInv, Apart
<1>3. QED  BY <1>1, <1>2 DEF ListInv, HaveValues, Valued

LEMMA Contents ==
  ASSUME ListInv, ElemsInOrder
  PROVE  ContentIs(Content, elems, val)
BY ElementValues, ContentOf, Zenon DEF Content, Valued

LEMMA ContentsNext ==
  ASSUME ListInv', ElemsInOrder'
  PROVE  ContentIs(Content', elems', val')
<1>1. Valued'
  BY ElementValues, PTL
<1>2. QED  BY <1>1, ContentOf, Zenon DEF Content, Valued
\* A step that changes no element changes nothing of the content.
LEMMA ContentSame ==
  ASSUME ListInv, ElemsInOrder, NEW t \in Threads, Step(t), elems' = elems
  PROVE  Content' = Content
<1>1. Valued /\ ContentIs(Content, elems, val)  BY ElementValues, Contents, Zenon
<1>2. ContentIs(Content', elems', val')  BY ContentsNext, StepKeeps, ElemsStep, Zenon
<1>3. \A j \in 1..Len(elems) : val'[elems[j]] = val[elems[j]]
  <2>1. \A j \in 1..Len(elems) : elems[j] \in Linked /\ elems[j] \in Nodes  BY <1>1, Chain DEF Valued
  <2>2. QED  BY <2>1, ValuesChange, Zenon DEF Loose
<1>4. ContentIs(Content, elems', val')
  <2>1. \A j \in 1..Len(elems) : Entry(elems[j], val') = Entry(elems[j], val)  BY <1>3 DEF Entry
  <2>2. ContentIs(Content, elems, val')  BY <1>1, <2>1 DEF ContentIs
  <2>3. QED  BY <2>2, Zenon
<1>5. QED  BY <1>2, <1>4, SameContents, Zenon

-----------------------------------------------------------------------------
(* The operation a call is in.                                             *)

Ended == {"idle", "drop", "value"}
\* The element that a pop_front has seen first, of those in ps.
Seen(l, ps) == IF l.prev = HeadNode /\ l.cur \in ps /\ l.pc \in SeenPoints THEN l.cur ELSE Null

\* What o is, from the locals l, the value at cur and the element seen first.
OpIs(l, o, v, n) ==
  /\ l.pc = "idle" => o = Abstract!Idle
  /\ l.pc = "drop" /\ l.ret = Null => o = Abstract!Idle
  /\ l.pc = "drop" /\ l.ret # Null => o = Abstract!Got(l.ret)
  /\ l.pc = "value" => o = Abstract!Got(v)
  /\ l.pc \notin Ended =>
       /\ l.kind = "walk" => o = Abstract!Idle
       /\ l.kind = "clear" => o = Abstract!RemoveAll(Values)
       /\ l.kind = "pushFront" => o = Abstract!PushFront(l.arg)
       /\ l.kind = "insert" => o = Abstract!Insert(l.pred, l.arg)
       /\ l.kind = "remove" => o = Abstract!Remove(l.pred)
       /\ l.kind = "removeAll" => o = Abstract!RemoveAll(l.pred)
       /\ l.kind = "popBack" => o = Abstract!PopBack
       /\ l.kind = "popFront" => o = Abstract!PopFront(n)

LEMMA OpOfIs ==
  ASSUME NEW t \in Threads
  PROVE  OpIs(loc[t], OpOf(t), val[loc[t].cur], Seen(loc[t], Present))
<1>1. SeenFirst(loc[t]) = Seen(loc[t], Present)  BY Zenon DEF SeenFirst, Seen
<1> DEFINE l == loc[t]
<1>2. l.pc = "idle" => OpOf(t) = Abstract!Idle  BY DEF OpOf, Abstract!Idle
<1>3. l.pc = "drop" => OpOf(t) = IF l.ret = Null THEN Abstract!Idle ELSE Abstract!Got(l.ret)
  BY DEF OpOf, Abstract!Idle, Abstract!Got
<1>4. l.pc = "value" => OpOf(t) = Abstract!Got(val[l.cur])  BY DEF OpOf, Abstract!Got
<1>5. l.pc \notin Ended =>
       /\ l.kind = "walk" => OpOf(t) = Abstract!Idle
       /\ l.kind = "clear" => OpOf(t) = Abstract!RemoveAll(Values)
       /\ l.kind = "pushFront" => OpOf(t) = Abstract!PushFront(l.arg)
       /\ l.kind = "insert" => OpOf(t) = Abstract!Insert(l.pred, l.arg)
  BY DEF OpOf, Ended, Abstract!Idle, Abstract!RemoveAll, Abstract!PushFront, Abstract!Insert
<1>6. l.pc \notin Ended =>
       /\ l.kind = "remove" => OpOf(t) = Abstract!Remove(l.pred)
       /\ l.kind = "removeAll" => OpOf(t) = Abstract!RemoveAll(l.pred)
       /\ l.kind = "popBack" => OpOf(t) = Abstract!PopBack
       /\ l.kind = "popFront" => OpOf(t) = Abstract!PopFront(SeenFirst(l))
  BY DEF OpOf, Ended, Abstract!Remove, Abstract!RemoveAll, Abstract!PopBack, Abstract!PopFront
<1> HIDE DEF l
<1>7. OpIs(l, OpOf(t), val[l.cur], SeenFirst(l))  BY <1>2, <1>3, <1>4, <1>5, <1>6, Zenon DEF OpIs
<1>8. QED  BY <1>1, <1>7, Zenon DEF l

LEMMA OpOfNext ==
  ASSUME NEW t \in Threads
  PROVE  OpIs(loc'[t], OpOf(t)', val'[loc'[t].cur], Seen(loc'[t], Present'))
<1> DEFINE l == loc'[t]
           n == IF l.prev = HeadNode /\ l.cur \in Present' /\ l.pc \in SeenPoints THEN l.cur ELSE Null
<1>1. n = Seen(l, Present')  BY Zenon DEF Seen
<1>2. l.pc = "idle" => OpOf(t)' = Abstract!Idle  BY DEF OpOf, Abstract!Idle
<1>3. l.pc = "drop" => OpOf(t)' = IF l.ret = Null THEN Abstract!Idle ELSE Abstract!Got(l.ret)
  BY DEF OpOf, Abstract!Idle, Abstract!Got
<1>4. l.pc = "value" => OpOf(t)' = Abstract!Got(val'[l.cur])  BY DEF OpOf, Abstract!Got
<1>5. l.pc \notin Ended =>
       /\ l.kind = "walk" => OpOf(t)' = Abstract!Idle
       /\ l.kind = "clear" => OpOf(t)' = Abstract!RemoveAll(Values)
       /\ l.kind = "pushFront" => OpOf(t)' = Abstract!PushFront(l.arg)
       /\ l.kind = "insert" => OpOf(t)' = Abstract!Insert(l.pred, l.arg)
  BY DEF OpOf, Ended, Abstract!Idle, Abstract!RemoveAll, Abstract!PushFront, Abstract!Insert
<1>6. l.pc \notin Ended =>
       /\ l.kind = "remove" => OpOf(t)' = Abstract!Remove(l.pred)
       /\ l.kind = "removeAll" => OpOf(t)' = Abstract!RemoveAll(l.pred)
       /\ l.kind = "popBack" => OpOf(t)' = Abstract!PopBack
       /\ l.kind = "popFront" => OpOf(t)' = Abstract!PopFront(n)
  BY DEF OpOf, SeenFirst, Ended, Abstract!Remove, Abstract!RemoveAll, Abstract!PopBack, Abstract!PopFront
<1> HIDE DEF l, n
<1>7. OpIs(l, OpOf(t)', val'[l.cur], n)  BY <1>2, <1>3, <1>4, <1>5, <1>6, Zenon DEF OpIs
<1>8. QED  BY <1>1, <1>7, Zenon DEF l

\* Two calls with the same part are in the same operation.
LEMMA SameOp ==
  ASSUME NEW l, NEW k, NEW o, NEW p, NEW v, NEW w, NEW n, NEW m, l.kind \in Kinds,
         OpIs(l, o, v, n), OpIs(k, p, w, m),
         k.kind = l.kind /\ k.arg = l.arg /\ k.pred = l.pred,
         \/ /\ l.pc \notin Ended /\ k.pc \notin Ended
            /\ l.kind = "popFront" => m = n
         \/ l.pc = "idle" /\ k.pc = "idle"
         \/ l.pc = "drop" /\ k.pc = "drop" /\ k.ret = l.ret
         \/ l.pc = "value" /\ k.pc = "value" /\ v = w
  PROVE  p = o
<1>1. CASE l.pc = "idle" /\ k.pc = "idle"  BY <1>1, Zenon DEF OpIs
<1>2. CASE l.pc = "drop" /\ k.pc = "drop" /\ k.ret = l.ret  BY <1>2, Zenon DEF OpIs
<1>3. CASE l.pc = "value" /\ k.pc = "value" /\ v = w  BY <1>3, Zenon DEF OpIs
<1>4. CASE l.pc \notin Ended /\ k.pc \notin Ended /\ (l.kind = "popFront" => m = n)
  <2>1. \/ l.kind = "walk" \/ l.kind = "clear" \/ l.kind = "pushFront" \/ l.kind = "insert"
        \/ l.kind = "remove" \/ l.kind = "removeAll" \/ l.kind = "popBack" \/ l.kind = "popFront"
    BY DEF Kinds
  <2>2. QED  BY <1>4, <2>1, Zenon DEF OpIs
<1>5. QED  BY <1>1, <1>2, <1>3, <1>4, Zenon

\* The one that has seen an element first is a pop_front.
LEMMA PopFrontOnly ==
  ASSUME NEW l, NEW o, NEW v, NEW n, NEW m, l.kind \in Kinds, OpIs(l, o, v, n),
         o = Abstract!PopFront(m)
  PROVE  l.kind = "popFront" /\ l.pc \notin Ended /\ n = m
<1>1. o.name = "popFront" /\ o.first = m  BY DEF Abstract!PopFront
<1>2. /\ Abstract!Idle.name # "popFront"
      /\ \A x : Abstract!Got(x).name # "popFront"
      /\ \A x : Abstract!RemoveAll(x).name # "popFront"
      /\ \A x : Abstract!Remove(x).name # "popFront"
      /\ \A x : Abstract!PushFront(x).name # "popFront"
      /\ \A x, y : Abstract!Insert(x, y).name # "popFront"
      /\ Abstract!PopBack.name # "popFront"
  BY DEF Abstract!Idle, Abstract!Got, Abstract!RemoveAll, Abstract!Remove, Abstract!PushFront,
         Abstract!Insert, Abstract!PopBack
<1>3. l.pc \notin Ended
  <2>1. l.pc = "drop" => l.ret = Null \/ l.ret # Null  OBVIOUS
  <2>2. l.pc # "idle" /\ l.pc # "drop" /\ l.pc # "value"  BY <1>1, <1>2, Zenon DEF OpIs
  <2>3. QED  BY <2>2 DEF Ended
<1>4. l.kind = "popFront"
  <2>1. \/ l.kind = "walk" \/ l.kind = "clear" \/ l.kind = "pushFront" \/ l.kind = "insert"
        \/ l.kind = "remove" \/ l.kind = "removeAll" \/ l.kind = "popBack" \/ l.kind = "popFront"
    BY DEF Kinds
  <2>2. QED  BY <1>1, <1>2, <1>3, <2>1, Zenon DEF OpIs
<1>5. o = Abstract!PopFront(n)  BY <1>3, <1>4, Zenon DEF OpIs
<1>6. QED  BY <1>1, <1>3, <1>4, <1>5 DEF Abstract!PopFront
\* What a step or a call leaves to the others.
LEMMA OthersPart ==
  ASSUME ListInv, NEW t \in Threads, Step(t) \/ \E kind \in Kinds : Call(t, kind),
         NEW u \in Threads, u # t
  PROVE  /\ SameArgs(loc[u], loc'[u])
         /\ loc[u].pc = "value" => val'[loc[u].cur] = val[loc[u].cur]
<1>1. CASE Step(t)
  <2>1. SameArgs(loc[u], loc'[u])  BY <1>1, StepProceeds, Zenon
  <2>2. ASSUME loc[u].pc = "value"  PROVE val'[loc[u].cur] = val[loc[u].cur]
    <3>1. KindOK(loc[u]) /\ PointersOK(loc[u], next) /\ GuardsOK(u, loc[u], slot, free, loc)
      BY Mine, Zenon
    <3>2. loc[u].kind # "walk" /\ loc[u].pc \in CurPoints
      BY <2>2, <3>1 DEF KindOK, CurPoints, Takers
    <3>3. loc[u].cur \in Nodes /\ Guards(u, "cur", loc[u].cur, slot, free, loc)
      BY <3>1, <3>2 DEF PointersOK, GuardsOK
    <3>4. Kept(u, "cur", loc[u].cur, free, loc)  BY <3>3, Zenon DEF Guards
    <3>5. QED  BY <1>1, <3>3, <3>4, ValuesChange, Zenon DEF Loose
  <2>3. QED  BY <2>1, <2>2
<1>2. ASSUME NEW kind \in Kinds, Call(t, kind)
      PROVE  SameArgs(loc[u], loc'[u]) /\ val' = val
  <2>1. loc \in [Threads -> Record] /\ val' = val  BY <1>2, RecordIs, Zenon DEF ListInv, Call, memVars
  <2>2. PICK r \in Requests(kind) :
          loc' = [loc EXCEPT ![t].pc = IF kind \in {"insert", "pushFront"} THEN "pool" ELSE "load",
                             ![t].kind = kind, ![t].arg = r.arg, ![t].pred = r.pred]
    BY <1>2, Zenon DEF Call
  <2>3. u # t  OBVIOUS
  <2>4. loc'[u] = loc[u]  BY <2>1, <2>2, <2>3
  <2>5. QED  BY <2>1, <2>4 DEF SameArgs
<1>3. QED  BY <1>1, <1>2

\* Another's operation stays the same while what it has seen first does.
LEMMA OthersOp ==
  ASSUME ListInv, NEW t \in Threads, Step(t) \/ \E kind \in Kinds : Call(t, kind),
         NEW u \in Threads, u # t, Seen(loc'[u], Present') = Seen(loc[u], Present)
  PROVE  OpOf(u)' = OpOf(u)
<1>1. /\ SameArgs(loc[u], loc'[u])
      /\ loc[u].pc = "value" => val'[loc[u].cur] = val[loc[u].cur]
  BY OthersPart, Zenon
<1>2. loc[u].kind \in Kinds /\ loc[u].pc \in Points  BY Mine, Fields
<1>3. /\ OpIs(loc[u], OpOf(u), val[loc[u].cur], Seen(loc[u], Present))
      /\ OpIs(loc'[u], OpOf(u)', val'[loc'[u].cur], Seen(loc'[u], Present'))
  BY OpOfIs, OpOfNext
<1>4. \/ loc[u].pc \notin Ended /\ loc'[u].pc \notin Ended
      \/ loc[u].pc = "idle" /\ loc'[u].pc = "idle"
      \/ loc[u].pc = "drop" /\ loc'[u].pc = "drop" /\ loc'[u].ret = loc[u].ret
      \/ loc[u].pc = "value" /\ loc'[u].pc = "value" /\ val'[loc'[u].cur] = val[loc[u].cur]
  BY <1>1 DEF SameArgs, Ended
<1>5. loc'[u].kind = loc[u].kind /\ loc'[u].arg = loc[u].arg /\ loc'[u].pred = loc[u].pred
  BY <1>1, Zenon DEF SameArgs
<1>6. QED  BY <1>2, <1>3, <1>4, <1>5, SameOp, Zenon

\* A pop_front holds a hazard pointer on what it has seen first.
LEMMA SeenIsKept ==
  ASSUME ListInv, NEW u \in Threads, loc[u].kind = "popFront", loc[u].pc \in SeenPoints
  PROVE  \A t \in Threads : loc[u].cur # loc[t].node
<1>1. KindOK(loc[u]) /\ PointersOK(loc[u], next) /\ GuardsOK(u, loc[u], slot, free, loc)
  BY Mine, Zenon
<1>2. loc[u].kind # "walk" /\ loc[u].pc \in CurPoints  BY DEF SeenPoints, CurPoints, WalkPoints
<1>3. loc[u].cur \in Nodes /\ Guards(u, "cur", loc[u].cur, slot, free, loc)
  BY <1>1, <1>2 DEF PointersOK, GuardsOK
<1>4. QED  BY <1>3, Zenon DEF Guards, Kept

Op == [t \in Threads |-> OpOf(t)]

\* The elements change with a new node and a mark only.
LEMMA ElemsChange ==
  ASSUME ListInv, ElemsInOrder, NEW t \in Threads, Step(t), ~(InsertNode(t) \/ Mark(t) \/ ClearMark(t))
  PROVE  Present' = Present /\ elems' = elems
<1>1. CASE Purge(t) \/ UnlinkMarked(t) \/ ClearHead(t)
  BY <1>1, AllUnlink, ElemsUnlink, Zenon
<1>2. CASE ~Changes(t)
  <2>1. UNCHANGED <<next, lst, elems>>  BY <1>2, OthersKeepElems, Zenon
  <2>2. QED  BY <2>1, ElemsSame, Zenon
<1>3. QED  BY <1>1, <1>2, Zenon DEF Changes

\* The step of a thread that takes no element changes its own operation only.
LEMMA OpBecomes ==
  ASSUME ListInv, ElemsInOrder, NEW t \in Threads,
         Step(t) \/ \E kind \in Kinds : Call(t, kind),
         Present' = Present \/ (InsertNode(t) /\ Present' = Present \cup {loc[t].node}),
         NEW o, OpOf(t)' = o
  PROVE  Op' = [Op EXCEPT ![t] = o] /\ Op[t] = OpOf(t)
<1>1. ASSUME NEW u \in Threads, u # t  PROVE OpOf(u)' = OpOf(u)
  <2>1. SameArgs(loc[u], loc'[u])  BY <1>1, OthersPart, Zenon
  <2>2. /\ loc'[u].pc = loc[u].pc /\ loc'[u].prev = loc[u].prev /\ loc'[u].cur = loc[u].cur
        /\ loc'[u].kind = loc[u].kind /\ loc'[u].arg = loc[u].arg /\ loc'[u].pred = loc[u].pred
        /\ loc'[u].ret = loc[u].ret
    BY <2>1, Zenon DEF SameArgs
  <2>3. CASE Present' = Present
    <3>1. Seen(loc'[u], Present') = Seen(loc[u], Present)  BY <2>2, <2>3, Zenon DEF Seen
    <3>2. QED  BY <1>1, <3>1, OthersOp, Zenon
  <2>4. CASE Present' = Present \cup {loc[t].node} /\ loc[u].kind = "popFront"
    <3>1. loc[u].pc \in SeenPoints => (loc[u].cur \in Present' <=> loc[u].cur \in Present)
      BY <2>4, SeenIsKept
    <3>2. Seen(loc'[u], Present') = Seen(loc[u], Present)  BY <2>2, <3>1 DEF Seen
    <3>3. QED  BY <1>1, <3>2, OthersOp, Zenon
  <2>5. CASE loc[u].kind # "popFront"
    <3>1. /\ OpIs(loc[u], OpOf(u), val[loc[u].cur], Seen(loc[u], Present))
          /\ OpIs(loc'[u], OpOf(u)', val'[loc'[u].cur], Seen(loc'[u], Present'))
      BY OpOfIs, OpOfNext
    <3>2. loc[u].kind \in Kinds  BY Mine, Fields
    <3>3. loc[u].pc = "value" => val'[loc[u].cur] = val[loc[u].cur]  BY <1>1, OthersPart, Zenon
    <3>4. \/ loc[u].pc \notin Ended /\ loc'[u].pc \notin Ended
          \/ loc[u].pc = "idle" /\ loc'[u].pc = "idle"
          \/ loc[u].pc = "drop" /\ loc'[u].pc = "drop" /\ loc'[u].ret = loc[u].ret
          \/ loc[u].pc = "value" /\ loc'[u].pc = "value" /\ val'[loc'[u].cur] = val[loc[u].cur]
      BY <2>2, <3>3 DEF Ended
    <3>5. QED  BY <2>2, <2>5, <3>1, <3>2, <3>4, SameOp, Zenon
  <2>6. QED  BY <2>3, <2>4, <2>5, Zenon
<1>2. Op' = [u \in Threads |-> OpOf(u)']  BY DEF Op
<1>3. QED  BY <1>1, <1>2, Zenon DEF Op

\* One that takes the element n makes those look again who have seen it first.
LEMMA OpTakes ==
  ASSUME ListInv, NEW t \in Threads, Step(t), NEW n \in Nodes, n \in Present, Present' = Present \ {n},
         NEW o, OpOf(t)' = o
  PROVE  /\ Op[t] = OpOf(t)
         /\ Op' = [u \in Threads |-> IF u = t THEN o
                                     ELSE IF Op[u] = Abstract!PopFront(n) THEN Abstract!PopFront(Null)
                                     ELSE Op[u]]
<1>1. ASSUME NEW u \in Threads, u # t
      PROVE  OpOf(u)' = IF OpOf(u) = Abstract!PopFront(n) THEN Abstract!PopFront(Null) ELSE OpOf(u)
  <2>1. SameArgs(loc[u], loc'[u])  BY <1>1, OthersPart, Zenon
  <2>2. /\ loc'[u].pc = loc[u].pc /\ loc'[u].prev = loc[u].prev /\ loc'[u].cur = loc[u].cur
        /\ loc'[u].kind = loc[u].kind
    BY <2>1, Zenon DEF SameArgs
  <2>3. /\ OpIs(loc[u], OpOf(u), val[loc[u].cur], Seen(loc[u], Present))
        /\ OpIs(loc'[u], OpOf(u)', val'[loc'[u].cur], Seen(loc'[u], Present'))
    BY OpOfIs, OpOfNext
  <2>4. loc[u].kind \in Kinds  BY Mine, Fields
  <2>5. n # Null  BY Distinctions
  <2>6. CASE OpOf(u) = Abstract!PopFront(n)
    <3>1. loc[u].kind = "popFront" /\ loc[u].pc \notin Ended /\ Seen(loc[u], Present) = n
      BY <2>3, <2>4, <2>6, PopFrontOnly, Zenon
    <3>2. loc[u].cur = n  BY <2>5, <3>1 DEF Seen
    <3>3. Seen(loc'[u], Present') = Null  BY <2>2, <3>2 DEF Seen
    <3>4. loc'[u].kind = "popFront" /\ loc'[u].pc \notin Ended  BY <2>2, <3>1, Zenon
    <3>5. OpOf(u)' = Abstract!PopFront(Null)  BY <2>3, <3>3, <3>4, Zenon DEF OpIs
    <3>6. QED  BY <2>6, <3>5, Zenon
  <2>7. CASE OpOf(u) # Abstract!PopFront(n)
    <3>1. CASE Seen(loc[u], Present) # n
      <4>1. Seen(loc'[u], Present') = Seen(loc[u], Present)  BY <2>2, <3>1 DEF Seen
      <4>2. OpOf(u)' = OpOf(u)  BY <1>1, <4>1, OthersOp, Zenon
      <4>3. QED  BY <2>7, <4>2, Zenon
    <3>2. CASE ~(loc[u].kind = "popFront" /\ loc[u].pc \notin Ended)
      <4>1. loc[u].pc = "value" => val'[loc[u].cur] = val[loc[u].cur]  BY <1>1, OthersPart, Zenon
      <4>2. \/ loc[u].pc \notin Ended /\ loc'[u].pc \notin Ended /\ loc[u].kind # "popFront"
            \/ loc[u].pc = "idle" /\ loc'[u].pc = "idle"
            \/ loc[u].pc = "drop" /\ loc'[u].pc = "drop" /\ loc'[u].ret = loc[u].ret
            \/ loc[u].pc = "value" /\ loc'[u].pc = "value" /\ val'[loc'[u].cur] = val[loc[u].cur]
        BY <2>1, <3>2, <4>1 DEF SameArgs, Ended
      <4>3. loc'[u].arg = loc[u].arg /\ loc'[u].pred = loc[u].pred  BY <2>1, Zenon DEF SameArgs
      <4>4. OpOf(u)' = OpOf(u)  BY <2>2, <2>3, <2>4, <4>2, <4>3, SameOp, Zenon
      <4>5. QED  BY <2>7, <4>4, Zenon
    <3>3. QED  BY <2>3, <2>7, <3>1, <3>2, Zenon DEF OpIs
  <2>8. QED  BY <2>6, <2>7
<1>2. Op' = [u \in Threads |-> OpOf(u)']  BY DEF Op
<1>3. QED  BY <1>1, <1>2, Zenon DEF Op

\* What is known of the thread that takes a step, and of its operation before
\* and after it.
LEMMA OwnOp ==
  ASSUME ElemsInv, NEW t \in Threads, Step(t)
  PROVE  /\ ListInv /\ ElemsInOrder /\ loc[t] \in Record /\ loc[t].kind \in Kinds /\ loc[t].pc \in Points
         /\ KindOK(loc[t]) /\ FoundOK(loc[t], val) /\ Proceeds(t)
         /\ OpIs(loc[t], OpOf(t), val[loc[t].cur], Seen(loc[t], Present))
         /\ OpIs(loc'[t], OpOf(t)', val'[loc'[t].cur], Seen(loc'[t], Present'))
         /\ Op[t] = OpOf(t)
<1>1. ListInv /\ ElemsInOrder /\ FoundOK(loc[t], val)  BY Zenon DEF ElemsInv, FoundInv, FoundKept
<1>2. loc[t] \in Record /\ KindOK(loc[t])  BY <1>1, Mine, Zenon
<1>3. loc[t].kind \in Kinds /\ loc[t].pc \in Points  BY <1>2, Fields, Zenon
<1>4. Proceeds(t)  BY <1>1, StepProceeds, Zenon
<1>5. Op[t] = OpOf(t)  BY DEF Op
<1>6. QED  BY <1>1, <1>2, <1>3, <1>4, <1>5, OpOfIs, OpOfNext, Zenon

\* A step that inserts and marks nothing changes at most this operation.
Steady(t) == Step(t) /\ ~(InsertNode(t) \/ Mark(t) \/ ClearMark(t))
LEMMA SteadyStep ==
  ASSUME ElemsInv, NEW t \in Threads, Steady(t)
  PROVE  /\ Content' = Content /\ Present' = Present
         /\ \A o : OpOf(t)' = o => Op' = [Op EXCEPT ![t] = o]
         /\ OpOf(t)' = OpOf(t) => Op' = Op
<1>1. ListInv /\ ElemsInOrder  BY Zenon DEF ElemsInv, FoundInv
<1>2. Present' = Present /\ elems' = elems  BY <1>1, ElemsChange, Zenon DEF Steady
<1>3. Content' = Content  BY <1>1, <1>2, ContentSame, Zenon DEF Steady
<1>4. ASSUME NEW o, OpOf(t)' = o  PROVE Op' = [Op EXCEPT ![t] = o] /\ Op[t] = OpOf(t)
  BY <1>1, <1>2, <1>4, OpBecomes, Zenon DEF Steady
<1>5. ASSUME OpOf(t)' = OpOf(t)  PROVE Op' = Op
  <2>1. Op' = [Op EXCEPT ![t] = Op[t]]  BY <1>4, <1>5, Zenon
  <2>2. Op \in [Threads -> {Op[u] : u \in Threads}]  BY DEF Op
  <2>3. QED  BY <2>1, <2>2
<1>6. QED  BY <1>2, <1>3, <1>4, <1>5, Zenon

\* The list is empty where the head leads to the end.
LEMMA EmptySeen ==
  ASSUME ListInv, ElemsInOrder, next[HeadNode].p = End
  PROVE  Content = <<>>
<1>1. Len(lst) = 0
  <2>1. Len(lst) \in Nat /\ next[HeadNode].p = (IF Len(lst) = 0 THEN End ELSE lst[1])  BY Chain
  <2>2. Len(lst) # 0 => lst[1] \in Nodes  BY <2>1, Chain
  <2>3. QED  BY <2>1, <2>2, Distinctions
<1>2. Linked = {}  BY <1>1 DEF Linked
<1>3. Len(elems) = 0
  <2>1. Len(elems) \in Nat /\ \A a \in 1..Len(elems) : elems[a] \in Linked  BY ElemsAre
  <2>2. QED  BY <1>2, <2>1
<1>4. ContentIs(Content, elems, val)  BY Contents
<1>5. Content \in Seq(Entries) /\ Len(Content) = 0  BY <1>3, <1>4 DEF ContentIs
<1>6. QED  BY <1>5

\* The node that the head leads to is the first element if it is one.
LEMMA FirstSeen ==
  ASSUME ListInv, ElemsInOrder, NEW n \in Present, next[HeadNode].p = n
  PROVE  Content # <<>> /\ Content[1].id = n
<1>1. /\ elems \in Seq(Nodes) /\ Len(elems) \in Nat /\ InRank(elems, lst)
      /\ \A a \in 1..Len(elems) : elems[a] \in Linked
  BY ElemsAre
<1>2. Len(lst) \in Nat /\ Len(lst) # 0 /\ lst[1] = n
  <2>1. n # End  BY Distinctions DEF Present
  <2>2. QED  BY <2>1, Chain
<1>3. PICK a \in 1..Len(elems) : elems[a] = n  BY ElemsAre
<1>4. a = 1
  <2>1. ASSUME 1 < a  PROVE FALSE
    <3>1. 1 \in 1..Len(elems)  BY <1>1, <1>3
    <3>2. PICK i \in 1..Len(lst) : lst[i] = elems[1]  BY <1>1, <3>1 DEF Linked
    <3>3. 1 \in 1..Len(lst) /\ lst[1] = elems[a]  BY <1>2, <1>3
    <3>4. i < 1  BY <1>1, <1>3, <2>1, <3>1, <3>2, <3>3 DEF InRank
    <3>5. QED  BY <1>2, <3>2, <3>4
  <2>2. QED  BY <1>1, <1>3, <2>1
<1>5. ContentIs(Content, elems, val)  BY Contents
<1>6. Content \in Seq(Entries) /\ Len(Content) = Len(elems) /\ Content[1] = Entry(n, val)
  BY <1>3, <1>4, <1>5 DEF ContentIs
<1>7. Content[1].id = n  BY <1>6 DEF Entry
<1>8. Content # <<>>
  <2>1. Len(Content) # 0  BY <1>1, <1>3, <1>6
  <2>2. QED  BY <2>1
<1>9. QED  BY <1>7, <1>8

\* A search that comes to no node behind the head.
LEMMA SearchEnds ==
  ASSUME ListInv, NEW t \in Threads, Step(t), loc[t].pc = "verify", loc'[t].pc = "drop",
         loc[t].kind \notin {"walk", "clear", "remove", "removeAll"}
  PROVE  loc[t].kind \in {"popBack", "popFront"} /\ next[HeadNode].p = End
<1>1. loc \in [Threads -> Record] /\ loc[t].kind \in Kinds
  BY RecordIs, Mine, Fields, Zenon DEF ListInv
<1>2. Reload(t) \/ Verified(t)
  <2>1. CASE loc'[t] = Idle  BY <2>1 DEF Idle
  <2>2. CASE loc'[t] # Idle  BY <2>2, StepProceeds, Zenon DEF Proceeds
  <2>3. QED  BY <2>1, <2>2
<1>3. CASE Reload(t)
  <2>1. loc'[t].pc = "load"  BY <1>1, <1>3 DEF Reload, InCall, Restarted, Record
  <2>2. QED  BY <2>1
<1>4. CASE Verified(t)
  <2>1. loc'[t].pc = Come(loc[t].kind, HeadNode, loc[t].cur) /\ next[HeadNode].p = loc[t].cur
    BY <1>1, <1>4 DEF Verified, Goto, InCall, Record
  <2>2. QED  BY <1>1, <2>1 DEF Come, Found, Kinds
<1>5. QED  BY <1>2, <1>3, <1>4

\* One that comes to a node there.
LEMMA SearchSees ==
  ASSUME ListInv, NEW t \in Threads, Step(t), loc[t].pc = "verify", loc[t].kind = "popFront",
         loc'[t].pc \in SeenPoints
  PROVE  loc'[t].cur = next[HeadNode].p
<1>1. loc \in [Threads -> Record]  BY RecordIs, Zenon DEF ListInv
<1>2. Reload(t) \/ Verified(t)
  <2>1. CASE loc'[t] = Idle  BY <2>1 DEF Idle, SeenPoints
  <2>2. CASE loc'[t] # Idle  BY <2>2, StepProceeds, Zenon DEF Proceeds
  <2>3. QED  BY <2>1, <2>2
<1>3. CASE Reload(t)
  <2>1. loc'[t].pc = "load"  BY <1>1, <1>3 DEF Reload, InCall, Restarted, Record
  <2>2. QED  BY <2>1 DEF SeenPoints
<1>4. CASE Verified(t)
  BY <1>1, <1>4 DEF Verified, Goto, InCall, Record
<1>5. QED  BY <1>2, <1>3, <1>4

\* The steps of a call before it takes effect and when it finds nothing.
LEMMA SearchSteps ==
  ASSUME ElemsInv, NEW t \in Threads, Steady(t), loc[t].pc \notin Ended
  PROVE  Abstract!Next \/ UNCHANGED <<Content, Op>>
<1> DEFINE l == loc[t]
           k == loc'[t]
           p == IF l.kind = "clear" THEN Values ELSE l.pred
<1>1. /\ ListInv /\ ElemsInOrder /\ l \in Record /\ l.kind \in Kinds /\ l.pc \in Points
      /\ KindOK(l) /\ FoundOK(l, val) /\ Proceeds(t)
      /\ OpIs(l, OpOf(t), val[l.cur], Seen(l, Present))
      /\ OpIs(k, OpOf(t)', val'[k.cur], Seen(k, Present'))
      /\ Op[t] = OpOf(t)
  BY OwnOp, Zenon DEF Steady
<1>2. /\ Content' = Content /\ Present' = Present
      /\ \A o : OpOf(t)' = o => Op' = [Op EXCEPT ![t] = o]
      /\ OpOf(t)' = OpOf(t) => Op' = Op
  BY SteadyStep, Zenon
<1>3. /\ k.kind = l.kind /\ k.arg = l.arg /\ k.pred = l.pred
      /\ k.ret = l.ret /\ k.pc \notin {"idle", "value"}
      /\ k.pc = "drop" => l.kind \in {"walk", "clear", "remove", "removeAll"} \/ l.pc = "verify"
      /\ k.pc \in SeenPoints /\ l.kind = "popFront" =>
           \/ l.pc = "verify" \/ k.prev # HeadNode
           \/ l.pc \in SeenPoints /\ k.prev = l.prev /\ k.cur = l.cur
  <2>1. l.pc # "value" /\ l.pc # "drop"  BY DEF Ended
  <2>2. ~TakeValue(t) /\ ~Mark(t) /\ ~InsertNode(t)  BY <2>1 DEF Steady, TakeValue, At
  <2>3. QED  BY <1>1, <2>1, <2>2 DEF Proceeds
<1>4. l.ret = Null  BY <1>1 DEF FoundOK, Ended
<1> HIDE DEF l, k
<1>5. k.pc = "drop" => OpOf(t)' = Abstract!Idle  BY <1>1, <1>3, <1>4, Zenon DEF OpIs
<1>6. k.pc = "drop" \/ k.pc \notin Ended  BY <1>3 DEF Ended
<1>7. l.pc \notin Ended  BY DEF l
<1>8. CASE l.kind = "walk"
  <2>1. OpOf(t)' = OpOf(t)  BY <1>1, <1>3, <1>5, <1>6, <1>7, <1>8, Zenon DEF OpIs
  <2>2. QED  BY <1>2, <2>1, Zenon
<1>9. CASE k.pc \notin Ended /\ l.kind # "popFront"
  <2>1. OpOf(t)' = OpOf(t)  BY <1>1, <1>3, <1>7, <1>9, SameOp, Zenon
  <2>2. QED  BY <1>2, <2>1, Zenon
<1>10. CASE k.pc = "drop" /\ l.kind \in {"clear", "remove", "removeAll"}
  <2>1. OpOf(t) \in {Abstract!Remove(p), Abstract!RemoveAll(p)}
    <3>1. CASE l.kind = "clear"  BY <1>1, <1>7, <3>1, Zenon DEF OpIs
    <3>2. CASE l.kind = "remove"  BY <1>1, <1>7, <3>2 DEF OpIs
    <3>3. CASE l.kind = "removeAll"  BY <1>1, <1>7, <3>3 DEF OpIs
    <3>4. QED  BY <1>10, <3>1, <3>2, <3>3
  <2>2. Abstract!FindNone(t, p)
    BY <1>1, <1>2, <1>5, <1>10, <2>1, Zenon DEF Abstract!FindNone, Abstract!Become, Op, Content
  <2>3. p \in Abstract!Preds
    <3>1. l.pred \in Preds  BY <1>1, Fields
    <3>2. QED  BY <3>1, Distinctions DEF Abstract!Preds, Preds
  <2>4. QED  BY <2>2, <2>3, Zenon DEF Abstract!Next
<1>11. CASE k.pc = "drop" /\ l.kind \notin {"walk", "clear", "remove", "removeAll"}
  <2>1. l.pc = "verify"  BY <1>3, <1>11
  <2>2. l.kind \in {"popBack", "popFront"} /\ next[HeadNode].p = End
    BY <1>1, <1>11, <2>1, SearchEnds, Zenon DEF l, k, Steady
  <2>3. Content = <<>>  BY <1>1, <2>2, EmptySeen, Zenon
  <2>4. Seen(l, Present) = Null  BY <2>1 DEF Seen, SeenPoints
  <2>5. OpOf(t) \in {Abstract!PopBack, Abstract!PopFront(Null)}
    <3>1. CASE l.kind = "popBack"  BY <1>1, <1>7, <3>1, Zenon DEF OpIs
    <3>2. CASE l.kind = "popFront"  BY <1>1, <1>7, <2>4, <3>2, Zenon DEF OpIs
    <3>3. QED  BY <2>2, <3>1, <3>2
  <2>6. Abstract!FindEmpty(t)
    BY <1>1, <1>2, <1>5, <1>11, <2>3, <2>5, Zenon DEF Abstract!FindEmpty, Abstract!Become, Op, Content
  <2>7. QED  BY <2>6, Zenon DEF Abstract!Next
<1>12. CASE k.pc \notin Ended /\ l.kind = "popFront"
  <2>1. OpOf(t) = Abstract!PopFront(Seen(l, Present))  BY <1>1, <1>7, <1>12, Zenon DEF OpIs
  <2>2. OpOf(t)' = Abstract!PopFront(Seen(k, Present))  BY <1>1, <1>2, <1>3, <1>12, Zenon DEF OpIs
  <2>3. CASE Seen(k, Present) = Seen(l, Present)
    <3>1. OpOf(t)' = OpOf(t)  BY <2>1, <2>2, <2>3, Zenon
    <3>2. QED  BY <1>2, <3>1, Zenon
  <2>4. CASE Seen(k, Present) = Null
    <3>1. Abstract!LookAgain(t, Seen(l, Present))
      BY <1>1, <1>2, <2>1, <2>2, <2>4, Zenon DEF Abstract!LookAgain, Abstract!Become, Op, Content
    <3>2. Seen(l, Present) \in Nodes \cup {Null}  BY DEF Seen, Present
    <3>3. QED  BY <3>1, <3>2, Zenon DEF Abstract!Next
  <2>5. CASE Seen(k, Present) # Seen(l, Present) /\ Seen(k, Present) # Null
    <3>1. k.prev = HeadNode /\ k.cur \in Present /\ k.pc \in SeenPoints /\ Seen(k, Present) = k.cur
      BY <2>5 DEF Seen
    <3>2. l.pc = "verify"
      <4>1. ASSUME l.pc \in SeenPoints, k.prev = l.prev, k.cur = l.cur  PROVE FALSE
        BY <2>5, <3>1, <4>1 DEF Seen
      <4>2. QED  BY <1>3, <1>12, <3>1, <4>1
    <3>3. Seen(l, Present) = Null  BY <3>2 DEF Seen, SeenPoints
    <3>4. k.cur = next[HeadNode].p  BY <1>1, <1>12, <3>1, <3>2, SearchSees, Zenon DEF l, k, Steady
    <3>5. Content # <<>> /\ Content[1].id = k.cur  BY <1>1, <3>1, <3>4, FirstSeen, Zenon
    <3>6. Abstract!SeeFirst(t, Null)
      BY <1>1, <1>2, <2>1, <2>2, <3>1, <3>3, <3>5, Zenon
         DEF Abstract!SeeFirst, Abstract!Become, Op, Content
    <3>7. QED  BY <3>6, Zenon DEF Abstract!Next
  <2>6. QED  BY <2>3, <2>4, <2>5, Zenon
<1>13. QED  BY <1>6, <1>8, <1>9, <1>10, <1>11, <1>12

\* What a call is about to take has a value.
LEMMA CurHasValue ==
  ASSUME ListInv, NEW t \in Threads, loc[t].pc \in {"mark", "set", "value"}
  PROVE  loc[t].cur \in Nodes /\ val[loc[t].cur] \in Values
<1>1. KindOK(loc[t]) /\ PointersOK(loc[t], next) /\ GuardsOK(t, loc[t], slot, free, loc)
  BY Mine, Zenon
<1>2. loc[t].kind # "walk" /\ loc[t].pc \in CurPoints
  BY <1>1 DEF KindOK, CurPoints, ClearPoints, WalkPoints
<1>3. loc[t].cur \in Nodes /\ Guards(t, "cur", loc[t].cur, slot, free, loc)
  BY <1>1, <1>2, Zenon DEF PointersOK, GuardsOK
<1>4. loc[t].cur \notin free  BY <1>3, Zenon DEF Guards, Kept
<1>5. QED  BY <1>3, <1>4 DEF ListInv, HaveValues

\* The steps of a call after it has taken effect.
LEMMA ReturnSteps ==
  ASSUME ElemsInv, NEW t \in Threads, Step(t), loc[t].pc \in Ended
  PROVE  Abstract!Next \/ UNCHANGED <<Content, Op>>
<1> DEFINE l == loc[t]
           k == loc'[t]
<1>1. /\ ListInv /\ l \in Record /\ l.pc \in Points /\ FoundOK(l, val) /\ Proceeds(t)
      /\ OpIs(l, OpOf(t), val[l.cur], Seen(l, Present))
      /\ OpIs(k, OpOf(t)', val'[k.cur], Seen(k, Present'))
      /\ Op[t] = OpOf(t)
  BY OwnOp, Zenon
<1>2. Steady(t)  BY DEF Steady, Ended, InsertNode, Mark, ClearMark, At
<1>3. /\ Content' = Content
      /\ \A o : OpOf(t)' = o => Op' = [Op EXCEPT ![t] = o]
      /\ OpOf(t)' = OpOf(t) => Op' = Op
  BY <1>2, SteadyStep, Zenon
<1>4. \/ l.pc = "value" /\ TakeValue(t)
      \/ l.pc = "drop" /\ k = Idle
  BY <1>1 DEF Proceeds, Ended
<1>5. CASE l.pc = "value" /\ TakeValue(t)
  <2>1. k.pc = "drop" /\ k.ret = val[l.cur]
    <3>1. loc \in [Threads -> Record]  BY <1>1, RecordIs, Zenon DEF ListInv
    <3>2. QED  BY <1>5, <3>1 DEF TakeValue, Record
  <2>2. val[l.cur] \in Values  BY <1>1, <1>5, CurHasValue
  <2>3. k.ret # Null  BY <2>1, <2>2, Distinctions
  <2> HIDE DEF l, k
  <2>4. OpOf(t)' = OpOf(t)  BY <1>1, <1>5, <2>1, <2>3, Zenon DEF OpIs
  <2>5. QED  BY <1>3, <2>4, Zenon
<1>6. CASE l.pc = "drop" /\ k = Idle
  <2>1. k.pc = "idle"  BY <1>6 DEF Idle
  <2> HIDE DEF l, k
  <2>2. OpOf(t)' = Abstract!Idle  BY <1>1, <2>1, Zenon DEF OpIs
  <2>3. CASE l.ret = Null
    <3>1. OpOf(t)' = OpOf(t)  BY <1>1, <1>6, <2>2, <2>3, Zenon DEF OpIs
    <3>2. QED  BY <1>3, <3>1, Zenon
  <2>4. CASE l.ret # Null
    <3>1. OpOf(t) = Abstract!Got(l.ret)  BY <1>1, <1>6, <2>4, Zenon DEF OpIs
    <3>2. Abstract!Return(t, l.ret)
      BY <1>1, <1>3, <2>2, <3>1, Zenon DEF Abstract!Return, Abstract!Become, Op, Content
    <3>3. l.ret \in Values  BY <1>1, <2>4, Fields DEF ValueOrNull
    <3>4. QED  BY <3>2, <3>3, Zenon DEF Abstract!Next
  <2>5. QED  BY <2>3, <2>4
<1>7. QED  BY <1>4, <1>5, <1>6

\* A node that leads to the end is the last element, if it is one, and an
\* insertion behind it is one behind all.
LEMMA LastElement ==
  ASSUME ListInv, ElemsInOrder, NEW h \in Linked \cup {HeadNode}, next[h].p = End,
         h = HeadNode \/ h \in Present
  PROVE  PlaceOf(h, elems) = Len(elems)
<1>1. /\ elems \in Seq(Nodes) /\ Len(elems) \in Nat /\ InRank(elems, lst)
      /\ \A a \in 1..Len(elems) : elems[a] \in Linked
  BY ElemsAre
<1>2. /\ Len(lst) \in Nat /\ PlaceOf(h, lst) \in 0..Len(lst) /\ HolderAt(lst, PlaceOf(h, lst)) = h
      /\ next[h].p = IF PlaceOf(h, lst) = Len(lst) THEN End ELSE lst[PlaceOf(h, lst) + 1]
  BY Chain, PlaceIs
<1>3. PlaceOf(h, lst) = Len(lst)
  <2>1. ASSUME PlaceOf(h, lst) # Len(lst)  PROVE FALSE
    <3>1. PlaceOf(h, lst) + 1 \in 1..Len(lst)  BY <1>2, <2>1
    <3>2. lst[PlaceOf(h, lst) + 1] \in Nodes  BY <3>1, Chain
    <3>3. QED  BY <1>2, <2>1, <3>2, Distinctions
  <2>2. QED  BY <2>1
<1>4. CASE h = HeadNode
  <2>1. PlaceOf(h, elems) = 0 /\ PlaceOf(h, lst) = 0  BY <1>4 DEF PlaceOf
  <2>2. Linked = {}  BY <1>3, <2>1 DEF Linked
  <2>3. Len(elems) = 0  BY <1>1, <2>2
  <2>4. QED  BY <2>1, <2>3
<1>5. CASE h # HeadNode
  <2>1. PlaceOf(h, elems) \in 1..Len(elems) /\ elems[PlaceOf(h, elems)] = h
    BY <1>5, ElementPlace
  <2>2. Len(lst) # 0 /\ lst[Len(lst)] = h  BY <1>2, <1>3, <1>5 DEF HolderAt
  <2>3. ASSUME PlaceOf(h, elems) < Len(elems)  PROVE FALSE
    <3>1. Len(elems) \in 1..Len(elems)  BY <1>1, <2>1
    <3>2. PICK i \in 1..Len(lst) : lst[i] = elems[Len(elems)]  BY <1>1, <3>1 DEF Linked
    <3>3. Len(lst) \in 1..Len(lst)  BY <1>2, <2>2
    <3>4. Len(lst) < i  BY <1>1, <2>1, <2>2, <2>3, <3>1, <3>2, <3>3 DEF InRank
    <3>5. QED  BY <1>2, <3>2, <3>4
  <2>4. QED  BY <1>1, <2>1, <2>3
<1>6. QED  BY <1>4, <1>5

\* An insertion puts a new element behind its predecessor.
LEMMA InsertedBehind ==
  ASSUME ElemsInv, NEW t \in Threads, InsertNode(t),
         NEW i, i = PlaceOf(loc[t].prev, elems) + 1
  PROVE  /\ i \in 1..Len(Content) + 1 /\ loc[t].arg \in Values
         /\ Abstract!InsertAt(i, loc[t].arg)
         /\ i = 1 <=> loc[t].prev = HeadNode
         /\ i > 1 => Content[i - 1].value = val[loc[t].prev] /\ val[loc[t].prev] \in Values
         /\ loc[t].cur = End => i = Len(Content) + 1
<1> DEFINE h == loc[t].prev
           n == loc[t].node
           k == PlaceOf(h, elems)
           x == Entry(n, val)
<1>1. ListInv /\ ElemsInOrder /\ FoundOK(loc[t], val) /\ Step(t)
  BY Zenon DEF ElemsInv, FoundInv, FoundKept, Step
<1>2. /\ h \in Linked \cup {HeadNode} /\ next[h].p = loc[t].cur /\ ~next[h].m
      /\ n \in Nodes /\ n \in Held(t)
  BY <1>1, InsertsIs
<1>3. /\ k \in 0..Len(elems) /\ (k = 0 <=> h = HeadNode) /\ (h # HeadNode => elems[k] = h)
      /\ elems' = InsertedAt(elems, k, n) /\ n \notin Present /\ val' = val
  BY <1>1, ElemsInsert
<1>4. ContentIs(Content, elems, val) /\ ContentIs(Content', elems', val')
  BY <1>1, Contents, ContentsNext, StepKeeps, ElemsStep, Zenon
<1>5. /\ elems \in Seq(Nodes) /\ Len(elems) \in Nat
      /\ \A a \in 1..Len(elems) : elems[a] \in Present /\ elems[a] \in Linked
      /\ \A m : m \in Present <=> m \in Linked /\ ~next[m].m
  BY <1>1, ElemsAre
<1>6. val[n] \in Values /\ val[n] = loc[t].arg
  <2>1. n \notin free  BY <1>1, <1>2 DEF ListInv, Apart
  <2>2. n # Null  BY <1>2, Distinctions
  <2>3. QED  BY <1>1, <1>2, <2>1, <2>2 DEF ListInv, HaveValues, FoundOK
<1>7. /\ Content \in Seq(Entries) /\ Len(Content) = Len(elems)
      /\ \A j \in 1..Len(elems) : Content[j] = Entry(elems[j], val)
  BY <1>4, Zenon DEF ContentIs
<1> HIDE DEF h, n, k, x
<1>8. Content' = InsertedAt(Content, k, x)
  <2>1. ContentIs(Content', InsertedAt(elems, k, n), val)  BY <1>3, <1>4, Zenon
  <2>2. ContentIs(InsertedAt(Content, k, x), InsertedAt(elems, k, n), val)
    BY <1>2, <1>3, <1>4, <1>5, <1>6, ContentInserted, Zenon DEF x
  <2>3. QED  BY <2>1, <2>2, SameContents, Zenon
<1>9. x = [id |-> n, value |-> loc[t].arg]  BY <1>6 DEF x, Entry
<1>10. n \in Nodes \ Abstract!Present
  <2>1. \A j \in 1..Len(Content) : Content[j].id \in Present
    <3>1. ASSUME NEW j \in 1..Len(Content)  PROVE Content[j].id \in Present
      <4>1. Content[j] = Entry(elems[j], val) /\ elems[j] \in Present  BY <1>5, <1>7
      <4>2. Entry(elems[j], val).id = elems[j]  BY DEF Entry
      <4>3. QED  BY <4>1, <4>2
    <3>2. QED  BY <3>1, Zenon
  <2>2. \A j \in 1..Len(Content) : Content[j].id # n  BY <1>3, <2>1
  <2>3. n \notin {Content[j].id : j \in 1..Len(Content)}  BY <2>2
  <2>4. n \notin Abstract!Present  BY <2>3, Zenon DEF Abstract!Present, Content
  <2>5. QED  BY <1>2, <2>4
<1>11. i = k + 1 /\ i - 1 = k  BY <1>3 DEF k, h
<1>12. Abstract!InsertAt(i, loc[t].arg)
  <2>1. Content' = SubSeq(Content, 1, k) \o <<x>> \o SubSeq(Content, k + 1, Len(Content))
    BY <1>8, Zenon DEF InsertedAt
  <2>2. Content' = SubSeq(Content, 1, i - 1) \o <<[id |-> n, value |-> loc[t].arg]>>
                     \o SubSeq(Content, i, Len(Content))
    <3>1. i = k + 1 /\ i - 1 = k  BY <1>11
    <3>2. QED  BY <1>9, <2>1, <3>1, Zenon
  <2>3. QED  BY <1>10, <2>2, Zenon DEF Abstract!InsertAt, Content
<1>13. i > 1 => Content[i - 1].value = val[h] /\ val[h] \in Values
  <2>1. ASSUME i > 1  PROVE Content[i - 1].value = val[h] /\ val[h] \in Values
    <3>1. k \in 1..Len(elems) /\ h # HeadNode  BY <1>3, <1>5, <1>11, <2>1
    <3>2. Content[k] = Entry(h, val)  BY <1>3, <1>7, <3>1, Zenon
    <3>3. h \in Linked \/ h = HeadNode  BY <1>2
    <3>4. h \in Nodes /\ h \notin free  BY <1>1, <3>1, <3>3, Chain DEF ListInv, Apart
    <3>5. QED  BY <1>1, <1>11, <3>2, <3>4 DEF Entry, ListInv, HaveValues
  <2>2. QED  BY <2>1
<1>14. loc[t].cur = End => i = Len(Content) + 1
  <2>1. ASSUME loc[t].cur = End  PROVE i = Len(Content) + 1
    <3>1. h = HeadNode \/ h \in Present  BY <1>2, <1>5
    <3>2. k = Len(elems)  BY <1>1, <1>2, <2>1, <3>1, LastElement DEF k
    <3>3. QED  BY <1>7, <1>11, <3>2
  <2>2. QED  BY <2>1
<1>15. i \in 1..Len(Content) + 1 /\ (i = 1 <=> h = HeadNode)  BY <1>3, <1>5, <1>7, <1>11
<1>16. QED  BY <1>6, <1>12, <1>13, <1>14, <1>15, Zenon DEF h

LEMMA InsertStep ==
  ASSUME ElemsInv, NEW t \in Threads, InsertNode(t)
  PROVE  Abstract!Next
<1> DEFINE l == loc[t]
           k == loc'[t]
           i == PlaceOf(l.prev, elems) + 1
<1>0. Step(t)  BY Zenon DEF Step
<1>1. /\ ListInv /\ ElemsInOrder /\ l \in Record /\ KindOK(l) /\ FoundOK(l, val)
      /\ OpIs(l, OpOf(t), val[l.cur], Seen(l, Present))
      /\ OpIs(k, OpOf(t)', val'[k.cur], Seen(k, Present'))
  BY <1>0, OwnOp, Zenon
<1>2. /\ i \in 1..Len(Content) + 1 /\ l.arg \in Values /\ Abstract!InsertAt(i, l.arg)
      /\ i = 1 <=> l.prev = HeadNode
      /\ i > 1 => Content[i - 1].value = val[l.prev] /\ val[l.prev] \in Values
      /\ l.cur = End => i = Len(Content) + 1
  BY InsertedBehind, Zenon
<1>3. l.pc \in {"insBefore", "insNext"} /\ ~next[l.prev].m  BY <1>1, InsertsIs
<1>4. k.pc = "drop" /\ k.ret = l.ret
  <2>1. loc \in [Threads -> Record]  BY <1>1, RecordIs, Zenon DEF ListInv
  <2>2. QED  BY <2>1 DEF InsertNode, Record
<1>5. l.ret = Null  BY <1>1, <1>3 DEF FoundOK
<1>6. Present' = Present \cup {l.node}  BY <1>1, ElemsInsert
<1>7. l.prev # HeadNode => val[l.prev] \notin l.pred
  <2>1. LinksOK(l, next, val)  BY <1>1, Mine, Zenon
  <2>2. l.kind # "walk"  BY <1>1, <1>3 DEF KindOK
  <2>3. QED  BY <1>3, <2>1, <2>2 DEF LinksOK, PrevPoints
<1> HIDE DEF l, k, i
<1>8. OpOf(t)' = Abstract!Idle  BY <1>1, <1>4, <1>5, Zenon DEF OpIs
<1>9. Op' = [Op EXCEPT ![t] = Abstract!Idle] /\ Op[t] = OpOf(t)
  BY <1>0, <1>1, <1>6, <1>8, OpBecomes, Zenon DEF l
<1>10. CASE l.pc = "insBefore"
  <2>1. l.kind = "insert" /\ l.pc \notin Ended  BY <1>1, <1>10 DEF KindOK, Ended
  <2>2. OpOf(t) = Abstract!Insert(l.pred, l.arg)  BY <1>1, <2>1, Zenon DEF OpIs
  <2>3. i > 1 => Content[i - 1].value \notin l.pred
    <3>1. i > 1 => i # 1  BY <1>2
    <3>2. QED  BY <1>2, <1>7, <3>1
  <2>4. l.pred = {} => i = Len(Content) + 1  BY <1>1, <1>2, <1>10 DEF FoundOK
  <2>5. Abstract!DoInsert(t, l.pred, l.arg)
    BY <1>2, <1>9, <2>2, <2>3, <2>4, Zenon DEF Abstract!DoInsert, Abstract!Become, Op, Content
  <2>6. l.pred \in Abstract!Preds  BY <1>1, Fields DEF Abstract!Preds, Preds
  <2>7. QED  BY <1>2, <2>5, <2>6, Zenon DEF Abstract!Next
<1>11. CASE l.pc = "insNext"
  <2>1. l.kind = "pushFront" /\ l.pc \notin Ended /\ l.pred = Values
    BY <1>1, <1>11 DEF KindOK, Ended
  <2>2. OpOf(t) = Abstract!PushFront(l.arg)  BY <1>1, <2>1, Zenon DEF OpIs
  <2>3. i = 1
    <3>1. l.prev # HeadNode => i > 1  BY <1>2
    <3>2. QED  BY <1>2, <1>7, <2>1, <3>1
  <2>4. Abstract!InsertAt(1, l.arg)  BY <1>2, <2>3, Zenon
  <2>5. Abstract!DoPushFront(t, l.arg)
    BY <1>9, <2>2, <2>4, Zenon DEF Abstract!DoPushFront, Abstract!Become, Op
  <2>6. QED  BY <1>2, <2>5, Zenon DEF Abstract!Next
<1>12. QED  BY <1>3, <1>10, <1>11

\* A mark takes the element at its place.
LEMMA TakenAt ==
  ASSUME ElemsInv, NEW t \in Threads, Mark(t) \/ ClearMark(t), loc[t].cur \in Present,
         NEW i, i = PlaceOf(loc[t].cur, elems)
  PROVE  /\ i \in 1..Len(Content) /\ Content # <<>>
         /\ Content[i].id = loc[t].cur /\ Content[i].value = val[loc[t].cur]
         /\ \A o : OpOf(t)' = o => Abstract!TakeAt(i, t, o)
         /\ next[loc[t].cur].p = End => i = Len(Content)
<1> DEFINE n == loc[t].cur
<1>1. ListInv /\ ElemsInOrder /\ Step(t)  BY Zenon DEF ElemsInv, FoundInv, Step
<1>2. /\ n \in Nodes /\ val' = val /\ Present' = Present \ {n}
      /\ elems' = RemovedAt(elems, i)
  BY <1>1, MarksIs, Zenon
<1>3. i \in 1..Len(elems) /\ elems[i] = n  BY <1>1, ElementPlace, Zenon
<1>4. elems \in Seq(Nodes) /\ Len(elems) \in Nat  BY <1>1, ElemsAre
<1>5. ContentIs(Content, elems, val) /\ ContentIs(Content', elems', val')
  BY <1>1, Contents, ContentsNext, StepKeeps, ElemsStep, Zenon
<1>6. Content' = RemovedAt(Content, i)
  <2>1. ContentIs(Content', RemovedAt(elems, i), val)  BY <1>2, <1>5, Zenon
  <2>2. ContentIs(RemovedAt(Content, i), RemovedAt(elems, i), val)
    BY <1>3, <1>4, <1>5, ContentRemoved, Zenon
  <2>3. QED  BY <2>1, <2>2, SameContents, Zenon
<1>7. /\ Content \in Seq(Entries) /\ Len(Content) = Len(elems) /\ Content[i] = Entry(elems[i], val)
  BY <1>3, <1>5, Zenon DEF ContentIs
<1>8. next[n].p = End => i = Len(Content)
  <2>1. n \in Linked  BY <1>1, ElemsAre
  <2>2. QED  BY <1>1, <1>7, <2>1, LastElement
<1> HIDE DEF n
<1>9. /\ Content[i].id = n /\ Content[i].value = val[n]
      /\ n \in Present
  BY <1>3, <1>7 DEF Entry, n
<1>10. Content # <<>>  BY <1>3, <1>4, <1>7
<1>11. ASSUME NEW o, OpOf(t)' = o  PROVE Abstract!TakeAt(i, t, o)
  <2>1. /\ Op[t] = OpOf(t)
        /\ Op' = [u \in Threads |-> IF u = t THEN o
                                    ELSE IF Op[u] = Abstract!PopFront(n) THEN Abstract!PopFront(Null)
                                    ELSE Op[u]]
    BY <1>1, <1>2, <1>9, <1>11, OpTakes
  <2>2. Content' = SubSeq(Content, 1, i - 1) \o SubSeq(Content, i + 1, Len(Content))
    BY <1>6, Zenon DEF RemovedAt
  <2>3. Op' = [u \in Threads |-> IF u = t THEN o
                    ELSE IF Op[u] = Abstract!PopFront(Content[i].id) THEN Abstract!PopFront(Null)
                    ELSE Op[u]]
    BY <1>9, <2>1, Zenon
  <2>4. QED  BY <2>2, <2>3, Zenon DEF Abstract!TakeAt, Op, Content
<1>12. i \in 1..Len(Content)  BY <1>3, <1>7
<1>13. QED  BY <1>8, <1>9, <1>10, <1>11, <1>12, Zenon DEF n

\* A removal takes effect when it marks the node.
LEMMA MarkStep ==
  ASSUME ElemsInv, NEW t \in Threads, Mark(t)
  PROVE  Abstract!Next
<1> DEFINE l == loc[t]
           k == loc'[t]
           i == PlaceOf(l.cur, elems)
<1>0. Step(t)  BY Zenon DEF Step
<1>1. /\ ListInv /\ ElemsInOrder /\ l \in Record /\ KindOK(l) /\ FoundOK(l, val)
      /\ OpIs(l, OpOf(t), val[l.cur], Seen(l, Present))
      /\ OpIs(k, OpOf(t)', val'[k.cur], Seen(k, Present'))
      /\ Op[t] = OpOf(t)
  BY <1>0, OwnOp, Zenon
<1>2. l.pc = "mark" /\ l.pc \notin Ended  BY DEF Mark, At, Ended
<1>3. ~next[l.cur].m /\ (l.kind = "popBack" => next[l.cur].p = End)
  BY DEF Mark, CanMark, InCall
<1>4. l.cur \in Present
  <2>1. l.kind # "walk" /\ l.pc \in CurPoints  BY <1>1, <1>2 DEF KindOK, CurPoints, Takers
  <2>2. PointersOK(l, next) /\ GuardsOK(t, l, slot, free, loc)  BY <1>1, Mine, Zenon
  <2>3. l.cur \in Nodes /\ Kept(t, "cur", l.cur, free, loc)
    BY <2>1, <2>2 DEF PointersOK, GuardsOK, Guards
  <2>4. l.cur \in Linked  BY <1>1, <1>3, <2>3, KeptLinked
  <2>5. QED  BY <1>1, <1>3, <2>4, ElemsAre
<1>5. /\ k.kind = l.kind /\ k.pred = l.pred /\ k.cur = l.cur
      /\ k.pc = IF l.kind = "removeAll" THEN "unlink" ELSE "value"
  <2>1. loc \in [Threads -> Record]  BY <1>1, RecordIs, Zenon DEF ListInv
  <2>2. QED  BY <2>1 DEF Mark, Goto, InCall, Record
<1>6. val' = val  BY <1>1, MarksIs
<1>7. /\ i \in 1..Len(Content) /\ Content # <<>>
      /\ Content[i].id = l.cur /\ Content[i].value = val[l.cur]
      /\ \A o : OpOf(t)' = o => Abstract!TakeAt(i, t, o)
      /\ next[l.cur].p = End => i = Len(Content)
  BY <1>4, TakenAt, Zenon
<1> HIDE DEF l, k, i
<1>8. l.kind # "removeAll" => OpOf(t)' = Abstract!Got(Content[i].value)
  <2>1. ASSUME l.kind # "removeAll"  PROVE OpOf(t)' = Abstract!Got(Content[i].value)
    <3>1. k.pc = "value" /\ val'[k.cur] = Content[i].value  BY <1>5, <1>6, <1>7, <2>1
    <3>2. QED  BY <1>1, <3>1, Zenon DEF OpIs
  <2>2. QED  BY <2>1
<1>9. l.pred \in Abstract!Preds  BY <1>1, Fields DEF Abstract!Preds, Preds
<1>10. l.kind # "popBack" => Content[i].value \in l.pred  BY <1>1, <1>2, <1>7 DEF FoundOK
<1>11. CASE l.kind = "remove"
  <2>1. OpOf(t) = Abstract!Remove(l.pred)  BY <1>1, <1>2, <1>11, Zenon DEF OpIs
  <2>2. l.kind # "removeAll" /\ l.kind # "popBack"  BY <1>11
  <2>3. Abstract!TakeAt(i, t, Abstract!Got(Content[i].value))  BY <1>7, <1>8, <2>2, Zenon
  <2>4. Abstract!DoRemove(t, l.pred)
    BY <1>1, <1>7, <1>10, <2>1, <2>2, <2>3, Zenon DEF Abstract!DoRemove, Op, Content
  <2>5. QED  BY <1>9, <2>4, Zenon DEF Abstract!Next
<1>12. CASE l.kind = "removeAll"
  <2>1. OpOf(t) = Abstract!RemoveAll(l.pred)  BY <1>1, <1>2, <1>12, Zenon DEF OpIs
  <2>2. k.pc \notin Ended /\ k.kind = "removeAll"  BY <1>5, <1>12 DEF Ended
  <2>3. OpOf(t)' = OpOf(t)  BY <1>1, <1>5, <2>1, <2>2, Zenon DEF OpIs
  <2>4. Abstract!TakeAt(i, t, Op[t])  BY <1>1, <1>7, <2>3, Zenon
  <2>5. l.kind # "popBack"  BY <1>12
  <2>6. Abstract!DoRemoveAll(t, l.pred)
    BY <1>1, <1>7, <1>10, <2>1, <2>4, <2>5, Zenon DEF Abstract!DoRemoveAll, Op, Content
  <2>7. QED  BY <1>9, <2>6, Zenon DEF Abstract!Next
<1>13. CASE l.kind = "popBack"
  <2>1. OpOf(t) = Abstract!PopBack  BY <1>1, <1>2, <1>13, Zenon DEF OpIs
  <2>2. l.kind # "removeAll" /\ i = Len(Content)  BY <1>3, <1>7, <1>13
  <2>3. Abstract!TakeAt(Len(Content), t, Abstract!Got(Content[Len(Content)].value))
    BY <1>7, <1>8, <2>2, Zenon
  <2>4. Abstract!DoPopBack(t)
    BY <1>1, <1>7, <2>1, <2>3, Zenon DEF Abstract!DoPopBack, Op, Content
  <2>5. QED  BY <2>4, Zenon DEF Abstract!Next
<1>14. CASE l.kind = "popFront"
  <2>1. l.prev = HeadNode  BY <1>1, <1>2, <1>14 DEF FoundOK
  <2>2. Seen(l, Present) = l.cur  BY <1>2, <1>4, <2>1 DEF Seen, SeenPoints
  <2>3. OpOf(t) = Abstract!PopFront(Content[i].id)  BY <1>1, <1>2, <1>7, <1>14, <2>2, Zenon DEF OpIs
  <2>4. l.kind # "removeAll"  BY <1>14
  <2>5. Abstract!TakeAt(i, t, Abstract!Got(Content[i].value))  BY <1>7, <1>8, <2>4, Zenon
  <2>6. Abstract!DoPopFront(t)
    BY <1>1, <1>7, <2>3, <2>5, Zenon DEF Abstract!DoPopFront, Op, Content
  <2>7. QED  BY <2>6, Zenon DEF Abstract!Next
<1>15. QED  BY <1>1, <1>2, <1>11, <1>12, <1>13, <1>14 DEF KindOK, Takers

\* clear takes its elements one by one.
LEMMA ClearMarkStep ==
  ASSUME ElemsInv, NEW t \in Threads, ClearMark(t)
  PROVE  Abstract!Next \/ UNCHANGED <<Content, Op>>
<1> DEFINE l == loc[t]
           k == loc'[t]
           i == PlaceOf(l.cur, elems)
<1>0. Step(t)  BY Zenon DEF Step
<1>1. /\ ListInv /\ ElemsInOrder /\ l \in Record /\ KindOK(l)
      /\ OpIs(l, OpOf(t), val[l.cur], Seen(l, Present))
      /\ OpIs(k, OpOf(t)', val'[k.cur], Seen(k, Present'))
      /\ Op[t] = OpOf(t)
  BY <1>0, OwnOp, Zenon
<1>2. l.pc = "set"  BY DEF ClearMark, At
<1>3. l.kind = "clear" /\ l.pc \notin Ended  BY <1>1, <1>2 DEF KindOK, ClearPoints, Ended
<1>4. k.kind = "clear" /\ k.pc \notin Ended
  <2>1. loc \in [Threads -> Record]  BY <1>1, RecordIs, Zenon DEF ListInv
  <2>2. k.kind = l.kind /\ k.pc = "head"  BY <2>1 DEF ClearMark, Goto, Record
  <2>3. QED  BY <1>3, <2>2 DEF Ended
<1>5. /\ Present' = Present \ {l.cur}
      /\ l.cur \notin Present => elems' = elems
  BY <1>1, MarksIs
<1>6. OpOf(t) = Abstract!RemoveAll(Values) /\ OpOf(t)' = Abstract!RemoveAll(Values)
  <2> HIDE DEF l, k
  <2>1. QED  BY <1>1, <1>3, <1>4, Zenon DEF OpIs
<1>7. CASE l.cur \in Present
  <2>1. /\ i \in 1..Len(Content) /\ Content[i].value = val[l.cur]
        /\ \A o : OpOf(t)' = o => Abstract!TakeAt(i, t, o)
    BY <1>7, TakenAt, Zenon
  <2>2. val[l.cur] \in Values  BY <1>1, <1>2, CurHasValue
  <2> HIDE DEF l, k, i
  <2>3. Content[i].value \in Values  BY <2>1, <2>2
  <2>4. Abstract!TakeAt(i, t, Op[t])  BY <1>1, <1>6, <2>1, Zenon
  <2>5. Abstract!DoRemoveAll(t, Values)
    BY <1>1, <1>6, <2>1, <2>3, <2>4, Zenon DEF Abstract!DoRemoveAll, Op, Content
  <2>6. Values \in Abstract!Preds  BY DEF Abstract!Preds
  <2>7. QED  BY <2>5, <2>6, Zenon DEF Abstract!Next
<1>8. CASE l.cur \notin Present
  <2>1. Present' = Present /\ elems' = elems  BY <1>5, <1>8
  <2>2. Content' = Content  BY <1>0, <1>1, <2>1, ContentSame, Zenon
  <2>3. Op' = [Op EXCEPT ![t] = OpOf(t)']  BY <1>0, <1>1, <2>1, OpBecomes, Zenon
  <2>4. Op' = [Op EXCEPT ![t] = Op[t]]  BY <1>1, <1>6, <2>3, Zenon
  <2>5. Op \in [Threads -> {Op[u] : u \in Threads}]  BY DEF Op
  <2>6. Op' = Op  BY <2>4, <2>5
  <2>7. QED  BY <2>2, <2>6, Zenon
<1>9. QED  BY <1>7, <1>8

\* The step at which a call begins; that of a walk is a stutter.
LEMMA CallStep ==
  ASSUME ElemsInv, NEW t \in Threads, NEW kind \in Kinds, Call(t, kind)
  PROVE  Abstract!Next \/ UNCHANGED <<Content, Op>>
<1> DEFINE l == loc[t]
           k == loc'[t]
<1>1. ListInv /\ ElemsInOrder /\ FoundOK(l, val)  BY Zenon DEF ElemsInv, FoundInv, FoundKept
<1>2. /\ OpIs(l, OpOf(t), val[l.cur], Seen(l, Present))
      /\ OpIs(k, OpOf(t)', val'[k.cur], Seen(k, Present'))
      /\ Op[t] = OpOf(t)
  BY OpOfIs, OpOfNext DEF Op
<1>3. l.pc = "idle" /\ UNCHANGED <<next, val, lst, elems>>  BY Zenon DEF Call, At, memVars
<1>4. Present' = Present  BY <1>1, <1>3, ElemsSame
<1>5. Content' = Content  BY <1>3 DEF Content
<1>6. PICK r \in Requests(kind) :
        loc' = [loc EXCEPT ![t].pc = IF kind \in {"insert", "pushFront"} THEN "pool" ELSE "load",
                           ![t].kind = kind, ![t].arg = r.arg, ![t].pred = r.pred]
  BY Zenon DEF Call
<1>7. k.pc \in {"pool", "load"} /\ k.kind = kind /\ k.arg = r.arg /\ k.pred = r.pred
  <2>1. loc \in [Threads -> Record] /\ l \in Record  BY <1>1, RecordIs, Mine, Zenon DEF ListInv
  <2>2. QED  BY <1>6, <2>1 DEF Record
<1>8. /\ r.pred \in Abstract!Preds
      /\ kind \in {"insert", "pushFront"} => r.arg \in Values
  BY RequestTypes DEF Abstract!Preds, Preds, Inserters
<1>9. ASSUME NEW o, OpOf(t)' = o  PROVE Op' = [Op EXCEPT ![t] = o]
  BY <1>1, <1>4, <1>9, OpBecomes, Zenon
<1> HIDE DEF l, k
<1>10. OpOf(t) = Abstract!Idle  BY <1>2, <1>3, Zenon DEF OpIs
<1>11. k.pc \notin Ended /\ k.pc \notin SeenPoints  BY <1>7 DEF Ended, SeenPoints
<1>12. ASSUME NEW o, OpOf(t)' = o  PROVE Abstract!Call(t, o)
  BY <1>2, <1>5, <1>9, <1>10, <1>12, Zenon DEF Abstract!Call, Abstract!Become, Op, Content
<1>13. CASE kind = "walk"
  <2>1. OpOf(t)' = OpOf(t)  BY <1>2, <1>7, <1>10, <1>11, <1>13, Zenon DEF OpIs
  <2>2. Op' = [Op EXCEPT ![t] = Op[t]]  BY <1>2, <1>9, <2>1, Zenon
  <2>3. Op \in [Threads -> {Op[u] : u \in Threads}]  BY DEF Op
  <2>4. Op' = Op  BY <2>2, <2>3
  <2>5. QED  BY <1>5, <2>4, Zenon
<1>14. CASE kind = "clear"
  <2>1. Abstract!Call(t, Abstract!RemoveAll(Values))
    BY <1>2, <1>7, <1>11, <1>12, <1>14, Zenon DEF OpIs
  <2>2. Values \in Abstract!Preds  BY DEF Abstract!Preds
  <2>3. QED  BY <2>1, <2>2, Zenon DEF Abstract!Next
<1>15. CASE kind = "pushFront"
  <2>1. Abstract!Call(t, Abstract!PushFront(r.arg)) /\ r.arg \in Values
    BY <1>2, <1>7, <1>8, <1>11, <1>12, <1>15, Zenon DEF OpIs
  <2>2. QED  BY <2>1, Zenon DEF Abstract!Next
<1>16. CASE kind = "insert"
  <2>1. Abstract!Call(t, Abstract!Insert(r.pred, r.arg)) /\ r.arg \in Values
    BY <1>2, <1>7, <1>8, <1>11, <1>12, <1>16, Zenon DEF OpIs
  <2>2. QED  BY <1>8, <2>1, Zenon DEF Abstract!Next
<1>17. CASE kind = "remove"
  <2>1. Abstract!Call(t, Abstract!Remove(r.pred))  BY <1>2, <1>7, <1>11, <1>12, <1>17, Zenon DEF OpIs
  <2>2. QED  BY <1>8, <2>1, Zenon DEF Abstract!Next
<1>18. CASE kind = "removeAll"
  <2>1. Abstract!Call(t, Abstract!RemoveAll(r.pred))  BY <1>2, <1>7, <1>11, <1>12, <1>18, Zenon DEF OpIs
  <2>2. QED  BY <1>8, <2>1, Zenon DEF Abstract!Next
<1>19. CASE kind = "popBack"
  <2>1. Abstract!Call(t, Abstract!PopBack)  BY <1>2, <1>7, <1>11, <1>12, <1>19, Zenon DEF OpIs
  <2>2. QED  BY <2>1, Zenon DEF Abstract!Next
<1>20. CASE kind = "popFront"
  <2>1. Seen(k, Present') = Null  BY <1>11 DEF Seen
  <2>2. OpOf(t)' = Abstract!PopFront(Null)  BY <1>2, <1>7, <1>11, <1>20, <2>1, Zenon DEF OpIs
  <2>3. Abstract!Call(t, Abstract!PopFront(Null))  BY <1>12, <2>2, Zenon
  <2>4. QED  BY <2>3, Zenon DEF Abstract!Next
<1>21. QED  BY <1>13, <1>14, <1>15, <1>16, <1>17, <1>18, <1>19, <1>20 DEF Kinds

\* The list begins with what the constructor was given, and no thread is in a call.
LEMMA RefinementInit == ASSUME Init, ListInv, ElemsInOrder  PROVE Abstract!Init
<1>1. Content \in Seq([id : Nodes, value : Values])  BY Contents, Zenon DEF ContentIs, Entries
<1>2. ASSUME NEW t \in Threads  PROVE OpOf(t) = Abstract!Idle
  <2>1. loc[t] = Idle  BY DEF Init
  <2>2. loc[t].pc = "idle"  BY <2>1 DEF Idle
  <2>3. OpIs(loc[t], OpOf(t), val[loc[t].cur], Seen(loc[t], Present))  BY OpOfIs
  <2>4. QED  BY <2>2, <2>3, Zenon DEF OpIs
<1>3. Op = [t \in Threads |-> Abstract!Idle]  BY <1>2, Zenon DEF Op
<1>4. QED  BY <1>1, <1>3, Zenon DEF Abstract!Init, Op, Content

\* Every step of the list is one of AtomicList, or a stutter.
LEMMA RefinementStep ==
  ASSUME ElemsInv, [Next]_vars
  PROVE  Abstract!Next \/ UNCHANGED <<Content, Op>>
<1>1. ASSUME NEW t \in Threads, Step(t)  PROVE Abstract!Next \/ UNCHANGED <<Content, Op>>
  <2>1. CASE loc[t].pc \in Ended  BY <1>1, <2>1, ReturnSteps
  <2>2. CASE loc[t].pc \notin Ended /\ ~(InsertNode(t) \/ Mark(t) \/ ClearMark(t))
    BY <1>1, <2>2, SearchSteps, Zenon DEF Steady
  <2>3. CASE InsertNode(t)  BY <2>3, InsertStep
  <2>4. CASE Mark(t)  BY <2>4, MarkStep
  <2>5. CASE ClearMark(t)  BY <2>5, ClearMarkStep
  <2>6. QED  BY <2>1, <2>2, <2>3, <2>4, <2>5
<1>2. ASSUME NEW t \in Threads, NEW kind \in Kinds, Call(t, kind)
      PROVE  Abstract!Next \/ UNCHANGED <<Content, Op>>
  BY <1>2, CallStep
<1>3. ASSUME UNCHANGED vars  PROVE UNCHANGED <<Content, Op>>
  <2>1. UNCHANGED <<next, val, loc, lst, elems>>  BY <1>3 DEF vars, memVars, histVars
  <2>2. Content' = Content  BY <2>1 DEF Content
  <2>3. Present' = Present  BY <2>1 DEF Present
  <2>4. Op' = Op  BY <2>1, <2>3 DEF Op, OpOf, SeenFirst
  <2>5. QED  BY <2>2, <2>4, Zenon
<1>4. QED  BY <1>1, <1>2, <1>3, Zenon DEF Next
-----------------------------------------------------------------------------
(* The words that the links are.                                           *)

\* LfList takes a link for a record of a pointer and a mark.
Word == INSTANCE MarkedLink

\* The lowest bit of a word
LEMMA LowestBit ==
  /\ \A p \in Word!Pointers : /\ p \in Nat /\ Word!IsMarked(p) = FALSE /\ Word!SetMark(p) = p + 1 /\ Word!UnsetMark(p) = p
                             /\ Word!IsMarked(p + 1) = TRUE /\ Word!UnsetMark(p + 1) = p
  /\ \A word \in Nat : /\ Word!UnsetMark(word) \in Word!Pointers
                       /\ \/ Word!IsMarked(word) = FALSE /\ word = Word!UnsetMark(word)
                          \/ Word!IsMarked(word) = TRUE /\ word = Word!UnsetMark(word) + 1
<1>1. ASSUME NEW p \in Word!Pointers
      PROVE  /\ p \in Nat /\ Word!IsMarked(p) = FALSE /\ Word!SetMark(p) = p + 1 /\ Word!UnsetMark(p) = p
             /\ Word!IsMarked(p + 1) = TRUE /\ Word!UnsetMark(p + 1) = p
  <2>1. p \in Nat /\ (p % 2) = 0 /\ ((p + 1) % 2) = 1  BY DEF Word!Pointers
  <2>2. QED  BY <2>1 DEF Word!IsMarked, Word!SetMark, Word!UnsetMark
<1>2. ASSUME NEW word \in Nat
      PROVE  /\ Word!UnsetMark(word) \in Word!Pointers
             /\ \/ Word!IsMarked(word) = FALSE /\ word = Word!UnsetMark(word)
                \/ Word!IsMarked(word) = TRUE /\ word = Word!UnsetMark(word) + 1
  <2>1. (word % 2) \in {0, 1}  OBVIOUS
  <2>2. (word \div 2) \in Nat /\ word - (word % 2) = 2 * (word \div 2)  OBVIOUS
  <2>3. Word!UnsetMark(word) \in Word!Pointers  BY <2>2 DEF Word!UnsetMark, Word!Pointers
  <2>4. CASE (word % 2) = 0
    <3>1. word = Word!UnsetMark(word)  BY <2>4 DEF Word!UnsetMark
    <3>2. Word!IsMarked(word) = FALSE  BY <2>4 DEF Word!IsMarked
    <3>3. QED  BY <2>3, <3>1, <3>2, Zenon
  <2>5. CASE (word % 2) = 1
    <3>1. word = Word!UnsetMark(word) + 1  BY <2>5 DEF Word!UnsetMark
    <3>2. Word!IsMarked(word) = TRUE  BY <2>5 DEF Word!IsMarked
    <3>3. QED  BY <2>3, <3>1, <3>2, Zenon
  <2>6. QED  BY <2>1, <2>4, <2>5, Zenon
<1>3. QED  BY <1>1, <1>2, Zenon

\* A pointer and a mark come back from the word that they were put into, and a
\* word from what is taken out of it: a link holds no more and no less than both.
THEOREM UnzipOfZip ==
  /\ \A p \in Word!Pointers : /\ Word!Unzip(Word!Zip(p, FALSE)) = [p |-> p, mark |-> FALSE]
                             /\ Word!Unzip(Word!Zip(p, TRUE)) = [p |-> p, mark |-> TRUE]
  /\ \A word \in Nat : Word!Unzip(word).p \in Word!Pointers /\ Word!Zip(Word!Unzip(word).p, Word!Unzip(word).mark) = word
<1>1. ASSUME NEW p \in Word!Pointers
      PROVE  /\ Word!Unzip(Word!Zip(p, FALSE)) = [p |-> p, mark |-> FALSE]
             /\ Word!Unzip(Word!Zip(p, TRUE)) = [p |-> p, mark |-> TRUE]
  <2>1. Word!Zip(p, FALSE) = p /\ Word!Zip(p, TRUE) = p + 1  BY LowestBit DEF Word!Zip
  <2>2. /\ Word!IsMarked(p) = FALSE /\ Word!UnsetMark(p) = p
        /\ Word!IsMarked(p + 1) = TRUE /\ Word!UnsetMark(p + 1) = p
    BY LowestBit, Zenon
  <2>3. QED  BY <2>1, <2>2, Zenon DEF Word!Unzip
<1>2. ASSUME NEW word \in Nat
      PROVE  Word!Unzip(word).p \in Word!Pointers /\ Word!Zip(Word!Unzip(word).p, Word!Unzip(word).mark) = word
  <2>1. Word!Unzip(word).p = Word!UnsetMark(word) /\ Word!Unzip(word).mark = Word!IsMarked(word)  BY DEF Word!Unzip
  <2>2. Word!UnsetMark(word) \in Word!Pointers /\ Word!SetMark(Word!UnsetMark(word)) = Word!UnsetMark(word) + 1  BY LowestBit
  <2>3. CASE Word!IsMarked(word) = FALSE /\ word = Word!UnsetMark(word)  BY <2>1, <2>2, <2>3 DEF Word!Zip
  <2>4. CASE Word!IsMarked(word) = TRUE /\ word = Word!UnsetMark(word) + 1  BY <2>1, <2>2, <2>4 DEF Word!Zip
  <2>5. \/ Word!IsMarked(word) = FALSE /\ word = Word!UnsetMark(word)
        \/ Word!IsMarked(word) = TRUE /\ word = Word!UnsetMark(word) + 1
    BY LowestBit, Zenon
  <2>6. QED  BY <2>3, <2>4, <2>5, Zenon
<1>3. QED  BY <1>1, <1>2, Zenon

\* The comment of the handler (inc/alconcurrent/hazard_ptr.hpp:684): no exchange
\* succeeds on a marked link, whatever the caller thinks that the mark is.  The
\* others succeed on the expected pointer, and leave the desired one unmarked or
\* the same one marked; the caller of a failed one learns what is in the link.
THEOREM ExchangeOfLink ==
  ASSUME NEW word \in Nat, NEW p \in Word!Pointers, NEW m \in BOOLEAN, NEW d \in Word!Pointers,
         NEW expected, expected = [p |-> p, mark |-> m]
  PROVE  LET there == Word!Unzip(word)
             s == Word!StrongSetMark(word, expected)
             a == Word!Exchange1(word, expected, d)
             b == Word!Exchange2(word, expected, d)
         IN IF there = [p |-> p, mark |-> FALSE]
            THEN /\ s.ret /\ Word!Unzip(s.word) = [p |-> p, mark |-> TRUE]
                 /\ a.ret /\ Word!Unzip(a.word) = [p |-> d, mark |-> FALSE] /\ a.expected = Word!Unzip(a.word)
                 /\ b.ret /\ Word!Unzip(b.word) = [p |-> d, mark |-> FALSE] /\ b.expected = expected
            ELSE \A r \in {s, a, b} : ~r.ret /\ r.word = word /\ r.expected = there
<1>1. expected.p = p /\ Word!Zip(expected.p, FALSE) = p  BY DEF Word!Zip
<1>2. Word!Unzip(word) = [p |-> p, mark |-> FALSE] <=> word = p
  <2>1. Word!Unzip(word).p = Word!UnsetMark(word) /\ Word!Unzip(word).mark = Word!IsMarked(word)  BY DEF Word!Unzip
  <2>2. ASSUME Word!Unzip(word) = [p |-> p, mark |-> FALSE]  PROVE word = p
    <3>1. Word!Unzip(word).p = p /\ Word!Unzip(word).mark = FALSE  BY <2>2
    <3>3. Word!UnsetMark(word) = p /\ Word!IsMarked(word) = FALSE  BY <2>1, <3>1, Zenon
    <3>2. QED  BY <3>3, LowestBit
  <2>3. ASSUME word = p  PROVE Word!Unzip(word) = [p |-> p, mark |-> FALSE]
    <3>1. Word!IsMarked(p) = FALSE /\ Word!UnsetMark(p) = p  BY LowestBit, Zenon
    <3>2. QED  BY <2>3, <3>1, Zenon DEF Word!Unzip
  <2>4. QED  BY <2>2, <2>3
<1>3. CASE word = p
  <2> DEFINE zp == Word!Zip(p, TRUE)
             zd == Word!Zip(d, FALSE)
             s == Word!StrongSetMark(word, expected)
             a == Word!Exchange1(word, expected, d)
             b == Word!Exchange2(word, expected, d)
  <2>1. s = [ret |-> TRUE, word |-> zp, expected |-> expected]
    BY <1>1, <1>3, Zenon DEF Word!StrongSetMark
  <2>2. a = [ret |-> TRUE, word |-> zd, expected |-> [p |-> d, mark |-> FALSE]]
    BY <1>1, <1>3, Zenon DEF Word!Exchange1
  <2>3. b = [ret |-> TRUE, word |-> zd, expected |-> expected]
    BY <1>1, <1>3, Zenon DEF Word!Exchange2
  <2>4. /\ Word!Unzip(zp) = [p |-> p, mark |-> TRUE]
        /\ Word!Unzip(zd) = [p |-> d, mark |-> FALSE]
    BY UnzipOfZip, Zenon
  <2> HIDE DEF zp, zd, s, a, b
  <2>5. /\ s.ret = TRUE /\ s.word = zp
        /\ a.ret = TRUE /\ a.word = zd /\ a.expected = [p |-> d, mark |-> FALSE]
        /\ b.ret = TRUE /\ b.word = zd /\ b.expected = expected
    BY <2>1, <2>2, <2>3
  <2>6. QED  BY <1>2, <1>3, <2>4, <2>5, Zenon DEF s, a, b
<1>4. CASE word # p
  <2>1. Word!StrongSetMark(word, expected) = Word!Fails(word)  BY <1>1, <1>4, Zenon DEF Word!StrongSetMark
  <2>2. Word!Exchange1(word, expected, d) = Word!Fails(word)  BY <1>1, <1>4, Zenon DEF Word!Exchange1
  <2>3. Word!Exchange2(word, expected, d) = Word!Fails(word)  BY <1>1, <1>4, Zenon DEF Word!Exchange2
  <2>4. ~Word!Fails(word).ret /\ Word!Fails(word).word = word /\ Word!Fails(word).expected = Word!Unzip(word)
    BY DEF Word!Fails
  <2>5. QED  BY <1>2, <1>4, <2>1, <2>2, <2>3, <2>4, Zenon
<1>5. QED  BY <1>3, <1>4

-----------------------------------------------------------------------------
(* The theorems.                                                           *)

\* What a search or a removal reads and changes has not gone back to the pool:
\* the hazard pointers on the node, the one before and the one after it keep
\* them (find_if_impl and clear_impl of od_lockfree_list.cpp), although a node
\* that is verified may have been taken out of the list already.  It needs no
\* order in the list, only that clear runs beside no call that works behind
\* the first node.
THEOREM ReclamationIsSafe == ASSUME ClearIsAlone  PROVE Spec => []NoUseAfterReclaim
<1>1. ListInv => NoUseAfterReclaim
  BY ReadsAreGuarded, Zenon DEF NoUseAfterReclaim, InCall
<1>2. QED  BY <1>1, AlwaysListInv, PTL

\* The links lead through the linked nodes to the sentinel, whatever the values
\* and the predicates are, and no node is lost or in two places: no insertion
\* is lost with a predecessor that is being removed, and no node is unlinked
\* twice.
THEOREM ChainIsKept == ASSUME ClearIsAlone  PROVE Spec => [](TypeOK /\ ChainIsList /\ OnePlace)
<1>1. ListInv => TypeOK /\ ChainIsList /\ OnePlace  BY NodesInOnePlace, Zenon DEF ListInv
<1>2. QED  BY <1>1, AlwaysListInv, PTL

\* The list is sound at every step of all calls, and a sorted one stays sorted:
\* the insertion's compare_exchange takes effect only where the value belongs,
\* whoever inserts and removes there after the search.
THEOREM ListStaysSound == ASSUME ClearIsAlone, SortedUse  PROVE Spec => []ListIsSound
<1> DEFINE Invariant == SortedInv /\ ElemsInOrder
<1>1. Init => Invariant
  <2>1. ASSUME Init  PROVE Invariant  BY <2>1, SortedInit, ElemsInit, Zenon DEF SortedInv, FoundInv
  <2>2. QED  BY <2>1
<1>2. Invariant /\ [Next]_vars => Invariant'
  <2>1. ASSUME Invariant, [Next]_vars  PROVE Invariant'
    BY <2>1, SortedNext, ElemsNext, Zenon DEF SortedInv, FoundInv
  <2>2. QED  BY <2>1, Zenon
<1>3. Invariant => ListIsSound
  <2>1. ASSUME SortedInv  PROVE StaysSorted
    BY <2>1 DEF SortedInv, InOrder, Ordered, StaysSorted
  <2>2. QED  BY <2>1, NodesInOnePlace, Zenon DEF SortedInv, FoundInv, ListInv, ListIsSound
<1> HIDE DEF Invariant
<1>4. QED  BY <1>1, <1>2, <1>3, PTL DEF Spec

\* The list implements AtomicList: an insertion takes effect at its
\* compare_exchange, behind an element that its predicate refuses, and a removal
\* when it sets the mark, each once and between its call and its return; a call
\* that returns nothing has found the list empty at some moment.  Neither which
\* predicates are used nor in which order the values are matters.
THEOREM ListIsLinearizable == ASSUME ClearIsAlone  PROVE Spec => IsAtomicList
<1>1. Init => ElemsInv /\ Abstract!Init
  <2>1. ASSUME Init  PROVE ElemsInv /\ Abstract!Init
    <3>1. FoundInv /\ ListInv  BY <2>1, FoundInit, Zenon DEF FoundInv
    <3>2. ElemsInOrder  BY <2>1, <3>1, ElemsInit, Zenon
    <3>3. Abstract!Init  BY <2>1, <3>1, <3>2, RefinementInit, Zenon
    <3>4. QED  BY <3>1, <3>2, <3>3, Zenon DEF ElemsInv
  <2>2. QED  BY <2>1, Zenon
<1>2. ElemsInv /\ [Next]_vars => ElemsInv'
  <2>1. ASSUME ElemsInv, [Next]_vars  PROVE ElemsInv'
    BY <2>1, FoundNext, ElemsNext, Zenon DEF ElemsInv, FoundInv
  <2>2. QED  BY <2>1, Zenon
<1>3. ElemsInv /\ [Next]_vars => [Abstract!Next]_Abstract!vars
  <2>1. ASSUME ElemsInv, [Next]_vars  PROVE [Abstract!Next]_<<Content, Op>>
    BY <2>1, RefinementStep
  <2>2. QED  BY <2>1, Zenon DEF Abstract!vars, Content, Op
<1>4. QED  BY <1>1, <1>2, <1>3, PTL DEF Spec, IsAtomicList, Abstract!Spec
=============================================================================
