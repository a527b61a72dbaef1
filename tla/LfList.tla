--------------------------------- MODULE LfList ---------------------------------
(***************************************************************************)
(* lockfree_list (inc/alconcurrent/lf_list.hpp) on od_lockfree_list        *)
(* (src/od_lockfree_list.cpp).                                             *)
(*                                                                         *)
(* A node is removed in two steps: a mark in its link, after which the     *)
(* link does not change any more, and the unlinking from its predecessor,  *)
(* by whichever search comes by.  A search holds hazard pointers on the    *)
(* node it stands on, the one before and the one after it.  Nodes go back  *)
(* to the node pool as in LfStack.                                         *)
(*                                                                         *)
(* One action is one access to shared memory with the thread-local work    *)
(* around it.  Memory is sequentially consistent.  No list is moved or     *)
(* swapped, so that a search meets no sentinel but the list's own.         *)
(***************************************************************************)
EXTENDS Integers, Sequences, FiniteSets

CONSTANTS
  Threads,  \* the threads that use the list
  Nodes,    \* the nodes, allocated or not
  Values,   \* the values in the list
  HeadNode, \* head_
  End,      \* sentinel_
  Null,     \* nullptr, no value
  Start,    \* the values in the list at first
  Inserts,  \* what insert is called with: a predicate and a value
  Fronts,   \* the values that push_front is called with
  Removes,  \* the predicates that remove_one_if and remove_all_if are called with
  Calls     \* bound: how many calls of each kind each thread begins, in each history

Kinds == {"pushFront", "insert", "remove", "removeAll", "popFront", "popBack", "walk", "clear"}

\* A predicate is the set of the values it accepts.
Preds == SUBSET Values

ASSUME ListAssumption ==
  /\ {HeadNode, End, Null} \cap Nodes = {}
  /\ HeadNode # End /\ HeadNode # Null /\ End # Null
  /\ Null \notin Values
  /\ Start \in Seq(Values)
  /\ Inserts \subseteq [pred : Preds, arg : Values]
  /\ Fronts \subseteq Values
  /\ Removes \subseteq Preds
  /\ Calls \subseteq [Threads -> [Kinds -> Nat]]

\* The hazard pointers of a search.  What a call still holds from its search
\* before is left out: it only keeps a node from being used again for longer.
Uses == {"prev", "cur", "nxt"}
Slots == Threads \X Uses

\* A thread scans for a node after it has reset its hazard pointer on it.
SlotsOfOthers(t) == (Threads \ {t}) \X Uses

VARIABLES
  next,    \* hph_next_ of each node and of head_: a pointer and a mark
  val,     \* v_ of each node
  slot,    \* the pointer in each slot
  free,    \* nodes the pool hands out, and fresh ones
  limbo,   \* tl_odn_list_still_in_hazard of each thread
  loc,     \* control point and locals of each thread
  calls,   \* bound: calls left
  lst,     \* history: the nodes that are linked, the marked ones included
  elems,   \* history: the nodes that are linked and not marked
  stay     \* history: what a for_each must still visit, there since it began

memVars == <<next, val>>
poolVars == <<free, limbo>>
histVars == <<lst, elems, stay>>
vars == <<memVars, slot, poolVars, loc, calls, histVars>>

Holders == Nodes \cup {HeadNode}
Pointers == Nodes \cup {HeadNode, End, Null}
Link(p) == [p |-> p, m |-> FALSE]
Marked(l) == [l EXCEPT !.m = TRUE]

Idle == [pc |-> "idle", kind |-> "walk",
         arg  |-> Null,  \* cont_arg
         pred |-> {},    \* pred
         node |-> Null,  \* p_new_node
         prev |-> Null,  \* hp_prev_node_w_m
         cur  |-> Null,  \* hp_curr_node_w_m
         nxt  |-> Null,  \* hp_next_node_w_m
         mark |-> FALSE, \* hp_next_node_w_m.mark_
         chk  |-> Null,  \* the node scanned for
         ret  |-> Null,  \* the value returned
         unseen |-> {}]  \* slots the scan has still to look at

Init ==
  /\ \E s \in [1..Len(Start) -> Nodes] :
       /\ \A i, j \in DOMAIN s : s[i] = s[j] => i = j
       /\ lst = s /\ elems = s
       /\ free = Nodes \ {s[i] : i \in DOMAIN s}
       /\ next = [n \in Holders |->
                    IF Start # <<>> /\ n = HeadNode THEN Link(s[1])
                    ELSE IF \E i \in DOMAIN s : s[i] = n /\ i < Len(Start)
                    THEN Link(s[1 + CHOOSE i \in DOMAIN s : s[i] = n])
                    ELSE IF n = HeadNode \/ n \notin free THEN Link(End) ELSE Link(Null)]
       /\ val = [n \in Nodes |-> IF n \in free THEN Null
                                 ELSE Start[CHOOSE i \in DOMAIN s : s[i] = n]]
  /\ slot = [s \in Slots |-> Null]
  /\ limbo = [t \in Threads |-> {}]
  /\ loc = [t \in Threads |-> Idle]
  /\ calls \in Calls
  /\ stay = [t \in Threads |-> {}]

At(t, p) == loc[t].pc = p
InCall(t, kind) == loc[t].kind = kind
Goto(t, p) == loc' = [loc EXCEPT ![t].pc = p]
SetSlot(t, use, p) == slot' = [slot EXCEPT ![<<t, use>>] = p]

\* The nodes of the list: linked and not marked.
Present == {n \in Nodes : (\E i \in 1..Len(lst) : lst[i] = n) /\ ~next[n].m}
PlaceOf(p, s) == IF p = HeadNode THEN 0 ELSE CHOOSE j \in 1..Len(s) : s[j] = p
RemovedAt(s, i) == SubSeq(s, 1, i - 1) \o SubSeq(s, i + 1, Len(s))
InsertedAt(s, i, n) == SubSeq(s, 1, i) \o <<n>> \o SubSeq(s, i + 1, Len(s))
Unlink(n) == lst' = RemovedAt(lst, PlaceOf(n, lst)) /\ UNCHANGED elems
LinkBehind(p, n) ==
  /\ lst' = InsertedAt(lst, PlaceOf(p, lst), n)
  /\ elems' = InsertedAt(elems, PlaceOf(p, elems), n)

\* What the calls of each kind are made with.
Requests(kind) ==
  CASE kind = "insert" -> Inserts
    [] kind = "pushFront" -> [pred : {Values}, arg : Fronts]
    [] kind \in {"remove", "removeAll"} -> [pred : Removes, arg : {Null}]
    [] kind = "popFront" -> {[pred |-> Values, arg |-> Null]}
    [] OTHER -> {[pred |-> {}, arg |-> Null]}

Call(t, kind) ==
  /\ At(t, "idle")
  /\ calls[t][kind] > 0
  /\ calls' = [calls EXCEPT ![t][kind] = @ - 1]
  /\ \E r \in Requests(kind) :
       loc' = [loc EXCEPT ![t].pc = IF kind \in {"insert", "pushFront"} THEN "pool" ELSE "load",
                          ![t].kind = kind, ![t].arg = r.arg, ![t].pred = r.pred]
  /\ stay' = IF kind = "walk" THEN [stay EXCEPT ![t] = Present] ELSE stay
  /\ UNCHANGED <<memVars, slot, poolVars, lst, elems>>

-----------------------------------------------------------------------------
(* A node for the value                                                    *)

Obtain(t, n) ==
  /\ val' = [val EXCEPT ![n] = loc[t].arg]
  /\ loc' = [loc EXCEPT ![t].pc = "load", ![t].node = n, ![t].chk = Null]

TakeFree(t) ==
  /\ At(t, "pool") \/ At(t, "alloc")
  /\ \E n \in free : Obtain(t, n) /\ free' = free \ {n}
  /\ UNCHANGED <<next, slot, limbo, calls, histVars>>

\* try_pop_from_still_in_hazard_list
Recheck(t) ==
  /\ At(t, "pool")
  /\ \E n \in limbo[t] :
       /\ loc' = [loc EXCEPT ![t].pc = "recheck", ![t].chk = n, ![t].unseen = SlotsOfOthers(t)]
       /\ limbo' = [limbo EXCEPT ![t] = @ \ {n}]
  /\ UNCHANGED <<memVars, slot, free, calls, histVars>>

-----------------------------------------------------------------------------
(* The search: find_if_impl, and for_each, which does not unlink           *)

\* The search, or clear, starts again from the head.
Restarted(l) == [l EXCEPT !.pc = "load", !.prev = Null, !.cur = Null, !.nxt = Null,
                          !.mark = FALSE, !.chk = Null, !.unseen = {}]
Restart(t) == loc' = [loc EXCEPT ![t] = Restarted(@)]

Load(t) ==
  /\ At(t, "load")
  /\ loc' = [loc EXCEPT ![t].pc = "slot", ![t].prev = HeadNode, ![t].cur = next[HeadNode].p]
  /\ SetSlot(t, "prev", HeadNode)
  /\ UNCHANGED <<memVars, poolVars, calls, histVars>>

\* clear is done when it comes to the sentinel, verified or not.
ClearDone(t, p) == InCall(t, "clear") /\ p = End

StoreSlot(t) ==
  /\ At(t, "slot")
  /\ SetSlot(t, "cur", loc[t].cur)
  /\ Goto(t, IF ClearDone(t, loc[t].cur) THEN "drop" ELSE "verify")
  /\ UNCHANGED <<memVars, poolVars, calls, histVars>>

Reload(t) ==
  /\ At(t, "verify")
  /\ next[HeadNode].p # loc[t].cur
  /\ SetSlot(t, "cur", next[HeadNode].p)
  /\ loc' = [loc EXCEPT ![t] =
       IF ~InCall(t, "clear") THEN Restarted(@)
       ELSE [@ EXCEPT !.cur = next[HeadNode].p,
                      !.pc = IF ClearDone(t, next[HeadNode].p) THEN "drop" ELSE "verify"]]
  /\ UNCHANGED <<memVars, poolVars, calls, histVars>>

\* Where the call goes on when the search has ended with prev and cur.
\* remove_mark_head and remove_mark_tail search again unless prev is the
\* head when they find nothing, and remove_mark_head whenever it is not.
Found(kind, prev, cur) ==
  CASE kind = "insert" -> "insBefore"
    [] kind = "pushFront" -> "insNext"
    [] kind = "walk" -> "drop"
    [] kind \in {"remove", "removeAll"} -> IF cur = End THEN "drop" ELSE "mark"
    [] kind = "popFront" -> IF prev # HeadNode THEN "load" ELSE IF cur = End THEN "drop" ELSE "mark"
    [] kind = "popBack" -> IF cur # End THEN "mark" ELSE IF prev # HeadNode THEN "load" ELSE "drop"

\* The thread's control after it has come to cur.
Come(kind, prev, cur) == IF cur = End THEN Found(kind, prev, cur) ELSE "read"

Verified(t) ==
  /\ At(t, "verify")
  /\ next[HeadNode].p = loc[t].cur
  /\ Goto(t, IF InCall(t, "clear") THEN "next" ELSE Come(loc[t].kind, HeadNode, loc[t].cur))
  /\ UNCHANGED <<memVars, slot, poolVars, calls, histVars>>

ReadNext(t) ==
  /\ At(t, "read")
  /\ loc' = [loc EXCEPT ![t].pc = "nxtSlot", ![t].nxt = next[loc[t].cur].p,
                        ![t].mark = next[loc[t].cur].m]
  /\ UNCHANGED <<memVars, slot, poolVars, calls, histVars>>

StoreNextSlot(t) ==
  /\ At(t, "nxtSlot")
  /\ SetSlot(t, "nxt", loc[t].nxt)
  /\ Goto(t, "nxtVerify")
  /\ UNCHANGED <<memVars, poolVars, calls, histVars>>

NextChanged(t) ==
  /\ At(t, "nxtVerify")
  /\ next[loc[t].cur] # [p |-> loc[t].nxt, m |-> loc[t].mark]
  /\ SetSlot(t, "nxt", next[loc[t].cur].p)
  /\ Goto(t, "read")
  /\ UNCHANGED <<memVars, poolVars, calls, histVars>>

NextVerified(t) ==
  At(t, "nxtVerify") /\ next[loc[t].cur] = [p |-> loc[t].nxt, m |-> loc[t].mark]

\* swap exchanges which slots the three hazard pointers own.  A slot has the
\* name of its use here, so that its content, and the scans that have still
\* to look at it, follow it to its new name.
Former(use) == CASE use = "prev" -> "cur" [] use = "cur" -> "nxt" [] use = "nxt" -> "prev"
Swapped(t) == [s \in Slots |-> IF s[1] = t THEN slot[<<t, Former(s[2])>>] ELSE slot[s]]
Follow(t, unseen) ==
  {s \in Slots : IF s[1] = t THEN <<t, Former(s[2])>> \in unseen ELSE s \in unseen}

\* On to the next node.  When the search ends there, hp_next_node_w_m is destroyed.
Advance(t) ==
  /\ slot' = IF loc[t].nxt = End THEN [Swapped(t) EXCEPT ![<<t, "nxt">>] = Null] ELSE Swapped(t)
  /\ loc' = [u \in Threads |->
       IF u # t THEN [loc[u] EXCEPT !.unseen = Follow(t, @)]
       ELSE [loc[t] EXCEPT !.prev = loc[t].cur, !.cur = loc[t].nxt, !.nxt = Null, !.mark = FALSE,
                           !.pc = Come(loc[t].kind, loc[t].cur, loc[t].nxt)]]
  /\ UNCHANGED <<memVars, poolVars, calls>>

\* Faulty: the walk takes a removed node for the end of the list.
StoppingVisit(t) ==
  /\ NextVerified(t) /\ InCall(t, "walk")
  /\ stay' = IF loc[t].mark THEN stay ELSE [stay EXCEPT ![t] = @ \ {loc[t].cur}]
  /\ IF loc[t].mark THEN Goto(t, "drop") /\ UNCHANGED <<memVars, slot, poolVars, calls>>
     ELSE Advance(t)
  /\ UNCHANGED <<lst, elems>>

\* for_each applies its function to a node without mark, and passes by any other.
Visit(t) ==
  /\ NextVerified(t) /\ InCall(t, "walk")
  /\ stay' = IF loc[t].mark THEN stay ELSE [stay EXCEPT ![t] = @ \ {loc[t].cur}]
  /\ Advance(t)
  /\ UNCHANGED <<lst, elems>>

SeeMark(t) ==
  /\ NextVerified(t) /\ ~InCall(t, "walk")
  /\ loc[t].mark
  /\ Goto(t, "purge")
  /\ UNCHANGED <<memVars, slot, poolVars, calls, histVars>>

\* The predicate, which in find_tail reads the link, accepts the node.
Try(t) ==
  /\ NextVerified(t) /\ ~InCall(t, "walk")
  /\ ~loc[t].mark
  /\ InCall(t, "popBack") \/ val[loc[t].cur] \in loc[t].pred
  /\ Goto(t, IF InCall(t, "popBack") THEN "test" ELSE "look")
  /\ UNCHANGED <<memVars, slot, poolVars, calls, histVars>>

PassBy(t) ==
  /\ NextVerified(t) /\ ~InCall(t, "walk") /\ ~InCall(t, "popBack")
  /\ ~loc[t].mark
  /\ val[loc[t].cur] \notin loc[t].pred
  /\ Advance(t)
  /\ UNCHANGED histVars

IsTail(t) ==
  /\ At(t, "test")
  /\ next[loc[t].cur] = Link(End)
  /\ Goto(t, "look")
  /\ UNCHANGED <<memVars, slot, poolVars, calls, histVars>>

IsNotTail(t) ==
  /\ At(t, "test")
  /\ next[loc[t].cur] # Link(End)
  /\ Advance(t)
  /\ UNCHANGED histVars

\* The node was accepted but has been marked in the meantime.
MarkedMeanwhile(t) ==
  /\ At(t, "look")
  /\ next[loc[t].cur].m
  /\ Advance(t)
  /\ UNCHANGED histVars

Match(t) ==
  /\ At(t, "look")
  /\ ~next[loc[t].cur].m
  /\ loc' = [loc EXCEPT ![t].pc = Found(loc[t].kind, loc[t].prev, loc[t].cur),
                        ![t].nxt = Null]
  /\ SetSlot(t, "nxt", Null)
  /\ UNCHANGED <<memVars, poolVars, calls, histVars>>

\* Faulty: the mark of the predecessor is not part of the comparison.
MarkBlindSplice(t, new) ==
  /\ next[loc[t].prev].p = loc[t].cur
  /\ next' = [next EXCEPT ![loc[t].prev].p = new]

\* compare_exchange_strong_to_verify_exchange2 on prev's link, which must
\* lead to cur and have no mark.
Splice(t, new) ==
  /\ next[loc[t].prev] = Link(loc[t].cur)
  /\ next' = [next EXCEPT ![loc[t].prev] = Link(new)]

\* The thread has unlinked cur, resets its hazard pointer and hands the node
\* to the pool, which scans for it.
Retire(t) ==
  /\ Unlink(loc[t].cur)
  /\ SetSlot(t, "cur", Null)
  /\ loc' = [loc EXCEPT ![t].pc = "retire", ![t].chk = loc[t].cur, ![t].unseen = SlotsOfOthers(t)]

\* try_to_purge
Purge(t) ==
  /\ At(t, "purge")
  /\ Splice(t, loc[t].nxt)
  /\ Retire(t)
  /\ UNCHANGED <<val, poolVars, calls, stay>>

PurgeFails(t) ==
  /\ At(t, "purge")
  /\ next[loc[t].prev] # Link(loc[t].cur)
  /\ SetSlot(t, "cur", next[loc[t].prev].p)
  /\ Restart(t)
  /\ UNCHANGED <<memVars, poolVars, calls, histVars>>

-----------------------------------------------------------------------------
(* insert_to_before_of_curr and, for push_front, insert_to_next_of_prev    *)

\* The new node's link is set before the compare_exchange.
InsertNode(t) ==
  /\ At(t, "insBefore") \/ At(t, "insNext")
  /\ next[loc[t].prev] = Link(loc[t].cur)
  /\ next' = [next EXCEPT ![loc[t].node] = Link(loc[t].cur), ![loc[t].prev] = Link(loc[t].node)]
  /\ LinkBehind(loc[t].prev, loc[t].node)
  /\ loc' = [loc EXCEPT ![t].pc = "drop", ![t].node = Null]
  /\ UNCHANGED <<val, slot, poolVars, calls, stay>>

\* push_front tries again with what prev leads to now.
InsertAgain(t) ==
  /\ At(t, "insNext")
  /\ next[loc[t].prev] # Link(loc[t].cur) /\ ~next[loc[t].prev].m
  /\ loc' = [loc EXCEPT ![t].cur = next[loc[t].prev].p]
  /\ SetSlot(t, "cur", next[loc[t].prev].p)
  /\ UNCHANGED <<memVars, poolVars, calls, histVars>>

InsertFails(t) ==
  /\ At(t, "insBefore") \/ At(t, "insNext")
  /\ next[loc[t].prev] # Link(loc[t].cur)
  /\ At(t, "insNext") => next[loc[t].prev].m
  /\ SetSlot(t, "cur", next[loc[t].prev].p)
  /\ Restart(t)
  /\ UNCHANGED <<memVars, poolVars, calls, histVars>>

-----------------------------------------------------------------------------
(* Removal                                                                 *)

SetMark(n) ==
  /\ next' = [next EXCEPT ![n] = Marked(@)]
  /\ elems' = IF next[n].m THEN elems ELSE RemovedAt(elems, PlaceOf(n, elems))
  /\ stay' = [u \in Threads |-> stay[u] \ {n}]

\* try_set_mark, which remove_mark_tail calls with the link it expects.
CanMark(t) ==
  LET l == next[loc[t].cur] IN ~l.m /\ (InCall(t, "popBack") => l.p = End)

\* Faulty: a node that has the mark already is taken too.
GreedyMark(t) ==
  /\ At(t, "mark")
  /\ SetMark(loc[t].cur)
  /\ Goto(t, IF InCall(t, "removeAll") THEN "unlink" ELSE "value")
  /\ UNCHANGED <<val, slot, poolVars, calls, lst>>

Mark(t) ==
  /\ At(t, "mark")
  /\ CanMark(t)
  /\ SetMark(loc[t].cur)
  /\ Goto(t, IF InCall(t, "removeAll") THEN "unlink" ELSE "value")
  /\ UNCHANGED <<val, slot, poolVars, calls, lst>>

\* Faulty: the thread tries the same node again.
EndlessMarkFails(t) ==
  /\ At(t, "mark")
  /\ ~CanMark(t)
  /\ Goto(t, "mark")
  /\ UNCHANGED <<memVars, slot, poolVars, calls, histVars>>

MarkFails(t) ==
  /\ At(t, "mark")
  /\ ~CanMark(t)
  /\ Restart(t)
  /\ UNCHANGED <<memVars, slot, poolVars, calls, histVars>>

\* remove, which remove_all_if calls, tries to unlink the node at once.
UnlinkMarked(t) ==
  /\ At(t, "unlink")
  /\ Splice(t, next[loc[t].cur].p)
  /\ Retire(t)
  /\ UNCHANGED <<val, poolVars, calls, stay>>

LeaveMarked(t) ==
  /\ At(t, "unlink")
  /\ next[loc[t].prev] # Link(loc[t].cur)
  /\ Restart(t)
  /\ UNCHANGED <<memVars, slot, poolVars, calls, histVars>>

\* The value is taken from the node, which others may unlink meanwhile.
TakeValue(t) ==
  /\ At(t, "value")
  /\ loc' = [loc EXCEPT ![t].pc = "drop", ![t].ret = val[loc[t].cur]]
  /\ UNCHANGED <<memVars, slot, poolVars, calls, histVars>>

-----------------------------------------------------------------------------
(* clear_impl: read the first node's link, mark the node, move head_ on    *)

ClearReadNext(t) ==
  /\ At(t, "next")
  /\ loc' = [loc EXCEPT ![t].pc = "set", ![t].nxt = next[loc[t].cur].p]
  /\ UNCHANGED <<memVars, slot, poolVars, calls, histVars>>

ClearMark(t) ==
  /\ At(t, "set")
  /\ SetMark(loc[t].cur)
  /\ Goto(t, "head")
  /\ UNCHANGED <<val, slot, poolVars, calls, lst>>

ClearHead(t) ==
  /\ At(t, "head")
  /\ Splice(t, loc[t].nxt)
  /\ Retire(t)
  /\ UNCHANGED <<val, poolVars, calls, stay>>

ClearHeadFails(t) ==
  /\ At(t, "head")
  /\ next[HeadNode] # Link(loc[t].cur)
  /\ SetSlot(t, "cur", next[HeadNode].p)
  /\ loc' = [loc EXCEPT ![t].cur = next[HeadNode].p, ![t].nxt = Null,
                        ![t].pc = IF ClearDone(t, next[HeadNode].p) THEN "drop" ELSE "verify"]
  /\ UNCHANGED <<memVars, poolVars, calls, histVars>>

-----------------------------------------------------------------------------
(* The return, and the scan of od_node_pool                                *)

Drop(t) ==
  /\ At(t, "drop")
  /\ slot' = [s \in Slots |-> IF s[1] = t THEN Null ELSE slot[s]]
  /\ loc' = [loc EXCEPT ![t] = Idle]
  /\ UNCHANGED <<memVars, poolVars, calls, histVars>>

Scanning(t) == At(t, "retire") \/ At(t, "recheck")

\* Faulty: a scan does not look at what the slot holds.
BlindScanSlot(t) ==
  /\ Scanning(t)
  /\ \E s \in loc[t].unseen : loc' = [loc EXCEPT ![t].unseen = @ \ {s}]
  /\ UNCHANGED <<memVars, slot, poolVars, calls, histVars>>

ScanSlot(t) ==
  /\ Scanning(t)
  /\ \E s \in loc[t].unseen :
       /\ slot[s] # loc[t].chk
       /\ loc' = [loc EXCEPT ![t].unseen = @ \ {s}]
  /\ UNCHANGED <<memVars, slot, poolVars, calls, histVars>>

\* Where the call goes on after the scan.
Resumed(l) ==
  IF l.pc = "retire" THEN Restarted(l) ELSE [l EXCEPT !.pc = "alloc", !.chk = Null, !.unseen = {}]

FoundInHazard(t) ==
  /\ Scanning(t)
  /\ \E s \in loc[t].unseen : slot[s] = loc[t].chk
  /\ limbo' = [limbo EXCEPT ![t] = @ \cup {loc[t].chk}]
  /\ loc' = [loc EXCEPT ![t] = Resumed(@)]
  /\ UNCHANGED <<memVars, slot, free, calls, histVars>>

\* No slot held the node: its value is reset and it can be used again.
Reclaim(t) ==
  /\ At(t, "retire")
  /\ loc[t].unseen = {}
  /\ free' = free \cup {loc[t].chk}
  /\ val' = [val EXCEPT ![loc[t].chk] = Null]
  /\ loc' = [loc EXCEPT ![t] = Resumed(@)]
  /\ UNCHANGED <<next, slot, limbo, calls, histVars>>

Reuse(t) ==
  /\ At(t, "recheck")
  /\ loc[t].unseen = {}
  /\ Obtain(t, loc[t].chk)
  /\ UNCHANGED <<next, slot, poolVars, calls, histVars>>

-----------------------------------------------------------------------------
Step(t) ==
  \/ TakeFree(t) \/ Recheck(t) \/ ScanSlot(t) \/ FoundInHazard(t) \/ Reclaim(t) \/ Reuse(t)
  \/ Load(t) \/ StoreSlot(t) \/ Reload(t) \/ Verified(t)
  \/ ReadNext(t) \/ StoreNextSlot(t) \/ NextChanged(t) \/ Visit(t) \/ SeeMark(t)
  \/ Try(t) \/ PassBy(t) \/ IsTail(t) \/ IsNotTail(t) \/ MarkedMeanwhile(t) \/ Match(t)
  \/ Purge(t) \/ PurgeFails(t) \/ InsertNode(t) \/ InsertAgain(t) \/ InsertFails(t)
  \/ Mark(t) \/ MarkFails(t) \/ UnlinkMarked(t) \/ LeaveMarked(t) \/ TakeValue(t)
  \/ ClearReadNext(t) \/ ClearMark(t) \/ ClearHead(t) \/ ClearHeadFails(t) \/ Drop(t)

Next == \E t \in Threads : Step(t) \/ \E kind \in Kinds : Call(t, kind)

Spec == Init /\ [][Next]_vars

\* Every thread keeps running; what it calls next is its own choice.
FairSpec == Spec /\ \A t \in Threads : WF_vars(Step(t))

-----------------------------------------------------------------------------
Points == {"idle", "pool", "alloc", "recheck", "retire", "load", "slot", "verify", "read",
           "nxtSlot", "nxtVerify", "test", "look", "purge", "insBefore", "insNext", "mark",
           "unlink", "value", "next", "set", "head", "drop"}

\* Every variable keeps its type (that of elems is part of ElemsInOrder).
TypeOK ==
  /\ next \in [Holders -> [p : Nodes \cup {End, Null}, m : BOOLEAN]]
  /\ val \in [Nodes -> Values \cup {Null}]
  /\ slot \in [Slots -> Pointers]
  /\ free \subseteq Nodes
  /\ limbo \in [Threads -> SUBSET Nodes]
  /\ loc \in [Threads -> [pc : Points, kind : Kinds, arg : Values \cup {Null}, pred : Preds,
                          node : Nodes \cup {Null}, prev : Holders \cup {Null},
                          cur : Nodes \cup {End, Null}, nxt : Nodes \cup {End, Null},
                          mark : BOOLEAN, chk : Nodes \cup {Null}, ret : Values \cup {Null},
                          unseen : SUBSET Slots]]
  /\ calls \in [Threads -> [Kinds -> Nat]]
  /\ lst \in Seq(Nodes)
  /\ stay \in [Threads -> SUBSET Nodes]

\* The links in memory lead from head_ through the nodes that were inserted
\* and not unlinked to the sentinel: no insertion is lost with a predecessor
\* that was being removed, and no unlinking brings a node back.
ChainIsList ==
  /\ ~next[HeadNode].m
  /\ \A i \in 0..Len(lst) :
       next[IF i = 0 THEN HeadNode ELSE lst[i]].p = IF i = Len(lst) THEN End ELSE lst[i + 1]

\* A node is in one place only: linked, with one thread, in one list of nodes
\* still in hazard, or free; and none is lost.
Linked == {lst[i] : i \in 1..Len(lst)}
Held(t) == {loc[t].node, loc[t].chk} \ {Null}
Places(n) ==
  (IF n \in Linked THEN {<<"list">>} ELSE {}) \cup (IF n \in free THEN {<<"free">>} ELSE {})
    \cup {<<"held", t>> : t \in {u \in Threads : n \in Held(u)}}
    \cup {<<"limbo", t>> : t \in {u \in Threads : n \in limbo[u]}}
OnePlace ==
  /\ Cardinality(Linked) = Len(lst)
  /\ \A n \in Nodes : Cardinality(Places(n)) = 1

\* clear, which only the destructor calls, and calls that change the list
\* behind its first node exclude each other.
Rough == {"insert", "remove", "removeAll", "popBack"}
ClearIsAlone ==
  \A c \in Calls : \/ \A t \in Threads : c[t]["clear"] = 0
                  \/ \A t \in Threads, k \in Rough : c[t][k] = 0

\* The use of a list as a sorted one: insertions are made before the first
\* greater value, and what is pushed in front is smallest.
SortedUse ==
  /\ Values \subseteq Int
  /\ \A i, j \in 1..Len(Start) : i < j => Start[i] <= Start[j]
  /\ \A r \in Inserts : r.pred = {v \in Values : v > r.arg}
  /\ \A f \in Fronts, v \in Values : f <= v

\* Where all insertions are made before the first greater value, the list is
\* sorted, although the node an insertion has found may be removed and others
\* may be inserted there before it takes effect.
StaysSorted ==
  \A i, j \in 1..Len(lst) :
    i < j /\ {lst[i], lst[j]} \subseteq Present => val[lst[i]] <= val[lst[j]]

\* The elements are the nodes that are linked and not marked, in the order in
\* which the links lead through them.
ElemsInOrder ==
  /\ elems \in Seq(Nodes)
  /\ {elems[i] : i \in 1..Len(elems)} = Present
  /\ \A a, b \in 1..Len(elems), i, j \in 1..Len(lst) :
       a < b /\ elems[a] = lst[i] /\ elems[b] = lst[j] => i < j

\* The structure the calls rely on, at every step of all of them.
ListIsSound == TypeOK /\ ChainIsList /\ OnePlace /\ ElemsInOrder /\ StaysSorted

\* The nodes whose link or value a thread reads or changes next.
Reads(t) ==
  CASE loc[t].pc \in {"read", "nxtVerify", "test", "look", "mark", "value", "next", "set"} ->
         {loc[t].cur}
    [] loc[t].pc \in {"purge", "insBefore", "insNext"} -> {loc[t].prev}
    [] loc[t].pc = "unlink" -> {loc[t].cur, loc[t].prev}
    [] OTHER -> {}

\* What a search or a removal touches has not been reclaimed: the node may
\* have been deleted or used again otherwise.
NoUseAfterReclaim ==
  \A t \in Threads : ~InCall(t, "walk") => Reads(t) \cap free = {}

\* for_each applies its function to no node that has been reclaimed: an element
\* is not deleted or used again while a walk refers to it.
WalkIsSafe ==
  \A t \in Threads : InCall(t, "walk") => Reads(t) \cap free = {}

\* for_each visits every node that is in the list from its begin to its end.
WalkMissesNothing ==
  \A t \in Threads : At(t, "drop") /\ InCall(t, "walk") => stay[t] = {}

\* What for_each promises.  Two removals beside a walk can break WalkIsSafe.
WalkIsFaithful == WalkIsSafe /\ WalkMissesNothing

-----------------------------------------------------------------------------
(* The list implements AtomicList.                                         *)

\* The element that a pop_front has verified to be the first one, while it
\* goes on with it and if it is still there.
SeenPoints == {"read", "nxtSlot", "nxtVerify", "look", "mark"}
SeenFirst(l) ==
  IF l.prev = HeadNode /\ l.cur \in Present /\ l.pc \in SeenPoints THEN l.cur ELSE Null

OpOf(t) ==
  LET l == loc[t]
      requested ==
        CASE l.kind = "walk" -> [name |-> "idle"]
          [] l.kind = "clear" -> [name |-> "removeAll", pred |-> Values]
          [] l.kind = "pushFront" -> [name |-> "pushFront", value |-> l.arg]
          [] l.kind = "insert" -> [name |-> "insert", pred |-> l.pred, value |-> l.arg]
          [] l.kind \in {"remove", "removeAll"} -> [name |-> l.kind, pred |-> l.pred]
          [] l.kind = "popBack" -> [name |-> "popBack"]
          [] l.kind = "popFront" -> [name |-> "popFront", first |-> SeenFirst(l)]
  IN CASE l.pc = "idle" -> [name |-> "idle"]
       [] l.pc = "drop" -> IF l.ret = Null THEN [name |-> "idle"] ELSE [name |-> "got", value |-> l.ret]
       [] l.pc = "value" -> [name |-> "got", value |-> val[l.cur]]
       [] OTHER -> requested

Content == [i \in 1..Len(elems) |-> [id |-> elems[i], value |-> val[elems[i]]]]

\* Each call takes effect at one moment: an insertion at its
\* compare_exchange, a removal when it sets the mark.
Abstract == INSTANCE AtomicList
  WITH content <- Content, op <- [t \in Threads |-> OpOf(t)], Ids <- Nodes, None <- Null
IsAtomicList == Abstract!Spec

\* Calls return: whoever has to search again has been overtaken by an
\* insertion, a mark or an unlinking.
AllReturn == <>[](\A t \in Threads : At(t, "idle"))
=============================================================================
