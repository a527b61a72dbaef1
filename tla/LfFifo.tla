--------------------------------- MODULE LfFifo ---------------------------------
(***************************************************************************)
(* fifo_list (inc/alconcurrent/lf_fifo.hpp) on od_lockfree_fifo            *)
(* (src/od_lockfree_fifo.cpp).                                             *)
(*                                                                         *)
(* The queue is a chain that begins with a sentinel node, whose value has  *)
(* been taken already.  The tail is the last node or, until some thread    *)
(* helps, the one before it.  A pop makes the sentinel's successor the     *)
(* sentinel and then reads the value there, under a hazard pointer.  Nodes *)
(* go back to the node pool as in LfStack.                                 *)
(*                                                                         *)
(* One action is one access to shared memory with the thread-local work    *)
(* that follows it.  Memory is sequentially consistent.                    *)
(***************************************************************************)
EXTENDS Integers, Sequences, FiniteSets

CONSTANTS
  Threads,  \* the threads that push and pop
  Nodes,    \* the nodes, allocated or not
  Values,   \* the values pushed
  Null,     \* nullptr, no value
  Gives,    \* bound: the values each thread pushes
  Calls     \* bound: how many calls of each kind each thread begins, in each history

Kinds == {"push", "pushHead", "pop"}

ASSUME FifoAssumption ==
  /\ Nodes # {}  \* the constructor has its sentinel
  /\ Null \notin Nodes
  /\ Null \notin Values
  /\ Gives \in [Threads -> SUBSET Values]
  /\ Calls \subseteq [Threads -> [Kinds -> Nat]]

\* The hazard pointers of a thread in its calls: on the node it takes for the sentinel, or
\* for the tail in push_back; on the sentinel's successor; on the tail in
\* push_front.
Uses == {"cur", "nxt", "tl"}
Slots == Threads \X Uses

\* A thread scans outside the calls that use its slots: those are empty.
SlotsOfOthers(t) == (Threads \ {t}) \X Uses

VARIABLES
  head,    \* hph_head_: the sentinel
  tail,    \* hph_tail_
  next,    \* hph_next_ of each node
  val,     \* v_ of each node
  slot,    \* the pointer in each slot
  free,    \* nodes the pool hands out, and fresh ones
  limbo,   \* tl_odn_list_still_in_hazard of each thread
  loc,     \* control point and locals of each thread
  calls,   \* bound: calls left
  que      \* history: the nodes of the chain, the sentinel first

memVars == <<head, tail, next, val>>
vars == <<memVars, slot, free, limbo, loc, calls, que>>

NodeOrNull == Nodes \cup {Null}

Idle == [pc |-> "idle", kind |-> "pop",
         arg  |-> Null,  \* v_arg of a push
         node |-> Null,  \* p_nd, p_node_w_value
         sen  |-> Null,  \* p_node_new_sentinel
         cur  |-> Null,  \* the pointer of hp_head_node, of hp_tail_node in push_back
         nxt  |-> Null,  \* p_head_next, p_tail_next
         tl   |-> Null,  \* p_tail_node; the pointer of hp_tail_node in push_front
         chk  |-> Null,  \* the node scanned for
         ret  |-> Null,  \* popped_value_storage
         unseen |-> {}]  \* slots the scan has still to look at

\* The constructor's sentinel is any node: nodes are interchangeable.
Init ==
  /\ LET s == CHOOSE n \in Nodes : TRUE IN
       /\ head = s
       /\ tail = s
       /\ free = Nodes \ {s}
       /\ que = <<s>>
  /\ next = [n \in Nodes |-> Null]
  /\ val = [n \in Nodes |-> Null]
  /\ slot = [s \in Slots |-> Null]
  /\ limbo = [t \in Threads |-> {}]
  /\ loc = [t \in Threads |-> Idle]
  /\ calls \in Calls

At(t, p) == loc[t].pc = p
InCall(t, kind) == loc[t].kind = kind
Goto(t, p) == loc' = [loc EXCEPT ![t].pc = p]
SetSlot(t, use, p) == slot' = [slot EXCEPT ![<<t, use>>] = p]

Call(t, kind) ==
  /\ At(t, "idle")
  /\ calls[t][kind] > 0
  /\ calls' = [calls EXCEPT ![t][kind] = @ - 1]
  /\ \E v \in IF kind = "pop" THEN {Null} ELSE Gives[t] :
       loc' = [loc EXCEPT ![t].pc = IF kind = "pop" THEN "load" ELSE "pool",
                          ![t].kind = kind, ![t].arg = v]
  /\ UNCHANGED <<memVars, slot, free, limbo, que>>

-----------------------------------------------------------------------------
(* Nodes from the pool: one with the value, and for push_head a sentinel   *)

\* The thread has node n and either stores the value in it, and nullptr as
\* its link, or keeps it for the sentinel.
Obtain(t, n) ==
  \/ /\ loc[t].node = Null
     /\ val' = [val EXCEPT ![n] = loc[t].arg]
     /\ next' = [next EXCEPT ![n] = Null]
     /\ loc' = [loc EXCEPT ![t].node = n, ![t].chk = Null,
                  ![t].pc = IF InCall(t, "pushHead") /\ loc[t].sen = Null
                            THEN "pool" ELSE "load"]
  \/ /\ InCall(t, "pushHead")
     /\ loc[t].sen = Null
     /\ loc' = [loc EXCEPT ![t].sen = n, ![t].chk = Null,
                  ![t].pc = IF loc[t].node = Null THEN "pool" ELSE "load"]
     /\ UNCHANGED <<val, next>>

TakeFree(t) ==
  /\ At(t, "pool") \/ At(t, "alloc")
  /\ \E n \in free : Obtain(t, n) /\ free' = free \ {n}
  /\ UNCHANGED <<head, tail, slot, limbo, calls, que>>

\* try_pop_from_still_in_hazard_list
Recheck(t) ==
  /\ At(t, "pool")
  /\ \E n \in limbo[t] :
       /\ loc' = [loc EXCEPT ![t].pc = "recheck", ![t].chk = n, ![t].unseen = SlotsOfOthers(t)]
       /\ limbo' = [limbo EXCEPT ![t] = @ \ {n}]
  /\ UNCHANGED <<memVars, slot, free, calls, que>>

-----------------------------------------------------------------------------
(* get_to_verify_exchange and verify_exchange on the head, or on the tail  *)
(* in push_back                                                            *)

End(t) == IF InCall(t, "push") THEN tail ELSE head

Load(t) ==
  /\ At(t, "load")
  /\ loc' = [loc EXCEPT ![t].pc = "slot", ![t].cur = End(t)]
  /\ next' = IF InCall(t, "pushHead") THEN [next EXCEPT ![loc[t].sen] = loc[t].node] ELSE next
  /\ UNCHANGED <<head, tail, val, slot, free, limbo, calls, que>>

StoreSlot(t) ==
  /\ At(t, "slot")
  /\ SetSlot(t, "cur", loc[t].cur)
  /\ Goto(t, "verify")
  /\ UNCHANGED <<memVars, free, limbo, calls, que>>

\* Faulty: the end is not compared again after the slot has been set.
Unverified(t) ==
  /\ At(t, "verify")
  /\ Goto(t, "next")
  /\ UNCHANGED <<memVars, slot, free, limbo, calls, que>>

Verified(t) ==
  /\ At(t, "verify")
  /\ End(t) = loc[t].cur
  /\ Goto(t, "next")
  /\ UNCHANGED <<memVars, slot, free, limbo, calls, que>>

Reload(t) ==
  /\ At(t, "verify")
  /\ End(t) # loc[t].cur
  /\ loc' = [loc EXCEPT ![t].pc = "slot", ![t].cur = End(t)]
  /\ UNCHANGED <<memVars, slot, free, limbo, calls, que>>

\* The link of the node is read.  nullptr: it is the last node, to which a
\* push_back links its own; a pop returns nothing; push_front turns to the
\* tail.  Otherwise push_back moves the tail first.
ReadNext(t) ==
  /\ At(t, "next")
  /\ loc' = [loc EXCEPT
       ![t].nxt = next[loc[t].cur],
       ![t].pc = CASE loc[t].kind = "push" -> IF next[loc[t].cur] = Null THEN "link" ELSE "move"
                   [] loc[t].kind = "pop" -> IF next[loc[t].cur] = Null THEN "drop" ELSE "look"
                   [] OTHER -> IF next[loc[t].cur] = Null THEN "tlLoad" ELSE "look"]
  /\ UNCHANGED <<memVars, slot, free, limbo, calls, que>>

-----------------------------------------------------------------------------
(* push_back                                                               *)

\* The tail is not the last node: compare_exchange_strong_to_verify_exchange1
\* moves it; what the tail is then goes to the slot.
MoveTail(t) ==
  /\ At(t, "move")
  /\ tail' = IF tail = loc[t].cur THEN loc[t].nxt ELSE tail
  /\ loc' = [loc EXCEPT ![t].pc = "slot", ![t].cur = tail', ![t].nxt = Null]
  /\ UNCHANGED <<head, next, val, slot, free, limbo, calls, que>>

\* compare_exchange_strong on the last node's link; the push is done.
Link(t) ==
  /\ At(t, "link")
  /\ next[loc[t].cur] = Null
  /\ next' = [next EXCEPT ![loc[t].cur] = loc[t].node]
  /\ que' = Append(que, loc[t].node)
  /\ Goto(t, "swing")
  /\ UNCHANGED <<head, tail, val, slot, free, limbo, calls>>

\* Faulty: the next attempt is on the same node.
EndlessLinkFails(t) ==
  /\ At(t, "link")
  /\ next[loc[t].cur] # Null
  /\ Goto(t, "link")
  /\ UNCHANGED <<memVars, slot, free, limbo, calls, que>>

LinkFails(t) ==
  /\ At(t, "link")
  /\ next[loc[t].cur] # Null
  /\ Goto(t, "verify")
  /\ UNCHANGED <<memVars, slot, free, limbo, calls, que>>

\* compare_exchange_weak moves the tail, or fails for any reason.
Swing(t) ==
  /\ At(t, "swing")
  /\ tail' \in {tail} \cup (IF tail = loc[t].cur THEN {loc[t].node} ELSE {})
  /\ loc' = [loc EXCEPT ![t].pc = "drop", ![t].node = Null]
  /\ UNCHANGED <<head, next, val, slot, free, limbo, calls, que>>

-----------------------------------------------------------------------------
(* pop_front, and push_front on a queue that is not empty                  *)

\* Faulty: the head is moved past a tail that is still at the sentinel.
HeedlessLookAtTail(t) ==
  /\ At(t, "look")
  /\ Goto(t, "nxtSlot")
  /\ UNCHANGED <<memVars, slot, free, limbo, calls, que>>

\* A tail that is still at the sentinel has to be moved before the head is.
LookAtTail(t) ==
  /\ At(t, "look")
  /\ Goto(t, IF tail = loc[t].cur THEN "help" ELSE "nxtSlot")
  /\ UNCHANGED <<memVars, slot, free, limbo, calls, que>>

HelpTail(t) ==
  /\ At(t, "help")
  /\ tail' = IF tail = loc[t].cur THEN loc[t].nxt ELSE tail
  /\ Goto(t, "nxtSlot")
  /\ UNCHANGED <<head, next, val, slot, free, limbo, calls, que>>

StoreNextSlot(t) ==
  /\ At(t, "nxtSlot")
  /\ SetSlot(t, "nxt", loc[t].nxt)
  /\ Goto(t, "nxtVerify")
  /\ UNCHANGED <<memVars, free, limbo, calls, que>>

\* verify_exchange on the link: LinkIsFinal says why it cannot fail.
NextVerified(t) ==
  /\ At(t, "nxtVerify")
  /\ next[loc[t].cur] = loc[t].nxt
  /\ Goto(t, "cas")
  /\ UNCHANGED <<memVars, slot, free, limbo, calls, que>>

\* The compare_exchange on the head fails: what it found goes to the slot.
CasFails(t) ==
  /\ At(t, "cas")
  /\ head # loc[t].cur
  /\ loc' = [loc EXCEPT ![t].pc = "slot", ![t].cur = head, ![t].nxt = Null]
  /\ UNCHANGED <<memVars, slot, free, limbo, calls, que>>

\* A pop's succeeds: the old sentinel is the thread's, and so is the value
\* in the new one.
PopCas(t) ==
  /\ At(t, "cas") /\ InCall(t, "pop")
  /\ head = loc[t].cur
  /\ head' = loc[t].nxt
  /\ que' = Tail(que)
  /\ loc' = [loc EXCEPT ![t].pc = "value", ![t].chk = loc[t].cur]
  /\ UNCHANGED <<tail, next, val, slot, free, limbo, calls>>

\* Faulty: the value is read from the old sentinel.
StalePickUpValue(t) ==
  /\ At(t, "value")
  /\ loc' = [loc EXCEPT ![t].pc = "drop", ![t].ret = val[loc[t].cur]]
  /\ UNCHANGED <<memVars, slot, free, limbo, calls, que>>

\* callback_to_pick_up_value reads it.
PickUpValue(t) ==
  /\ At(t, "value")
  /\ loc' = [loc EXCEPT ![t].pc = "drop", ![t].ret = val[loc[t].nxt]]
  /\ UNCHANGED <<memVars, slot, free, limbo, calls, que>>

\* push_front's succeeds: its new sentinel, which is linked to the node with
\* the value, replaces the old one, which is the thread's.  The node's link
\* is set before.
PushHeadCas(t) ==
  /\ At(t, "cas") /\ InCall(t, "pushHead")
  /\ head = loc[t].cur
  /\ head' = loc[t].sen
  /\ next' = [next EXCEPT ![loc[t].node] = loc[t].nxt]
  /\ que' = <<loc[t].sen, loc[t].node>> \o Tail(que)
  /\ loc' = [loc EXCEPT ![t].pc = "drop", ![t].chk = loc[t].cur,
                        ![t].sen = Null, ![t].node = Null]
  /\ UNCHANGED <<tail, val, slot, free, limbo, calls>>

-----------------------------------------------------------------------------
(* push_front on an empty queue appends                                    *)

LoadTail(t) ==
  /\ At(t, "tlLoad")
  /\ loc' = [loc EXCEPT ![t].pc = "tlSlot", ![t].tl = tail]
  /\ UNCHANGED <<memVars, slot, free, limbo, calls, que>>

StoreTailSlot(t) ==
  /\ At(t, "tlSlot")
  /\ SetSlot(t, "tl", loc[t].tl)
  /\ Goto(t, "tlVerify")
  /\ UNCHANGED <<memVars, free, limbo, calls, que>>

TailVerified(t) ==
  /\ At(t, "tlVerify")
  /\ tail = loc[t].tl
  /\ Goto(t, "tlNext")
  /\ UNCHANGED <<memVars, slot, free, limbo, calls, que>>

\* hp_tail_node is destroyed when push_front starts again from the head.
StartAgain(t) ==
  /\ loc' = [loc EXCEPT ![t].pc = "verify", ![t].tl = Null, ![t].nxt = Null]
  /\ SetSlot(t, "tl", Null)

TailHasMoved(t) ==
  /\ At(t, "tlVerify")
  /\ tail # loc[t].tl
  /\ StartAgain(t)
  /\ UNCHANGED <<memVars, free, limbo, calls, que>>

ReadTailNext(t) ==
  /\ At(t, "tlNext")
  /\ loc' = [loc EXCEPT ![t].nxt = next[loc[t].tl],
                        ![t].pc = IF next[loc[t].tl] = Null THEN "tlLink" ELSE "tlMove"]
  /\ UNCHANGED <<memVars, slot, free, limbo, calls, que>>

MoveTailOnce(t) ==
  /\ At(t, "tlMove")
  /\ tail' = IF tail = loc[t].tl THEN loc[t].nxt ELSE tail
  /\ StartAgain(t)
  /\ UNCHANGED <<head, next, val, free, limbo, calls, que>>

\* It appends; the new sentinel is not used and goes back to the pool.  The
\* tail stays where it is.
TailLink(t) ==
  /\ At(t, "tlLink")
  /\ next[loc[t].tl] = Null
  /\ next' = [next EXCEPT ![loc[t].node] = Null, ![loc[t].tl] = loc[t].node]
  /\ que' = Append(que, loc[t].node)
  /\ loc' = [loc EXCEPT ![t].pc = "drop", ![t].chk = loc[t].sen,
                        ![t].sen = Null, ![t].node = Null]
  /\ UNCHANGED <<head, tail, val, slot, free, limbo, calls>>

TailLinkFails(t) ==
  /\ At(t, "tlLink")
  /\ next[loc[t].tl] # Null
  /\ StartAgain(t)
  /\ UNCHANGED <<memVars, free, limbo, calls, que>>

-----------------------------------------------------------------------------
\* The hazard pointers are destroyed.  A node that the call has taken out, or
\* has not used, goes to the pool, which scans for it.
Drop(t) ==
  /\ At(t, "drop")
  /\ slot' = [s \in Slots |-> IF s[1] = t THEN Null ELSE slot[s]]
  /\ loc' = [loc EXCEPT ![t] =
       IF @.chk = Null THEN Idle
       ELSE [Idle EXCEPT !.pc = "retire", !.chk = loc[t].chk, !.ret = loc[t].ret,
                         !.kind = loc[t].kind, !.unseen = SlotsOfOthers(t)]]
  /\ UNCHANGED <<memVars, free, limbo, calls, que>>

Scanning(t) == At(t, "retire") \/ At(t, "recheck")

ScanSlot(t) ==
  /\ Scanning(t)
  /\ \E s \in loc[t].unseen :
       /\ slot[s] # loc[t].chk
       /\ loc' = [loc EXCEPT ![t].unseen = @ \ {s}]
  /\ UNCHANGED <<memVars, slot, free, limbo, calls, que>>

\* A slot holds the node: it stays in the list of nodes still in hazard.  The
\* call returns; a push allocates, or finds a free node after all.
FoundInHazard(t) ==
  /\ Scanning(t)
  /\ \E s \in loc[t].unseen : slot[s] = loc[t].chk
  /\ limbo' = [limbo EXCEPT ![t] = @ \cup {loc[t].chk}]
  /\ loc' = [loc EXCEPT ![t] = IF @.pc = "retire" THEN Idle
                               ELSE [@ EXCEPT !.pc = "alloc", !.chk = Null, !.unseen = {}]]
  /\ UNCHANGED <<memVars, slot, free, calls, que>>

\* No slot held the node: its value is reset and it can be used again.
Reclaim(t) ==
  /\ At(t, "retire")
  /\ loc[t].unseen = {}
  /\ free' = free \cup {loc[t].chk}
  /\ val' = [val EXCEPT ![loc[t].chk] = Null]
  /\ loc' = [loc EXCEPT ![t] = Idle]
  /\ UNCHANGED <<head, tail, next, slot, limbo, calls, que>>

Reuse(t) ==
  /\ At(t, "recheck")
  /\ loc[t].unseen = {}
  /\ Obtain(t, loc[t].chk)
  /\ UNCHANGED <<head, tail, slot, free, limbo, calls, que>>

-----------------------------------------------------------------------------
Step(t) ==
  \/ TakeFree(t) \/ Recheck(t) \/ ScanSlot(t) \/ FoundInHazard(t) \/ Reclaim(t) \/ Reuse(t)
  \/ Load(t) \/ StoreSlot(t) \/ Verified(t) \/ Reload(t) \/ ReadNext(t) \/ Drop(t)
  \/ MoveTail(t) \/ Link(t) \/ LinkFails(t) \/ Swing(t)
  \/ LookAtTail(t) \/ HelpTail(t) \/ StoreNextSlot(t) \/ NextVerified(t) \/ CasFails(t)
  \/ PopCas(t) \/ PickUpValue(t) \/ PushHeadCas(t)
  \/ LoadTail(t) \/ StoreTailSlot(t) \/ TailVerified(t) \/ TailHasMoved(t)
  \/ ReadTailNext(t) \/ MoveTailOnce(t) \/ TailLink(t) \/ TailLinkFails(t)

Next == \E t \in Threads : Step(t) \/ \E kind \in Kinds : Call(t, kind)

Spec == Init /\ [][Next]_vars

\* Every thread keeps running; what it calls next is its own choice.
FairSpec == Spec /\ \A t \in Threads : WF_vars(Step(t))

-----------------------------------------------------------------------------
Points == {"idle", "pool", "alloc", "recheck", "retire",
           "load", "slot", "verify", "next", "move", "link", "swing",
           "look", "help", "nxtSlot", "nxtVerify", "cas", "value", "drop",
           "tlLoad", "tlSlot", "tlVerify", "tlNext", "tlMove", "tlLink"}

\* Every variable keeps its type; the nodes of the history are nodes.
TypeOK ==
  /\ head \in Nodes /\ tail \in Nodes
  /\ next \in [Nodes -> NodeOrNull]
  /\ val \in [Nodes -> Values \cup {Null}]
  /\ slot \in [Slots -> NodeOrNull]
  /\ free \subseteq Nodes
  /\ limbo \in [Threads -> SUBSET Nodes]
  /\ loc \in [Threads -> [pc : Points, kind : Kinds, arg : Values \cup {Null},
                          node : NodeOrNull, sen : NodeOrNull, cur : NodeOrNull,
                          nxt : NodeOrNull, tl : NodeOrNull, chk : NodeOrNull,
                          ret : Values \cup {Null}, unseen : SUBSET Slots]]
  /\ calls \in [Threads -> [Kinds -> Nat]]
  /\ que \in Seq(Nodes)

\* The links in memory are the queue, from the sentinel to nullptr, and the
\* tail is the last node or the one before it.
ChainIsQueue ==
  /\ Len(que) > 0
  /\ head = que[1]
  /\ \A i \in 1..Len(que) : next[que[i]] = IF i = Len(que) THEN Null ELSE que[i + 1]
  /\ \E i \in 1..Len(que) : tail = que[i] /\ i >= Len(que) - 1

\* What a thread reads through its pointers has not been reclaimed: no link
\* or value of a node that may have been deleted or used again.
Reads(t) ==
  CASE loc[t].pc \in {"next", "move", "link", "look", "help", "nxtSlot", "nxtVerify", "cas"} -> {loc[t].cur}
    [] loc[t].pc = "value" -> {loc[t].nxt}
    [] loc[t].pc \in {"tlNext", "tlMove", "tlLink"} -> {loc[t].tl}
    [] OTHER -> {}
NoUseAfterReclaim == \A t \in Threads : Reads(t) \cap free = {}

\* A link that has been set does not change while a hazard pointer that was
\* verified is on its node: the second verify_exchange of pop_front and
\* push_front always succeeds.
LinkIsFinal ==
  \A t \in Threads :
    loc[t].pc \in {"look", "help", "nxtSlot", "nxtVerify", "cas"} =>
      next[loc[t].cur] = loc[t].nxt

\* A node is in one place only: in the chain, with one thread, in one list of
\* nodes still in hazard, or free; and none is lost.
InQueue == {que[i] : i \in 1..Len(que)}
Held(t) == {loc[t].sen, loc[t].chk, IF At(t, "swing") THEN Null ELSE loc[t].node} \ {Null}
Places(n) ==
  (IF n \in InQueue THEN {<<"queue">>} ELSE {}) \cup (IF n \in free THEN {<<"free">>} ELSE {})
    \cup {<<"held", t>> : t \in {u \in Threads : n \in Held(u)}}
    \cup {<<"limbo", t>> : t \in {u \in Threads : n \in limbo[u]}}
OnePlace ==
  /\ Cardinality(InQueue) = Len(que)
  /\ \A n \in Nodes : Cardinality(Places(n)) = 1

\* The structure the calls rely on, at every step of all of them.
QueueIsSound == TypeOK /\ ChainIsQueue /\ LinkIsFinal /\ OnePlace

-----------------------------------------------------------------------------
(* The queue implements AtomicFifo.                                        *)

OpOf(t) ==
  LET l == loc[t] IN
  CASE l.pc = "idle" -> [name |-> "idle"]
    [] l.kind = "push" /\ l.pc \in {"swing", "drop"} -> [name |-> "idle"]
    [] l.kind = "push" /\ l.pc \notin {"swing", "drop"} -> [name |-> "push", value |-> l.arg]
    [] l.kind = "pushHead" /\ l.pc \in {"drop", "retire"} -> [name |-> "idle"]
    [] l.kind = "pushHead" /\ l.pc \notin {"drop", "retire"} ->
         [name |-> "pushHead", value |-> l.arg,
          empty |-> l.pc \in {"tlLoad", "tlSlot", "tlVerify", "tlNext", "tlMove", "tlLink"}]
    [] l.kind = "pop" /\ l.pc = "value" -> [name |-> "got", value |-> val[l.nxt]]
    [] l.kind = "pop" /\ l.pc = "drop" ->
         IF l.chk = Null THEN [name |-> "idle"] ELSE [name |-> "got", value |-> l.ret]
    [] l.kind = "pop" /\ l.pc = "retire" -> [name |-> "got", value |-> l.ret]
    [] OTHER -> [name |-> "pop"]

Content == [i \in 1..Len(que) - 1 |-> val[que[i + 1]]]

\* Each call takes effect at one moment: a push and push_head at the
\* compare_exchange that links the node, a pop at its own on the head or at
\* the load that finds no successor.  It does not say that push_head puts its
\* value first, which the code does not do: AtomicFifo lets a call that has
\* seen the queue empty append behind what was pushed since.
Abstract == INSTANCE AtomicFifo
  WITH content <- Content, op <- [t \in Threads |-> OpOf(t)]
IsAtomicFifo == Abstract!Spec

\* Calls return: whoever has to try again has been overtaken by a call that
\* is done, or has moved the tail.
AllReturn == <>[](\A t \in Threads : At(t, "idle"))
=============================================================================
