-------------------------------- MODULE NodePool --------------------------------
(***************************************************************************)
(* od_node_pool (inc/alconcurrent/internal/od_node_pool.hpp): the nodes of *)
(* one type that all stacks, queues and lists of this type share.  A node  *)
(* without a hazard pointer is in a list of the thread, in a locked list   *)
(* or in a lock-free list; a node that a scan found in hazard is in a list *)
(* of the thread, or in a locked one when its thread has ended.            *)
(*                                                                         *)
(* One action is one access to what threads share, or one section under a  *)
(* lock, with the thread-local work around it.  A section that looks at    *)
(* hazard pointers or pushes to the lock-free list keeps its lock for many *)
(* steps.  The data structures are a set of nodes in use, and readers that *)
(* keep a hazard pointer on one of them.                                   *)
(***************************************************************************)
EXTENDS Integers, Sequences, FiniteSets, SequencesExt

CONSTANTS
  Threads,       \* the threads
  Nodes,         \* the addresses a node may have
  Null,          \* nullptr
  ScanThreshold, \* scan_check_trial_threshold
  AggThreshold,  \* aggressive_aggregation_threshold
  Histories      \* bound: the nodes' places at first, and the calls of each thread

CallNames == {"push", "pop", "delete", "clear", "endFree", "endHeld", "read", "leave"}

ASSUME PoolAssumption ==
  /\ IsFiniteSet(Nodes)
  /\ Null \notin Nodes \cup Threads
  /\ ScanThreshold \in Nat /\ AggThreshold \in Nat \ {0}

\* A node is at first in use or once in one of the lists.
ASSUME HistoriesAssumption ==
  \A h \in Histories :
    /\ h.calls \in [Threads -> Seq(CallNames)]
    /\ h.inUse \subseteq Nodes
    /\ h.gfree \in Seq(Nodes) /\ IsInjective(h.gfree) /\ ToSet(h.gfree) \cap h.inUse = {}
    /\ h.free \in [Threads -> Seq(Nodes)]
    /\ \A t \in Threads :
         /\ IsInjective(h.free[t])
         /\ ToSet(h.free[t]) \cap (h.inUse \cup ToSet(h.gfree)) = {}
         /\ \A u \in Threads \ {t} : ToSet(h.free[t]) \cap ToSet(h.free[u]) = {}

\* A thread has a slot for a reader of a data structure and one for
\* hp_cur_head of pop_front.
Slots == Threads \X {"read", "pop"}
Locks == {"free", "held"}

VARIABLES
  head,      \* hph_head_ of g_odn_lockfree_list_no_in_hazard_
  link,      \* hph_next_ of each node
  slot,      \* the pointer in each slot
  free,      \* tl_odn_list_no_in_hazard of each thread
  held,      \* tl_odn_list_still_in_hazard of each thread
  gfree,     \* g_odn_list_no_in_hazard_
  gheld,     \* g_odn_list_still_in_hazard_
  owner,     \* who has locked the two
  inUse,     \* the nodes in data structures
  allocated, \* the nodes that new returned and nobody has deleted
  calls,     \* the calls each thread has still to make
  loc        \* where each thread is in its call, and its local variables

lists == <<free, held, gfree, gheld>>
vars == <<head, link, slot, lists, owner, inUse, allocated, calls, loc>>

\* node: the node that is pushed or popped; cur, nxt: hp_cur_head, p_new_head;
\* tmp, still: tmp_odn_list and the nodes found in hazard; unseen: the slots the
\* scan has not seen; then: who scans; out: the nodes to put on the lock-free
\* list; call: what the popped node is for.
Idle == [pc |-> "idle", node |-> Null, cur |-> Null, nxt |-> Null, tmp |-> <<>>,
         still |-> <<>>, unseen |-> {}, then |-> "none", out |-> <<>>, call |-> "none"]

Init ==
  \E h \in Histories :
    /\ head = Null
    /\ link = [n \in Nodes |-> Null]
    /\ slot = [s \in Slots |-> Null]
    /\ free = h.free /\ held = [t \in Threads |-> <<>>]
    /\ gfree = h.gfree /\ gheld = <<>>
    /\ owner = [k \in Locks |-> Null]
    /\ inUse = h.inUse
    /\ allocated = h.inUse \cup ToSet(h.gfree) \cup UNION {ToSet(h.free[t]) : t \in Threads}
    /\ calls = h.calls
    /\ loc = [t \in Threads |-> Idle]

At(t, p) == loc[t].pc = p
Become(t, r) == loc' = [loc EXCEPT ![t] = r]
Goto(t, p) == Become(t, [loc[t] EXCEPT !.pc = p])
Return(t) == Become(t, Idle)
Begin(t, call) ==
  /\ At(t, "idle")
  /\ calls[t] # <<>> /\ Head(calls[t]) = call
  /\ calls' = [calls EXCEPT ![t] = Tail(@)]

\* A locked list can be used by nobody but the one who has its lock; lock waits
\* for this, try_lock gives up.
Unlocked(k) == owner[k] = Null

-----------------------------------------------------------------------------
(* Scans of the hazard pointers for the nodes of a list                    *)

\* A list goes to tmp_odn_list; then says what follows the scan.
Scanning(t, nodes, then) ==
  [loc[t] EXCEPT !.pc = "scan", !.tmp = nodes, !.still = <<>>, !.unseen = Slots, !.then = then]

\* ScanHazardPtrs and split_if, or CheckPtrIsHazardPtr of a single node: a node
\* is in the list once.
Scan(t) ==
  /\ At(t, "scan") /\ loc[t].tmp # <<>>
  /\ \E s \in loc[t].unseen :
       IF slot[s] \in ToSet(loc[t].tmp)
       THEN \E i \in 1 .. Len(loc[t].tmp) :
              /\ loc[t].tmp[i] = slot[s]
              /\ Become(t, [loc[t] EXCEPT !.unseen = @ \ {s}, !.still = Append(@, slot[s]),
                                          !.tmp = RemoveAt(@, i)])
       ELSE Become(t, [loc[t] EXCEPT !.unseen = @ \ {s}])
  /\ UNCHANGED <<head, link, slot, lists, owner, inUse, allocated, calls>>

Scanned(t, then) ==
  /\ At(t, "scan") /\ loc[t].then = then
  /\ loc[t].tmp = <<>> \/ loc[t].unseen = {}

-----------------------------------------------------------------------------
(* push                                                                    *)

\* A thread has taken a node out of a data structure and gives it back.
CallPush(t) ==
  /\ Begin(t, "push")
  /\ \E n \in inUse :
       /\ inUse' = inUse \ {n}
       /\ Become(t, Scanning(t, <<n>>, "push"))
  /\ UNCHANGED <<head, link, slot, lists, owner, allocated>>

\* The node is in hazard.  When the list of those is long, it is looked
\* through first.
PushHeld(t) ==
  /\ Scanned(t, "push") /\ loc[t].tmp = <<>>
  /\ IF Len(held[t]) >= ScanThreshold
     THEN /\ Become(t, [Scanning(t, held[t], "stock") EXCEPT !.node = loc[t].still[1]])
          /\ held' = [held EXCEPT ![t] = <<>>]
     ELSE /\ held' = [held EXCEPT ![t] = @ \o loc[t].still]
          /\ Return(t)
  /\ UNCHANGED <<head, link, slot, free, gfree, gheld, owner, inUse, allocated, calls>>

\* Faulty: the node that is found free is kept in a local variable only.
StocktakeOne(t) ==
  /\ Scanned(t, "stock")
  /\ free' = [free EXCEPT ![t] = @ \o (IF loc[t].tmp = <<>> THEN <<>> ELSE Tail(loc[t].tmp))]
  /\ held' = [held EXCEPT ![t] = Append(loc[t].still, loc[t].node)]
  /\ Return(t)
  /\ UNCHANGED <<head, link, slot, gfree, gheld, owner, inUse, allocated, calls>>

\* What is no longer in hazard goes to the other list, the first of it last.
Stocktake(t) ==
  /\ Scanned(t, "stock")
  /\ free' = [free EXCEPT ![t] =
                @ \o (IF loc[t].tmp = <<>> THEN <<>> ELSE Append(Tail(loc[t].tmp), loc[t].tmp[1]))]
  /\ held' = [held EXCEPT ![t] = Append(loc[t].still, loc[t].node)]
  /\ Return(t)
  /\ UNCHANGED <<head, link, slot, gfree, gheld, owner, inUse, allocated, calls>>

\* The node is not in hazard: the thread keeps it when it has less than two.
PushFree(t) ==
  /\ Scanned(t, "push") /\ loc[t].tmp # <<>>
  /\ IF Len(free[t]) <= 1
     THEN free' = [free EXCEPT ![t] = @ \o loc[t].tmp] /\ Return(t)
     ELSE UNCHANGED free /\ Goto(t, "pushLock")
  /\ UNCHANGED <<head, link, slot, held, gfree, gheld, owner, inUse, allocated, calls>>

PushLocked(t) ==
  /\ At(t, "pushLock") /\ Unlocked("free")
  /\ gfree' = gfree \o loc[t].tmp
  /\ Return(t)
  /\ UNCHANGED <<head, link, slot, free, held, gheld, owner, inUse, allocated, calls>>

\* try_lock fails, as it may at any time: the thread keeps the node, or puts
\* it and another one on the lock-free list.
PushUnlocked(t) ==
  /\ At(t, "pushLock")
  /\ IF Len(free[t]) >= AggThreshold
     THEN /\ free' = [free EXCEPT ![t] = Tail(@)]
          /\ Become(t, [loc[t] EXCEPT !.pc = "outLoad", !.tmp = <<>>,
                                      !.out = loc[t].tmp \o <<free[t][1]>>])
     ELSE free' = [free EXCEPT ![t] = @ \o loc[t].tmp] /\ Return(t)
  /\ UNCHANGED <<head, link, slot, held, gfree, gheld, owner, inUse, allocated, calls>>

-----------------------------------------------------------------------------
(* push_front of the lock-free list, for each node of out                  *)

OutLoad(t) ==
  /\ At(t, "outLoad")
  /\ Become(t, [loc[t] EXCEPT !.pc = "outLink", !.nxt = head])
  /\ UNCHANGED <<head, link, slot, lists, owner, inUse, allocated, calls>>

OutLink(t) ==
  /\ At(t, "outLink")
  /\ link' = [link EXCEPT ![loc[t].out[1]] = loc[t].nxt]
  /\ Goto(t, "outCas")
  /\ UNCHANGED <<head, slot, lists, owner, inUse, allocated, calls>>

\* The loop of pop is done as well as the one of push_front: the lock that it
\* ran under, if any, is given up.
OutCas(t) ==
  /\ At(t, "outCas") /\ head = loc[t].nxt
  /\ head' = loc[t].out[1]
  /\ IF Len(loc[t].out) > 1
     THEN /\ Become(t, [loc[t] EXCEPT !.pc = "outLoad", !.out = Tail(@), !.nxt = Null])
          /\ UNCHANGED owner
     ELSE IF owner["free"] = t
     THEN /\ Become(t, [loc[t] EXCEPT !.pc = "got", !.out = <<>>, !.nxt = Null])
          /\ owner' = [owner EXCEPT !["free"] = Null]
     ELSE Return(t) /\ UNCHANGED owner
  /\ UNCHANGED <<link, slot, lists, inUse, allocated, calls>>

\* Faulty: the head it found is not expected by the next attempt.
StaleOutFails(t) ==
  /\ At(t, "outCas") /\ head # loc[t].nxt
  /\ Goto(t, "outLink")
  /\ UNCHANGED <<head, link, slot, lists, owner, inUse, allocated, calls>>

OutFails(t) ==
  /\ At(t, "outCas") /\ head # loc[t].nxt
  /\ Become(t, [loc[t] EXCEPT !.pc = "outLink", !.nxt = head])
  /\ UNCHANGED <<head, link, slot, lists, owner, inUse, allocated, calls>>

-----------------------------------------------------------------------------
(* pop                                                                     *)

CallPop(t, call) ==
  /\ Begin(t, call)
  /\ IF free[t] # <<>>
     THEN /\ free' = [free EXCEPT ![t] = Tail(@)]
          /\ Become(t, [Idle EXCEPT !.pc = "got", !.node = free[t][1], !.call = call])
     ELSE UNCHANGED free /\ Become(t, [Idle EXCEPT !.pc = "popLock", !.call = call])
  /\ UNCHANGED <<head, link, slot, held, gfree, gheld, owner, inUse, allocated>>

\* A node of the locked list, some of which go to the lock-free one when it
\* is long
PopLocked(t) ==
  /\ At(t, "popLock") /\ Unlocked("free")
  /\ gfree # <<>>
  /\ IF Len(gfree) - 1 >= AggThreshold
     THEN /\ Become(t, [loc[t] EXCEPT !.pc = "outLoad", !.node = gfree[1],
                                      !.out = SubSeq(gfree, 2, 1 + AggThreshold)])
          /\ gfree' = SubSeq(gfree, 2 + AggThreshold, Len(gfree))
          /\ owner' = [owner EXCEPT !["free"] = t]
     ELSE /\ Become(t, [loc[t] EXCEPT !.pc = "got", !.node = gfree[1]])
          /\ gfree' = Tail(gfree)
          /\ UNCHANGED owner
  /\ UNCHANGED <<head, link, slot, free, held, gheld, inUse, allocated, calls>>

\* There is none, or try_lock fails.
PopUnlocked(t) ==
  /\ At(t, "popLock")
  /\ Goto(t, "load")
  /\ UNCHANGED <<head, link, slot, lists, owner, inUse, allocated, calls>>

\* pop_front of the lock-free list: get_to_verify_exchange, ...
Load(t) ==
  /\ At(t, "load")
  /\ Become(t, [loc[t] EXCEPT !.pc = "store", !.cur = head])
  /\ UNCHANGED <<head, link, slot, lists, owner, inUse, allocated, calls>>

Store(t) ==
  /\ At(t, "store")
  /\ slot' = [slot EXCEPT ![<<t, "pop">>] = loc[t].cur]
  /\ Goto(t, "verify")
  /\ UNCHANGED <<head, link, lists, owner, inUse, allocated, calls>>

\* ... verify_exchange, which finds the list empty, the same head or another
Verify(t) ==
  /\ At(t, "verify")
  /\ IF head # loc[t].cur THEN Become(t, [loc[t] EXCEPT !.pc = "store", !.cur = head])
     ELSE Goto(t, IF head = Null THEN "popHeld" ELSE "next")
  /\ UNCHANGED <<head, link, slot, lists, owner, inUse, allocated, calls>>

ReadNext(t) ==
  /\ At(t, "next")
  /\ Become(t, [loc[t] EXCEPT !.pc = "cas", !.nxt = link[loc[t].cur]])
  /\ UNCHANGED <<head, link, slot, lists, owner, inUse, allocated, calls>>

Cas(t) ==
  /\ At(t, "cas")
  /\ IF head = loc[t].cur
     THEN /\ head' = loc[t].nxt
          /\ Become(t, [loc[t] EXCEPT !.pc = "drop", !.node = loc[t].cur, !.cur = Null,
                                      !.nxt = Null])
     ELSE /\ Become(t, [loc[t] EXCEPT !.pc = "store", !.cur = head, !.nxt = Null])
          /\ UNCHANGED head
  /\ UNCHANGED <<link, slot, lists, owner, inUse, allocated, calls>>

\* The hazard pointer of pop_front is gone when it returns.
Drop(t) ==
  /\ At(t, "drop")
  /\ slot' = [slot EXCEPT ![<<t, "pop">>] = Null]
  /\ Goto(t, "got")
  /\ UNCHANGED <<head, link, lists, owner, inUse, allocated, calls>>

\* The scan is over: the caller gets the first node that is not in hazard, or
\* goes on; the thread keeps the others.
GiveFirst(t, p) ==
  /\ loc' = [loc EXCEPT ![t] = [Idle EXCEPT !.call = loc[t].call,
       !.pc = IF loc[t].tmp = <<>> THEN p ELSE "got",
       !.node = IF loc[t].tmp = <<>> THEN Null ELSE loc[t].tmp[1]]]
  /\ free' = [free EXCEPT ![t] = @ \o (IF loc[t].tmp = <<>> THEN <<>> ELSE Tail(loc[t].tmp))]

\* try_pop_from_still_in_hazard_list of the thread's own nodes
PopHeld(t) ==
  /\ At(t, "popHeld")
  /\ IF held[t] = <<>> THEN Goto(t, "popHeldLock") ELSE Become(t, Scanning(t, held[t], "own"))
  /\ held' = [held EXCEPT ![t] = <<>>]
  /\ UNCHANGED <<head, link, slot, free, gfree, gheld, owner, inUse, allocated, calls>>

PopOwn(t) ==
  /\ Scanned(t, "own")
  /\ held' = [held EXCEPT ![t] = loc[t].still]
  /\ GiveFirst(t, "popHeldLock")
  /\ UNCHANGED <<head, link, slot, gfree, gheld, owner, inUse, allocated, calls>>

\* The same of those of threads that have ended
PopHeldLocked(t) ==
  /\ At(t, "popHeldLock") /\ Unlocked("held") /\ gheld # <<>>
  /\ owner' = [owner EXCEPT !["held"] = t]
  /\ Become(t, Scanning(t, gheld, "all"))
  /\ gheld' = <<>>
  /\ UNCHANGED <<head, link, slot, free, held, gfree, inUse, allocated, calls>>

PopAll(t) ==
  /\ Scanned(t, "all")
  /\ gheld' = loc[t].still
  /\ owner' = [owner EXCEPT !["held"] = Null]
  /\ GiveFirst(t, "none")
  /\ UNCHANGED <<head, link, slot, held, gfree, inUse, allocated, calls>>

PopNothing(t) ==
  /\ At(t, "popHeldLock")
  /\ Goto(t, "none")
  /\ UNCHANGED <<head, link, slot, lists, owner, inUse, allocated, calls>>

\* Users of pop: a node that was popped, or a new one, is put into a data
\* structure.
New(t) ==
  /\ At(t, "none") /\ loc[t].call = "pop"
  /\ \E n \in Nodes \ allocated :
       /\ allocated' = allocated \cup {n}
       /\ Become(t, [loc[t] EXCEPT !.pc = "got", !.node = n])
  /\ UNCHANGED <<head, link, slot, lists, owner, inUse, calls>>

NoNew(t) ==
  /\ At(t, "none") /\ (loc[t].call = "pop" => allocated = Nodes)
  /\ Return(t)
  /\ UNCHANGED <<head, link, slot, lists, owner, inUse, allocated, calls>>

Use(t) ==
  /\ At(t, "got") /\ loc[t].call = "pop"
  /\ inUse' = inUse \cup {loc[t].node}
  /\ Return(t)
  /\ UNCHANGED <<head, link, slot, lists, owner, allocated, calls>>

\* The destructor of a stack, queue or list deletes what it pops.
Delete(t) ==
  /\ At(t, "got") /\ loc[t].call = "delete"
  /\ allocated' = allocated \ {loc[t].node}
  /\ Return(t)
  /\ UNCHANGED <<head, link, slot, lists, owner, inUse, calls>>

-----------------------------------------------------------------------------
(* clear_as_possible_as                                                    *)

ClearFree(t) ==
  /\ Begin(t, "clear")
  /\ free' = [free EXCEPT ![t] = <<>>]
  /\ allocated' = allocated \ ToSet(free[t])
  /\ held' = [held EXCEPT ![t] = <<>>]
  /\ Become(t, Scanning(t, held[t], "clear"))
  /\ UNCHANGED <<head, link, slot, gfree, gheld, owner, inUse>>

\* Faulty: all nodes still in hazard are deleted.
ClearHeldUnscanned(t) ==
  /\ At(t, "scan") /\ loc[t].then = "clear"
  /\ allocated' = allocated \ ToSet(loc[t].tmp \o loc[t].still)
  /\ Become(t, [Idle EXCEPT !.pc = "clearLock"])
  /\ UNCHANGED <<head, link, slot, lists, owner, inUse, calls>>

\* check_hazard_then_clear: what is not in hazard is deleted.
ClearHeld(t) ==
  /\ Scanned(t, "clear")
  /\ held' = [held EXCEPT ![t] = loc[t].still]
  /\ allocated' = allocated \ ToSet(loc[t].tmp)
  /\ Become(t, [Idle EXCEPT !.pc = "clearLock"])
  /\ UNCHANGED <<head, link, slot, free, gfree, gheld, owner, inUse, calls>>

ClearLocked(t) ==
  /\ At(t, "clearLock") /\ Unlocked("free")
  /\ gfree' = <<>>
  /\ allocated' = allocated \ ToSet(gfree)
  /\ Goto(t, "clearHeldLock")
  /\ UNCHANGED <<head, link, slot, free, held, gheld, owner, inUse, calls>>

ClearUnlocked(t) ==
  /\ At(t, "clearLock")
  /\ Goto(t, "clearHeldLock")
  /\ UNCHANGED <<head, link, slot, lists, owner, inUse, allocated, calls>>

ClearHeldLocked(t) ==
  /\ At(t, "clearHeldLock") /\ Unlocked("held")
  /\ owner' = [owner EXCEPT !["held"] = t]
  /\ Become(t, Scanning(t, gheld, "clearAll"))
  /\ gheld' = <<>>
  /\ UNCHANGED <<head, link, slot, free, held, gfree, inUse, allocated, calls>>

ClearAll(t) ==
  /\ Scanned(t, "clearAll")
  /\ gheld' = loc[t].still
  /\ allocated' = allocated \ ToSet(loc[t].tmp)
  /\ owner' = [owner EXCEPT !["held"] = Null]
  /\ Return(t)
  /\ UNCHANGED <<head, link, slot, free, held, gfree, inUse, calls>>

ClearHeldUnlocked(t) ==
  /\ At(t, "clearHeldLock")
  /\ Return(t)
  /\ UNCHANGED <<head, link, slot, lists, owner, inUse, allocated, calls>>

-----------------------------------------------------------------------------
(* The end of a thread, and readers of the data structures                 *)

\* ~tl_od_node_list of the two lists; which is first depends on their first use.
\* It waits for the lock.
EndFree(t) ==
  /\ Begin(t, "endFree") /\ Unlocked("free")
  /\ gfree' = gfree \o free[t]
  /\ free' = [free EXCEPT ![t] = <<>>]
  /\ UNCHANGED <<head, link, slot, held, gheld, owner, inUse, allocated, loc>>

EndHeld(t) ==
  /\ Begin(t, "endHeld") /\ Unlocked("held")
  /\ gheld' = gheld \o held[t]
  /\ held' = [held EXCEPT ![t] = <<>>]
  /\ UNCHANGED <<head, link, slot, free, gfree, owner, inUse, allocated, loc>>

\* A reader loads a pointer to a node, stores it in its slot, and has the node
\* when it is still in use then.
Find(t) ==
  /\ Begin(t, "read")
  /\ \E n \in inUse : Become(t, [Idle EXCEPT !.pc = "readStore", !.cur = n])
  /\ UNCHANGED <<head, link, slot, lists, owner, inUse, allocated>>

Protect(t) ==
  /\ At(t, "readStore")
  /\ slot' = [slot EXCEPT ![<<t, "read">>] = loc[t].cur]
  /\ Goto(t, "readVerify")
  /\ UNCHANGED <<head, link, lists, owner, inUse, allocated, calls>>

ReadVerify(t) ==
  /\ At(t, "readVerify")
  /\ slot' = [slot EXCEPT ![<<t, "read">>] = IF loc[t].cur \in inUse THEN @ ELSE Null]
  /\ Return(t)
  /\ UNCHANGED <<head, link, lists, owner, inUse, allocated, calls>>

Leave(t) ==
  /\ Begin(t, "leave")
  /\ slot' = [slot EXCEPT ![<<t, "read">>] = Null]
  /\ UNCHANGED <<head, link, lists, owner, inUse, allocated, loc>>

\* A call that finds no node in use is left out.
Skip(t) ==
  /\ inUse = {}
  /\ Begin(t, "push") \/ Begin(t, "read")
  /\ UNCHANGED <<head, link, slot, lists, owner, inUse, allocated, loc>>

-----------------------------------------------------------------------------
Step(t) ==
  \/ Scan(t) \/ CallPush(t) \/ PushHeld(t) \/ Stocktake(t) \/ PushFree(t)
  \/ PushLocked(t) \/ PushUnlocked(t)
  \/ OutLoad(t) \/ OutLink(t) \/ OutCas(t) \/ OutFails(t)
  \/ CallPop(t, "pop") \/ CallPop(t, "delete") \/ PopLocked(t) \/ PopUnlocked(t)
  \/ Load(t) \/ Store(t) \/ Verify(t) \/ ReadNext(t) \/ Cas(t) \/ Drop(t)
  \/ PopHeld(t) \/ PopOwn(t) \/ PopHeldLocked(t) \/ PopAll(t) \/ PopNothing(t)
  \/ New(t) \/ NoNew(t) \/ Use(t) \/ Delete(t)
  \/ ClearFree(t) \/ ClearHeld(t) \/ ClearLocked(t) \/ ClearUnlocked(t)
  \/ ClearHeldLocked(t) \/ ClearAll(t) \/ ClearHeldUnlocked(t)
  \/ EndFree(t) \/ EndHeld(t) \/ Find(t) \/ Protect(t) \/ ReadVerify(t) \/ Leave(t)
  \/ Skip(t)

Next == \E t \in Threads : Step(t)
Spec == Init /\ [][Next]_vars

\* Every thread keeps running.
FairSpec == Spec /\ \A t \in Threads : WF_vars(Step(t))

-----------------------------------------------------------------------------

\* The nodes that the links lead to from the head, and what is behind them
Reached[k \in 0 .. Cardinality(Nodes)] ==
  IF k = 0 THEN head ELSE IF Reached[k - 1] = Null THEN Null ELSE link[Reached[k - 1]]
LockFree == {Reached[k] : k \in 0 .. Cardinality(Nodes)} \ {Null}

\* The places where a node can be: those that threads share, and those of each
\* thread.  Memory of a node that does not exist is "unused".
Shared == {"unused", "inUse", "lockFree", "gfree", "gheld"}
Own == {"free", "held", "tmp", "still", "out", "node"}
Places == (Shared \X {Null}) \cup (Own \X Threads)
Holds(place, n) ==
  LET t == place[2]
  IN CASE place[1] = "unused" -> n \notin allocated
       [] place[1] = "inUse" -> n \in inUse
       [] place[1] = "lockFree" -> n \in LockFree
       [] place[1] = "gfree" -> n \in ToSet(gfree)
       [] place[1] = "gheld" -> n \in ToSet(gheld)
       [] place[1] = "free" -> n \in ToSet(free[t])
       [] place[1] = "held" -> n \in ToSet(held[t])
       [] place[1] = "tmp" -> n \in ToSet(loc[t].tmp)
       [] place[1] = "still" -> n \in ToSet(loc[t].still)
       [] place[1] = "out" -> n \in ToSet(loc[t].out)
       [] place[1] = "node" -> n = loc[t].node

\* Every node that exists is in one place: in a data structure, in one list of
\* the pool, once, or with one thread; the lock-free list ends.
NodesInOnePlace ==
  /\ \A n \in Nodes : \E p \in Places : \A q \in Places : Holds(q, n) <=> q = p
  /\ IsInjective(gfree) /\ IsInjective(gheld)
  /\ \A t \in Threads :
       /\ IsInjective(free[t]) /\ IsInjective(held[t])
       /\ IsInjective(loc[t].tmp) /\ IsInjective(loc[t].still) /\ IsInjective(loc[t].out)
  /\ Reached[Cardinality(Nodes)] = Null

\* A node that a reader has is not given to anyone, nor in a list of nodes
\* that are.
Reading(t) == IF At(t, "readVerify") THEN Null ELSE slot[<<t, "read">>]
Given(t) == ToSet(free[t] \o loc[t].out) \cup (IF At(t, "got") THEN {loc[t].node} ELSE {})
NoReuseUnderHazard ==
  \A t \in Threads :
    Reading(t) # Null =>
      /\ Reading(t) \in allocated
      /\ Reading(t) \notin LockFree \cup ToSet(gfree)
      /\ \A u \in Threads : Reading(t) \notin Given(u)

\* A thread that reads the link of a node, which its hazard pointer refers to,
\* finds the node there (src/od_lockfree_stack.cpp:100: a node must not be
\* deleted as long as other threads have a hazard pointer on it).
NoUseAfterDelete ==
  \A t \in Threads : At(t, "next") => loc[t].cur \in allocated

\* All calls return, and no lock is kept.
AllReturn ==
  <>[](\A t \in Threads : At(t, "idle") /\ calls[t] = <<>> /\ t \notin {owner[k] : k \in Locks})
=============================================================================
