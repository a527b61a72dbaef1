-------------------------------- MODULE LfStack --------------------------------
(***************************************************************************)
(* stack_list (inc/alconcurrent/lf_stack.hpp) on od_lockfree_stack         *)
(* (src/od_lockfree_stack.cpp) and the node pool's hazard checks           *)
(* (inc/alconcurrent/internal/od_node_pool.hpp).                           *)
(*                                                                         *)
(* A pop protects the node at the head with a hazard pointer before it     *)
(* reads the node's link.  A popped node goes back to the pool: when a     *)
(* scan of all slots, one at a time, finds no hazard pointer on it, it may *)
(* be used for another push, or be deleted; otherwise the thread keeps it  *)
(* in its list of nodes still in hazard and scans again later.             *)
(*                                                                         *)
(* One action is one access to shared memory with the thread-local work    *)
(* that follows it.  Memory is sequentially consistent.  The lists of the  *)
(* pool that hold nodes without hazard are one set here; a node that new   *)
(* would return is in it as well.                                          *)
(***************************************************************************)
EXTENDS Integers, Sequences

CONSTANTS
  Threads,    \* the threads that push and pop
  OtherSlots, \* slots of hazard pointers that other code holds
  Nodes,      \* the nodes, allocated or not
  Values,     \* the values pushed
  Null,       \* nullptr, no value, and the content of an unassigned slot
  MaxOps      \* bound: how many operations each thread begins

\* Each thread has one slot here, that of hp_cur_head in pop_front.
Slots == Threads \cup OtherSlots

ASSUME StackAssumption ==
  /\ Null \notin Nodes
  /\ Null \notin Values
  /\ MaxOps \in [Threads -> Nat]
  /\ Threads \cap OtherSlots = {}

VARIABLES
  head,    \* hph_head_
  next,    \* hph_next_ of each node
  val,     \* v_ of each node
  slot,    \* the pointer in each slot
  free,    \* nodes the pool hands out: the no_in_hazard lists, and fresh ones
  limbo,   \* tl_odn_list_still_in_hazard of each thread
  pc,      \* control point of each thread
  arg,     \* v_arg of the push a thread is in
  node,    \* p_new_nd of a push, p_poped_node of a pop
  expect,  \* p_expected of a push, the pointer in hp_cur_head of a pop
  succ,    \* p_new_head
  ret,     \* ans of the pop a thread is in
  unseen,  \* slots that the thread's scan has still to look at
  ops,     \* bound: operations begun so far
  stk      \* history: the nodes on the stack, the top one last

memVars == <<head, next, val>>
poolVars == <<free, limbo>>
vars == <<memVars, slot, poolVars, pc, arg, node, expect, succ, ret, unseen, ops, stk>>

NodeOrNull == Nodes \cup {Null}
Points == {"idle", "pool", "recheck", "alloc", "pushLoad", "pushNext", "pushCas",
           "popLoad", "popSlot", "popVerify", "popNext", "popCas",
           "popDrop", "popValue", "retire"}

Init ==
  /\ head = Null
  /\ next = [n \in Nodes |-> Null]
  /\ val = [n \in Nodes |-> Null]
  /\ slot = [s \in Slots |-> Null]
  /\ free = Nodes
  /\ limbo = [t \in Threads |-> {}]
  /\ pc = [t \in Threads |-> "idle"]
  /\ arg = [t \in Threads |-> Null]
  /\ node = [t \in Threads |-> Null]
  /\ expect = [t \in Threads |-> Null]
  /\ succ = [t \in Threads |-> Null]
  /\ ret = [t \in Threads |-> Null]
  /\ unseen = [t \in Threads |-> {}]
  /\ ops = [t \in Threads |-> 0]
  /\ stk = <<>>

Goto(t, p) == pc' = [pc EXCEPT ![t] = p]
Begin(t) == ops[t] < MaxOps[t] /\ ops' = [ops EXCEPT ![t] = @ + 1]

-----------------------------------------------------------------------------
(* push: a node from the pool, its value, and the loop of push_front       *)

CallPush(t) ==
  /\ pc[t] = "idle"
  /\ Begin(t)
  /\ \E v \in Values : arg' = [arg EXCEPT ![t] = v]
  /\ Goto(t, "pool")
  /\ UNCHANGED <<memVars, slot, poolVars, node, expect, succ, ret, unseen, stk>>

\* Faulty: a node that is used again keeps the value it had.
StaleObtain(t, n) ==
  /\ node' = [node EXCEPT ![t] = n]
  /\ val' = [val EXCEPT ![n] = IF @ = Null THEN arg[t] ELSE @]
  /\ arg' = [arg EXCEPT ![t] = Null]
  /\ Goto(t, "pushLoad")

\* The thread has its node, from node_pool_t::pop() or from new, and stores
\* the value in it.
Obtain(t, n) ==
  /\ node' = [node EXCEPT ![t] = n]
  /\ val' = [val EXCEPT ![n] = arg[t]]
  /\ arg' = [arg EXCEPT ![t] = Null]
  /\ Goto(t, "pushLoad")

TakeFree(t) ==
  /\ pc[t] \in {"pool", "alloc"}
  /\ \E n \in free : Obtain(t, n) /\ free' = free \ {n}
  /\ UNCHANGED <<head, next, slot, limbo, expect, succ, ret, unseen, ops, stk>>

\* Faulty: the node scanned for stays in the list.
CopyingRecheck(t) ==
  /\ pc[t] = "pool"
  /\ \E n \in limbo[t] : node' = [node EXCEPT ![t] = n]
  /\ unseen' = [unseen EXCEPT ![t] = Slots]
  /\ Goto(t, "recheck")
  /\ UNCHANGED <<memVars, slot, poolVars, arg, expect, succ, ret, ops, stk>>

\* try_pop_from_still_in_hazard_list: a node that was in hazard is scanned
\* for again.
Recheck(t) ==
  /\ pc[t] = "pool"
  /\ \E n \in limbo[t] :
       /\ node' = [node EXCEPT ![t] = n]
       /\ limbo' = [limbo EXCEPT ![t] = @ \ {n}]
  /\ unseen' = [unseen EXCEPT ![t] = Slots]
  /\ Goto(t, "recheck")
  /\ UNCHANGED <<memVars, slot, free, arg, expect, succ, ret, ops, stk>>

PushLoad(t) ==
  /\ pc[t] = "pushLoad"
  /\ expect' = [expect EXCEPT ![t] = head]
  /\ Goto(t, "pushNext")
  /\ UNCHANGED <<memVars, slot, poolVars, arg, node, succ, ret, unseen, ops, stk>>

PushNext(t) ==
  /\ pc[t] = "pushNext"
  /\ next' = [next EXCEPT ![node[t]] = expect[t]]
  /\ Goto(t, "pushCas")
  /\ UNCHANGED <<head, val, slot, poolVars, arg, node, expect, succ, ret, unseen, ops, stk>>

\* compare_exchange_strong on the head; the push is done.
PushCas(t) ==
  /\ pc[t] = "pushCas"
  /\ head = expect[t]
  /\ head' = node[t]
  /\ stk' = Append(stk, node[t])
  /\ node' = [node EXCEPT ![t] = Null]
  /\ expect' = [expect EXCEPT ![t] = Null]
  /\ Goto(t, "idle")
  /\ UNCHANGED <<next, val, slot, poolVars, arg, succ, ret, unseen, ops>>

\* Faulty: the link is not set again before the next attempt.
UnlinkedPushRetry(t) ==
  /\ pc[t] = "pushCas"
  /\ head # expect[t]
  /\ expect' = [expect EXCEPT ![t] = head]
  /\ UNCHANGED <<memVars, slot, poolVars, pc, arg, node, succ, ret, unseen, ops, stk>>

\* Faulty: the expected value is not loaded again.
StalePushRetry(t) ==
  /\ pc[t] = "pushCas"
  /\ head # expect[t]
  /\ Goto(t, "pushNext")
  /\ UNCHANGED <<memVars, slot, poolVars, arg, node, expect, succ, ret, unseen, ops, stk>>

PushRetry(t) ==
  /\ pc[t] = "pushCas"
  /\ head # expect[t]
  /\ expect' = [expect EXCEPT ![t] = head]
  /\ Goto(t, "pushNext")
  /\ UNCHANGED <<memVars, slot, poolVars, arg, node, succ, ret, unseen, ops, stk>>

-----------------------------------------------------------------------------
(* pop_front                                                               *)

CallPop(t) ==
  /\ pc[t] = "idle"
  /\ Begin(t)
  /\ Goto(t, "popLoad")
  /\ UNCHANGED <<memVars, slot, poolVars, arg, node, expect, succ, ret, unseen, stk>>

\* get_to_verify_exchange: load the head, ...
PopLoad(t) ==
  /\ pc[t] = "popLoad"
  /\ expect' = [expect EXCEPT ![t] = head]
  /\ Goto(t, "popSlot")
  /\ UNCHANGED <<memVars, slot, poolVars, arg, node, succ, ret, unseen, ops, stk>>

\* ... and store it in the slot.
PopSlot(t) ==
  /\ pc[t] = "popSlot"
  /\ slot' = [slot EXCEPT ![t] = expect[t]]
  /\ Goto(t, "popVerify")
  /\ UNCHANGED <<memVars, poolVars, arg, node, expect, succ, ret, unseen, ops, stk>>

\* verify_exchange finds another head: that is stored in the slot next.
PopReload(t) ==
  /\ pc[t] = "popVerify"
  /\ head # expect[t]
  /\ expect' = [expect EXCEPT ![t] = head]
  /\ Goto(t, "popSlot")
  /\ UNCHANGED <<memVars, slot, poolVars, arg, node, succ, ret, unseen, ops, stk>>

\* verify_exchange succeeds on nullptr: the stack is empty.
PopEmpty(t) ==
  /\ pc[t] = "popVerify"
  /\ head = Null
  /\ expect[t] = Null
  /\ Goto(t, "idle")
  /\ UNCHANGED <<memVars, slot, poolVars, arg, node, expect, succ, ret, unseen, ops, stk>>

\* Faulty: the head is not compared again after the slot has been set.
UnverifiedPop(t) ==
  /\ pc[t] = "popVerify"
  /\ expect[t] # Null
  /\ Goto(t, "popNext")
  /\ UNCHANGED <<memVars, slot, poolVars, arg, node, expect, succ, ret, unseen, ops, stk>>

\* verify_exchange succeeds on a node.
PopVerified(t) ==
  /\ pc[t] = "popVerify"
  /\ head = expect[t]
  /\ head # Null
  /\ Goto(t, "popNext")
  /\ UNCHANGED <<memVars, slot, poolVars, arg, node, expect, succ, ret, unseen, ops, stk>>

PopNext(t) ==
  /\ pc[t] = "popNext"
  /\ succ' = [succ EXCEPT ![t] = next[expect[t]]]
  /\ Goto(t, "popCas")
  /\ UNCHANGED <<memVars, slot, poolVars, arg, node, expect, ret, unseen, ops, stk>>

\* compare_exchange_strong_to_verify_exchange2: the node is the thread's.
PopCas(t) ==
  /\ pc[t] = "popCas"
  /\ head = expect[t]
  /\ head' = succ[t]
  /\ stk' = SubSeq(stk, 1, Len(stk) - 1)
  /\ node' = [node EXCEPT ![t] = expect[t]]
  /\ expect' = [expect EXCEPT ![t] = Null]
  /\ succ' = [succ EXCEPT ![t] = Null]
  /\ Goto(t, "popDrop")
  /\ UNCHANGED <<next, val, slot, poolVars, arg, ret, unseen, ops>>

\* It fails: the head it found is stored in the slot next.
PopRetry(t) ==
  /\ pc[t] = "popCas"
  /\ head # expect[t]
  /\ expect' = [expect EXCEPT ![t] = head]
  /\ succ' = [succ EXCEPT ![t] = Null]
  /\ Goto(t, "popSlot")
  /\ UNCHANGED <<memVars, slot, poolVars, arg, node, ret, unseen, ops, stk>>

\* pop_front returns and its hazard pointer is destroyed.
PopDrop(t) ==
  /\ pc[t] = "popDrop"
  /\ slot' = [slot EXCEPT ![t] = Null]
  /\ Goto(t, "popValue")
  /\ UNCHANGED <<memVars, poolVars, arg, node, expect, succ, ret, unseen, ops, stk>>

\* Faulty: the node is given to the pool without a scan.
UnscannedPopValue(t) ==
  /\ pc[t] = "popValue"
  /\ ret' = [ret EXCEPT ![t] = val[node[t]]]
  /\ Goto(t, "retire")
  /\ UNCHANGED <<memVars, slot, poolVars, arg, node, expect, succ, unseen, ops, stk>>

\* The value is moved out of the node, which then goes to the pool.
PopValue(t) ==
  /\ pc[t] = "popValue"
  /\ ret' = [ret EXCEPT ![t] = val[node[t]]]
  /\ unseen' = [unseen EXCEPT ![t] = Slots]
  /\ Goto(t, "retire")
  /\ UNCHANGED <<memVars, slot, poolVars, arg, node, expect, succ, ops, stk>>

-----------------------------------------------------------------------------
(* check_pointer_is_hazard_pointer for a node that was popped or that is   *)
(* in the list of nodes still in hazard                                    *)

Scanning(t) == pc[t] \in {"retire", "recheck"}

ScanSlot(t) ==
  /\ Scanning(t)
  /\ \E s \in unseen[t] :
       /\ slot[s] # node[t]
       /\ unseen' = [unseen EXCEPT ![t] = @ \ {s}]
  /\ UNCHANGED <<memVars, slot, poolVars, pc, arg, node, expect, succ, ret, ops, stk>>

\* A slot holds the node: it stays in the list of nodes still in hazard.  The
\* pop returns; a push allocates, or finds a free node after all.
FoundInHazard(t) ==
  /\ Scanning(t)
  /\ \E s \in unseen[t] : slot[s] = node[t]
  /\ limbo' = [limbo EXCEPT ![t] = @ \cup {node[t]}]
  /\ node' = [node EXCEPT ![t] = Null]
  /\ ret' = [ret EXCEPT ![t] = Null]
  /\ unseen' = [unseen EXCEPT ![t] = {}]
  /\ Goto(t, IF pc[t] = "retire" THEN "idle" ELSE "alloc")
  /\ UNCHANGED <<memVars, slot, free, arg, expect, succ, ops, stk>>

\* No slot held the node: its value is reset and it can be used again.
Reclaim(t) ==
  /\ pc[t] = "retire"
  /\ unseen[t] = {}
  /\ free' = free \cup {node[t]}
  /\ val' = [val EXCEPT ![node[t]] = Null]
  /\ node' = [node EXCEPT ![t] = Null]
  /\ ret' = [ret EXCEPT ![t] = Null]
  /\ Goto(t, "idle")
  /\ UNCHANGED <<head, next, slot, limbo, arg, expect, succ, unseen, ops, stk>>

\* No slot holds the node any more: the push that scanned again uses it.
Reuse(t) ==
  /\ pc[t] = "recheck"
  /\ unseen[t] = {}
  /\ Obtain(t, node[t])
  /\ UNCHANGED <<head, next, slot, poolVars, expect, succ, ret, unseen, ops, stk>>

-----------------------------------------------------------------------------
Step(t) ==
  \/ CallPush(t) \/ TakeFree(t) \/ Recheck(t)
  \/ PushLoad(t) \/ PushNext(t) \/ PushCas(t) \/ PushRetry(t)
  \/ CallPop(t) \/ PopLoad(t) \/ PopSlot(t) \/ PopReload(t) \/ PopEmpty(t)
  \/ PopVerified(t) \/ PopNext(t) \/ PopCas(t) \/ PopRetry(t) \/ PopDrop(t)
  \/ PopValue(t)
  \/ ScanSlot(t) \/ FoundInHazard(t) \/ Reclaim(t) \/ Reuse(t)

Next == \E t \in Threads : Step(t)

Spec == Init /\ [][Next]_vars

\* Every thread keeps running; which operation it calls next is its own.
FairSpec == Spec /\ \A t \in Threads : WF_vars(Step(t))

-----------------------------------------------------------------------------
\* Every variable keeps its type; the nodes of the history are nodes.
TypeOK ==
  /\ head \in NodeOrNull
  /\ next \in [Nodes -> NodeOrNull]
  /\ val \in [Nodes -> Values \cup {Null}]
  /\ slot \in [Slots -> NodeOrNull]
  /\ free \subseteq Nodes
  /\ limbo \in [Threads -> SUBSET Nodes]
  /\ pc \in [Threads -> Points]
  /\ arg \in [Threads -> Values \cup {Null}]
  /\ node \in [Threads -> NodeOrNull]
  /\ expect \in [Threads -> NodeOrNull]
  /\ succ \in [Threads -> NodeOrNull]
  /\ ret \in [Threads -> Values \cup {Null}]
  /\ unseen \in [Threads -> SUBSET Slots]
  /\ ops \in [Threads -> Nat]
  /\ stk \in Seq(Nodes)

\* The links in memory are the stack: from the head they lead through the
\* nodes pushed and not yet popped, in order, down to nullptr.
ChainIsStack ==
  /\ head = IF stk = <<>> THEN Null ELSE stk[Len(stk)]
  /\ \A i \in 1..Len(stk) : next[stk[i]] = IF i = 1 THEN Null ELSE stk[i - 1]

\* A pop reads the link, and compares the head with, only nodes that the
\* pool has not got back: no node is used after it may have been deleted.
Visiting(t) == pc[t] \in {"popNext", "popCas"}
NoUseAfterReclaim ==
  \A t \in Threads : Visiting(t) => expect[t] \notin free

\* The compare_exchange of a pop that finds the head it expects stores that
\* head's present successor: nodes come back only when nobody can mistake
\* them for what they were (no ABA).
NoABA ==
  \A t \in Threads : pc[t] = "popCas" /\ head = expect[t] => succ[t] = next[head]

\* A node is in one place only: on the stack, with the thread that pushes,
\* pops or scans for it, in a list of nodes still in hazard, or free.
OnStack == {stk[i] : i \in 1..Len(stk)}
Held(t) == {node[t]} \ {Null}
OnePlace ==
  /\ \A i, j \in 1..Len(stk) : stk[i] = stk[j] => i = j
  /\ OnStack \cap free = {}
  /\ \A t \in Threads :
       /\ Held(t) \cap (OnStack \cup free) = {}
       /\ limbo[t] \cap (OnStack \cup free) = {}
       /\ \A u \in Threads :
            /\ limbo[t] \cap Held(u) = {}
            /\ t # u => Held(t) \cap Held(u) = {} /\ limbo[t] \cap limbo[u] = {}

-----------------------------------------------------------------------------
\* The stack implements AtomicStack: the push takes effect at its
\* compare_exchange, the pop at its own or at the load that finds the stack
\* empty; the value a pop returns is read from the node afterwards.
OpOf(t) ==
  CASE pc[t] = "idle" -> [name |-> "idle"]
    [] pc[t] \in {"pool", "recheck", "alloc"} -> [name |-> "push", value |-> arg[t]]
    [] pc[t] \in {"pushLoad", "pushNext", "pushCas"} ->
         [name |-> "push", value |-> val[node[t]]]
    [] pc[t] \in {"popLoad", "popSlot", "popVerify", "popNext", "popCas"} ->
         [name |-> "pop"]
    [] pc[t] \in {"popDrop", "popValue"} -> [name |-> "got", value |-> val[node[t]]]
    [] pc[t] = "retire" -> [name |-> "got", value |-> ret[t]]

Abstract == INSTANCE AtomicStack
  WITH content <- [i \in 1..Len(stk) |-> val[stk[i]]],
       op <- [t \in Threads |-> OpOf(t)]
IsAtomicStack == Abstract!Spec

\* Lock freedom: operations that fail a compare_exchange do so because
\* another one succeeded, so that all calls return.  A push for which there is
\* no node, where the program has no memory, does not count.
AllReturn ==
  <>[](\A t \in Threads : pc[t] = "idle" \/ (pc[t] \in {"pool", "alloc"} /\ free = {}))
=============================================================================
