# libalconcurrent: models, checks and proofs

libalconcurrent is a C++ library of lock-free containers: a stack, a FIFO queue and a list, with the
hazard pointers, node pool, thread local storage and memory allocator they rest on.  This directory
holds TLA+ modules that model its core, TLC configurations that check them on small instances, and
proofs checked by TLAPS.  All paths below are relative to `src/libalconcurrent/`.

## The system

| Part | Source | State | Operations |
|---|---|---|---|
| Hazard pointer groups | `src/hazard_ptr.cpp`, `src/hazard_ptr_impl.hpp` | the chain of all groups, the valid chain of the groups in use, a mark and a counter of accessers per group, seven slots per group, further groups behind it | bind a group (re-use or allocate, register, push), remove it at thread exit (mark, unlink, wait, release), assign a slot, scan all slots |
| Hazard pointers | `inc/alconcurrent/hazard_ptr.hpp` | a pointer and its slot; a handler's word of pointer and mark | load, store in the slot, verify; copy, move, swap; compare_exchange with a protected expected value |
| Stack | `src/od_lockfree_stack.cpp`, `inc/alconcurrent/lf_stack.hpp` | head, one link per node | push, pop, count_size |
| Queue | `src/od_lockfree_fifo.cpp`, `inc/alconcurrent/lf_fifo.hpp` | head (a sentinel), tail, one link per node | push, push_head, pop, count_size |
| Lock-free list | `src/od_lockfree_list.cpp`, `inc/alconcurrent/lf_list.hpp` | links with a mark | find, insert, remove, for_each, clear |
| Node pool | `inc/alconcurrent/internal/od_node_pool.hpp` | per thread: nodes without hazard, nodes still in hazard; the same globally under locks, and a lock-free stack | push (scan, then keep), pop (from six places in turn), clear, thread end |
| Simple lists | `src/od_simple_list.cpp` | head, tail, size | push, pop, merge, split |
| Node types | `inc/alconcurrent/internal/od_node_essence.hpp` | two links, a value | get, set |
| Dynamic thread local storage | `src/dynamic_tls.cpp`, `inc/alconcurrent/dynamic_tls.hpp` | keys in arrays, a head with content arrays per thread, both used again | get, set, release, thread end |
| Memory allocator | `src_mem/` | slots of 128 size classes in groups, slots given back per thread and globally, big blocks, chambers that only grow | allocate, deallocate, retrieve |
| Support | `conf_logger`, `utility`, `alcc_optional` | - | - |

How they interact.  A container takes a node from the node pool, fills it and links it with a
compare_exchange.  To take one out it protects the node with a hazard pointer, which stores its
address in a slot of the thread's hazard pointer group, verifies that the node is still where it was
and moves the head.  The node then goes to the pool, which scans the slots of all groups on the valid
chain.  A node found there waits in a list and is scanned for again by a later call; any other may be
handed out again or deleted.  The pool keeps its lists per thread, in a dynamic thread local object whose
deallocator moves them to the locked lists when the thread ends.  The allocator keeps freed slots in the
same way, on a lock-free stack popped with hazard pointers, and gets memory from chambers, which get it from
the operating system.  A thread binds its group when it first uses a hazard pointer and gives it
back in the destructor of a thread local object.  There is no message and nothing persistent: the
behaviours that are hard are the interleavings of single memory accesses, the
re-use of nodes, groups, keys, heads and slots (ABA), scans that look at things one after another, walks over
links that others change, thresholds, and thread ends in the middle of all this.  What makes the parts correct:

* hazard pointer groups: one owner per group; a group registered is never lost from either chain; a
  scan misses no group that is registered throughout; a group is not given back under a walk that
  holds it; exits end;
* hazard pointers: what is verified is not deleted, whatever copies, moves and swaps the slots go through;
* stack, queue, list: atomic operations in the order of their compare_exchanges; no node is used after it
  was reclaimed; no ABA; no node is lost or in two places; calls return;
* node pool: a node is handed out only after a scan that found nobody, and none is lost on the way through its lists;
* thread local storage: a thread sees its own data; each datum is deallocated once, while its object exists;
* allocator: memory handed out lies apart from all other; none is lost; the owner of an address is found.

`PROJECT.json` lists what is hard to test, at its line, with the properties that would catch it.

## Modules

One TLA+ action stands for one access to shared memory with the thread-local work around it; a spin on
one atomic that only repeats until it succeeds (`set_del_mark`) is the step that succeeds.  Memory is
sequentially consistent: the code stores slots with `memory_order_seq_cst` and everything else with
acquire and release, and what weaker orders than sequential consistency add is not modelled.

| Module | Models | State and actions |
|---|---|---|
| `HazardChain` | groups, both chains, exits and scans | `chainTop`, `chainNext`, `using`: chain of all groups; `top`, `next` (address and mark), `cnt`: valid chain; `pre`, `accPre`, `focus`, `accCur`: the `writer_twin_accessor` of a walk; one action per access in `get_ownership`, `push_front_...`, `is_..._in_valid_chain`, `remove_...`, and the walk of a scanner; `Acquired`, `Dropped`, `MoveAssigned`: what construction, destruction and move assignment of an accesser do to the counter, called wherever the code makes or loses one |
| `HazardSlots` | slots of a thread and the `hazard_ptr` on them | `slot`, `hint` per group; `hp`: pointer and slot of each `hazard_ptr`; `target`: the handler's pointer; a taker that takes objects out, scans slot after slot and deletes what it did not see |
| `MarkedLink` | the word of a pointer and its mark | `Zip`, `Unzip` and the exchanges, by arithmetic on the lowest bit; functions only |
| `AtomicStack`, `LfStack` | the stack's promise; `stack_list` with the pool's promise | a sequence; `head`, `next`, `val`, `slot`; `free`, `limbo`: nodes handed out, nodes still in hazard; `stk`: history of what is on the stack |
| `AtomicFifo`, `LfFifo` | the queue's promise; `fifo_list` with the pool's promise | as for the stack, with `tail`; `loc`: the locals of each call; `que`: history of the chain |
| `AtomicList`, `LfList` | the list's promise; `lockfree_list` on `od_lockfree_list` with the pool's promise | elements with an identity and a value; links with a mark; `lst`, `elems`: history of the linked nodes and of those without mark, `stay`: what a walk must still visit; one search for all calls |
| `NodePool` | `od_node_pool` with its locked lists and its lock-free stack | `free`, `held` per thread; `gfree`, `gheld` with `owner` of each lock; `head`, `link` of the lock-free stack; `slot`; `inUse`: nodes that containers use; `allocated` |
| `SimpleList` | `od_simple_list` | functions from a list (head, tail, count) and the links to a new list and new links |
| `DynamicTls` | `dynamic_tls_mgr`, keys, contents and `dynamic_tls<>` | keys with use flags and data, arrays of keys with a count, heads with contents and owners, deallocator calls under the global `mutex`; `phase`, `live`: histories |
| `RetrievedSlots` | `retrieved_slots_stack`s, lock-free and locked, hazard pointers on slots | a list per thread and one global one per class of slots, a scan, thread end |
| `SmallSlots` | groups of slots of one class | slots cut off a group in order, flags that catch double frees, the list of groups |
| `BigSlots` | blocks of their own | the search for a fitting block, blocks set aside as too small, the limit on unused bytes, unmapping |
| `Gmem` | `gmem_allocate`, `gmem_deallocate` | the three above on the same slots: requests that go on from class to class, frees of memory by any thread |
| `MemLayout` | arithmetic of alignment, rooms, mmap blocks | functions only |
| `SlotLayout` | arithmetic of size classes, slots and aligned addresses | functions only |
| `AllocOnlyChamber` | `alloc_chamber`, `alloc_chamber_head`, `alloc_only_chamber` | `offset` and rooms of each chamber, the list of chambers and its hint; allocation, deallocation, search (`is_belong_to`) and inspection |
| `*_proofs` | theorems | see below |
| `MC*` | instances for TLC | bounds, scripts and symmetry |

`LfStack`, `LfFifo`, `LfList`, `NodePool` and `RetrievedSlots` use the hazard pointers as `HazardChain` and
`HazardSlots` show them to be: a scan looks at every slot of every registered thread, one at a time, in any
order, and a verified pointer is not missed.  In the three containers, the pool's lists of nodes
without hazard and the nodes that `new` would return are one set, `free`: a node in it may be deleted
or handed out, so that touching it is an error.  `NoUseAfterReclaim` says nobody does.  `NodePool` is the
same promise kept by the pool's own lists (`NoReuseUnderHazard`, `NodesInOnePlace`).

A predicate of the list is the set of the values it accepts, so that `push_back` is an insertion with the
empty set; what an insertion and a removal accept is chosen by the run.  `swap` of two hazard pointers
exchanges the slots they own; `LfList` names a slot by its use, so that content and pending scans follow
the slot to its new name, while `HazardSlots` has slots and owners apart.
`AtomicList` lets `pop_front` take an element that has been first at some moment of the call, though
another has been pushed before it since: that is what the code does, because the mark is on the node and
not on the head.  A thread's own slots are empty when it scans, because it scans outside the calls that use them.

Abstractions of the single modules:

* `HazardSlots`: a thread keeps its groups; copying, moving and storing a handler, and the handler with a
  mark, are left out.  After the form of `compare_exchange` that takes an rvalue the `hazard_ptr` differs
  from its slot and may only be destroyed.
  Assigning from a default-constructed or moved-from `hazard_ptr` dereferences a null slot, so it is not done.
* `NodePool`: `try_lock` may fail at any time, also when nobody holds the lock; a section that scans or
  touches the lock-free list under a lock is made of several steps; the two destructors at thread end run in
  the order that the script says (`endHeld`, `endFree`).
* `DynamicTls`: a thread's calls come from a script; an object whose deallocator asks for another object is in `Uses`.
* `Gmem`: the question "does anybody hold this slot" is one step (its walk is `HazardChain`'s and
  `HazardSlots`' subject); a chamber gives memory at once or not at all; one class of small slots; the limit of
  unused bytes is compared in one step and added to in another, as in the code.
* `AllocOnlyChamber`: an mmap with the unmapping of what lies around an aligned block is one step; building a
  room is one step after its place has been won.  `Places` are the blocks that mmap gives, in
  order; one that would overlap what is mapped is not given.

## Runs

| Run | Question | Bounds |
|---|---|---|
| `chain_reuse` | do binding, exits and scans keep every registered group findable, visible to scans and owned once, and do exits end? | 2 threads binding twice, 1 scan, 3 groups: groups are re-used with a stale link or a stale accesser of the other thread |
| `chain_stale` | "unexpected deletion", with 3 threads and re-use | from a state reached in 59 steps, where two exits are waiting and a third walk stands between their groups; violated, see Findings |
| `slots` | do copies, moves, swaps and verified loads keep an object alive against a scan? | a reader with 3 `hazard_ptr` and 5 calls, 2 slots per group, so that the third needs a further group; a taker with 3 calls; 2 objects |
| `stack_overtake` | atomic, ABA-free and safe when overtaken often; do calls return? | 2 operations against 4 on 3 nodes: long enough to pop two nodes, re-use one, and push it again under a stalled pop |
| `fifo_races` | atomic and safe; do calls return? | 2 threads on 5 nodes: push and pop against push and two pops, with sentinels re-used; and a push_head overtaken by a push and two pops that re-use the sentinel and the tail it looks at |
| `list_races` | do removals of neighbours, insertions between them, walks and the operations at the ends get along; do calls return? | six histories of 2 threads with 3 calls on 3 nodes and 2 values |
| `list_walkover` | for_each over two removals | violated, see Findings |
| `pool_lists` | is a node lost, in two places, or given away while it is read? | five histories of 2 threads on 5 nodes; thresholds 1 and 3 instead of 50 and 20, so that every list is moved |
| `pool_delete` | does a destructor delete a node that a concurrent pop is about to read? | one thread pops while another deletes; violated, see Findings |
| `tls_ends` | first uses at once, ends against destructions, re-use of keys and heads | four histories of 3 threads and 3 objects, 2 keys in an array; in one the deallocator that asks for another object is run by the end of a thread |
| `gmem_slots` | is memory lost or handed out twice? | eight histories of 2 threads, one of 3, with 3 small slots and 2 big ones; one thread takes and returns all slots while the other is within a pop; a thread ends while another has its slot in hazard and a third inherits it; slots are freed twice and allocated again (in the history of 3 threads two wait for the first one to have filled the stack) |
| `chamber_rooms` | do rooms lie apart, are answers of searches and inspections right, which calls return? | eight histories of 3 threads; chambers of two pages that hold three small rooms, four blocks from the system, one of them not aligned; one request above the most that may be mapped |

A history is what each thread calls, in order or (for the containers) how often.  The histories are the
initial states of one run, because they ask the same question.  The bounds are small, but each
history is written for a case: every threshold, every retry, every re-use that the code has
happens in it, and every action of the modules is taken.  `MCNodePool` and `MCGmem` also evaluate what `NodePool_proofs` proves of simple lists
and `AllocOnlyChamber_proofs` of slots, for all pairs of disjoint sequences of three nodes and for slots at the borders of size classes.
Spurious failures of `compare_exchange_weak` are left to `slots`: in `chain_reuse` they would need more than weak
fairness for `RemovalEnds`.

Symmetry is used where only safety is checked.  `CHECK_DEADLOCK FALSE` is in every configuration
because a bounded system stops when all calls are made; that none stops before is the liveness property.

Fairness: `FairSpec` gives each thread weak fairness of its next step and nothing more: the operating
system runs every thread that can run.  It says nothing of which call a thread makes.  For
`RemovalEnds` only the exiting threads' steps are fair.  In `AllocOnlyChamber` one allocation
between `begin()` and `end()` already keeps a walk from ending, so that `CallsEnd` excepts walks that have lost the end
(`LosesEnd`) and inspections that have crashed, and nothing else; see Findings.  A lock that is held is given
back by a holder that goes on; `try_lock` does not wait.

## Findings

Shown by a run that is violated:

* `chain_stale`: a thread exit may throw "unexpected deletion" and, worse, a live group may be cut off
  the valid chain, so that its hazard pointers are not scanned.  The comment at
  `src/hazard_ptr.cpp:234` argues that a group is not re-used until its removal is complete; but a walk
  may stand on a removed group A and follow its frozen link to C, which nobody holds, which has been
  given back and whose new owner has stored its link but not yet pushed it.  The walk changes C's link
  between that store and the push.  It takes three threads and re-use;
  `chain_reuse` shows that two threads are not enough.
* `list_walkover`: `for_each` (and `count_size` and the const searches) goes on from a removed node along its
  frozen link, which it verifies against itself.  When that successor has been removed and reclaimed too,
  the walk uses a node that the pool may have handed out or deleted, against what the comment at
  `inc/alconcurrent/lf_list.hpp:218` says.  The search of all other operations unlinks a removed node or
  starts over, and is safe (`NoUseAfterReclaim`).  `list_races` shows that one removal is not enough (`WalkIsFaithful`).
* `pool_delete`: the destructors of stack, queue and list delete nodes straight after taking them from the
  pool.  The pool is shared by all containers of the type, and a node that comes from its lock-free list
  may still have a hazard pointer of another thread's pop on it, which then reads a deleted node's link.

Met while modelling, and stated here only:

* `push_front` of the queue falls back to appending when it has seen the queue empty, and
  the comment at `src/od_lockfree_fifo.cpp:187` has it that the result is the same.  When another push
  completes in between, the value ends up behind it.  `IsAtomicFifo` does not claim what the comment does: it is the weaker promise that
  the queue keeps, in which `push_head` may take effect as an append (`AppendLate` of `AtomicFifo`), and it passes on the history in which
  just this happens.  That `push_head` puts its value first is claimed by no property; with `AppendLate` restricted to an empty queue, as the comment has it, the same run is violated.
* `src/dynamic_tls.cpp:994`: the destructors of a thread's contents run in one pass over the keys, because no
  destruction reports that another is needed.  A deallocator that asks for an object whose turn is over creates
  a datum that nobody deallocates and that the next thread with the same head finds as its own, against
  `inc/alconcurrent/dynamic_tls.hpp:337`.  `tls_ends` has a history in which a deallocator does so at the end of its thread, and
  `NothingLeftBehind` excepts the data that are asked for by a deallocator of a thread that has ended (`Asked`).  The history in which a further
  thread takes over the head afterwards is kept out of the run: with it `OwnData` fails, as TLC finds.
* The comments on the destruction of `dynamic_tls` contradict each other.  `inc/alconcurrent/dynamic_tls.hpp:232` and `:251` say that
  the deallocation handler is not called when the instance is destroyed, `:235` and `:254` that it is; the code calls it, for the data of all
  threads.  `:238` and `:257` call it undefined to destroy the instance while one of its threads ends, and tell users to avoid it.
  `NothingLeftBehind` and `DeallocatorHasObject` say more than these comments promise: with the recursive mutex the code
  deallocates each datum once even then, and the run lets both happen at once.
* `src_mem/mem_small_memory_slot.cpp:159` and `mem_big_memory_slot.cpp:109`: of two threads that free the same slot one is told "double-free"
  as long as nobody has the slot anew.  A second free that has looked at the flag, and is overtaken by the first free and a new
  allocation, finds the flag set by the new user, clears it, and gives the slot back under that user, who then shares it with the
  next one to allocate; so does one that comes later still.  No allocator can tell such a free from a right one, but the report at
  `mem_small_memory_slot.cpp:160` ("fail to change slot status as unused slot. this means double-free causes race-condition b/w threads") covers
  only the first case.  `UnusedSlotsInOnePlace` holds in spite of it: no slot is ever in two lists.  `OneUser` is checked for slots that no second free
  has taken from their user (`torn`, a history); without this exception it fails on the history `Freed2`.
* `src_mem/alloc_only_allocator.cpp:462` and `:479`: a walk over a chamber reads the offset once in `begin()` and once in `end()`.  After one
  allocation in between, `operator++` (`:337`) stays at the sentinel of `begin()` and never equals `end()`: the walk goes on for ever,
  and an inspection counts on for ever.  `is_belong_to_this`, `inspect_using_memory`, the statistics and the logs walk in this way.
* `src_mem/alloc_only_allocator.cpp:560`: an inspection that comes to a room that has been cut off and not yet built reads
  `is_freeed_` through a null pointer.  A search only looks at the room again until it is built.  `chamber_rooms` reaches both
  this and the endless walk; `CallsEnd` excepts them by name, `AnswersAreRight` is about the answers that are returned.
* `src_mem/mem_small_memory_slot.cpp:103`: when the group at the head is full, an allocation takes all groups
  to be full once the head is what it began with, and may map a further group while an older one has room.
* `src_mem/mem_big_memory_slot.cpp:122`: a freed block above the limit is unmapped at once, though another thread may
  have a hazard pointer on it from the time it was in the list of unused blocks and is about to read its link
  (`mem_retrieved_slot_array_mgr.hpp:213`).
* Memory requested with an alignment above 8 is put 8 bytes behind an aligned address unless the slot's data
  is aligned by chance (theorem `AlignedByChance`; the promise is at `inc/alconcurrent/lf_mem_alloc.hpp:51`).
* `merge_push_front` and `merge_push_back` of a chain of nodes (`src/od_simple_list.cpp:140`, `:172`) count one node too
  few, against the check at `inc/alconcurrent/internal/od_simple_list.hpp:106`; nothing calls them.
* `hazard_ptr`s are safe to copy only to a slot that a scan reads later than the origin's; copied to an earlier
  one and reset at the origin, the pointer may be missed (`inc/alconcurrent/hazard_ptr.hpp:69`).  `CopyIsKept` says
  what holds.  The library makes no copy of the other kind.
* `operator!=(const T&, const alcc_optional<U>&)` returns the result of `==`; the file is compiled only where the standard
  library has no `std::optional`.

## Proofs

Each theorem holds for any finite or infinite sets of threads, nodes, values and slots and all bounds
that satisfy the module's ASSUME; `HazardChain` and `DynamicTls` need finitely many threads, because counters
count them or what they allocate.

* `HazardChain_proofs`: `TypeCorrect` and `CountsCorrect` from the invariant `TypeInv` (types, the control
  points at which a local variable is set, and every counter equal to the accessers held, through every construction, move and destruction of an accesser (`AcquiredCounts`, `DroppedCounts`,
  `ShiftHolds`, `UpdateTabulated`): without the last, "the counter is a natural number" is not inductive); `OwnershipIsExclusive` and
  `GroupsStayFindable` from `RegInv` (who owns a group uses it; a group being registered is not yet
  reachable and its link, once stored, is the expected top); `GivenBackUnheld` from the counters.
* `LfStack_proofs`: `StackInv` is `TypeOK`, `LocalsOK` (which locals are set where), `ChainIsStack`, `OnePlace`
  and `Protected`.  `Protected` is the heart of hazard pointers: a pop that has verified has its node in
  its slot, and if that node is being scanned for, the scan has not passed this slot.  It gives
  `ReclamationIsSafe` and, since a protected node keeps its link, `PopIsABAFree`.  `StackIsLinearizable`: every step of `LfStack` is a step of `AtomicStack` or
  a stutter, from `StackInv` and the fact that values stay in the nodes on the stack.
* `LfFifo_proofs`: `FifoInv` describes the chain (`Linked`, `TailOK`, `HeadOK`: from the head sentinel every link leads to the node pushed
  next, the tail pointer is at most one node behind), where every node is (`Apart`, `Complete`, `Distinct`: in the chain, in the free
  nodes, waiting for hazard pointers to go, or in one thread's hands), and what threads know: a verified pointer is `Protected` (the node has
  not been given back and every scan for it `WillSee` the slot), a head pointer that was read is the head or gone for good
  (`HeadOrGone`), a tail that was seen is at or behind the end (`TailSeen`), and `LocalsOK`.  `SoundQueue` and `SafeReclamation` follow.
  `QueueIsAtomicFifo`: every step of `LfFifo` is a step of `AtomicFifo`, with `AppendLate` for a `push_head` that finds the queue empty, or a stutter.  `RefInv` adds
  to `FifoInv` that the values in the chain are those pushed and that a pop which still may succeed carries the value of its node.
  A push takes effect when the link of the last node is exchanged, a pop when the head is, and a pop
  that finds nothing when it verified the tail and read an empty link.
* `HazardSlots_proofs`: `Inv` says who owns which slot (`Owned`), that a slot has content if and only if it is owned (`Filled`) and
  which (`Announced`, but while a replaced pointer waits to be reflected), what calls and scans rely on at each
  control point (`LocalsOK`), that an object that exists is with the handler or with the one thread that took it (`Held`), and
  `Kept`: the object in a verified hazard pointer, or in a copy of one whose slot comes later, exists, and every scan for it
  has still to come to the slot.  None of these is inductive alone: that no scan looks for an object just verified needs `Held`, that
  a scan that comes to the slot finds the object needs `Announced`, and that no step of another hazard pointer overwrites it needs
  `Owned`.  `OneForm` brings the 26 actions down to the five things that can happen to slots (nothing, a handler's pointer, a move, a store,
  a new group).  `OneOwner`, `VerifiedNotDeleted`, `CopyNotDeleted` and, since a thread whose groups are full has as many
  hazard pointers as slots, `NoGroupTooMany` follow.
* `AllocOnlyChamber_proofs`: `Inv` says that chambers lie apart and are on the list once (`ChambersOK`) or with the one thread that is
  about to push them (`PushesOK`), what a call knows of its chamber at each control point (`CallsOK`: at `chop`, that its room fits
  behind the offset it has read; at `build`, that the room it has won ends before the present one), and that rooms lie apart, each
  within its chamber before the offset (`RoomsOK`).  That is not inductive without the rooms that threads have won and not
  yet built: two of them, or one and a room, lie apart as well.  A chamber mapped anew lies apart because the part kept of an mmap block
  lies in the block and is as long as asked for (`KeptOfBlock`, from lemmas on division).  `MemoryIsApart` follows.  `WalkInv` adds
  what a search or an inspection relies on: what it looks for is ahead of it, in a room of this chamber that it has yet
  to come to or in a chamber further down the list, which no push and no chop changes; and an inspection has counted the rooms
  it has passed.  `WalksAnswer` follows: it is about answers, and says nothing of walks that never end.
  In the same module, of `SlotLayout`: for every size class, every buffer a group can have (the first one and all its doublings up to the
  limit, which is all that growing yields: `BuffersAreAll`), every slot and every request that the class takes, the memory handed
  out lies within the slot (`MemoryLiesInSlot`), the slot is found again from the address (`SlotsAreFound`), and
  the class is the smallest that holds the request (`EntryIsTight`).
* `LfList_proofs`: `ListInv` describes the chain (`ChainIsList`, `Distinct`), where every node is (`Apart`, `Complete`), and what calls
  know at each control point (`LocalOK`): which pointers lead to nodes that have been linked (`PointersOK`), which nodes stand
  in a slot that every scan for them has yet to look at (`GuardsOK`), and, what makes an exchange of links right, that a
  predecessor was passed by because its value is not wanted, and still is not unless it is marked, and that the link of
  a marked node does not change any more (`LinksOK`).  A node in a verified hazard pointer need not be in the list: what is proved of it is
  that, if it has no mark, it is (`KeptLinked`), because unlinked nodes keep their mark until they are used again (`GoneMarked`).  The node that `clear` marks
  without a comparison is the first one, whose link must still be the one it has read: whoever could change it works behind the first node
  (`HeadOnly`, from `OneKind`).  `ReclamationIsSafe` and `ChainIsKept` follow for every use that keeps `clear` apart from such calls
  (`ClearIsAlone`).  `ListStaysSound` adds the order, for insertions before the first greater value and smallest values in front
  (`SortedUse`): all linked nodes are sorted, marked ones included, and an insertion carries a value that belongs before
  the node it has found (`ArgsOK`); and that the elements, kept in `elems` by insertions and marks only, are the linked nodes
  without mark, in the order of the links (`ElemsInOrder`): what has left the elements cannot come back by an unlinking.  The instance that the runs check has both properties (`UsersKeepToIt` of `MCLfList`).
  `ListIsLinearizable`: every step of `LfList` is a step of `AtomicList` or a stutter, from `ElemsInv`, which is `ListInv`, `ElemsInOrder` and
  what calls have found (`FoundOK`: the node accepted still has the value accepted, because it is guarded; what `pop_front` marks
  stands behind the head).  `OpIs` says which operation a call is in at each control point, `SteadyStep` that steps other than insertions and
  marks change the operation of their own thread only, `OpTakes` that a mark also makes each `pop_front` that has seen this element first look
  again.  An insertion is behind an element that its predicate refuses because the predecessor, unmarked, is an element
  (`InsertedBehind`), and `push_back` is behind all because its successor is the sentinel (`LastElement`).
  Of the words that the links are (`MarkedLink`): a word gives back the pointer and mark it was made of (`UnzipOfZip`), so that a
  compare_exchange of words is one of the records by which `LfList` and `HazardChain` model links (`ExchangeOfLink`).
* `NodePool_proofs`: `Inv` says that there are a sequence `c`, the nodes of the lock-free list in the order of its links
  (`ChainIs`), and a function `p` that gives each node one place, such that every list holds just the nodes of its place, each once
  (`Arranged`).  The places are unused, in use by a container, `c`, the two locked lists, and for each thread its two lists, what its scan
  has yet to find in hazard (`tmp`) and has found (`still`), what it is about to link (`out`) and the node in its hands.  One
  function for all of them makes "in one place" a matter of the few nodes that a step moves (`Arranged` needs no pair of places).
  `LocalsOK` says which of these a call has at each control point, that a list emptied for a scan is still empty when the scan
  is over, so that what is put back overwrites nothing (`ListsOK`), and what it knows of links and hazard pointers
  (`LinksOK`).  `HazardsOK` is the promise: a node that a reader or a `pop_front` has verified is not where nodes are given
  away or linked, and a scan that has it has yet to see the slot (`Shielded`); a node read in a container is moreover not in
  the hands of a pop or deleted (`Kept`).  That the compare_exchange of `pop_front` sets the head to the true successor needs
  both: the node has not left the list and come back, because it is shielded, so its link is the one read (`LinksOK`).
  `OnePlaceForNodes` and `ReadersAreSafe` follow; the first also needs that a chain of links has no other end (`NotLonger`,
  `ReachedChain`), because the property follows links and does not know `c`.  The assumptions are that there are finitely many
  nodes, that the aggregation threshold is not 0 (the code's is 20), and that at first a node is in use or once in one of the lists.
  In the same module, of `SimpleList`, why `NodePool` may take lists for sequences: on lists of any
  length, links, tail and count after a push, pop or merge are those of the sequence
  (`PushFrontIsCons`, `PushBackIsAppend`, `PopFrontIsTail`, `MergeIsConcat`), and a turn of `split_if` keeps the nodes visited, the rest and those taken out apart and complete
  (`SplitTurnPartitions`).  That the loop as a whole does so needs an induction over data and is evaluated by `MCNodePool`.
* `DynamicTls_proofs`: `Inv` is about who has what.  The mutex is locked as often as its owner's control point says (`MutexOK`).  A
  key that is not free belongs to one object or to one thread that has claimed it and not yet published it (`KeysOK`); a thread that has lost
  the race to publish, or destroys the object, marks it `releasing` under the mutex.  An object names its key for a moment after it has
  been given back (`Past`), which is why ownership (`Owns`) is not what `tls_key_` says.  A head belongs to one thread (`HeadsOK`), and a thread
  allocates one at most (`MadeOK`).  A content that is not empty was made by its head's owner for its key's object
  (`ContentsOK`), and what a walk has yet to find is ahead of it, among the heads it has read or the keys it has not come
  to (`WalksOK`): a head pushed later has no content of a key that is being released, because nobody else
  gets to the object (`VarsOK`).  `CountsOK` says what the count of an array stands for, claims and releases
  in progress included.  `EachGetsItsOwn`, `AllIsDeallocated`, `DeallocatorIsSafe` and `KeysStaySound` follow.  All of them assume
  `NothingAsked`: no deallocator asks for another object.  Where one does, the outer call's locals are put aside while the inner
  call may make keys, heads and contents ahead of or behind the walk; the invariant would have to speak of two calls per thread.
  That case is model-checked, by `tls_ends`, whose histories without `v3` are within the theorems.

Only model-checked: completeness of scans on the valid chain (`ScanMissesNothing`; it does not hold in general, see Findings),
the list's walks (`WalkIsFaithful`; does not hold in general either), thread local storage where a deallocator asks for another object, the protocols
of the allocator's slots (`SlotsAreApart`, `MemoryIsKnown`), and all liveness
(outside TLAPS' reach, as is ENABLED).  `TypeOK` of `HazardChain` and `LfStack` is proved and not checked by a run.

## Not modelled, and why

* An insertion behind the first node while `clear` runs: `clear_impl` reads that node's link before it marks it,
  so that a node inserted in between would be cut off and handed to nobody.  `lockfree_list` calls `clear` in
  its destructor only, where nobody inserts.  `push_front` against `clear` is checked.
* Moves and swaps of lists, where a search would meet the sentinel of another list; `count_size` of stack and queue.
* `remove_all` and the other functions that the code calls for tests after all threads have ended.
* Memory orders weaker than sequential consistency; exceptions of `new`; profiling counters, statistics, backtraces; logging.
* `od_simple_list_conditional_lockable` and `laundering_still_in_hazard_list`, which nothing uses; `alcc_optional`.
* Variants of thread local storage on pthread keys and with exclusive access per key, which the default build leaves out;
  accessors that a caller keeps over calls.
* Maxima kept for reports (`max_count_of_tls_keys`, `max_total_allocation_size`), which a lost compare_exchange may leave behind.

## Plan

Done: the hazard pointers (`HazardChain`, `HazardSlots`, `MarkedLink`), the containers with their abstract specifications, the pool with its
lists, thread local storage, the allocator from chambers to slots, and the proofs above.  Next, in this order:

1. The promise of the pool that the containers assume, as a specification of its own that `NodePool` implements.
2. Proofs for the protocols of the allocator's slots, and for `DynamicTls` with deallocators that ask for other objects.
3. Moves and swaps of lists; `count_size` of stack and queue.
