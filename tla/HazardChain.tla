----------------------------- MODULE HazardChain -----------------------------
(***************************************************************************)
(* The valid chain of hazard pointer groups (src/hazard_ptr.cpp and        *)
(* src/hazard_ptr_impl.hpp of libalconcurrent).                            *)
(*                                                                         *)
(* A thread that uses hazard pointers owns one hazard_ptr_group.  It takes *)
(* an unused one from the chain of all groups, or allocates one, and       *)
(* pushes it on the valid chain.  When the thread exits it marks its group *)
(* as deleted, unlinks it with the walk of a lock-free list, waits until   *)
(* nobody holds a writer_accesser on it, and gives it back.  Scanners walk *)
(* the valid chain without any protection to learn which pointers are      *)
(* hazardous; they must not miss a group that is registered.               *)
(*                                                                         *)
(* One action is one access to shared memory, with the thread-local work   *)
(* that follows it; the release of an accesser, which can only let the     *)
(* busy loop of an exit go on, is part of the action before it.  Memory is *)
(* sequentially consistent.  A local variable that is out of scope has its *)
(* initial value.                                                          *)
(***************************************************************************)
EXTENDS Naturals, FiniteSets

CONSTANTS
  Threads,    \* the threads that bind a group and exit
  Scanners,   \* the activities that run check_pointer_is_hazard_pointer
  Groups,     \* all the hazard_ptr_group objects that may be allocated
  Null,       \* nullptr
  Top,        \* names the storage aaddr_top_hzrd_ptr_valid_chain_
  SpuriousFailures, \* whether compare_exchange_weak may fail spuriously
  MaxLives,   \* bound: how often each thread binds a group
  MaxScans    \* bound: how often each scanner scans

ASSUME ChainAssumption ==
  /\ IsFiniteSet(Threads)
  /\ Null \notin Groups
  /\ Top \notin Groups
  /\ SpuriousFailures \in BOOLEAN
  /\ MaxLives \in [Threads -> Nat]
  /\ MaxScans \in Nat

VARIABLES
  chainTop,   \* ap_top_hzrd_ptr_chain_: top of the chain of all groups
  chainNext,  \* ap_chain_next_ of each group
  allocated,  \* the groups that new hazard_ptr_group has returned
  using,      \* is_using_ of each group
  top,        \* aaddr_top_hzrd_ptr_valid_chain_
  next,       \* delmarkable_valid_chain_next_.aaddr_next_: address and mark
  cnt,        \* delmarkable_valid_chain_next_.writer_accesser_cnt_
  pc,         \* control point of each thread
  phase,      \* which of its walks a removal is in
  own,        \* ownership_ticket_: the group the thread owns
  expect,     \* the expected value of the thread's next compare_exchange
  pre,        \* writer_twin_accessor: owner of the storage p_pre_addr_storage_
  accPre,     \* writer_twin_accessor: target of writer_pre_
  focus,      \* writer_twin_accessor: p_focus_
  accCur,     \* writer_twin_accessor: target of writer_cur_
  nxt,        \* p_nxt_hpg, the successor of a group found marked
  lives,      \* bound: bindings the thread has made so far
  scanAt,     \* p_cur_chain of each scanner
  scanning,   \* whether the scanner is inside its walk
  must,       \* history: the groups registered since the scanner's walk
              \* began that it has not visited yet
  scans       \* bound: walks the scanner has begun so far

regVars  == <<chainTop, chainNext, allocated, using>>
linkVars == <<top, next>>
walkVars == <<phase, pre, accPre, focus, accCur, nxt>>
scanVars == <<scanAt, scanning, must, scans>>
vars == <<regVars, linkVars, cnt, pc, own, expect, walkVars, lives, scanVars>>

GroupsOrNull == Groups \cup {Null}
Links == [ptr : GroupsOrNull, mark : BOOLEAN]

Points == {"idle", "occupy", "create", "regStore", "regCas",
           "pushLoad", "pushStore", "pushCas", "bound",
           "load", "acquire", "verify", "read", "unlink",
           "mark", "wait", "threw"}

-----------------------------------------------------------------------------
Init ==
  /\ chainTop = Null
  /\ chainNext = [g \in Groups |-> Null]
  /\ allocated = {}
  /\ using = [g \in Groups |-> FALSE]
  /\ top = Null
  /\ next = [g \in Groups |-> [ptr |-> Null, mark |-> TRUE]]
  /\ cnt = [g \in Groups |-> 0]
  /\ pc = [t \in Threads |-> "idle"]
  /\ phase = [t \in Threads |-> "check"]
  /\ own = [t \in Threads |-> Null]
  /\ expect = [t \in Threads |-> Null]
  /\ pre = [t \in Threads |-> Top]
  /\ accPre = [t \in Threads |-> Null]
  /\ focus = [t \in Threads |-> Null]
  /\ accCur = [t \in Threads |-> Null]
  /\ nxt = [t \in Threads |-> Null]
  /\ lives = [t \in Threads |-> 0]
  /\ scanAt = [s \in Scanners |-> Null]
  /\ scanning = [s \in Scanners |-> FALSE]
  /\ must = [s \in Scanners |-> {}]
  /\ scans = [s \in Scanners |-> 0]

Goto(t, p) == pc' = [pc EXCEPT ![t] = p]

-----------------------------------------------------------------------------
(* GetOwnership: try_get_ownership, or a new group that is registered.     *)

\* The first use of a hazard pointer by a thread without a group:
\* try_get_ownership loads the top of the chain of all groups.
GetOwnership(t) ==
  /\ pc[t] = "idle"
  /\ lives[t] < MaxLives[t]
  /\ lives' = [lives EXCEPT ![t] = @ + 1]
  /\ expect' = [expect EXCEPT ![t] = chainTop]
  /\ Goto(t, IF chainTop = Null THEN "create" ELSE "occupy")
  /\ UNCHANGED <<regVars, linkVars, cnt, own, walkVars, scanVars>>

\* Faulty: the group is taken although another thread is using it.
FaultyTryOccupy(t) ==
  /\ pc[t] = "occupy"
  /\ using' = [using EXCEPT ![expect[t]] = TRUE]
  /\ own' = [own EXCEPT ![t] = expect[t]]
  /\ expect' = [expect EXCEPT ![t] = Null]
  /\ Goto(t, "pushLoad")
  /\ UNCHANGED <<chainTop, chainNext, allocated, linkVars, cnt,
                 walkVars, lives, scanVars>>

\* try_ocupy succeeds on the group the walk has come to.
TryOccupy(t) ==
  /\ pc[t] = "occupy"
  /\ ~using[expect[t]]
  /\ using' = [using EXCEPT ![expect[t]] = TRUE]
  /\ own' = [own EXCEPT ![t] = expect[t]]
  /\ expect' = [expect EXCEPT ![t] = Null]
  /\ Goto(t, "pushLoad")
  /\ UNCHANGED <<chainTop, chainNext, allocated, linkVars, cnt,
                 walkVars, lives, scanVars>>

\* try_ocupy fails and the walk goes on along ap_chain_next_, which never
\* changes once the group is registered.
OccupyNext(t) ==
  /\ pc[t] = "occupy"
  /\ using[expect[t]]
  /\ expect' = [expect EXCEPT ![t] = chainNext[expect[t]]]
  /\ Goto(t, IF chainNext[expect[t]] = Null THEN "create" ELSE "occupy")
  /\ UNCHANGED <<regVars, linkVars, cnt, own, walkVars, lives, scanVars>>

\* new hazard_ptr_group, occupied before anybody else can see it, and the
\* load of the top of the chain it is to be pushed on.
NewGroup(t) ==
  /\ pc[t] = "create"
  /\ \E g \in Groups \ allocated :
       /\ allocated' = allocated \cup {g}
       /\ using' = [using EXCEPT ![g] = TRUE]
       /\ own' = [own EXCEPT ![t] = g]
  /\ expect' = [expect EXCEPT ![t] = chainTop]
  /\ Goto(t, "regStore")
  /\ UNCHANGED <<chainTop, chainNext, linkVars, cnt, walkVars, lives, scanVars>>

\* register_new_hazard_ptr_group stores the expected top in ap_chain_next_.
RegisterStore(t) ==
  /\ pc[t] = "regStore"
  /\ chainNext' = [chainNext EXCEPT ![own[t]] = expect[t]]
  /\ Goto(t, "regCas")
  /\ UNCHANGED <<chainTop, allocated, using, linkVars, cnt, own, expect,
                 walkVars, lives, scanVars>>

\* Faulty: a store in place of the compare_exchange.
FaultyRegisterCas(t) ==
  /\ pc[t] = "regCas"
  /\ chainTop' = own[t]
  /\ expect' = [expect EXCEPT ![t] = Null]
  /\ Goto(t, "pushLoad")
  /\ UNCHANGED <<chainNext, allocated, using, linkVars, cnt, own,
                 walkVars, lives, scanVars>>

RegisterCas(t) ==
  /\ pc[t] = "regCas"
  /\ chainTop = expect[t]
  /\ chainTop' = own[t]
  /\ expect' = [expect EXCEPT ![t] = Null]
  /\ Goto(t, "pushLoad")
  /\ UNCHANGED <<chainNext, allocated, using, linkVars, cnt, own,
                 walkVars, lives, scanVars>>

\* The weak compare_exchange fails and reloads the expected value.
RegisterRetry(t) ==
  /\ pc[t] = "regCas"
  /\ chainTop # expect[t] \/ SpuriousFailures
  /\ expect' = [expect EXCEPT ![t] = chainTop]
  /\ Goto(t, "regStore")
  /\ UNCHANGED <<regVars, linkVars, cnt, own, walkVars, lives, scanVars>>

-----------------------------------------------------------------------------
(* push_front_hazard_ptr_group_to_valid_chain                              *)

PushLoad(t) ==
  /\ pc[t] = "pushLoad"
  /\ expect' = [expect EXCEPT ![t] = top]
  /\ Goto(t, "pushStore")
  /\ UNCHANGED <<regVars, linkVars, cnt, own, walkVars, lives, scanVars>>

PushStore(t) ==
  /\ pc[t] = "pushStore"
  /\ next' = [next EXCEPT ![own[t]] = [ptr |-> expect[t], mark |-> FALSE]]
  /\ Goto(t, "pushCas")
  /\ UNCHANGED <<regVars, top, cnt, own, expect, walkVars, lives, scanVars>>

PushCas(t) ==
  /\ pc[t] = "pushCas"
  /\ top = expect[t]
  /\ top' = own[t]
  /\ expect' = [expect EXCEPT ![t] = Null]
  /\ Goto(t, "bound")
  /\ UNCHANGED <<regVars, next, cnt, own, walkVars, lives, scanVars>>

PushRetry(t) ==
  /\ pc[t] = "pushCas"
  /\ top # expect[t] \/ SpuriousFailures
  /\ expect' = [expect EXCEPT ![t] = top]
  /\ Goto(t, "pushStore")
  /\ UNCHANGED <<regVars, linkVars, cnt, own, walkVars, lives, scanVars>>

-----------------------------------------------------------------------------
(* writer_twin_accessor                                                    *)

\* A writer_accesser on g is made: it counts itself.
Acquired(c, g) == [c EXCEPT ![g] = @ + 1]

\* A writer_accesser on a is destroyed; an empty one has nothing to take back.
Dropped(c, a) == IF a = Null THEN c ELSE [c EXCEPT ![a] = @ - 1]

\* Faulty: the source of a move keeps its target, and counts down when it is
\* destroyed.
KeepingMove(c, dst, src) == [cnt |-> Dropped(c, dst), dst |-> src, src |-> src]

\* Faulty: what the destination of a move held is not released.
LeakyMove(c, dst, src) == [cnt |-> c, dst |-> src, src |-> Null]

\* operator=( writer_accesser&& ), with the counters c: an accesser on dst is
\* assigned the one on src.  Two accessers on one group stay as they are;
\* otherwise dst is released and src's count passes on without a change.
MoveAssigned(c, dst, src) ==
  IF dst = src THEN [cnt |-> c, dst |-> dst, src |-> src]
               ELSE [cnt |-> Dropped(c, dst), dst |-> src, src |-> Null]

\* The address in the storage that the twin accessor takes for the
\* predecessor's; the top of the chain is never marked.
PreLink(t) == IF pre[t] = Top THEN [ptr |-> top, mark |-> FALSE] ELSE next[pre[t]]

\* The twin accessor is destroyed, which releases both its accessers; the
\* next one starts at the top of the chain.
Restart(t) == /\ cnt' = Dropped(Dropped(cnt, accCur[t]), accPre[t])
              /\ accPre' = [accPre EXCEPT ![t] = Null]
              /\ accCur' = [accCur EXCEPT ![t] = Null]
              /\ pre' = [pre EXCEPT ![t] = Top]
              /\ focus' = [focus EXCEPT ![t] = Null]

\* The walk came to the end of the chain without the group.  For the first
\* check that is an "unexpected deletion"; the loop that unlinks is done,
\* provided the group still has its mark.
WalkEnd(t) ==
  /\ Restart(t)
  /\ Goto(t, IF phase[t] = "remove" /\ next[own[t]].mark THEN "wait" ELSE "threw")

\* setup_cur: load the predecessor's storage.
SetupLoad(t) ==
  /\ pc[t] = "load"
  /\ LET p == PreLink(t).ptr IN
     \/ /\ p = Null
        /\ WalkEnd(t)
     \/ /\ p # Null
        /\ focus' = [focus EXCEPT ![t] = p]
        /\ Goto(t, "acquire")
        /\ UNCHANGED <<pre, accPre, accCur, cnt>>
  /\ UNCHANGED <<regVars, linkVars, own, expect, phase, nxt, lives, scanVars>>

\* setup_cur: take a writer_accesser on the group found, a temporary that is
\* move-assigned to writer_cur_ and destroyed.  Since the load the group may
\* have been removed, given back and pushed again.
SetupAcquire(t) ==
  /\ pc[t] = "acquire"
  /\ LET m == MoveAssigned(Acquired(cnt, focus[t]), accCur[t], focus[t]) IN
       /\ cnt' = Dropped(m.cnt, m.src)
       /\ accCur' = [accCur EXCEPT ![t] = m.dst]
  /\ Goto(t, "verify")
  /\ UNCHANGED <<regVars, linkVars, own, expect, phase, pre, accPre, focus, nxt,
                 lives, scanVars>>

\* Faulty: the storage is not loaded again.
UncheckedVerify(t) ==
  /\ pc[t] = "verify"
  /\ Goto(t, "read")
  /\ UNCHANGED <<regVars, linkVars, cnt, own, expect, walkVars, lives, scanVars>>

\* setup_cur: load the storage again; when it has changed, try the group
\* that is there now.
SetupVerify(t) ==
  /\ pc[t] = "verify"
  /\ LET p == PreLink(t).ptr IN
     \/ /\ p = focus[t]
        /\ Goto(t, "read")
        /\ UNCHANGED <<pre, focus, accPre, accCur, cnt>>
     \/ /\ p = Null
        /\ WalkEnd(t)
     \/ /\ p \notin {Null, focus[t]}
        /\ focus' = [focus EXCEPT ![t] = p]
        /\ Goto(t, "acquire")
        /\ UNCHANGED <<pre, accPre, accCur, cnt>>
  /\ UNCHANGED <<regVars, linkVars, own, expect, phase, nxt, lives, scanVars>>

-----------------------------------------------------------------------------
(* is_hazard_ptr_group_in_valid_chain: a walk that unlinks the groups it   *)
(* finds marked                                                            *)

SeesMark(t) ==
  /\ pc[t] = "read"
  /\ next[focus[t]].mark
  /\ nxt' = [nxt EXCEPT ![t] = next[focus[t]].ptr]
  /\ Goto(t, "unlink")
  /\ UNCHANGED <<regVars, linkVars, cnt, own, expect, phase, pre, accPre, focus,
                 accCur, lives, scanVars>>

\* The group searched for: the first check goes on to mark it, the loop
\* that unlinks searches again.
Finds(t) ==
  /\ pc[t] = "read"
  /\ ~next[focus[t]].mark
  /\ focus[t] = own[t]
  /\ Restart(t)
  /\ Goto(t, IF phase[t] = "check" THEN "mark" ELSE "load")
  /\ UNCHANGED <<regVars, linkVars, own, expect, phase, nxt, lives, scanVars>>

\* Any other group: shift() makes it the predecessor, by a move assignment
\* of writer_cur_ to writer_pre_.
Passes(t) ==
  /\ pc[t] = "read"
  /\ ~next[focus[t]].mark
  /\ focus[t] # own[t]
  /\ LET m == MoveAssigned(cnt, accPre[t], accCur[t]) IN
       /\ cnt' = m.cnt
       /\ accPre' = [accPre EXCEPT ![t] = m.dst]
       /\ accCur' = [accCur EXCEPT ![t] = m.src]
       /\ pre' = [pre EXCEPT ![t] = m.dst]
  /\ Goto(t, "load")
  /\ UNCHANGED <<regVars, linkVars, own, expect, phase, focus, nxt, lives, scanVars>>

\* The compare_exchange on the predecessor's storage unlinks the group.
Unlink(t) ==
  /\ pc[t] = "unlink"
  /\ PreLink(t) = [ptr |-> focus[t], mark |-> FALSE]
  /\ IF pre[t] = Top
     THEN top' = nxt[t] /\ UNCHANGED next
     ELSE next' = [next EXCEPT ![pre[t]] = [ptr |-> nxt[t], mark |-> FALSE]]
          /\ UNCHANGED top
  /\ nxt' = [nxt EXCEPT ![t] = Null]
  /\ Goto(t, "load")
  /\ UNCHANGED <<regVars, cnt, own, expect, phase, pre, accPre, focus, accCur,
                 lives, scanVars>>

\* It fails, and the walk starts over.
UnlinkFails(t) ==
  /\ pc[t] = "unlink"
  /\ PreLink(t) # [ptr |-> focus[t], mark |-> FALSE] \/ SpuriousFailures
  /\ Restart(t)
  /\ nxt' = [nxt EXCEPT ![t] = Null]
  /\ Goto(t, "load")
  /\ UNCHANGED <<regVars, linkVars, own, expect, phase, lives, scanVars>>

-----------------------------------------------------------------------------
(* ~bind_hazard_ptr_list and remove_hazard_ptr_group_from_valid_chain      *)

\* The thread exits: its slots are cleared, from here on nobody needs to
\* see its group, and the removal begins with the check that it is there.
ThreadExit(t) ==
  /\ pc[t] = "bound"
  /\ Goto(t, "load")
  /\ must' = [s \in Scanners |-> must[s] \ {own[t]}]
  /\ UNCHANGED <<regVars, linkVars, cnt, own, expect, walkVars, lives,
                 scanAt, scanning, scans>>

\* set_del_mark: the compare_exchange loop puts the mark on whatever
\* successor the group has.  The accesser it uses is on the thread's own
\* group and gone before the thread looks at the counter.
SetDelMark(t) ==
  /\ pc[t] = "mark"
  /\ next' = [next EXCEPT ![own[t]] = [ptr |-> @.ptr, mark |-> TRUE]]
  /\ phase' = [phase EXCEPT ![t] = "remove"]
  /\ Goto(t, "load")
  /\ UNCHANGED <<regVars, top, cnt, own, expect, pre, accPre, focus, accCur, nxt,
                 lives, scanVars>>

\* Faulty: the busy loop on the counter is left out.
EarlyRelease(t) ==
  /\ pc[t] = "wait"
  /\ using' = [using EXCEPT ![own[t]] = FALSE]
  /\ own' = [own EXCEPT ![t] = Null]
  /\ phase' = [phase EXCEPT ![t] = "check"]
  /\ Goto(t, "idle")
  /\ UNCHANGED <<chainTop, chainNext, allocated, linkVars, cnt, expect,
                 pre, accPre, focus, accCur, nxt, lives, scanVars>>

\* Faulty: the link of the group is cleared when the group is given back.
ClearingRelease(t) ==
  /\ pc[t] = "wait"
  /\ cnt[own[t]] <= 0
  /\ next' = [next EXCEPT ![own[t]] = [ptr |-> Null, mark |-> TRUE]]
  /\ using' = [using EXCEPT ![own[t]] = FALSE]
  /\ own' = [own EXCEPT ![t] = Null]
  /\ phase' = [phase EXCEPT ![t] = "check"]
  /\ Goto(t, "idle")
  /\ UNCHANGED <<chainTop, chainNext, allocated, top, cnt, expect,
                 pre, accPre, focus, accCur, nxt, lives, scanVars>>

\* is_any_accesser finds the counter not above 0: the busy loop ends and
\* ownership_releaser clears is_using_.
Release(t) ==
  /\ pc[t] = "wait"
  /\ cnt[own[t]] <= 0
  /\ using' = [using EXCEPT ![own[t]] = FALSE]
  /\ own' = [own EXCEPT ![t] = Null]
  /\ phase' = [phase EXCEPT ![t] = "check"]
  /\ Goto(t, "idle")
  /\ UNCHANGED <<chainTop, chainNext, allocated, linkVars, cnt, expect,
                 pre, accPre, focus, accCur, nxt, lives, scanVars>>

-----------------------------------------------------------------------------
(* check_pointer_is_hazard_pointer and scan_hazard_pointers                *)

\* A group is registered from its push until its thread exits.
Registered == {own[t] : t \in {u \in Threads : pc[u] = "bound"}}

ScanStart(s) ==
  /\ ~scanning[s]
  /\ scans[s] < MaxScans
  /\ scans' = [scans EXCEPT ![s] = @ + 1]
  /\ scanning' = [scanning EXCEPT ![s] = TRUE]
  /\ scanAt' = [scanAt EXCEPT ![s] = top]
  /\ must' = [must EXCEPT ![s] = Registered]
  /\ UNCHANGED <<regVars, linkVars, cnt, pc, own, expect, walkVars, lives>>

\* The slots of the group are looked at, then its successor is loaded; the
\* reader_accesser does not count.
ScanVisit(s) ==
  /\ scanning[s]
  /\ scanAt[s] # Null
  /\ must' = [must EXCEPT ![s] = @ \ {scanAt[s]}]
  /\ scanAt' = [scanAt EXCEPT ![s] = next[scanAt[s]].ptr]
  /\ UNCHANGED <<regVars, linkVars, cnt, pc, own, expect, walkVars, lives,
                 scanning, scans>>

ScanReturn(s) ==
  /\ scanning[s]
  /\ scanAt[s] = Null
  /\ scanning' = [scanning EXCEPT ![s] = FALSE]
  /\ must' = [must EXCEPT ![s] = {}]
  /\ UNCHANGED <<regVars, linkVars, cnt, pc, own, expect, walkVars, lives,
                 scanAt, scans>>

-----------------------------------------------------------------------------
Bind(t) == \/ GetOwnership(t) \/ TryOccupy(t) \/ OccupyNext(t) \/ NewGroup(t)
           \/ RegisterStore(t) \/ RegisterCas(t) \/ RegisterRetry(t)
           \/ PushLoad(t) \/ PushStore(t) \/ PushCas(t) \/ PushRetry(t)
Walk(t) == \/ SetupLoad(t) \/ SetupAcquire(t) \/ SetupVerify(t)
           \/ SeesMark(t) \/ Finds(t) \/ Passes(t) \/ Unlink(t) \/ UnlinkFails(t)
Unbind(t) == ThreadExit(t) \/ Walk(t) \/ SetDelMark(t) \/ Release(t)
Scan(s) == ScanStart(s) \/ ScanVisit(s) \/ ScanReturn(s)

Next == \/ \E t \in Threads : Bind(t) \/ Unbind(t)
        \/ \E s \in Scanners : Scan(s)

Spec == Init /\ [][Next]_vars

\* The operating system runs every thread that exits.
FairSpec == Spec /\ \A t \in Threads : WF_vars(Walk(t) \/ SetDelMark(t) \/ Release(t))

-----------------------------------------------------------------------------
\* Every variable keeps its type; in particular writer_accesser_cnt_, an int,
\* never goes below 0, which is_any_accesser would take for no accesser.
TypeOK ==
  /\ chainTop \in GroupsOrNull
  /\ chainNext \in [Groups -> GroupsOrNull]
  /\ allocated \subseteq Groups
  /\ using \in [Groups -> BOOLEAN]
  /\ top \in GroupsOrNull
  /\ next \in [Groups -> Links]
  /\ cnt \in [Groups -> Nat]
  /\ pc \in [Threads -> Points]
  /\ phase \in [Threads -> {"check", "remove"}]
  /\ own \in [Threads -> GroupsOrNull]
  /\ expect \in [Threads -> GroupsOrNull]
  /\ pre \in [Threads -> Groups \cup {Top}]
  /\ accPre \in [Threads -> GroupsOrNull]
  /\ focus \in [Threads -> GroupsOrNull]
  /\ accCur \in [Threads -> GroupsOrNull]
  /\ nxt \in [Threads -> GroupsOrNull]
  /\ lives \in [Threads -> Nat]
  /\ scanAt \in [Scanners -> GroupsOrNull]
  /\ scanning \in [Scanners -> BOOLEAN]
  /\ must \in [Scanners -> SUBSET Groups]
  /\ scans \in [Scanners -> Nat]

-----------------------------------------------------------------------------
\* A walk that starts at f and follows link comes to g.
Closed(link, S) == \A x \in S : link[x] \in S \cup {Null}
Reaches(link, f, g) ==
  /\ f # Null
  /\ \A S \in SUBSET Groups : f \in S /\ Closed(link, S) => g \in S
ValidLink == [g \in Groups |-> next[g].ptr]

\* try_ocupy hands a group to one thread at a time: two threads never write
\* the slots of the same group.
OwnershipExclusive ==
  \A t, u \in Threads : own[t] = own[u] /\ own[t] # Null => t = u

\* register_new_hazard_ptr_group never loses a group of a concurrent push:
\* every group that is registered is found again by try_get_ownership.
Unregistered == {own[t] : t \in {u \in Threads : pc[u] \in {"regStore", "regCas"}}}
AllGroupsFindable ==
  \A g \in allocated \ Unregistered : Reaches(chainNext, chainTop, g)

\* Whatever removals and pushes run concurrently, the group of a thread that
\* has finished its push and not begun its exit is on the valid chain.
RegisteredIsReachable == \A g \in Registered : Reaches(ValidLink, top, g)

\* No registered group is lost: it is on the valid chain, and a scanner that
\* reaches the end of the chain has visited every group that was registered
\* during its whole walk, even when groups it stood on were removed, given
\* back and pushed again meanwhile.
ScanMissesNothing ==
  /\ RegisteredIsReachable
  /\ \A s \in Scanners : scanning[s] /\ scanAt[s] = Null => must[s] = {}

\* The logic errors that remove_hazard_ptr_group_from_valid_chain throws
\* ("unexpected deletion", and the lost mark) do not occur.
NoUnexpectedDeletion == \A t \in Threads : pc[t] # "threw"

\* writer_accesser_cnt_ is the number of writer_accessers that walks keep on
\* the group, through the construction of accessers, the move assignments of
\* setup_cur and shift, also between two accessers on one group, and the
\* destruction of temporaries and twin accessors.
Holders(acc, g) == Cardinality({t \in Threads : acc[t] = g})
AccessersCounted ==
  \A g \in Groups : cnt[g] = Holders(accPre, g) + Holders(accCur, g)

\* A group is given back only when no walk holds it, as its predecessor or
\* as its current group.
ReleasedUnheld ==
  [][\A t \in Threads : own[t] # Null /\ own'[t] = Null =>
        \A u \in Threads : own[t] \notin {accPre[u], accCur[u]}]_vars

\* A thread that has marked its group ends its removal: walks do not chase
\* each other for ever and no two exits wait for each other's accessers.
RemovalEnds == \A t \in Threads : pc[t] = "mark" ~> pc[t] = "idle"
=============================================================================
