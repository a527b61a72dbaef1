---------------------------- MODULE AllocOnlyChamber ----------------------------
(***************************************************************************)
(* alloc_only_chamber (src_mem/alloc_only_allocator.cpp): memory that is   *)
(* only marked when it is given back.  Threads cut rooms off the chamber   *)
(* at the head of a list, or off one other chamber, by moving its offset;  *)
(* a thread that finds no space maps a chamber and pushes it.  Searches    *)
(* and inspections go through the rooms meanwhile.                         *)
(*                                                                         *)
(* One action is one access to shared memory with the local work around    *)
(* it.  mmap and the two munmap that trim its block are one step, and so   *)
(* are the accesses that build a room, which no thread but a walk looks at *)
(* before its address has been returned.                                   *)
(***************************************************************************)
EXTENDS MemLayout, Sequences, FiniteSets

CONSTANTS
  Threads,  \* the threads
  Null,     \* nullptr
  PreAlloc, \* pre_alloc_size_
  MaxMmap,  \* conf_max_mmap_alloc_size
  Places,   \* bound: the blocks that mmap has, by address, in the order it gives them
  MaxCount, \* bound: the rooms that an inspection counts; one that never ends counts on
  Scripts   \* bound: what each thread calls, in each history

Ops == {"allocate", "deallocate", "belongs", "inspect"}

\* Powers of two, as the page size is one, divide it or are multiples of it.
Alignments == {a \in Nat \ {0} : PageSize % a = 0 \/ a % PageSize = 0}

ASSUME ChamberAssumption ==
  /\ Null \notin Nat
  /\ PreAlloc \in Nat /\ MaxMmap \in Nat /\ MaxCount \in Nat
  /\ Places \in Seq(Nat) /\ \A i \in DOMAIN Places : Places[i] % PageSize = 0
  /\ \A s \in Scripts : s \in [Threads -> Seq([op : Ops, n : Nat, align : Alignments])]

VARIABLES
  list,    \* the chambers from head_ on, by their addresses
  hint,    \* one_try_hint_
  size,    \* chamber_size_ of each chamber that is mapped
  offset,  \* offset_ of each chamber that is mapped
  rooms,   \* the rooms that have been built
  freed,   \* is_freeed_: the rooms, by the memory's address, that are marked
  loc,     \* control point and locals of each thread
  given,   \* history: the addresses that have been returned
  held,    \* history: those to be deallocated, the oldest first
  script   \* bound: the calls left

vars == <<list, hint, size, offset, rooms, freed, loc, given, held, script>>
sharedVars == <<list, hint, size, offset, rooms, freed>>
userVars == <<given, held, script>>

Idle == [pc |-> "idle",
         n |-> 0, align |-> 1, \* req_size, req_align
         ch |-> Null,          \* p_cur_focusing_ch, p_cur_chamber
         from |-> "head",      \* whether ch is the head or the hint
         off |-> 0,            \* cur_offset
         hint |-> Null,        \* p_cur_hint_ch
         seen |-> Null,        \* p_cur_head of push_alloc_mem
         try |-> 1,            \* the first or the second try_allocate
         ptr |-> Null,         \* p_mem, p_ans
         cur |-> 0,            \* addr_cur_rb_
         last |-> 0,           \* addr_end_sentinel_ of begin()
         end |-> 0,            \* addr_cur_rb_ of end()
         count |-> 0,          \* ans of inspect_using_memory
         used |-> {}]          \* history: the rooms in use when an inspection began

Init ==
  /\ list = <<>> /\ hint = Null
  /\ size = <<>> /\ offset = <<>>
  /\ rooms = {} /\ freed = {}
  /\ loc = [t \in Threads |-> Idle]
  /\ given = {} /\ held = <<>>
  /\ script \in Scripts

At(t, p) == loc[t].pc = p
Goto(t, p) == loc' = [loc EXCEPT ![t].pc = p]

HeadOf(l) == IF l = <<>> THEN Null ELSE Head(l)

\* next_ of a chamber on the list
NextOf(c) ==
  LET i == CHOOSE i \in 1 .. Len(list) : list[i] = c
  IN IF i < Len(list) THEN list[i + 1] ELSE Null

Request(t) == Head(script[t])
Calls(t, op) == At(t, "idle") /\ script[t] # <<>> /\ Request(t).op = op
Return(t, how) ==
  /\ script' = [script EXCEPT ![t] = Tail(@)]
  /\ loc' = [loc EXCEPT ![t] = [Idle EXCEPT !.pc = how, !.ptr = loc[t].ptr, !.count = loc[t].count,
                                            !.used = loc[t].used]]

-----------------------------------------------------------------------------
(* try_allocate                                                            *)

\* chked_allocate
Allocate(t) ==
  /\ Calls(t, "allocate")
  /\ loc' = [loc EXCEPT ![t] = [Idle EXCEPT
       !.pc = "tryHead", !.n = Request(t).n, !.align = Request(t).align]]
  /\ UNCHANGED <<sharedVars, userVars>>

\* try_allocate has failed: a new chamber is mapped, the first time.
TryFails(t) == IF loc[t].try = 1 THEN "map" ELSE "none"

LoadHead(t) ==
  /\ At(t, "tryHead")
  /\ loc' = [loc EXCEPT ![t].ch = HeadOf(list), ![t].from = "head",
                        ![t].pc = IF list = <<>> THEN TryFails(t) ELSE "offset"]
  /\ UNCHANGED <<sharedVars, userVars>>

\* A request for no byte is one for a byte.
Adapted(n) == IF n = 0 THEN 1 ELSE n

\* alloc_chamber::allocate: whether a room is left behind this offset
Fits(c, off, n, align) ==
  /\ size[c] - off >= Adapted(n) + DefaultAlign
  /\ EndOf(c + off, Adapted(n), align) <= c + size[c]

\* The chamber with this offset is tried, or given up.
TryAt(t, off) ==
  LET l == loc[t]
  IN loc' = [loc EXCEPT ![t].off = off,
       ![t].pc = IF Fits(l.ch, off, l.n, l.align) THEN "chop"
                 ELSE IF l.from = "head" THEN "tryHint" ELSE "moveHint"]

LoadOffset(t) ==
  /\ At(t, "offset")
  /\ TryAt(t, offset[loc[t].ch])
  /\ UNCHANGED <<sharedVars, userVars>>

RoomEnd(t) == EndOf(loc[t].ch + loc[t].off, Adapted(loc[t].n), loc[t].align)

\* Faulty: the offset is stored, whatever it is by now.
ChopAnyway(t) ==
  /\ At(t, "chop")
  /\ offset' = [offset EXCEPT ![loc[t].ch] = RoomEnd(t) - loc[t].ch]
  /\ Goto(t, "build")
  /\ UNCHANGED <<list, hint, size, rooms, freed, userVars>>

\* compare_exchange_strong of the offset
Chop(t) ==
  /\ At(t, "chop")
  /\ LET c == loc[t].ch IN
       IF offset[c] = loc[t].off
       THEN offset' = [offset EXCEPT ![c] = RoomEnd(t) - c] /\ Goto(t, "build")
       ELSE offset' = offset /\ TryAt(t, offset[c])
  /\ UNCHANGED <<list, hint, size, rooms, freed, userVars>>

\* The constructor of room_boader; the memory is returned.
Build(t) ==
  /\ At(t, "build")
  /\ LET l    == loc[t]
         base == l.ch + l.off
         room == [ch |-> l.ch, at |-> base, chopped |-> RoomEnd(t) - base,
                  top |-> TopOf(base, l.align), tail |-> TailOf(base, Adapted(l.n), l.align),
                  align |-> l.align]
     IN /\ rooms' = rooms \cup {room}
        /\ given' = given \cup {room.top}
        /\ held' = Append(held, room.top)
  /\ Return(t, "idle")
  /\ UNCHANGED <<list, hint, size, offset, freed>>

\* The hint, or the chamber after the head, is tried once.
LoadHint(t) ==
  /\ At(t, "tryHint")
  /\ loc' = [loc EXCEPT ![t].hint = hint, ![t].ch = hint, ![t].from = "hint",
                        ![t].pc = IF hint = Null THEN "second" ELSE "offset"]
  /\ UNCHANGED <<sharedVars, userVars>>

LoadSecond(t) ==
  /\ At(t, "second")
  /\ LET c == NextOf(Head(list))
     IN loc' = [loc EXCEPT ![t].ch = c, ![t].pc = IF c = Null THEN TryFails(t) ELSE "offset"]
  /\ UNCHANGED <<sharedVars, userVars>>

\* The hint goes on to the next chamber, if no other thread has moved it.
MoveHint(t) ==
  /\ At(t, "moveHint")
  /\ hint' = IF hint = loc[t].hint THEN NextOf(loc[t].ch) ELSE hint
  /\ Goto(t, TryFails(t))
  /\ UNCHANGED <<list, size, offset, rooms, freed, userVars>>

-----------------------------------------------------------------------------
(* chked_allocate: a new chamber                                           *)

\* How many bytes are mapped for a request.
MapSize(n) == IF PreAlloc < n + ChamberBytes THEN 2 * n + ChamberBytes ELSE PreAlloc

\* The blocks that mmap can give: they overlap nothing that is mapped.
Blocks(bytes) ==
  {i \in DOMAIN Places : \A c \in DOMAIN size : c + size[c] <= Places[i] \/ Places[i] + bytes <= c}
BlocksFor(t) ==
  IF MapSize(loc[t].n) > MaxMmap THEN {}
  ELSE Blocks(OverfitSize(MapSize(loc[t].n), loc[t].align))

\* allocate_by_mmap, and the constructor of alloc_chamber.
MapChamber(t) ==
  /\ At(t, "map")
  /\ \E i \in BlocksFor(t) :
       LET b == Trimmed(MapSize(loc[t].n), loc[t].align, Places[i])
       IN /\ \A j \in BlocksFor(t) : i <= j
          /\ size' = [c \in DOMAIN size \cup {b.at} |-> IF c = b.at THEN b.size ELSE size[c]]
          /\ offset' = [c \in DOMAIN size \cup {b.at} |-> IF c = b.at THEN InitOffset ELSE offset[c]]
          /\ loc' = [loc EXCEPT ![t].ch = b.at, ![t].pc = "link"]
  /\ UNCHANGED <<list, hint, rooms, freed, userVars>>

\* The request is too large, or mmap fails.
MapFails(t) ==
  /\ At(t, "map") /\ BlocksFor(t) = {}
  /\ Goto(t, "none")
  /\ UNCHANGED <<sharedVars, userVars>>

\* push_alloc_mem
LoadToPush(t) ==
  /\ At(t, "link")
  /\ loc' = [loc EXCEPT ![t].seen = HeadOf(list), ![t].pc = "push"]
  /\ UNCHANGED <<sharedVars, userVars>>

\* Faulty: a push that failed is tried again with the head it has read first.
PushAgain(t) ==
  /\ At(t, "push")
  /\ HeadOf(list) = loc[t].seen
  /\ list' = <<loc[t].ch>> \o list
  /\ loc' = [loc EXCEPT ![t].pc = "tryHead", ![t].try = 2]
  /\ UNCHANGED <<hint, size, offset, rooms, freed, userVars>>

\* compare_exchange_weak of the head
Push(t) ==
  /\ At(t, "push")
  /\ IF HeadOf(list) = loc[t].seen
     THEN /\ list' = <<loc[t].ch>> \o list
          /\ loc' = [loc EXCEPT ![t].pc = "tryHead", ![t].try = 2]
     ELSE list' = list /\ loc' = [loc EXCEPT ![t].seen = HeadOf(list)]
  /\ UNCHANGED <<hint, size, offset, rooms, freed, userVars>>

\* nullptr is returned.
ReturnNull(t) ==
  /\ At(t, "none")
  /\ Return(t, "idle")
  /\ UNCHANGED <<sharedVars, given, held>>

-----------------------------------------------------------------------------
(* deallocate                                                              *)

\* try_marks_as_deallocated; a room that is marked already stays marked.
Deallocate(t) ==
  /\ Calls(t, "deallocate") /\ held # <<>>
  /\ freed' = freed \cup {Head(held)}
  /\ held' = Tail(held)
  /\ Return(t, "idle")
  /\ UNCHANGED <<list, hint, size, offset, rooms, given>>

\* There is nothing to deallocate; the call is not made.
Skip(t) ==
  /\ Calls(t, "deallocate") /\ held = <<>>
  /\ Return(t, "idle")
  /\ UNCHANGED <<sharedVars, given, held>>

-----------------------------------------------------------------------------
(* is_belong_to_this and inspect_using_memory                              *)

Foreign == 1 \* an address no chamber is at
InUse == {r \in rooms : r.top \in given \ freed}

Search(t) ==
  /\ Calls(t, "belongs") /\ \E p \in given \cup {Foreign} :
       loc' = [loc EXCEPT ![t] = [Idle EXCEPT !.pc = "begin", !.ch = HeadOf(list), !.ptr = p]]
  /\ UNCHANGED <<sharedVars, userVars>>

Inspect(t) ==
  /\ Calls(t, "inspect")
  /\ loc' = [loc EXCEPT ![t] = [Idle EXCEPT !.pc = "begin", !.ch = HeadOf(list), !.used = InUse]]
  /\ UNCHANGED <<sharedVars, userVars>>

\* begin() of the next chamber, if there is one
Begin(t) ==
  /\ At(t, "begin")
  /\ LET c == loc[t].ch IN
       IF c = Null
       THEN Return(t, IF loc[t].ptr = Null THEN "counted" ELSE "notFound")
       ELSE /\ loc' = [loc EXCEPT ![t].cur = c + InitOffset, ![t].last = c + offset[c], ![t].pc = "end"]
            /\ script' = script
  /\ UNCHANGED <<sharedVars, given, held>>

\* end()
End(t) ==
  /\ At(t, "end")
  /\ loc' = [loc EXCEPT ![t].end = loc[t].ch + offset[loc[t].ch], ![t].pc = "visit"]
  /\ UNCHANGED <<sharedVars, userVars>>

\* operator++ stays at the sentinel of begin().
Onward(t, chopped) ==
  LET to == loc[t].cur + chopped IN IF to > loc[t].last THEN loc[t].last ELSE to

\* Faulty: the search ends with the first chamber.
LeaveAll(t) ==
  /\ At(t, "visit") /\ loc[t].cur = loc[t].end
  /\ Return(t, IF loc[t].ptr = Null THEN "counted" ELSE "notFound")
  /\ UNCHANGED <<sharedVars, given, held>>

\* The walk has come to the end of a chamber: the next chamber.
Leave(t) ==
  /\ At(t, "visit") /\ loc[t].cur = loc[t].end
  /\ loc' = [loc EXCEPT ![t].ch = NextOf(loc[t].ch), ![t].pc = "begin"]
  /\ UNCHANGED <<sharedVars, userVars>>

\* The room is the one that is searched, is counted, or is passed by.
Visit(t) ==
  /\ At(t, "visit") /\ loc[t].cur # loc[t].end /\ loc[t].count < MaxCount
  /\ \E r \in rooms :
       /\ r.at = loc[t].cur
       /\ IF loc[t].ptr # Null /\ r.top <= loc[t].ptr /\ loc[t].ptr < r.tail
          THEN Return(t, "found")
          ELSE /\ loc' = [loc EXCEPT ![t].cur = Onward(t, r.chopped),
                                     ![t].count = IF loc[t].ptr # Null \/ r.top \in freed THEN @ ELSE @ + 1]
               /\ script' = script
  /\ UNCHANGED <<sharedVars, given, held>>

\* A room that is not built yet is all zero: a search looks at it again and
\* again, and an inspection follows a null pointer.
VisitUnbuilt(t) ==
  /\ At(t, "visit") /\ loc[t].cur # loc[t].end
  /\ loc[t].ptr = Null /\ \A r \in rooms : r.at # loc[t].cur
  /\ Goto(t, "crashed")
  /\ UNCHANGED <<sharedVars, userVars>>

\* The caller takes the answer.
Answered(t) ==
  /\ At(t, "found") \/ At(t, "notFound") \/ At(t, "counted")
  /\ loc' = [loc EXCEPT ![t] = Idle]
  /\ UNCHANGED <<sharedVars, userVars>>

-----------------------------------------------------------------------------

Step(t) ==
  \/ Allocate(t) \/ LoadHead(t) \/ LoadOffset(t) \/ Chop(t) \/ Build(t)
  \/ LoadHint(t) \/ LoadSecond(t) \/ MoveHint(t)
  \/ MapChamber(t) \/ MapFails(t) \/ LoadToPush(t) \/ Push(t) \/ ReturnNull(t)
  \/ Deallocate(t) \/ Skip(t)
  \/ Search(t) \/ Inspect(t) \/ Begin(t) \/ End(t) \/ Leave(t) \/ Visit(t) \/ VisitUnbuilt(t)
  \/ Answered(t)

Next == \E t \in Threads : Step(t)
Spec == Init /\ [][Next]_vars
FairSpec == Spec /\ \A t \in Threads : WF_vars(Step(t))

-----------------------------------------------------------------------------

TypeOK ==
  /\ \A i \in 1 .. Len(list) : list[i] \in DOMAIN size
  /\ hint \in DOMAIN size \cup {Null}
  /\ DOMAIN offset = DOMAIN size
  /\ \A c \in DOMAIN size : c \in Nat /\ offset[c] \in InitOffset .. size[c]
  /\ freed \subseteq given
  /\ {held[i] : i \in 1 .. Len(held)} \subseteq given

\* Chambers do not overlap, and every one of them is on the list once, except
\* for one that its thread is about to push: no memory is mapped and lost.
ChambersAreListed ==
  /\ \A c, d \in DOMAIN size : c < d => c + size[c] <= d
  /\ \A c \in DOMAIN size :
       Cardinality({i \in 1 .. Len(list) : list[i] = c})
         = IF \E t \in Threads : loc[t].ch = c /\ loc[t].pc \in {"link", "push"} THEN 0 ELSE 1

\* A room is within its chamber, its parts lie one behind the other, the
\* memory is aligned as requested and has a byte of padding behind it, and no
\* two rooms overlap.
RoomsLieApart ==
  \A r \in rooms :
    /\ r.ch + ChamberBytes <= r.at
    /\ r.at + BorderBytes <= r.top - InRoomBytes
    /\ r.top % r.align = 0
    /\ r.tail < r.at + r.chopped
    /\ r.at + r.chopped <= r.ch + offset[r.ch]
    /\ \A s \in rooms : r # s => r.at + r.chopped <= s.at \/ s.at + s.chopped <= r.at

\* Memory is never in two rooms nor in none: the rooms lie in chambers that are
\* listed and do not overlap.
RoomsAreApart == TypeOK /\ ChambersAreListed /\ RoomsLieApart

\* An answer that is returned is right: a search has not missed an address that
\* had been returned when it began, nor found another one, and an inspection
\* has counted the rooms in use but those freed meanwhile.  That an answer is
\* returned at all is not said here; see CallsEnd.
AnswersAreRight ==
  \A t \in Threads :
    /\ At(t, "notFound") => loc[t].ptr \notin given
    /\ At(t, "found") => loc[t].ptr \in given
    /\ At(t, "counted") => Cardinality(loc[t].used \cap InUse) <= loc[t].count

\* An allocation has come between begin() and end() of a walk, which stays at
\* the sentinel of begin() and never meets the one of end().
LosesEnd(t) == At(t, "visit") /\ loc[t].last # loc[t].end

\* Every allocation and every deallocation returns, and so does every walk,
\* with two exceptions: a walk that has lost the end of a chamber (alloc_only_allocator.cpp:337-340,
\* 462-483) need not return, and an inspection that has followed the null
\* pointer of a room not built yet (:560) has crashed.
CallsEnd ==
  <>[](\A t \in Threads : script[t] = <<>> \/ LosesEnd(t) \/ At(t, "crashed"))
=============================================================================
