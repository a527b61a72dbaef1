------------------------ MODULE AllocOnlyChamber_proofs ------------------------
(***************************************************************************)
(* Proofs about AllocOnlyChamber, for every number of threads, chambers,   *)
(* requests and alignments: no memory is handed out twice, and no chamber  *)
(* is lost.  At the end, proofs about SlotLayout: where the memory lies in *)
(* the slots that are made of such chambers and of mmap's blocks.          *)
(***************************************************************************)
EXTENDS AllocOnlyChamber, SlotLayout, FiniteSetTheorems, SequenceTheorems, TLAPS

-----------------------------------------------------------------------------
(* The inductive invariant.                                                *)

Listed == {list[i] : i \in 1 .. Len(list)}
Requests == [op : Ops, n : Nat, align : Alignments]

Pushing(l) == l.pc \in {"link", "push"}
Building(l) == l.pc = "build"
Resting(l) == l.pc \in {"idle", "found", "notFound", "counted"}
\* The end of the room that a call with these locals cuts off.
CutAt(l) == EndOf(l.ch + l.off, Adapted(l.n), l.align)

\* The chambers, and the list of them.
ChambersOK ==
  /\ list \in Seq(Nat)
  /\ \A i, j \in 1 .. Len(list) : list[i] = list[j] => i = j
  /\ Listed \subseteq DOMAIN size
  /\ hint \in Listed \cup {Null}
  /\ DOMAIN offset = DOMAIN size
  /\ \A c \in DOMAIN size :
       c \in Nat /\ size[c] \in Nat /\ offset[c] \in Nat /\ 32 <= offset[c] /\ offset[c] <= size[c]
  /\ \A c, d \in DOMAIN size : c < d => c + size[c] <= d

\* What a call knows of its chamber at each control point.
CallOK(l) ==
  /\ DOMAIN l = DOMAIN Idle
  /\ l.n \in Nat /\ l.align \in Alignments
  /\ l.pc \in {"offset", "chop", "build", "moveHint", "end", "visit"} => l.ch \in Listed
  /\ l.pc = "begin" => l.ch \in Listed \cup {Null}
  /\ l.pc \in {"tryHint", "second"} => list # <<>>
  /\ l.pc \in {"chop", "build"} => l.off \in Nat /\ 32 <= l.off
  /\ l.pc = "chop" => Fits(l.ch, l.off, l.n, l.align)
  /\ l.pc = "build" => CutAt(l) <= l.ch + offset[l.ch]
  /\ Pushing(l) => l.ch \in DOMAIN size \ Listed
CallsOK == DOMAIN loc = Threads /\ \A t \in Threads : CallOK(loc[t])

\* A chamber is on the list or with the one thread that pushes it.
PushesOK ==
  /\ \A c \in DOMAIN size : c \in Listed \/ \E t \in Threads : Pushing(loc[t]) /\ loc[t].ch = c
  /\ \A t, u \in Threads : Pushing(loc[t]) /\ Pushing(loc[u]) /\ loc[t].ch = loc[u].ch => t = u

\* A room lies in its chamber, before the offset, ...
RoomOK(r) ==
  /\ r.ch \in DOMAIN size
  /\ r.at \in Nat /\ r.chopped \in Nat /\ r.top \in Nat /\ r.tail \in Nat
  /\ r.ch + 32 <= r.at /\ r.at + 40 <= r.top /\ r.top % r.align = 0
  /\ r.top < r.tail /\ r.tail < r.at + r.chopped
  /\ r.at + r.chopped <= r.ch + offset[r.ch]
\* ... apart from the others and from the rooms that threads are about to build.
RoomsOK ==
  /\ \A r \in rooms : RoomOK(r)
  /\ \A r, s \in rooms : r # s => r.at + r.chopped <= s.at \/ s.at + s.chopped <= r.at
  /\ \A r \in rooms, t \in Threads : Building(loc[t]) =>
       r.at + r.chopped <= loc[t].ch + loc[t].off \/ CutAt(loc[t]) <= r.at
  /\ \A t, u \in Threads : t # u /\ Building(loc[t]) /\ Building(loc[u]) =>
       CutAt(loc[t]) <= loc[u].ch + loc[u].off \/ CutAt(loc[u]) <= loc[t].ch + loc[t].off

\* Calls to come, and what has been returned.
HistoryOK ==
  /\ DOMAIN script = Threads
  /\ \A t \in Threads : script[t] \in Seq(Requests) /\ (~Resting(loc[t]) => script[t] # <<>>)
  /\ given \subseteq Nat /\ freed \subseteq given
  /\ held \in Seq(given)

Inv == ChambersOK /\ CallsOK /\ PushesOK /\ RoomsOK /\ HistoryOK

-----------------------------------------------------------------------------
(* Division                                                                *)

\* Quotient and remainder.
LEMMA Division ==
  ASSUME NEW n \in Nat, NEW a \in Nat \ {0}
  PROVE  /\ n \div a \in Nat /\ n % a \in Nat
         /\ n = a * (n \div a) + (n % a) /\ n % a < a
  OBVIOUS

\* They are the only ones.
LEMMA DivisionIs ==
  ASSUME NEW n \in Nat, NEW a \in Nat \ {0}, NEW q \in Nat, NEW r \in Nat, n = a * q + r, r < a
  PROVE  n \div a = q /\ n % a = r
OBVIOUS

\* The next multiple of a is not before n.
LEMMA RoundsUp ==
  ASSUME NEW n \in Nat, NEW a \in Nat \ {0}
  PROVE  RoundUp(n, a) \in Nat /\ n <= RoundUp(n, a) /\ RoundUp(n, a) % a = 0
<1> DEFINE q == (n + a - 1) \div a
<1>1. n + a - 1 \in Nat  OBVIOUS
<1>2. q \in Nat /\ n + a - 1 = a * q + ((n + a - 1) % a) /\ (n + a - 1) % a < a /\ (n + a - 1) % a \in Nat
  BY <1>1, Division, Zenon
<1> HIDE DEF q
<1>3. a * q \in Nat  BY <1>2
<1>4. n <= a * q  BY <1>2, <1>3
<1>5. (a * q) % a = 0
  <2>1. a * q = a * q + 0 /\ 0 \in Nat /\ 0 < a  BY <1>3
  <2>2. QED  BY <1>2, <1>3, <2>1, DivisionIs, Zenon
<1>6. QED  BY <1>3, <1>4, <1>5, Zenon DEF RoundUp, q

\* Where the parts of a room lie, behind its base.
LEMMA RoomParts ==
  ASSUME NEW base \in Nat, NEW n \in Nat, NEW align \in Alignments
  PROVE  /\ TopOf(base, align) \in Nat /\ base + BorderBytes + InRoomBytes <= TopOf(base, align)
         /\ TopOf(base, align) % align = 0
         /\ TailOf(base, n, align) = TopOf(base, align) + n
         /\ EndOf(base, n, align) \in Nat /\ TailOf(base, n, align) < EndOf(base, n, align)
<1>1. align \in Nat \ {0}  BY DEF Alignments
<1>2. base + 24 + 16 \in Nat  OBVIOUS
<1>3. /\ TopOf(base, align) \in Nat /\ base + 24 + 16 <= TopOf(base, align)
      /\ TopOf(base, align) % align = 0
  BY <1>1, <1>2, RoundsUp, Zenon DEF TopOf, BorderBytes, InRoomBytes
<1>4. TailOf(base, n, align) = TopOf(base, align) + n  BY DEF TailOf
<1>5. PICK tail \in Nat : tail = TailOf(base, n, align)  BY <1>3, <1>4
<1>6. 32 * ((tail + 32) \div 32) \in Nat /\ tail < 32 * ((tail + 32) \div 32)  OBVIOUS
<1>7. EndOf(base, n, align) = 32 * ((tail + 32) \div 32)  BY <1>5, Zenon DEF EndOf, DefaultAlign
<1>8. QED  BY <1>3, <1>4, <1>5, <1>6, <1>7 DEF BorderBytes, InRoomBytes

\* What is kept of a block that mmap gave is an aligned part of it that is big
\* enough (allocate_by_mmap).
LEMMA KeptOfBlock ==
  ASSUME NEW req \in Nat \ {0}, NEW align \in Alignments, NEW addr \in Nat, addr % PageSize = 0
  PROVE  LET b == Trimmed(req, align, addr)
         IN /\ b.at \in Nat /\ b.size \in Nat /\ req <= b.size
            /\ addr <= b.at /\ b.at + b.size <= addr + OverfitSize(req, align)
<1> DEFINE P == PageSize
           A == MmapAlign(align)
           R == (req + (P - 1)) \div P
<1>1. P \in Nat \ {0} /\ align \in Nat \ {0}  BY PageSizeAssumption DEF Alignments
<1>2. PICK k \in Nat : A = P * k /\ k >= 1
  <2>1. CASE align <= PageSize
    <3>1. A = P * 1  BY <1>1, <2>1 DEF MmapAlign
    <3>2. 1 \in Nat /\ 1 >= 1  OBVIOUS
    <3>3. QED  BY <3>1, <3>2, Zenon
  <2>2. CASE ~(align <= PageSize)
    <3>1. A = align  BY <2>2 DEF MmapAlign
    <3>2. align % PageSize = 0
      <4>1. P = align * 0 + P /\ P < align  BY <1>1, <2>2
      <4>2. P % align = P  BY <1>1, <4>1, DivisionIs
      <4>3. QED  BY <1>1, <4>2 DEF Alignments
    <3>3. align \div P \in Nat /\ align = P * (align \div P) + (align % P)  BY <1>1, Division, Zenon
    <3>4. align = P * (align \div P)  BY <1>1, <3>2, <3>3
    <3>5. align \div P >= 1  BY <1>1, <3>3, <3>4
    <3>6. QED  BY <3>1, <3>3, <3>4, <3>5, Zenon
  <2>3. QED  BY <2>1, <2>2
<1>3. A \in Nat \ {0}
  <2>1. P * k \in Nat /\ P * k # 0  BY <1>1, <1>2
  <2>2. QED  BY <1>2, <2>1
<1>4. PICK m \in Nat : addr = P * m
  <2>1. addr \div P \in Nat /\ addr = P * (addr \div P) + (addr % P)  BY <1>1, Division, Zenon
  <2>2. addr = P * (addr \div P)  BY <1>1, <2>1
  <2>3. QED  BY <2>1, <2>2, Zenon
<1> DEFINE d == addr \div A
           remain == addr % A
<1>5. d \in Nat /\ remain \in Nat /\ addr = A * d + remain /\ remain < A  BY <1>3, Division, Zenon
<1>6. R \in Nat /\ req <= P * R /\ P * R \in Nat
  <2>1. req + (P - 1) \in Nat  BY <1>1
  <2>2. /\ R \in Nat /\ req + (P - 1) = P * R + ((req + (P - 1)) % P)
        /\ (req + (P - 1)) % P \in Nat /\ (req + (P - 1)) % P < P
    BY <1>1, <2>1, Division, Zenon
  <2>3. P * R \in Nat  BY <1>1, <2>2
  <2>4. QED  BY <1>1, <2>2, <2>3
<1>7. OverfitSize(req, align) = P * (R + (k - 1))
  <2>1. req + (P - 1) \in Nat /\ req + (A - 1) \in Nat /\ R + (k - 1) \in Nat
    BY <1>1, <1>2, <1>3, <1>6
  <2>2. PICK r \in Nat : req + (P - 1) = P * R + r /\ r < P  BY <1>1, <2>1, Division, Zenon
  <2>3. P * (R + (k - 1)) = P * R + P * k - P  BY <1>1, <1>2, <1>6
  <2>4. req + (A - 1) = P * (R + (k - 1)) + r
    <3>1. PICK x \in Nat : x = P * R  BY <1>6
    <3>2. PICK y \in Nat : y = P * k  BY <1>1, <1>2
    <3>3. PICK z \in Nat : z = P * (R + (k - 1))  BY <1>1, <2>1
    <3>4. P \in Nat /\ A = y /\ req + (P - 1) = x + r /\ z = x + y - P
      BY <1>1, <1>2, <2>2, <2>3, <3>1, <3>2, <3>3, Zenon
    <3>5. req + (A - 1) = z + r
      <4> HIDE DEF A, P
      <4>1. QED  BY <3>4
    <3>6. QED  BY <3>3, <3>5, Zenon
  <2>5. (req + (A - 1)) \div P = R + (k - 1)  BY <1>1, <2>1, <2>2, <2>4, DivisionIs, Zenon
  <2>6. QED  BY <2>5, Zenon DEF OverfitSize
\* What is cut off in front of it are whole pages, less than the alignment.
<1>8. CASE remain = 0
  <2>1. Trimmed(req, align, addr).at = A * (d + 0)  BY <1>8 DEF Trimmed
  <2>2. A * (d + 0) = addr  BY <1>3, <1>5, <1>8
  <2>3. Trimmed(req, align, addr).size = P * R  BY DEF Trimmed, RealSize
  <2>4. P * R <= P * (R + (k - 1))
    <3>1. P * (R + (k - 1)) = P * R + P * (k - 1) /\ P * (k - 1) \in Nat  BY <1>1, <1>2, <1>6
    <3>2. QED  BY <1>6, <3>1
  <2>5. P * (R + (k - 1)) \in Nat  BY <1>1, <1>2, <1>6
  <2>6. QED  BY <1>6, <1>7, <2>1, <2>2, <2>3, <2>4, <2>5
<1>9. CASE remain # 0
  <2>1. Trimmed(req, align, addr).at = A * (d + 1)  BY <1>9 DEF Trimmed
  <2>2. A * (d + 1) = addr + (A - remain)  BY <1>3, <1>5
  <2>3. Trimmed(req, align, addr).size = P * R  BY DEF Trimmed, RealSize
  <2>4. PICK j \in Nat : remain = P * j /\ j >= 1
    <3>1. remain = P * m - P * k * d  BY <1>1, <1>2, <1>4, <1>5
    <3>2. P * k * d = P * (k * d) /\ k * d \in Nat
      <4>1. P \in Nat /\ k \in Nat /\ d \in Nat  BY <1>1, <1>2, <1>5
      <4>2. \A x \in Nat, y \in Nat, z \in Nat : x * y * z = x * (y * z) /\ y * z \in Nat  OBVIOUS
      <4>3. QED  BY <4>1, <4>2
    <3>3. remain = P * (m - k * d)  BY <1>1, <3>1, <3>2
    <3>4. m - k * d \in Int  BY <3>2
    <3>5. m - k * d >= 1  BY <1>1, <1>5, <1>9, <3>3, <3>4
    <3>6. QED  BY <3>3, <3>4, <3>5
  <2>5. A - remain <= P * (k - 1)
    <3>1. A - remain = P * k - P * j /\ P * k \in Nat /\ P * j \in Nat  BY <1>1, <1>2, <2>4
    <3>2. P * j >= P  BY <1>1, <2>4
    <3>3. P * (k - 1) = P * k - P  BY <1>1, <1>2
    <3>4. QED  BY <1>1, <3>1, <3>2, <3>3
  <2>6. P * (R + (k - 1)) = P * R + P * (k - 1) /\ P * (k - 1) \in Nat  BY <1>1, <1>2, <1>6
  <2>7. A - remain \in Nat  BY <1>3, <1>5
  <2>8. QED  BY <1>6, <1>7, <2>1, <2>2, <2>3, <2>5, <2>6, <2>7
<1>10. QED  BY <1>8, <1>9
-----------------------------------------------------------------------------
(* What a step changes.                                                    *)

LEMMA InitOffsetIs == InitOffset = 32
  BY DEF InitOffset, RoundUp, ChamberBytes, DefaultAlign

\* The locals of a call.
LEMMA Fields ==
  ASSUME NEW l, DOMAIN l = DOMAIN Idle
  PROVE  /\ "pc" \in DOMAIN l /\ "n" \in DOMAIN l /\ "align" \in DOMAIN l /\ "ch" \in DOMAIN l
         /\ "from" \in DOMAIN l /\ "off" \in DOMAIN l /\ "hint" \in DOMAIN l /\ "seen" \in DOMAIN l
         /\ "try" \in DOMAIN l /\ "ptr" \in DOMAIN l /\ "cur" \in DOMAIN l /\ "last" \in DOMAIN l
         /\ "end" \in DOMAIN l /\ "count" \in DOMAIN l /\ "used" \in DOMAIN l
  BY DEF Idle

\* The other calls go on as they are.
Alone(t) == DOMAIN loc' = Threads /\ \A u \in Threads : u # t => loc'[u] = loc[u]

\* A step that moves no chamber and no room.
Quiet(t) ==
  /\ UNCHANGED <<list, size, offset, rooms>>
  /\ hint' \in Listed \cup {Null}
  /\ Alone(t)
  /\ CallOK(loc'[t])
  /\ ~Building(loc[t]) /\ ~Building(loc'[t])
  /\ Pushing(loc[t]) <=> Pushing(loc'[t])
  /\ Pushing(loc[t]) => loc'[t].ch = loc[t].ch

LEMMA QuietKeeps ==
  ASSUME Inv, NEW t \in Threads, Quiet(t)
  PROVE  ChambersOK' /\ CallsOK' /\ PushesOK' /\ RoomsOK'
<1>1. Listed' = Listed  BY DEF Quiet, Listed
<1>2. ChambersOK'
  <2>1. list' = list /\ size' = size /\ offset' = offset /\ hint' \in Listed \cup {Null}  BY DEF Quiet
  <2>2. QED  BY <1>1, <2>1, Zenon DEF Inv, ChambersOK
<1>3. ASSUME NEW u \in Threads
      PROVE  CallOK(loc[u])'
  <2>1. CallOK(loc'[u])  BY DEF Inv, CallsOK, Quiet, Alone
  <2>2. QED  BY <1>1, <2>1 DEF Quiet, CallOK, Fits, CutAt
<1>4. CallsOK'  BY <1>3 DEF Quiet, Alone, CallsOK
<1>5. PushesOK'  BY <1>1 DEF Inv, Quiet, Alone, PushesOK
<1>6. RoomsOK'  BY DEF Inv, Quiet, Alone, RoomsOK, RoomOK
<1>7. QED  BY <1>2, <1>4, <1>5, <1>6

\* The chambers at the head of the list and behind another one.
LEMMA HeadIsListed ==
  ASSUME ChambersOK
  PROVE  /\ HeadOf(list) \in Listed \cup {Null}
         /\ list # <<>> => HeadOf(list) = Head(list) /\ HeadOf(list) = list[1] /\ HeadOf(list) \in Listed
  BY DEF ChambersOK, HeadOf, Listed

LEMMA NextIsListed ==
  ASSUME ChambersOK, NEW c \in Listed
  PROVE  NextOf(c) \in Listed \cup {Null}
<1> DEFINE i == CHOOSE j \in 1 .. Len(list) : list[j] = c
<1>1. i \in 1 .. Len(list)  BY DEF Listed
<1>2. NextOf(c) = IF i < Len(list) THEN list[i + 1] ELSE Null  BY DEF NextOf
<1> HIDE DEF i
<1>3. i < Len(list) => i + 1 \in 1 .. Len(list)  BY <1>1 DEF ChambersOK
<1>4. QED  BY <1>2, <1>3 DEF Listed

\* A call returns.
LEMMA Returns ==
  ASSUME Inv, NEW t \in Threads, NEW how \in {"idle", "found", "notFound", "counted"}, Return(t, how)
  PROVE  Alone(t) /\ CallOK(loc'[t]) /\ loc'[t].pc = how
<1>1. DOMAIN loc = Threads  BY DEF Inv, CallsOK
<1>2. /\ DOMAIN loc'[t] = DOMAIN Idle /\ loc'[t].pc = how /\ loc'[t].n = 0 /\ loc'[t].align = 1
  BY <1>1 DEF Return, Idle
<1>3. 1 \in Alignments  BY PageSizeAssumption DEF Alignments
<1>4. QED  BY <1>1, <1>2, <1>3 DEF Return, Alone, CallOK, Pushing

\* A chamber is tried with this offset.
LEMMA Tries ==
  ASSUME Inv, NEW t \in Threads, loc[t].pc \in {"offset", "chop"}, NEW off \in Nat, 32 <= off,
         TryAt(t, off)
  PROVE  Alone(t) /\ CallOK(loc'[t]) /\ loc'[t].pc \in {"chop", "tryHint", "moveHint"}
<1>1. CallOK(loc[t]) /\ DOMAIN loc = Threads  BY DEF Inv, CallsOK
<1>2. loc[t].ch \in Listed /\ list # <<>>  BY <1>1 DEF CallOK, Listed, Inv, ChambersOK
<1>3. /\ Alone(t) /\ DOMAIN loc'[t] = DOMAIN loc[t]
      /\ loc'[t].ch = loc[t].ch /\ loc'[t].n = loc[t].n /\ loc'[t].align = loc[t].align /\ loc'[t].off = off
      /\ loc'[t].pc = IF Fits(loc[t].ch, off, loc[t].n, loc[t].align) THEN "chop"
                      ELSE IF loc[t].from = "head" THEN "tryHint" ELSE "moveHint"
  BY <1>1, Fields DEF TryAt, Alone, CallOK
<1>4. QED  BY <1>1, <1>2, <1>3 DEF CallOK, Pushing

LEMMA AllocateIsQuiet ==
  ASSUME Inv, NEW t \in Threads, Allocate(t)
  PROVE  Quiet(t)
<1>1. DOMAIN loc = Threads /\ loc[t].pc = "idle"  BY DEF Inv, CallsOK, Allocate, Calls, At
<1>2. Request(t) \in Requests  BY DEF Inv, HistoryOK, Allocate, Calls, Request
<1>3. /\ Alone(t) /\ DOMAIN loc'[t] = DOMAIN Idle /\ loc'[t].pc = "tryHead"
      /\ loc'[t].n = Request(t).n /\ loc'[t].align = Request(t).align
  BY <1>1 DEF Allocate, Alone, Idle
<1>4. CallOK(loc'[t])  BY <1>2, <1>3 DEF CallOK, Pushing, Requests
<1>5. QED  BY <1>1, <1>3, <1>4 DEF Allocate, Quiet, Building, Pushing, sharedVars, Inv, ChambersOK

LEMMA LoadHeadIsQuiet ==
  ASSUME Inv, NEW t \in Threads, LoadHead(t)
  PROVE  Quiet(t)
<1>1. CallOK(loc[t]) /\ DOMAIN loc = Threads  BY DEF Inv, CallsOK
<1>2. /\ Alone(t) /\ DOMAIN loc'[t] = DOMAIN loc[t]
      /\ loc'[t].ch = HeadOf(list) /\ loc'[t].n = loc[t].n /\ loc'[t].align = loc[t].align
      /\ loc'[t].pc = IF list = <<>> THEN TryFails(t) ELSE "offset"
  BY <1>1, Fields DEF LoadHead, Alone, CallOK
<1>3. list # <<>> => HeadOf(list) \in Listed  BY HeadIsListed DEF Inv
<1>4. CallOK(loc'[t])  BY <1>1, <1>2, <1>3 DEF CallOK, Pushing, TryFails
<1>5. QED  BY <1>1, <1>2, <1>4 DEF LoadHead, Quiet, At, Building, Pushing, TryFails, sharedVars, Inv, ChambersOK

LEMMA LoadOffsetIsQuiet ==
  ASSUME Inv, NEW t \in Threads, LoadOffset(t)
  PROVE  Quiet(t)
<1>1. CallOK(loc[t]) /\ loc[t].pc = "offset"  BY DEF Inv, CallsOK, LoadOffset, At
<1>2. offset[loc[t].ch] \in Nat /\ 32 <= offset[loc[t].ch]  BY <1>1 DEF CallOK, Inv, ChambersOK
<1>3. Alone(t) /\ CallOK(loc'[t]) /\ loc'[t].pc \in {"chop", "tryHint", "moveHint"}
  BY <1>1, <1>2, Tries DEF LoadOffset
<1>4. QED  BY <1>1, <1>3 DEF LoadOffset, Quiet, Building, Pushing, sharedVars, Inv, ChambersOK

LEMMA LoadHintIsQuiet ==
  ASSUME Inv, NEW t \in Threads, LoadHint(t)
  PROVE  Quiet(t)
<1>1. CallOK(loc[t]) /\ DOMAIN loc = Threads /\ loc[t].pc = "tryHint"  BY DEF Inv, CallsOK, LoadHint, At
<1>2. /\ Alone(t) /\ DOMAIN loc'[t] = DOMAIN loc[t]
      /\ loc'[t].ch = hint /\ loc'[t].n = loc[t].n /\ loc'[t].align = loc[t].align
      /\ loc'[t].pc = IF hint = Null THEN "second" ELSE "offset"
  BY <1>1, Fields DEF LoadHint, Alone, CallOK
<1>3. hint \in Listed \cup {Null}  BY DEF Inv, ChambersOK
<1>4. CallOK(loc'[t])  BY <1>1, <1>2, <1>3 DEF CallOK, Pushing
<1>5. QED  BY <1>1, <1>2, <1>3, <1>4 DEF LoadHint, Quiet, Building, Pushing, sharedVars

LEMMA LoadSecondIsQuiet ==
  ASSUME Inv, NEW t \in Threads, LoadSecond(t)
  PROVE  Quiet(t)
<1>1. CallOK(loc[t]) /\ DOMAIN loc = Threads /\ loc[t].pc = "second"  BY DEF Inv, CallsOK, LoadSecond, At
<1>2. Head(list) \in Listed  BY <1>1, HeadIsListed DEF Inv, CallOK
<1>3. PICK c \in Listed \cup {Null} : c = NextOf(Head(list))  BY <1>2, NextIsListed DEF Inv
<1>4. /\ Alone(t) /\ DOMAIN loc'[t] = DOMAIN loc[t]
      /\ loc'[t].ch = c /\ loc'[t].n = loc[t].n /\ loc'[t].align = loc[t].align
      /\ loc'[t].pc = IF c = Null THEN TryFails(t) ELSE "offset"
  BY <1>1, <1>3, Fields DEF LoadSecond, Alone, CallOK
<1>5. CallOK(loc'[t])  BY <1>1, <1>3, <1>4 DEF CallOK, Pushing, TryFails
<1>6. QED
  BY <1>1, <1>4, <1>5 DEF LoadSecond, Quiet, Building, Pushing, TryFails, sharedVars, Inv, ChambersOK

LEMMA MoveHintIsQuiet ==
  ASSUME Inv, NEW t \in Threads, MoveHint(t)
  PROVE  Quiet(t)
<1>1. CallOK(loc[t]) /\ DOMAIN loc = Threads /\ loc[t].pc = "moveHint"  BY DEF Inv, CallsOK, MoveHint, At
<1>2. NextOf(loc[t].ch) \in Listed \cup {Null}  BY <1>1, NextIsListed DEF Inv, CallOK
<1>3. hint' \in Listed \cup {Null}  BY <1>2 DEF MoveHint, Inv, ChambersOK
<1>4. /\ Alone(t) /\ DOMAIN loc'[t] = DOMAIN loc[t]
      /\ loc'[t].n = loc[t].n /\ loc'[t].align = loc[t].align /\ loc'[t].pc = TryFails(t)
  BY <1>1, Fields DEF MoveHint, Goto, Alone, CallOK
<1>5. CallOK(loc'[t])  BY <1>1, <1>4 DEF CallOK, Pushing, TryFails
<1>6. QED  BY <1>1, <1>3, <1>4, <1>5 DEF MoveHint, Quiet, Building, Pushing, TryFails

LEMMA MapFailsIsQuiet ==
  ASSUME Inv, NEW t \in Threads, MapFails(t)
  PROVE  Quiet(t)
<1>1. CallOK(loc[t]) /\ DOMAIN loc = Threads /\ loc[t].pc = "map"  BY DEF Inv, CallsOK, MapFails, At
<1>2. /\ Alone(t) /\ DOMAIN loc'[t] = DOMAIN loc[t]
      /\ loc'[t].n = loc[t].n /\ loc'[t].align = loc[t].align /\ loc'[t].pc = "none"
  BY <1>1, Fields DEF MapFails, Goto, Alone, CallOK
<1>3. CallOK(loc'[t])  BY <1>1, <1>2 DEF CallOK, Pushing
<1>4. QED  BY <1>1, <1>2, <1>3 DEF MapFails, Quiet, Building, Pushing, sharedVars, Inv, ChambersOK

LEMMA LoadToPushIsQuiet ==
  ASSUME Inv, NEW t \in Threads, LoadToPush(t)
  PROVE  Quiet(t)
<1>1. CallOK(loc[t]) /\ DOMAIN loc = Threads /\ loc[t].pc = "link"  BY DEF Inv, CallsOK, LoadToPush, At
<1>2. /\ Alone(t) /\ DOMAIN loc'[t] = DOMAIN loc[t] /\ loc'[t].ch = loc[t].ch
      /\ loc'[t].n = loc[t].n /\ loc'[t].align = loc[t].align /\ loc'[t].pc = "push"
  BY <1>1, Fields DEF LoadToPush, Alone, CallOK
<1>3. CallOK(loc'[t])  BY <1>1, <1>2 DEF CallOK, Pushing
<1>4. QED  BY <1>1, <1>2, <1>3 DEF LoadToPush, Quiet, Building, Pushing, sharedVars, Inv, ChambersOK

LEMMA PushFailsIsQuiet ==
  ASSUME Inv, NEW t \in Threads, Push(t), HeadOf(list) # loc[t].seen
  PROVE  Quiet(t)
<1>1. CallOK(loc[t]) /\ DOMAIN loc = Threads /\ loc[t].pc = "push"  BY DEF Inv, CallsOK, Push, At
<1>2. /\ Alone(t) /\ DOMAIN loc'[t] = DOMAIN loc[t] /\ loc'[t].ch = loc[t].ch
      /\ loc'[t].n = loc[t].n /\ loc'[t].align = loc[t].align /\ loc'[t].pc = "push"
  BY <1>1, Fields DEF Push, Alone, CallOK
<1>3. CallOK(loc'[t])  BY <1>1, <1>2 DEF CallOK, Pushing
<1>4. QED  BY <1>1, <1>2, <1>3 DEF Push, Quiet, Building, Pushing, Inv, ChambersOK

LEMMA ChopFailsIsQuiet ==
  ASSUME Inv, NEW t \in Threads, Chop(t), offset[loc[t].ch] # loc[t].off
  PROVE  Quiet(t)
<1>1. CallOK(loc[t]) /\ loc[t].pc = "chop"  BY DEF Inv, CallsOK, Chop, At
<1>2. offset[loc[t].ch] \in Nat /\ 32 <= offset[loc[t].ch]  BY <1>1 DEF CallOK, Inv, ChambersOK
<1>3. Alone(t) /\ CallOK(loc'[t]) /\ loc'[t].pc \in {"chop", "tryHint", "moveHint"}
  BY <1>1, <1>2, Tries DEF Chop
<1>4. QED  BY <1>1, <1>3 DEF Chop, Quiet, Building, Pushing, Inv, ChambersOK

\* Calls that return, whatever they have changed of the history.
LEMMA ReturnIsQuiet ==
  ASSUME Inv, NEW t \in Threads, NEW how \in {"idle", "found", "notFound", "counted"}, Return(t, how),
         loc[t].pc \in {"none", "idle", "begin", "visit"}, UNCHANGED <<list, hint, size, offset, rooms>>
  PROVE  Quiet(t)
<1>1. Alone(t) /\ CallOK(loc'[t]) /\ loc'[t].pc = how  BY Returns
<1>2. QED  BY <1>1 DEF Quiet, Building, Pushing, Inv, ChambersOK

LEMMA WalkBegins ==
  ASSUME Inv, NEW t \in Threads, Search(t) \/ Inspect(t)
  PROVE  Quiet(t)
<1>1. DOMAIN loc = Threads  BY DEF Inv, CallsOK
<1>2. loc[t].pc = "idle" /\ UNCHANGED <<list, hint, size, offset, rooms>>
  <2>1. CASE Search(t)
    <3>1. At(t, "idle") /\ UNCHANGED sharedVars  BY <2>1, Zenon DEF Search, Calls
    <3>2. QED  BY <3>1 DEF At, sharedVars
  <2>2. CASE Inspect(t)  BY <2>2 DEF Inspect, Calls, At, sharedVars
  <2>3. QED  BY <2>1, <2>2
<1>3. /\ Alone(t) /\ DOMAIN loc'[t] = DOMAIN Idle /\ loc'[t].pc = "begin"
      /\ loc'[t].n = 0 /\ loc'[t].align = 1 /\ loc'[t].ch = HeadOf(list)
  <2>1. CASE Search(t)
    <3>1. PICK p : loc' = [loc EXCEPT ![t] = [Idle EXCEPT !.pc = "begin", !.ch = HeadOf(list), !.ptr = p]]
      BY <2>1, Zenon DEF Search
    <3>2. QED  BY <1>1, <3>1 DEF Alone, Idle
  <2>2. CASE Inspect(t)  BY <1>1, <2>2 DEF Inspect, Alone, Idle
  <2>3. QED  BY <2>1, <2>2
<1>4. HeadOf(list) \in Listed \cup {Null}  BY HeadIsListed DEF Inv
<1>5. 1 \in Alignments  BY PageSizeAssumption DEF Alignments
<1>6. CallOK(loc'[t])  BY <1>3, <1>4, <1>5 DEF CallOK, Pushing
<1>7. QED  BY <1>2, <1>3, <1>6 DEF Quiet, Building, Pushing, Inv, ChambersOK

LEMMA BeginIsQuiet ==
  ASSUME Inv, NEW t \in Threads, Begin(t)
  PROVE  Quiet(t)
<1>1. CallOK(loc[t]) /\ DOMAIN loc = Threads /\ loc[t].pc = "begin"  BY DEF Inv, CallsOK, Begin, At
<1>2. CASE loc[t].ch = Null
  <2>1. Return(t, IF loc[t].ptr = Null THEN "counted" ELSE "notFound")  BY <1>2 DEF Begin
  <2>2. QED  BY <1>1, <2>1, ReturnIsQuiet DEF Begin, sharedVars
<1>3. CASE loc[t].ch # Null
  <2>1. /\ Alone(t) /\ DOMAIN loc'[t] = DOMAIN loc[t] /\ loc'[t].ch = loc[t].ch
        /\ loc'[t].n = loc[t].n /\ loc'[t].align = loc[t].align /\ loc'[t].pc = "end"
    BY <1>1, <1>3, Fields DEF Begin, Alone, CallOK
  <2>2. CallOK(loc'[t])  BY <1>1, <1>3, <2>1 DEF CallOK, Pushing
  <2>3. QED  BY <1>1, <2>1, <2>2 DEF Begin, Quiet, Building, Pushing, sharedVars, Inv, ChambersOK
<1>4. QED  BY <1>2, <1>3

LEMMA EndIsQuiet ==
  ASSUME Inv, NEW t \in Threads, End(t)
  PROVE  Quiet(t)
<1>1. CallOK(loc[t]) /\ DOMAIN loc = Threads /\ loc[t].pc = "end"  BY DEF Inv, CallsOK, End, At
<1>2. /\ Alone(t) /\ DOMAIN loc'[t] = DOMAIN loc[t] /\ loc'[t].ch = loc[t].ch
      /\ loc'[t].n = loc[t].n /\ loc'[t].align = loc[t].align /\ loc'[t].pc = "visit"
  BY <1>1, Fields DEF End, Alone, CallOK
<1>3. CallOK(loc'[t])  BY <1>1, <1>2 DEF CallOK, Pushing
<1>4. QED  BY <1>1, <1>2, <1>3 DEF End, Quiet, Building, Pushing, sharedVars, Inv, ChambersOK

LEMMA LeaveIsQuiet ==
  ASSUME Inv, NEW t \in Threads, Leave(t)
  PROVE  Quiet(t)
<1>1. CallOK(loc[t]) /\ DOMAIN loc = Threads /\ loc[t].pc = "visit"  BY DEF Inv, CallsOK, Leave, At
<1>2. NextOf(loc[t].ch) \in Listed \cup {Null}  BY <1>1, NextIsListed DEF Inv, CallOK
<1>3. /\ Alone(t) /\ DOMAIN loc'[t] = DOMAIN loc[t] /\ loc'[t].ch = NextOf(loc[t].ch)
      /\ loc'[t].n = loc[t].n /\ loc'[t].align = loc[t].align /\ loc'[t].pc = "begin"
  BY <1>1, Fields DEF Leave, Alone, CallOK
<1>4. CallOK(loc'[t])  BY <1>1, <1>2, <1>3 DEF CallOK, Pushing
<1>5. QED  BY <1>1, <1>3, <1>4 DEF Leave, Quiet, Building, Pushing, sharedVars, Inv, ChambersOK

LEMMA VisitIsQuiet ==
  ASSUME Inv, NEW t \in Threads, Visit(t)
  PROVE  Quiet(t)
<1>1. CallOK(loc[t]) /\ DOMAIN loc = Threads /\ loc[t].pc = "visit"  BY DEF Inv, CallsOK, Visit, At
<1>2. CASE Return(t, "found")  BY <1>1, <1>2, ReturnIsQuiet DEF Visit, sharedVars
<1>3. CASE ~Return(t, "found")
  <2>1. /\ Alone(t) /\ DOMAIN loc'[t] = DOMAIN loc[t] /\ loc'[t].ch = loc[t].ch
        /\ loc'[t].n = loc[t].n /\ loc'[t].align = loc[t].align /\ loc'[t].pc = "visit"
    BY <1>1, <1>3, Fields DEF Visit, Alone, CallOK
  <2>2. CallOK(loc'[t])  BY <1>1, <2>1 DEF CallOK, Pushing
  <2>3. QED  BY <1>1, <2>1, <2>2 DEF Visit, Quiet, Building, Pushing, sharedVars, Inv, ChambersOK
<1>4. QED  BY <1>2, <1>3

LEMMA VisitUnbuiltIsQuiet ==
  ASSUME Inv, NEW t \in Threads, VisitUnbuilt(t)
  PROVE  Quiet(t)
<1>1. CallOK(loc[t]) /\ DOMAIN loc = Threads /\ loc[t].pc = "visit"
  BY DEF Inv, CallsOK, VisitUnbuilt, At
<1>2. /\ Alone(t) /\ DOMAIN loc'[t] = DOMAIN loc[t]
      /\ loc'[t].n = loc[t].n /\ loc'[t].align = loc[t].align /\ loc'[t].pc = "crashed"
  BY <1>1, Fields DEF VisitUnbuilt, Goto, Alone, CallOK
<1>3. CallOK(loc'[t])  BY <1>1, <1>2 DEF CallOK, Pushing
<1>4. QED  BY <1>1, <1>2, <1>3 DEF VisitUnbuilt, Quiet, Building, Pushing, sharedVars, Inv, ChambersOK

LEMMA AnsweredIsQuiet ==
  ASSUME Inv, NEW t \in Threads, Answered(t)
  PROVE  Quiet(t)
<1>1. DOMAIN loc = Threads /\ loc[t].pc \in {"found", "notFound", "counted"}
  BY DEF Inv, CallsOK, Answered, At
<1>2. Alone(t) /\ loc'[t] = Idle  BY <1>1 DEF Answered, Alone
<1>3. 1 \in Alignments  BY PageSizeAssumption DEF Alignments
<1>4. CallOK(loc'[t])  BY <1>2, <1>3 DEF CallOK, Pushing, Idle
<1>5. QED  BY <1>1, <1>2, <1>4 DEF Answered, Quiet, Building, Pushing, Idle, sharedVars, Inv, ChambersOK
-----------------------------------------------------------------------------
(* Steps that move chambers and rooms.                                     *)

\* What lies in different chambers lies apart.
LEMMA ChambersApart ==
  ASSUME ChambersOK, NEW c \in DOMAIN size, NEW d \in DOMAIN size, c # d,
         NEW a1 \in Nat, NEW b1 \in Nat, NEW a2 \in Nat, NEW b2 \in Nat,
         c <= a1, b1 <= c + size[c], d <= a2, b2 <= d + size[d]
  PROVE  b1 <= a2 \/ b2 <= a1
<1>1. /\ c \in Nat /\ size[c] \in Nat /\ d \in Nat /\ size[d] \in Nat
      /\ (c < d => c + size[c] <= d) /\ (d < c => d + size[d] <= c)
  BY DEF ChambersOK
<1>2. QED  BY <1>1

\* What a call is about to cut off, or has cut off.
LEMMA Cut ==
  ASSUME Inv, NEW l, CallOK(l), l.pc \in {"chop", "build"}
  PROVE  /\ l.ch \in DOMAIN size /\ l.ch \in Nat /\ l.off \in Nat /\ 32 <= l.off
         /\ CutAt(l) \in Nat /\ CutAt(l) <= l.ch + size[l.ch]
         /\ TopOf(l.ch + l.off, l.align) \in Nat /\ l.ch + l.off + 40 <= TopOf(l.ch + l.off, l.align)
         /\ TopOf(l.ch + l.off, l.align) % l.align = 0
         /\ TailOf(l.ch + l.off, Adapted(l.n), l.align) \in Nat
         /\ TopOf(l.ch + l.off, l.align) < TailOf(l.ch + l.off, Adapted(l.n), l.align)
         /\ TailOf(l.ch + l.off, Adapted(l.n), l.align) < CutAt(l)
<1>1. l.ch \in DOMAIN size /\ l.ch \in Nat /\ l.off \in Nat /\ 32 <= l.off /\ size[l.ch] \in Nat
  BY DEF CallOK, Inv, ChambersOK
<1>2. PICK base \in Nat : base = l.ch + l.off  BY <1>1
<1>3. PICK n \in Nat : n = Adapted(l.n) /\ n > 0  BY DEF CallOK, Adapted
<1>4. l.align \in Alignments  BY DEF CallOK
<1>5. /\ TopOf(base, l.align) \in Nat /\ base + BorderBytes + InRoomBytes <= TopOf(base, l.align)
      /\ TopOf(base, l.align) % l.align = 0
      /\ TailOf(base, n, l.align) = TopOf(base, l.align) + n
      /\ EndOf(base, n, l.align) \in Nat /\ TailOf(base, n, l.align) < EndOf(base, n, l.align)
  BY <1>2, <1>3, <1>4, RoomParts, Zenon
<1>6. CutAt(l) = EndOf(base, n, l.align)  BY <1>2, <1>3, Zenon DEF CutAt
<1>7. CutAt(l) <= l.ch + size[l.ch]
  <2>1. CASE l.pc = "chop"  BY <2>1 DEF CallOK, Fits, CutAt
  <2>2. CASE l.pc = "build"  BY <2>2, <1>1, <1>5, <1>6 DEF CallOK, Inv, ChambersOK
  <2>3. QED  BY <2>1, <2>2
<1>8. /\ base + 40 <= TopOf(base, l.align) /\ TailOf(base, n, l.align) \in Nat
      /\ TopOf(base, l.align) < TailOf(base, n, l.align)
  BY <1>3, <1>5 DEF BorderBytes, InRoomBytes
<1>9. QED  BY <1>1, <1>2, <1>3, <1>5, <1>6, <1>7, <1>8

\* What a room or a call that builds one takes up lies in its chamber.
LEMMA RoomInside ==
  ASSUME Inv, NEW r \in rooms
  PROVE  /\ r.ch \in DOMAIN size /\ r.ch \in Nat /\ r.at \in Nat /\ r.at + r.chopped \in Nat
         /\ r.ch <= r.at /\ r.at + r.chopped <= r.ch + size[r.ch]
         /\ r.at + r.chopped <= r.ch + offset[r.ch]
<1>1. RoomOK(r)  BY DEF Inv, RoomsOK
<1>2. r.ch \in Nat /\ size[r.ch] \in Nat /\ offset[r.ch] \in Nat /\ offset[r.ch] <= size[r.ch]
  BY <1>1 DEF Inv, ChambersOK, RoomOK
<1>3. QED  BY <1>1, <1>2 DEF RoomOK
LEMMA CallInside ==
  ASSUME Inv, NEW u \in Threads, Building(loc[u])
  PROVE  /\ loc[u].ch \in DOMAIN size /\ loc[u].ch \in Nat /\ loc[u].ch + loc[u].off \in Nat
         /\ CutAt(loc[u]) \in Nat /\ loc[u].ch <= loc[u].ch + loc[u].off
         /\ CutAt(loc[u]) <= loc[u].ch + size[loc[u].ch]
         /\ CutAt(loc[u]) <= loc[u].ch + offset[loc[u].ch]
<1>1. CallOK(loc[u]) /\ loc[u].pc = "build"  BY DEF Inv, CallsOK, Building
<1>2. /\ loc[u].ch \in DOMAIN size /\ loc[u].ch \in Nat /\ loc[u].off \in Nat
      /\ CutAt(loc[u]) \in Nat /\ CutAt(loc[u]) <= loc[u].ch + size[loc[u].ch]
  BY <1>1, Cut
<1>3. CutAt(loc[u]) <= loc[u].ch + offset[loc[u].ch]  BY <1>1 DEF CallOK
<1>4. QED  BY <1>2, <1>3

LEMMA ChopKeeps ==
  ASSUME Inv, NEW t \in Threads, Chop(t), offset[loc[t].ch] = loc[t].off
  PROVE  ChambersOK' /\ CallsOK' /\ PushesOK' /\ RoomsOK'
<1>1. CallOK(loc[t]) /\ DOMAIN loc = Threads /\ loc[t].pc = "chop"  BY DEF Inv, CallsOK, Chop, At
<1> DEFINE c == loc[t].ch
           e == CutAt(loc[t])
<1>2. /\ c \in DOMAIN size /\ c \in Nat /\ loc[t].off \in Nat /\ 32 <= loc[t].off
      /\ e \in Nat /\ e <= c + size[c] /\ c + loc[t].off < e /\ c \in Listed
  <2>1. c \in Listed  BY <1>1 DEF CallOK
  <2>2. QED  BY <1>1, <2>1, Cut
<1>3. RoomEnd(t) = e  BY DEF RoomEnd, CutAt
<1>4. offset' = [offset EXCEPT ![c] = e - c] /\ DOMAIN offset = DOMAIN size /\ offset[c] = loc[t].off
  BY <1>3 DEF Chop, Inv, ChambersOK
<1>5. /\ Alone(t) /\ DOMAIN loc'[t] = DOMAIN loc[t]
      /\ loc'[t].ch = c /\ loc'[t].n = loc[t].n /\ loc'[t].align = loc[t].align
      /\ loc'[t].off = loc[t].off /\ loc'[t].pc = "build"
  BY <1>1, Fields DEF Chop, Goto, Alone, CallOK
<1>6. UNCHANGED <<list, hint, size, rooms>> /\ Listed' = Listed  BY DEF Chop, Listed
<1>7. CutAt(loc'[t]) = e  BY <1>5 DEF CutAt
<1> HIDE DEF c, e
<1>8. offset'[c] = e - c /\ offset'[c] \in Nat /\ c + offset'[c] = e /\ offset[c] < offset'[c]
  BY <1>2, <1>4
<1>9. \A d \in DOMAIN size :
        offset'[d] \in Nat /\ offset[d] \in Nat /\ offset[d] <= offset'[d] /\ (d # c => offset'[d] = offset[d])
  <2>1. ASSUME NEW d \in DOMAIN size
        PROVE  /\ offset'[d] \in Nat /\ offset[d] \in Nat /\ offset[d] <= offset'[d]
               /\ d # c => offset'[d] = offset[d]
    <3>1. offset[d] \in Nat  BY DEF Inv, ChambersOK
    <3>2. CASE d = c  BY <1>8, <3>1, <3>2
    <3>3. CASE d # c
      <4>1. offset'[d] = offset[d]  BY <1>4, <3>3
      <4>2. QED  BY <3>1, <3>3, <4>1
    <3>4. QED  BY <3>2, <3>3
  <2>2. QED  BY <2>1
<1>10. ChambersOK'
  <2>1. ASSUME NEW d \in DOMAIN size
        PROVE  32 <= offset'[d] /\ offset'[d] <= size[d]
    <3>1. size[d] \in Nat /\ 32 <= offset[d] /\ offset[d] <= size[d]  BY DEF Inv, ChambersOK
    <3>2. CASE d = c  BY <1>2, <1>4, <1>8, <3>1, <3>2
    <3>3. CASE d # c  BY <1>9, <3>1, <3>3
    <3>4. QED  BY <3>2, <3>3
  <2>2. DOMAIN offset' = DOMAIN size  BY <1>4
  <2>3. QED  BY <1>6, <1>9, <2>1, <2>2 DEF Inv, ChambersOK
<1>11. ASSUME NEW u \in Threads
       PROVE  CallOK(loc[u])'
  <2>1. CASE u = t  BY <1>1, <1>2, <1>5, <1>6, <1>7, <1>8, <2>1 DEF CallOK, Pushing
  <2>2. CASE u # t
    <3>1. loc'[u] = loc[u] /\ CallOK(loc[u])  BY <1>5, <2>2 DEF Alone, Inv, CallsOK
    <3>2. loc[u].pc = "build" => CutAt(loc[u]) <= loc[u].ch + offset'[loc[u].ch]
      <4>1. SUFFICES ASSUME Building(loc[u]) PROVE CutAt(loc[u]) <= loc[u].ch + offset'[loc[u].ch]
        BY DEF Building
      <4>2. /\ loc[u].ch \in DOMAIN size /\ loc[u].ch \in Nat /\ CutAt(loc[u]) \in Nat
            /\ CutAt(loc[u]) <= loc[u].ch + offset[loc[u].ch]
        BY <4>1, CallInside
      <4>3. QED  BY <1>9, <4>2
    <3>3. QED  BY <1>6, <3>1, <3>2 DEF CallOK, Fits, CutAt, Pushing
  <2>3. QED  BY <2>1, <2>2
<1>12. CallsOK'  BY <1>5, <1>11 DEF Alone, CallsOK
<1>13. PushesOK'  BY <1>1, <1>5, <1>6 DEF Inv, Alone, PushesOK, Pushing
<1>14. ASSUME NEW r \in rooms
       PROVE  RoomOK(r)' /\ (r.at + r.chopped <= c + loc[t].off \/ e <= r.at)
  <2>1. RoomOK(r)  BY DEF Inv, RoomsOK
  <2>2. /\ r.ch \in DOMAIN size /\ r.ch \in Nat /\ r.at \in Nat /\ r.at + r.chopped \in Nat
        /\ r.ch <= r.at /\ r.at + r.chopped <= r.ch + size[r.ch]
        /\ r.at + r.chopped <= r.ch + offset[r.ch]
    BY RoomInside
  <2>3. RoomOK(r)'
    <3>1. r.at + r.chopped <= r.ch + offset'[r.ch]  BY <1>9, <2>2
    <3>2. QED  BY <1>6, <2>1, <3>1 DEF RoomOK
  <2>4. CASE r.ch = c  BY <1>4, <2>2, <2>3, <2>4
  <2>5. CASE r.ch # c
    <3>1. c + loc[t].off \in Nat /\ c <= c + loc[t].off  BY <1>2
    <3>2. QED  BY <1>2, <2>2, <2>3, <2>5, <3>1, ChambersApart DEF Inv
  <2>6. QED  BY <2>3, <2>4, <2>5
<1>15. ASSUME NEW u \in Threads, u # t, Building(loc[u])
       PROVE  CutAt(loc[u]) <= c + loc[t].off \/ e <= loc[u].ch + loc[u].off
  <2>1. CASE loc[u].ch = c  BY <1>4, <1>15, <2>1, CallInside
  <2>2. CASE loc[u].ch # c
    <3>1. c + loc[t].off \in Nat /\ c <= c + loc[t].off  BY <1>2
    <3>2. QED  BY <1>2, <1>15, <2>2, <3>1, CallInside, ChambersApart DEF Inv
  <2>3. QED  BY <2>1, <2>2
<1>16. RoomsOK'
  <2>1. \A r \in rooms, u \in Threads : Building(loc'[u]) =>
          r.at + r.chopped <= loc'[u].ch + loc'[u].off \/ CutAt(loc'[u]) <= r.at
    BY <1>5, <1>7, <1>14 DEF Alone, Inv, RoomsOK
  <2>2. \A u, v \in Threads : u # v /\ Building(loc'[u]) /\ Building(loc'[v]) =>
          CutAt(loc'[u]) <= loc'[v].ch + loc'[v].off \/ CutAt(loc'[v]) <= loc'[u].ch + loc'[u].off
    BY <1>5, <1>7, <1>15 DEF Alone, Inv, RoomsOK
  <2>3. QED  BY <1>6, <1>14, <2>1, <2>2 DEF Inv, RoomsOK, CutAt, Building
<1>17. QED  BY <1>10, <1>12, <1>13, <1>16

LEMMA BuildKeeps ==
  ASSUME Inv, NEW t \in Threads, Build(t)
  PROVE  ChambersOK' /\ CallsOK' /\ PushesOK' /\ RoomsOK'
<1>1. /\ CallOK(loc[t]) /\ loc[t].pc = "build" /\ Building(loc[t])
      /\ UNCHANGED <<list, hint, size, offset>> /\ Listed' = Listed
  BY DEF Inv, CallsOK, Build, At, Building, Listed
<1>2. Alone(t) /\ CallOK(loc'[t]) /\ loc'[t].pc = "idle"  BY Returns DEF Build
<1>3. ChambersOK'  BY <1>1, Zenon DEF Inv, ChambersOK
<1>4. ASSUME NEW u \in Threads
      PROVE  CallOK(loc[u])'
  <2>1. CallOK(loc'[u])  BY <1>2 DEF Inv, CallsOK, Alone
  <2>2. QED  BY <1>1, <2>1 DEF CallOK, Fits, CutAt
<1>5. CallsOK'  BY <1>2, <1>4 DEF Alone, CallsOK
<1>6. PushesOK'  BY <1>1, <1>2 DEF Inv, Alone, PushesOK, Pushing
<1> DEFINE b == loc[t].ch + loc[t].off
           e == CutAt(loc[t])
           n == Adapted(loc[t].n)
           al == loc[t].align
           m == [ch |-> loc[t].ch, at |-> b, chopped |-> e - b, top |-> TopOf(b, al), tail |-> TailOf(b, n, al),
                 align |-> al]
<1>7. rooms' = rooms \cup {m}  BY DEF Build, RoomEnd, CutAt
<1>8. /\ loc[t].ch \in DOMAIN size /\ loc[t].ch \in Nat /\ loc[t].off \in Nat /\ 32 <= loc[t].off
      /\ e \in Nat /\ e <= loc[t].ch + size[loc[t].ch]
      /\ TopOf(b, al) \in Nat /\ b + 40 <= TopOf(b, al) /\ TopOf(b, al) % al = 0
      /\ TailOf(b, n, al) \in Nat /\ TopOf(b, al) < TailOf(b, n, al) /\ TailOf(b, n, al) < e
      /\ e <= loc[t].ch + offset[loc[t].ch]
  BY <1>1, Cut, CallInside
<1>9. /\ m.ch = loc[t].ch /\ m.at = b /\ m.chopped = e - b /\ m.top = TopOf(b, al)
      /\ m.tail = TailOf(b, n, al) /\ m.align = al
  OBVIOUS
<1>10. b \in Nat /\ b = loc[t].ch + loc[t].off  BY <1>8
<1> HIDE DEF m, b, e, n, al
<1>11. m.chopped \in Nat /\ m.at + m.chopped = e  BY <1>8, <1>9, <1>10
<1>12. RoomOK(m)  BY <1>8, <1>9, <1>10, <1>11 DEF RoomOK
<1>13. \A r \in rooms : r.at + r.chopped <= b \/ e <= r.at  BY <1>1 DEF Inv, RoomsOK, b, e
<1>14. \A u \in Threads : u # t /\ Building(loc[u]) =>
         CutAt(loc[u]) <= b \/ e <= loc[u].ch + loc[u].off
  BY <1>1 DEF Inv, RoomsOK, b, e
<1>15. RoomsOK'
  <2>1. \A r \in rooms' : RoomOK(r)'
    <3>1. \A r \in rooms' : RoomOK(r)  BY <1>7, <1>12 DEF Inv, RoomsOK
    <3>2. QED  BY <1>1, <3>1 DEF RoomOK
  <2>2. \A r, s \in rooms' : r # s => r.at + r.chopped <= s.at \/ s.at + s.chopped <= r.at
    BY <1>7, <1>9, <1>11, <1>13 DEF Inv, RoomsOK
  <2>3. \A r \in rooms', u \in Threads : Building(loc'[u]) =>
          r.at + r.chopped <= loc'[u].ch + loc'[u].off \/ CutAt(loc'[u]) <= r.at
    BY <1>2, <1>7, <1>9, <1>11, <1>14 DEF Alone, Inv, RoomsOK, Building
  <2>4. \A u, v \in Threads : u # v /\ Building(loc'[u]) /\ Building(loc'[v]) =>
          CutAt(loc'[u]) <= loc'[v].ch + loc'[v].off \/ CutAt(loc'[v]) <= loc'[u].ch + loc'[u].off
    BY <1>2 DEF Alone, Inv, RoomsOK, Building
  <2>5. QED  BY <2>1, <2>2, <2>3, <2>4 DEF RoomsOK, CutAt, Building
<1>16. QED  BY <1>3, <1>5, <1>6, <1>15
\* A chamber that is mapped overlaps none that was.
LEMMA NewChamber ==
  ASSUME Inv, NEW t \in Threads, At(t, "map"), NEW i \in BlocksFor(t), NEW b,
         b = Trimmed(MapSize(loc[t].n), loc[t].align, Places[i])
  PROVE  /\ b.at \in Nat /\ b.size \in Nat /\ 32 <= b.size
         /\ \A c \in DOMAIN size : c + size[c] <= b.at \/ b.at + b.size <= c
<1>0. i \in Blocks(OverfitSize(MapSize(loc[t].n), loc[t].align))  BY Zenon DEF BlocksFor
<1>1. loc[t].n \in Nat /\ loc[t].align \in Alignments  BY DEF Inv, CallsOK, CallOK
<1>2. PICK n \in Nat : n = loc[t].n  BY <1>1
<1>3. MapSize(n) \in Nat \ {0} /\ 32 <= MapSize(n)  BY ChamberAssumption DEF MapSize, ChamberBytes
<1>4. Places[i] \in Nat /\ Places[i] % PageSize = 0
  BY <1>0, ChamberAssumption DEF Blocks
<1>5. PICK m \in Nat \ {0} : m = MapSize(n) /\ 32 <= m  BY <1>3
<1>6. b = Trimmed(m, loc[t].align, Places[i])  BY <1>2, <1>5
<1>7. /\ b.at \in Nat /\ b.size \in Nat /\ m <= b.size
      /\ Places[i] <= b.at /\ b.at + b.size <= Places[i] + OverfitSize(m, loc[t].align)
  BY <1>1, <1>4, <1>6, KeptOfBlock
<1>8. \A c \in DOMAIN size : c + size[c] <= Places[i] \/ Places[i] + OverfitSize(m, loc[t].align) <= c
  BY <1>0, <1>2, <1>5, Zenon DEF Blocks
<1>9. OverfitSize(m, loc[t].align) \in Int
  <2>1. MmapAlign(loc[t].align) \in Nat \ {0}  BY <1>1, PageSizeAssumption DEF MmapAlign, Alignments
  <2>2. m + (MmapAlign(loc[t].align) - 1) \in Nat  BY <2>1
  <2>3. (m + (MmapAlign(loc[t].align) - 1)) \div PageSize \in Nat  BY <2>2, PageSizeAssumption, Division
  <2>4. QED  BY <2>3, PageSizeAssumption DEF OverfitSize
<1>10. \A c \in DOMAIN size : c \in Nat /\ size[c] \in Nat  BY DEF Inv, ChambersOK
<1>11. QED
  <2>1. PICK o \in Int : o = OverfitSize(m, loc[t].align)  BY <1>9
  <2>2. ASSUME NEW c \in DOMAIN size
        PROVE  c + size[c] <= b.at \/ b.at + b.size <= c
    BY <1>4, <1>7, <1>8, <1>10, <2>1
  <2>3. QED  BY <1>5, <1>7, <2>2

LEMMA MapChamberKeeps ==
  ASSUME Inv, NEW t \in Threads, MapChamber(t)
  PROVE  ChambersOK' /\ CallsOK' /\ PushesOK' /\ RoomsOK'
<1>1. CallOK(loc[t]) /\ DOMAIN loc = Threads /\ At(t, "map") /\ loc[t].pc = "map"
  BY DEF Inv, CallsOK, MapChamber, At
<1>2. PICK i \in BlocksFor(t) :
        LET m == Trimmed(MapSize(loc[t].n), loc[t].align, Places[i])
        IN /\ size' = [c \in DOMAIN size \cup {m.at} |-> IF c = m.at THEN m.size ELSE size[c]]
           /\ offset' = [c \in DOMAIN size \cup {m.at} |-> IF c = m.at THEN InitOffset ELSE offset[c]]
           /\ loc' = [loc EXCEPT ![t].ch = m.at, ![t].pc = "link"]
  BY Zenon DEF MapChamber
<1> DEFINE b == Trimmed(MapSize(loc[t].n), loc[t].align, Places[i])
<1>3. /\ size' = [c \in DOMAIN size \cup {b.at} |-> IF c = b.at THEN b.size ELSE size[c]]
      /\ offset' = [c \in DOMAIN size \cup {b.at} |-> IF c = b.at THEN InitOffset ELSE offset[c]]
      /\ loc' = [loc EXCEPT ![t].ch = b.at, ![t].pc = "link"]
  BY <1>2, Zenon
<1>4. /\ b.at \in Nat /\ b.size \in Nat /\ 32 <= b.size
      /\ \A c \in DOMAIN size : c + size[c] <= b.at \/ b.at + b.size <= c
  BY <1>1, <1>2, NewChamber
<1> HIDE DEF b
<1>5. UNCHANGED <<list, hint, rooms>> /\ Listed' = Listed  BY DEF MapChamber, Listed
<1>6. \A c \in DOMAIN size : /\ c \in Nat /\ size[c] \in Nat /\ offset[c] \in Nat
                             /\ 32 <= offset[c] /\ offset[c] <= size[c]
  BY DEF Inv, ChambersOK
<1>7. b.at \notin DOMAIN size
  <2>1. SUFFICES ASSUME b.at \in DOMAIN size PROVE FALSE  OBVIOUS
  <2>2. size[b.at] \in Nat /\ 32 <= size[b.at]  BY <1>6, <2>1
  <2>3. b.at + size[b.at] <= b.at \/ b.at + b.size <= b.at  BY <1>4, <2>1
  <2>4. QED  BY <1>4, <2>2, <2>3
<1>8. /\ DOMAIN size' = DOMAIN size \cup {b.at} /\ DOMAIN offset' = DOMAIN size \cup {b.at}
      /\ size'[b.at] = b.size /\ offset'[b.at] = 32
      /\ \A c \in DOMAIN size : size'[c] = size[c] /\ offset'[c] = offset[c]
  BY <1>3, <1>7, InitOffsetIs
<1>9. /\ Alone(t) /\ DOMAIN loc'[t] = DOMAIN loc[t] /\ loc'[t].ch = b.at
      /\ loc'[t].n = loc[t].n /\ loc'[t].align = loc[t].align /\ loc'[t].pc = "link"
  BY <1>1, <1>3, Fields DEF Alone, CallOK
<1>10. ChambersOK'
  <2>1. \A c \in DOMAIN size' : /\ c \in Nat /\ size'[c] \in Nat /\ offset'[c] \in Nat
                                /\ 32 <= offset'[c] /\ offset'[c] <= size'[c]
    BY <1>4, <1>6, <1>8
  <2>2. ASSUME NEW c \in DOMAIN size', NEW d \in DOMAIN size', c < d
        PROVE  c + size'[c] <= d
    <3>1. CASE c \in DOMAIN size /\ d \in DOMAIN size  BY <1>8, <2>2, <3>1 DEF Inv, ChambersOK
    <3>2. CASE c = b.at /\ d \in DOMAIN size
      <4>1. d \in Nat /\ size[d] \in Nat /\ (d + size[d] <= b.at \/ b.at + b.size <= d)  BY <1>4, <1>6, <3>2
      <4>2. QED  BY <1>4, <1>8, <2>2, <3>2, <4>1
    <3>3. CASE c \in DOMAIN size /\ d = b.at
      <4>1. c \in Nat /\ size[c] \in Nat /\ (c + size[c] <= b.at \/ b.at + b.size <= c)  BY <1>4, <1>6, <3>3
      <4>2. QED  BY <1>4, <1>8, <2>2, <3>3, <4>1
    <3>4. CASE c = b.at /\ d = b.at  BY <1>4, <2>2, <3>4
    <3>5. QED  BY <1>8, <3>1, <3>2, <3>3, <3>4
  <2>3. DOMAIN offset' = DOMAIN size'  BY <1>8
  <2>4. Listed' \subseteq DOMAIN size' /\ hint' \in Listed' \cup {Null}  BY <1>5, <1>8 DEF Inv, ChambersOK
  <2>5. list' \in Seq(Nat) /\ \A j, k \in 1 .. Len(list') : list'[j] = list'[k] => j = k
    BY <1>5, Zenon DEF Inv, ChambersOK
  <2>6. QED  BY <2>1, <2>2, <2>3, <2>4, <2>5 DEF ChambersOK
<1>11. ASSUME NEW u \in Threads
       PROVE  CallOK(loc[u])'
  <2>1. CASE u = t
    <3>1. b.at \notin Listed  BY <1>7 DEF Inv, ChambersOK
    <3>2. QED  BY <1>1, <1>5, <1>8, <1>9, <2>1, <3>1 DEF CallOK, Pushing
  <2>2. CASE u # t
    <3>1. loc'[u] = loc[u] /\ CallOK(loc[u])  BY <1>9, <2>2 DEF Alone, Inv, CallsOK
    <3>2. loc[u].ch \in Listed => size'[loc[u].ch] = size[loc[u].ch] /\ offset'[loc[u].ch] = offset[loc[u].ch]
      BY <1>8 DEF Inv, ChambersOK
    <3>3. QED  BY <1>5, <1>8, <3>1, <3>2 DEF CallOK, Fits, CutAt, Pushing
  <2>3. QED  BY <2>1, <2>2
<1>12. CallsOK'  BY <1>9, <1>11 DEF Alone, CallsOK
<1>13. PushesOK'
  <2>1. ASSUME NEW c \in DOMAIN size'
        PROVE  c \in Listed \/ \E u \in Threads : Pushing(loc'[u]) /\ loc'[u].ch = c
    <3>1. CASE c = b.at  BY <1>9, <3>1 DEF Pushing
    <3>2. CASE c \in DOMAIN size
      <4>1. SUFFICES ASSUME c \notin Listed PROVE \E u \in Threads : Pushing(loc'[u]) /\ loc'[u].ch = c
        OBVIOUS
      <4>2. PICK u \in Threads : Pushing(loc[u]) /\ loc[u].ch = c  BY <3>2, <4>1 DEF Inv, PushesOK
      <4>3. u # t  BY <1>1, <4>2 DEF Pushing
      <4>4. QED  BY <1>9, <4>2, <4>3 DEF Alone
    <3>3. QED  BY <1>8, <3>1, <3>2
  <2>2. \A u \in Threads : u # t /\ Pushing(loc[u]) => loc[u].ch # b.at
    BY <1>7 DEF Inv, CallsOK, CallOK
  <2>3. \A u, v \in Threads : Pushing(loc'[u]) /\ Pushing(loc'[v]) /\ loc'[u].ch = loc'[v].ch => u = v
    BY <1>9, <2>2 DEF Inv, Alone, PushesOK
  <2>4. QED  BY <1>5, <2>1, <2>3 DEF PushesOK, Pushing
<1>14. RoomsOK'
  <2>1. ASSUME NEW r \in rooms
        PROVE  RoomOK(r)'
    <3>1. RoomOK(r) /\ r.ch \in DOMAIN size  BY DEF Inv, RoomsOK, RoomOK
    <3>2. r.ch \in DOMAIN size' /\ offset'[r.ch] = offset[r.ch]  BY <1>8, <3>1
    <3>3. QED  BY <3>1, <3>2 DEF RoomOK
  <2>2. \A u \in Threads : Building(loc'[u]) => loc'[u] = loc[u]  BY <1>9 DEF Alone, Building
  <2>3. \A r \in rooms, u \in Threads : Building(loc'[u]) =>
          r.at + r.chopped <= loc'[u].ch + loc'[u].off \/ CutAt(loc'[u]) <= r.at
    BY <2>2 DEF Inv, RoomsOK
  <2>4. \A u, v \in Threads : u # v /\ Building(loc'[u]) /\ Building(loc'[v]) =>
          CutAt(loc'[u]) <= loc'[v].ch + loc'[v].off \/ CutAt(loc'[v]) <= loc'[u].ch + loc'[u].off
    BY <2>2 DEF Inv, RoomsOK
  <2>5. QED  BY <1>5, <2>1, <2>3, <2>4 DEF Inv, RoomsOK, CutAt, Building
<1>15. QED  BY <1>10, <1>12, <1>13, <1>14

LEMMA PushKeeps ==
  ASSUME Inv, NEW t \in Threads, Push(t), HeadOf(list) = loc[t].seen
  PROVE  ChambersOK' /\ CallsOK' /\ PushesOK' /\ RoomsOK'
<1>1. CallOK(loc[t]) /\ DOMAIN loc = Threads /\ loc[t].pc = "push" /\ Pushing(loc[t])
  BY DEF Inv, CallsOK, Push, At, Pushing
<1>2. /\ Alone(t) /\ DOMAIN loc'[t] = DOMAIN loc[t]
      /\ loc'[t].n = loc[t].n /\ loc'[t].align = loc[t].align /\ loc'[t].pc = "tryHead"
  BY <1>1, Fields DEF Push, Alone, CallOK
<1>3. UNCHANGED <<hint, size, offset, rooms>>  BY DEF Push
<1>4. PICK c \in DOMAIN size : c = loc[t].ch /\ c \notin Listed /\ c \in Nat
  BY <1>1 DEF CallOK, Inv, ChambersOK
<1>5. list' = <<c>> \o list /\ list \in Seq(Nat)  BY <1>4 DEF Push, Inv, ChambersOK
<1>6. /\ list' \in Seq(Nat) /\ Len(list') = Len(list) + 1 /\ list'[1] = c
      /\ \A i \in 1 .. Len(list) : list'[i + 1] = list[i]
  <2>1. <<c>> \in Seq(Nat) /\ Len(<<c>>) = 1 /\ <<c>>[1] = c  BY <1>4
  <2>2. Len(list) \in Nat  BY <1>5
  <2>3. QED  BY <1>5, <2>1, <2>2
<1>7. \A i \in 1 .. Len(list') : i = 1 \/ (i - 1 \in 1 .. Len(list) /\ list'[i] = list[i - 1])
  <2>1. ASSUME NEW i \in 1 .. Len(list'), i # 1
        PROVE  i - 1 \in 1 .. Len(list) /\ list'[i] = list[i - 1]
    <3>1. Len(list) \in Nat  BY <1>5
    <3>2. PICK j \in 1 .. Len(list) : i = j + 1
      <4>1. i - 1 \in 1 .. Len(list) /\ i = (i - 1) + 1  BY <1>6, <2>1, <3>1
      <4>2. QED  BY <4>1
    <3>3. QED  BY <1>6, <3>1, <3>2
  <2>2. QED  BY <2>1
<1>8. Listed' = Listed \cup {c}
  <2>1. ASSUME NEW x \in Listed' PROVE x \in Listed \cup {c}
    <3>1. PICK i \in 1 .. Len(list') : x = list'[i]  BY <2>1 DEF Listed
    <3>2. CASE i = 1  BY <1>6, <3>1, <3>2
    <3>3. CASE i # 1
      <4>1. i - 1 \in 1 .. Len(list) /\ x = list[i - 1]  BY <1>7, <3>1, <3>3
      <4>2. QED  BY <4>1 DEF Listed
    <3>4. QED  BY <3>2, <3>3
  <2>2. ASSUME NEW x \in Listed PROVE x \in Listed'
    <3>1. PICK i \in 1 .. Len(list) : x = list[i]  BY <2>2 DEF Listed
    <3>2. i + 1 \in 1 .. Len(list') /\ list'[i + 1] = x  BY <1>5, <1>6, <3>1
    <3>3. QED  BY <3>2 DEF Listed
  <2>3. c \in Listed'
    <3>1. 1 \in 1 .. Len(list')  BY <1>5, <1>6
    <3>2. QED  BY <1>6, <3>1 DEF Listed
  <2>4. QED  BY <2>1, <2>2, <2>3
<1>9. \A i, j \in 1 .. Len(list') : list'[i] = list'[j] => i = j
  <2>1. ASSUME NEW i \in 1 .. Len(list'), NEW j \in 1 .. Len(list'), list'[i] = list'[j]
        PROVE  i = j
    <3>1. \A k \in 1 .. Len(list) : list[k] # c  BY <1>4 DEF Listed
    <3>2. \A k \in 1 .. Len(list') : list'[k] = c => k = 1  BY <1>7, <3>1
    <3>3. CASE i = 1 \/ j = 1
      <4>1. list'[i] = c /\ list'[j] = c  BY <1>6, <2>1, <3>3
      <4>2. QED  BY <3>2, <4>1
    <3>4. CASE i # 1 /\ j # 1
      <4>1. /\ i - 1 \in 1 .. Len(list) /\ j - 1 \in 1 .. Len(list) /\ list[i - 1] = list[j - 1]
        BY <1>7, <2>1, <3>4
      <4>2. i - 1 = j - 1  BY <4>1, Zenon DEF Inv, ChambersOK
      <4>3. QED  BY <2>1, <4>2
    <3>5. QED  BY <3>3, <3>4
  <2>2. QED  BY <2>1
<1>10. ChambersOK'
  <2>1. Listed' \subseteq DOMAIN size' /\ hint' \in Listed' \cup {Null}
    BY <1>3, <1>8 DEF Inv, ChambersOK
  <2>2. QED  BY <1>3, <1>6, <1>9, <2>1 DEF Inv, ChambersOK
<1>11. ASSUME NEW u \in Threads
       PROVE  CallOK(loc[u])'
  <2>1. CASE u = t  BY <1>1, <1>2, <2>1 DEF CallOK, Pushing
  <2>2. CASE u # t
    <3>1. loc'[u] = loc[u] /\ CallOK(loc[u])  BY <1>2, <2>2 DEF Alone, Inv, CallsOK
    <3>2. Pushing(loc[u]) => loc[u].ch # c  BY <1>1, <1>4, <2>2 DEF Inv, PushesOK
    <3>3. list' # <<>>  BY <1>6
    <3>4. QED  BY <1>3, <1>8, <3>1, <3>2, <3>3 DEF CallOK, Fits, CutAt
  <2>3. QED  BY <2>1, <2>2
<1>12. CallsOK'  BY <1>2, <1>11 DEF Alone, CallsOK
<1>13. PushesOK'
  <2>1. ASSUME NEW d \in DOMAIN size
        PROVE  d \in Listed' \/ \E u \in Threads : Pushing(loc'[u]) /\ loc'[u].ch = d
    <3>1. SUFFICES ASSUME d \notin Listed' PROVE \E u \in Threads : Pushing(loc'[u]) /\ loc'[u].ch = d
      OBVIOUS
    <3>2. PICK u \in Threads : Pushing(loc[u]) /\ loc[u].ch = d  BY <1>8, <3>1 DEF Inv, PushesOK
    <3>3. u # t  BY <1>4, <1>8, <3>1, <3>2
    <3>4. QED  BY <1>2, <3>2, <3>3 DEF Alone
  <2>2. \A u, v \in Threads : Pushing(loc'[u]) /\ Pushing(loc'[v]) /\ loc'[u].ch = loc'[v].ch => u = v
    BY <1>2 DEF Inv, Alone, PushesOK, Pushing
  <2>3. QED  BY <1>3, <2>1, <2>2 DEF PushesOK, Pushing
<1>14. RoomsOK'  BY <1>2, <1>3 DEF Inv, Alone, RoomsOK, RoomOK, Building, CutAt
<1>15. QED  BY <1>10, <1>12, <1>13, <1>14
-----------------------------------------------------------------------------
(* The history.                                                            *)

\* A call goes on.
GoesOn(t) == UNCHANGED <<freed, userVars>> /\ Alone(t) /\ ~Resting(loc[t])

LEMMA GoingOn ==
  ASSUME Inv, NEW t \in Threads, GoesOn(t)
  PROVE  HistoryOK'
  BY DEF Inv, HistoryOK, GoesOn, Alone, userVars

\* A call returns, and has given an address or taken one away.
LEMMA HistoryReturns ==
  ASSUME Inv, NEW t \in Threads, NEW how \in {"idle", "found", "notFound", "counted"}, Return(t, how),
         script[t] # <<>>, given' \subseteq Nat, freed' \subseteq given', held' \in Seq(given')
  PROVE  HistoryOK'
<1>1. Alone(t) /\ Resting(loc'[t])  BY Returns DEF Resting
<1>2. script[t] \in Seq(Requests) /\ DOMAIN script = Threads  BY DEF Inv, HistoryOK
<1>3. Tail(script[t]) \in Seq(Requests)  BY <1>2
<1>4. /\ DOMAIN script' = Threads /\ script'[t] \in Seq(Requests)
      /\ \A u \in Threads : u # t => script'[u] = script[u]
  BY <1>2, <1>3 DEF Return
<1>5. QED  BY <1>1, <1>4 DEF Inv, HistoryOK, Alone

\* Addresses that stay.
LEMMA HeldStays ==
  ASSUME HistoryOK, UNCHANGED <<given, held, freed>>
  PROVE  given' \subseteq Nat /\ freed' \subseteq given' /\ held' \in Seq(given')
  BY DEF HistoryOK

LEMMA AllocateHistory ==
  ASSUME Inv, NEW t \in Threads, Allocate(t) \/ Search(t) \/ Inspect(t)
  PROVE  HistoryOK'
<1>1. Alone(t) /\ script[t] # <<>> /\ UNCHANGED <<freed, userVars>>
  <2>1. CASE Allocate(t)  BY <2>1, AllocateIsQuiet, Zenon DEF Quiet, Allocate, Calls, sharedVars
  <2>2. CASE Search(t)  BY <2>2, WalkBegins, Zenon DEF Quiet, Search, Calls, sharedVars
  <2>3. CASE Inspect(t)  BY <2>3, WalkBegins, Zenon DEF Quiet, Inspect, Calls, sharedVars
  <2>4. QED  BY <2>1, <2>2, <2>3
<1>2. QED  BY <1>1 DEF Inv, HistoryOK, Alone, userVars

LEMMA AnsweredHistory ==
  ASSUME Inv, NEW t \in Threads, Answered(t)
  PROVE  HistoryOK'
<1>1. Alone(t) /\ Resting(loc'[t]) /\ UNCHANGED <<freed, userVars>>
  <2>1. DOMAIN loc = Threads  BY DEF Inv, CallsOK
  <2>2. QED  BY <2>1 DEF Answered, Alone, Resting, Idle, sharedVars
<1>2. QED  BY <1>1 DEF Inv, HistoryOK, Alone, userVars

LEMMA BuildHistory ==
  ASSUME Inv, NEW t \in Threads, Build(t)
  PROVE  HistoryOK'
<1>1. CallOK(loc[t]) /\ loc[t].pc = "build"  BY DEF Inv, CallsOK, Build, At
<1>2. script[t] # <<>>  BY <1>1 DEF Inv, HistoryOK, Resting
<1>3. PICK p \in Nat : p = TopOf(loc[t].ch + loc[t].off, loc[t].align)  BY <1>1, Cut
<1>4. given' = given \cup {p} /\ held' = Append(held, p) /\ freed' = freed  BY <1>3 DEF Build
<1>5. held' \in Seq(given')
  <2>1. held \in Seq(given \cup {p}) /\ p \in given \cup {p}
    <3>1. held \in Seq(given)  BY DEF Inv, HistoryOK
    <3>2. QED  BY <3>1
  <2>2. QED  BY <1>4, <2>1
<1>6. given' \subseteq Nat /\ freed' \subseteq given'  BY <1>4 DEF Inv, HistoryOK
<1>7. Return(t, "idle")  BY DEF Build
<1>8. QED  BY <1>2, <1>5, <1>6, <1>7, HistoryReturns

LEMMA DeallocateHistory ==
  ASSUME Inv, NEW t \in Threads, Deallocate(t)
  PROVE  HistoryOK'
<1>1. script[t] # <<>> /\ held # <<>> /\ Return(t, "idle") /\ given' = given
  BY DEF Deallocate, Calls
<1>2. held \in Seq(given) /\ freed \subseteq given /\ given \subseteq Nat  BY DEF Inv, HistoryOK
<1>3. Head(held) \in given /\ Tail(held) \in Seq(given)  BY <1>1, <1>2
<1>4. freed' = freed \cup {Head(held)} /\ held' = Tail(held)  BY DEF Deallocate
<1>5. freed' \subseteq given' /\ held' \in Seq(given') /\ given' \subseteq Nat
  <2>1. given' = given /\ Head(held) \in given  BY <1>1, <1>3
  <2>2. freed' \subseteq given' /\ given' \subseteq Nat
    <3>1. PICK p \in given : p = Head(held)  BY <2>1
    <3>2. freed' = freed \cup {p}  BY <1>4, <3>1, Zenon
    <3>3. QED  BY <1>2, <2>1, <3>2, Zenon
  <2>3. held' \in Seq(given')  BY <1>1, <1>3, <1>4, Zenon
  <2>4. QED  BY <2>2, <2>3
<1>6. "idle" \in {"idle", "found", "notFound", "counted"}  OBVIOUS
<1>7. QED  BY <1>1, <1>5, <1>6, HistoryReturns, Zenon

\* Other calls that return.
LEMMA ReturnHistory ==
  ASSUME Inv, NEW t \in Threads, NEW how \in {"idle", "found", "notFound", "counted"}, Return(t, how),
         script[t] # <<>>, UNCHANGED <<given, held, freed>>
  PROVE  HistoryOK'
<1>1. given' \subseteq Nat /\ freed' \subseteq given' /\ held' \in Seq(given')  BY HeldStays DEF Inv
<1>2. QED  BY <1>1, HistoryReturns, Zenon

-----------------------------------------------------------------------------
(* Every step.                                                             *)

LEMMA StepKeeps ==
  ASSUME Inv, NEW t \in Threads, Step(t)
  PROVE  Inv'
<1>1. ASSUME Quiet(t), HistoryOK' PROVE Inv'  BY <1>1, QuietKeeps DEF Inv
<1>2. ASSUME Quiet(t), UNCHANGED <<freed, userVars>>, ~Resting(loc[t]) PROVE Inv'
  BY <1>1, <1>2, GoingOn DEF GoesOn, Quiet
<1>3. CASE Allocate(t)  BY <1>1, <1>3, AllocateIsQuiet, AllocateHistory
<1>4. CASE LoadHead(t)
  <2>1. At(t, "tryHead") /\ UNCHANGED <<freed, userVars>>  BY <1>4, Zenon DEF LoadHead, sharedVars
  <2>2. QED  BY <1>2, <1>4, <2>1, LoadHeadIsQuiet DEF At, Resting
<1>5. CASE LoadOffset(t)
  <2>1. At(t, "offset") /\ UNCHANGED <<freed, userVars>>  BY <1>5, Zenon DEF LoadOffset, sharedVars
  <2>2. QED  BY <1>2, <1>5, <2>1, LoadOffsetIsQuiet DEF At, Resting
<1>6. CASE Chop(t)
  <2>1. UNCHANGED <<freed, userVars>> /\ ~Resting(loc[t])  BY <1>6 DEF Chop, At, Resting
  <2>2. CASE offset[loc[t].ch] = loc[t].off
    <3>1. ChambersOK' /\ CallsOK' /\ PushesOK' /\ RoomsOK'  BY <1>6, <2>2, ChopKeeps
    <3>2. Alone(t)
      <4>1. DOMAIN loc = Threads  BY DEF Inv, CallsOK
      <4>2. QED  BY <1>6, <2>2, <4>1 DEF Chop, Goto, Alone
    <3>3. QED  BY <2>1, <3>1, <3>2, GoingOn DEF GoesOn, Inv
  <2>3. CASE offset[loc[t].ch] # loc[t].off  BY <1>2, <1>6, <2>1, <2>3, ChopFailsIsQuiet
  <2>4. QED  BY <2>2, <2>3
<1>7. CASE Build(t)  BY <1>7, BuildKeeps, BuildHistory DEF Inv
<1>8. CASE LoadHint(t)
  <2>1. At(t, "tryHint") /\ UNCHANGED <<freed, userVars>>  BY <1>8, Zenon DEF LoadHint, sharedVars
  <2>2. QED  BY <1>2, <1>8, <2>1, LoadHintIsQuiet DEF At, Resting
<1>9. CASE LoadSecond(t)
  <2>1. At(t, "second") /\ UNCHANGED <<freed, userVars>>  BY <1>9, Zenon DEF LoadSecond, sharedVars
  <2>2. QED  BY <1>2, <1>9, <2>1, LoadSecondIsQuiet DEF At, Resting
<1>10. CASE MoveHint(t)
  <2>1. At(t, "moveHint") /\ UNCHANGED <<freed, userVars>>  BY <1>10, Zenon DEF MoveHint
  <2>2. QED  BY <1>2, <1>10, <2>1, MoveHintIsQuiet DEF At, Resting
<1>11. CASE MapChamber(t)
  <2>1. ChambersOK' /\ CallsOK' /\ PushesOK' /\ RoomsOK'  BY <1>11, MapChamberKeeps
  <2>2. Alone(t)
    <3>1. PICK x : loc' = [loc EXCEPT ![t].ch = x, ![t].pc = "link"]  BY <1>11, Zenon DEF MapChamber
    <3>2. QED  BY <3>1 DEF Inv, CallsOK, Alone
  <2>3. UNCHANGED <<freed, userVars>> /\ ~Resting(loc[t])  BY <1>11 DEF MapChamber, At, Resting
  <2>4. QED  BY <2>1, <2>2, <2>3, GoingOn DEF GoesOn, Inv
<1>12. CASE MapFails(t)
  <2>1. At(t, "map") /\ UNCHANGED <<freed, userVars>>  BY <1>12, Zenon DEF MapFails, sharedVars
  <2>2. QED  BY <1>2, <1>12, <2>1, MapFailsIsQuiet DEF At, Resting
<1>13. CASE LoadToPush(t)
  <2>1. At(t, "link") /\ UNCHANGED <<freed, userVars>>  BY <1>13, Zenon DEF LoadToPush, sharedVars
  <2>2. QED  BY <1>2, <1>13, <2>1, LoadToPushIsQuiet DEF At, Resting
<1>14. CASE Push(t)
  <2>1. UNCHANGED <<freed, userVars>> /\ ~Resting(loc[t])  BY <1>14 DEF Push, At, Resting
  <2>2. CASE HeadOf(list) = loc[t].seen
    <3>1. ChambersOK' /\ CallsOK' /\ PushesOK' /\ RoomsOK'  BY <1>14, <2>2, PushKeeps
    <3>2. Alone(t)  BY <1>14, <2>2 DEF Push, Alone, Inv, CallsOK
    <3>3. QED  BY <2>1, <3>1, <3>2, GoingOn DEF GoesOn, Inv
  <2>3. CASE HeadOf(list) # loc[t].seen  BY <1>2, <1>14, <2>1, <2>3, PushFailsIsQuiet
  <2>4. QED  BY <2>2, <2>3
<1>15. CASE ReturnNull(t)
  <2>1. loc[t].pc = "none" /\ Return(t, "idle") /\ UNCHANGED <<sharedVars, given, held>>
    BY <1>15 DEF ReturnNull, At
  <2>2. script[t] # <<>>  BY <2>1 DEF Inv, HistoryOK, Resting
  <2>3. Quiet(t) /\ HistoryOK'  BY <2>1, <2>2, ReturnIsQuiet, ReturnHistory DEF sharedVars
  <2>4. QED  BY <1>1, <2>3
<1>16. CASE Deallocate(t)
  <2>1. loc[t].pc = "idle" /\ Return(t, "idle") /\ UNCHANGED <<list, hint, size, offset, rooms>>
    BY <1>16 DEF Deallocate, Calls, At
  <2>2. QED  BY <1>1, <1>16, <2>1, ReturnIsQuiet, DeallocateHistory
<1>17. CASE Skip(t)
  <2>1. /\ loc[t].pc = "idle" /\ Return(t, "idle") /\ script[t] # <<>>
        /\ UNCHANGED <<sharedVars, given, held>>
    BY <1>17 DEF Skip, Calls, At
  <2>2. Quiet(t) /\ HistoryOK'  BY <2>1, ReturnIsQuiet, ReturnHistory DEF sharedVars
  <2>3. QED  BY <1>1, <2>2
<1>18. CASE Search(t)  BY <1>1, <1>18, WalkBegins, AllocateHistory
<1>19. CASE Inspect(t)  BY <1>1, <1>19, WalkBegins, AllocateHistory
<1>20. CASE Begin(t)
  <2>1. loc[t].pc = "begin" /\ UNCHANGED <<sharedVars, given, held>>  BY <1>20 DEF Begin, At
  <2>2. CASE loc[t].ch = Null
    <3>1. Return(t, IF loc[t].ptr = Null THEN "counted" ELSE "notFound")  BY <1>20, <2>2 DEF Begin
    <3>2. script[t] # <<>>  BY <2>1 DEF Inv, HistoryOK, Resting
    <3>3. HistoryOK'  BY <2>1, <3>1, <3>2, ReturnHistory DEF sharedVars
    <3>4. QED  BY <1>1, <1>20, <3>3, BeginIsQuiet
  <2>3. CASE loc[t].ch # Null
    <3>1. UNCHANGED <<freed, userVars>>  BY <1>20, <2>1, <2>3 DEF Begin, sharedVars, userVars
    <3>2. QED  BY <1>2, <1>20, <2>1, <3>1, BeginIsQuiet DEF Resting
  <2>4. QED  BY <2>2, <2>3
<1>21. CASE End(t)
  <2>1. At(t, "end") /\ UNCHANGED <<freed, userVars>>  BY <1>21, Zenon DEF End, sharedVars
  <2>2. QED  BY <1>2, <1>21, <2>1, EndIsQuiet DEF At, Resting
<1>22. CASE Leave(t)
  <2>1. At(t, "visit") /\ UNCHANGED <<freed, userVars>>  BY <1>22, Zenon DEF Leave, sharedVars
  <2>2. QED  BY <1>2, <1>22, <2>1, LeaveIsQuiet DEF At, Resting
<1>23. CASE Visit(t)
  <2>1. loc[t].pc = "visit" /\ UNCHANGED <<sharedVars, given, held>>  BY <1>23 DEF Visit, At
  <2>2. CASE Return(t, "found")
    <3>1. script[t] # <<>>  BY <2>1 DEF Inv, HistoryOK, Resting
    <3>2. HistoryOK'  BY <2>1, <2>2, <3>1, ReturnHistory DEF sharedVars
    <3>3. QED  BY <1>1, <1>23, <3>2, VisitIsQuiet
  <2>3. CASE ~Return(t, "found")
    <3>1. UNCHANGED <<freed, userVars>>  BY <1>23, <2>1, <2>3 DEF Visit, sharedVars, userVars
    <3>2. QED  BY <1>2, <1>23, <2>1, <3>1, VisitIsQuiet DEF Resting
  <2>4. QED  BY <2>2, <2>3
<1>24. CASE VisitUnbuilt(t)
  <2>1. At(t, "visit") /\ UNCHANGED <<freed, userVars>>  BY <1>24, Zenon DEF VisitUnbuilt, sharedVars
  <2>2. QED  BY <1>2, <1>24, <2>1, VisitUnbuiltIsQuiet DEF At, Resting
<1>25. CASE Answered(t)  BY <1>1, <1>25, AnsweredIsQuiet, AnsweredHistory
<1>26. QED
  BY <1>3, <1>4, <1>5, <1>6, <1>7, <1>8, <1>9, <1>10, <1>11, <1>12, <1>13, <1>14, <1>15, <1>16, <1>17, <1>18,
     <1>19, <1>20, <1>21, <1>22, <1>23, <1>24, <1>25, Zenon DEF Step

LEMMA InitHolds == Init => Inv
<1> SUFFICES ASSUME Init PROVE Inv  OBVIOUS
<1>1. list = <<>> /\ Listed = {}  BY DEF Init, Listed
<1>2. size = <<>> /\ offset = <<>> /\ DOMAIN size = {} /\ DOMAIN offset = {}  BY DEF Init
<1>3. ChambersOK
  <2>1. list \in Seq(Nat) /\ Len(list) = 0  BY <1>1
  <2>2. QED  BY <1>1, <1>2, <2>1 DEF ChambersOK, Init
<1>4. 1 \in Alignments  BY PageSizeAssumption DEF Alignments
<1>5. DOMAIN loc = Threads /\ \A t \in Threads : loc[t] = Idle  BY DEF Init
<1>6. CallsOK  BY <1>4, <1>5 DEF CallsOK, CallOK, Pushing, Idle
<1>7. PushesOK  BY <1>2, <1>5 DEF PushesOK, Pushing, Idle
<1>8. RoomsOK  BY <1>5 DEF Init, RoomsOK, Building, Idle
<1>9. HistoryOK
  <2>1. script \in [Threads -> Seq(Requests)]  BY ChamberAssumption, Zenon DEF Init, Requests
  <2>2. \A t \in Threads : Resting(loc[t])  BY <1>5 DEF Resting, Idle
  <2>3. held \in Seq(given) /\ given = {} /\ freed = {}  BY DEF Init
  <2>4. QED  BY <2>1, <2>2, <2>3 DEF HistoryOK
<1>10. QED  BY <1>3, <1>6, <1>7, <1>8, <1>9 DEF Inv

THEOREM InvHolds == Spec => []Inv
<1>1. Inv /\ [Next]_vars => Inv'
  <2> SUFFICES ASSUME Inv, [Next]_vars PROVE Inv'  OBVIOUS
  <2>1. CASE Next  BY <2>1, StepKeeps DEF Next
  <2>2. CASE UNCHANGED vars
    <3>1. UNCHANGED <<list, hint, size, offset, rooms, freed, loc, given, held, script>>
      BY <2>2 DEF vars
    <3>2. Listed' = Listed  BY <3>1 DEF Listed
    <3>3. ChambersOK'  BY <3>1, <3>2, Zenon DEF Inv, ChambersOK
    <3>4. CallsOK'  BY <3>1, <3>2 DEF Inv, CallsOK, CallOK, Fits, CutAt, Pushing
    <3>5. PushesOK'  BY <3>1, <3>2 DEF Inv, PushesOK, Pushing
    <3>6. RoomsOK'  BY <3>1 DEF Inv, RoomsOK, RoomOK, CutAt, Building
    <3>7. HistoryOK'  BY <3>1 DEF Inv, HistoryOK, Resting
    <3>8. QED  BY <3>3, <3>4, <3>5, <3>6, <3>7 DEF Inv
  <2>3. QED  BY <2>1, <2>2
<1>2. QED  BY InitHolds, <1>1, PTL DEF Spec

\* Memory is never in two rooms nor in none, and no chamber is lost.
THEOREM MemoryIsApart == Spec => []RoomsAreApart
<1>1. ASSUME Inv PROVE RoomsAreApart
  <2>1. TypeOK
    <3>1. {held[i] : i \in 1 .. Len(held)} \subseteq given  BY <1>1 DEF Inv, HistoryOK
    <3>2. \A c \in DOMAIN size : c \in Nat /\ offset[c] \in InitOffset .. size[c]
      BY <1>1, InitOffsetIs DEF Inv, ChambersOK
    <3>3. \A i \in 1 .. Len(list) : list[i] \in DOMAIN size  BY <1>1 DEF Inv, ChambersOK, Listed
    <3>4. QED  BY <1>1, <3>1, <3>2, <3>3 DEF Inv, ChambersOK, HistoryOK, TypeOK
  <2>2. ChambersAreListed
    <3>1. ASSUME NEW c \in DOMAIN size
          PROVE  Cardinality({i \in 1 .. Len(list) : list[i] = c})
                   = IF \E t \in Threads : loc[t].ch = c /\ loc[t].pc \in {"link", "push"} THEN 0 ELSE 1
      <4>1. (\E t \in Threads : loc[t].ch = c /\ loc[t].pc \in {"link", "push"}) <=> c \notin Listed
        BY <1>1 DEF Inv, CallsOK, CallOK, PushesOK, Pushing
      <4>2. CASE c \in Listed
        <5>1. PICK k \in 1 .. Len(list) : list[k] = c  BY <4>2 DEF Listed
        <5>2. {i \in 1 .. Len(list) : list[i] = c} = {k}
          <6>1. \A i \in 1 .. Len(list) : list[i] = c <=> i = k  BY <1>1, <5>1, Zenon DEF Inv, ChambersOK
          <6>2. QED  BY <5>1, <6>1
        <5>3. Cardinality({k}) = 1  BY FS_Singleton, Zenon
        <5>4. QED  BY <4>1, <4>2, <5>2, <5>3, Zenon
      <4>3. CASE c \notin Listed
        <5>1. {i \in 1 .. Len(list) : list[i] = c} = {}  BY <4>3 DEF Listed
        <5>2. Cardinality({}) = 0  BY FS_EmptySet, Zenon
        <5>3. QED  BY <4>1, <4>3, <5>1, <5>2, Zenon
      <4>4. QED  BY <4>2, <4>3
    <3>2. QED  BY <1>1, <3>1, Zenon DEF Inv, ChambersOK, ChambersAreListed
  <2>3. RoomsLieApart
    <3>1. ASSUME NEW r \in rooms
          PROVE  /\ r.ch + ChamberBytes <= r.at /\ r.at + BorderBytes <= r.top - InRoomBytes
                 /\ r.top % r.align = 0 /\ r.tail < r.at + r.chopped
                 /\ r.at + r.chopped <= r.ch + offset[r.ch]
      <4>1. RoomOK(r)  BY <1>1 DEF Inv, RoomsOK
      <4>2. QED  BY <4>1 DEF RoomOK, ChamberBytes, BorderBytes, InRoomBytes
    <3>2. QED  BY <1>1, <3>1 DEF RoomsLieApart, Inv, RoomsOK
  <2>4. QED  BY <2>1, <2>2, <2>3 DEF RoomsAreApart
<1>2. QED  BY <1>1, InvHolds, PTL
-----------------------------------------------------------------------------
(* Searches and inspections: the inductive invariant.                      *)

\* The list leads from c to d, or beyond c to d.
Reaches(c, d) == \E i, j \in 1 .. Len(list) : i <= j /\ list[i] = c /\ list[j] = d
Beyond(c, d) == \E i, j \in 1 .. Len(list) : i < j /\ list[i] = c /\ list[j] = d

\* A walk has not yet passed the room.
Ahead(l, r) ==
  \/ l.pc = "begin" /\ Reaches(l.ch, r.ch)
  \/ l.pc \in {"end", "visit"} /\ ((r.ch = l.ch /\ l.cur <= r.at) \/ Beyond(l.ch, r.ch))
\* The rooms in use that an inspection has passed.
Passed(l) == {r \in l.used : r.top \notin freed /\ ~Ahead(l, r)}

Walking(l) == l.pc \in {"begin", "end", "visit"}
Answering(l) == l.pc \in {"found", "notFound", "counted"}

\* Every address that was returned has its room, and it is found from the list.
RoomsGiven ==
  /\ IsFiniteSet(rooms)
  /\ \A p \in given : \E r \in rooms : r.top = p
  /\ \A r \in rooms : r.top \in given /\ r.ch \in Listed

\* What a search looks for, if it is a room, and what an inspection has not
\* counted is ahead, and before the end of the chamber that the walk has read.
WalkOK(l) ==
  /\ Walking(l) \/ Answering(l) =>
       /\ l.ptr \in given \cup {Foreign, Null} /\ l.used \subseteq rooms
       /\ l.ptr = Null => l.count \in Nat /\ Cardinality(Passed(l)) <= l.count
  /\ Walking(l) /\ l.ptr # Null => \A r \in rooms : r.top = l.ptr => Ahead(l, r)
  /\ l.pc \in {"end", "visit"} => l.cur \in Nat /\ l.last \in Nat
  /\ l.pc = "visit" =>
       \A r \in rooms : (r.top = l.ptr \/ r \in l.used) /\ r.ch = l.ch => r.at < l.end
  /\ l.pc = "found" => l.ptr \in given
  /\ l.pc = "notFound" => l.ptr = Foreign
  /\ l.pc = "counted" => l.ptr = Null

WalkInv == Inv /\ RoomsGiven /\ \A t \in Threads : WalkOK(loc[t])
\* Rooms are not empty, no two have the same address, and none is at Foreign.
LEMMA RoomFacts ==
  ASSUME Inv, NEW r \in rooms
  PROVE  /\ r.top \in Nat /\ Foreign < r.top /\ r.top < r.tail
         /\ r.at \in Nat /\ r.chopped \in Nat /\ r.at < r.top /\ r.top < r.at + r.chopped
         /\ r.ch \in DOMAIN size /\ r.ch \in Nat /\ r.ch + 32 <= r.at
         /\ r.at + r.chopped <= r.ch + offset[r.ch]
<1>1. RoomOK(r)  BY DEF Inv, RoomsOK
<1>2. r.ch \in Nat  BY <1>1 DEF RoomOK, Inv, ChambersOK
<1>3. QED  BY <1>1, <1>2 DEF RoomOK, Foreign

LEMMA TopsDiffer ==
  ASSUME Inv, NEW r \in rooms, NEW s \in rooms, r.top = s.top
  PROVE  r = s
<1>1. r # s => r.at + r.chopped <= s.at \/ s.at + s.chopped <= r.at  BY DEF Inv, RoomsOK
<1>2. /\ r.at \in Nat /\ r.chopped \in Nat /\ r.top \in Nat /\ r.at < r.top /\ r.top < r.at + r.chopped
      /\ s.at \in Nat /\ s.chopped \in Nat /\ s.at < s.top /\ s.top < s.at + s.chopped
  BY RoomFacts
<1>3. QED  BY <1>1, <1>2

\* Rooms, addresses and the list only grow, and new rooms are at new addresses.
Grows ==
  /\ rooms \subseteq rooms' /\ given \subseteq given' /\ freed \subseteq freed'
  /\ \A r \in rooms' \ rooms : r.top \notin given \cup {Foreign, Null}
  /\ \A c, d : Reaches(c, d) => Reaches(c, d)'
  /\ \A c, d : Beyond(c, d) => Beyond(c, d)'

LEMMA PassedFinite ==
  ASSUME IsFiniteSet(rooms), NEW l, l.used \subseteq rooms, NEW S, S \subseteq Passed(l)
  PROVE  /\ IsFiniteSet(Passed(l)) /\ IsFiniteSet(S)
         /\ Cardinality(S) \in Nat /\ Cardinality(Passed(l)) \in Nat
         /\ Cardinality(S) <= Cardinality(Passed(l))
<1>1. Passed(l) \in SUBSET rooms  BY DEF Passed
<1>2. IsFiniteSet(Passed(l))  BY <1>1, FS_Subset
<1>3. IsFiniteSet(S) /\ Cardinality(S) <= Cardinality(Passed(l))  BY <1>2, FS_Subset
<1>4. QED  BY <1>2, <1>3, FS_CardinalityType

LEMMA WalkGrows ==
  ASSUME WalkInv, Grows, NEW u \in Threads, WalkOK(loc'[u])
  PROVE  WalkOK(loc[u])'
<1> DEFINE l == loc'[u]
<1>1. WalkOK(l) /\ RoomsGiven  BY DEF WalkInv
<1>2. \A r : Ahead(l, r) => Ahead(loc[u], r)'  BY DEF Grows, Ahead
<1>3. ASSUME l.used \subseteq rooms, l.ptr = Null, l.count \in Nat, Cardinality(Passed(l)) <= l.count
      PROVE  Cardinality(Passed(loc[u])') <= l.count
  <2>1. Passed(loc[u])' \subseteq Passed(l)  BY <1>2 DEF Passed, Grows
  <2>2. /\ Cardinality(Passed(loc[u])') \in Nat /\ Cardinality(Passed(l)) \in Nat
        /\ Cardinality(Passed(loc[u])') <= Cardinality(Passed(l))
    BY <1>1, <1>3, <2>1, PassedFinite DEF RoomsGiven
  <2>3. QED  BY <1>3, <2>2
<1>4. Walking(l) \/ Answering(l) =>
        /\ l.ptr \in given' \cup {Foreign, Null} /\ l.used \subseteq rooms'
        /\ l.ptr = Null => l.count \in Nat /\ Cardinality(Passed(loc[u])') <= l.count
  <2>1. Walking(l) \/ Answering(l) =>
          /\ l.ptr \in given \cup {Foreign, Null} /\ l.used \subseteq rooms
          /\ l.ptr = Null => l.count \in Nat /\ Cardinality(Passed(l)) <= l.count
    BY <1>1, Zenon DEF WalkOK
  <2>2. rooms \subseteq rooms' /\ given \subseteq given'  BY DEF Grows
  <2> HIDE DEF l
  <2>3. QED  BY <1>3, <2>1, <2>2, Zenon
<1>5. Walking(l) /\ l.ptr # Null => \A r \in rooms' : r.top = l.ptr => Ahead(loc[u], r)'
  <2>1. SUFFICES ASSUME Walking(l), l.ptr # Null, NEW r \in rooms', r.top = l.ptr
                 PROVE  Ahead(loc[u], r)'
    OBVIOUS
  <2>2. l.ptr \in given \cup {Foreign, Null}  BY <1>1, <2>1 DEF WalkOK
  <2>3. r \in rooms  BY <2>1, <2>2 DEF Grows
  <2>4. Ahead(l, r)  BY <1>1, <2>1, <2>3 DEF WalkOK
  <2>5. QED  BY <1>2, <2>4
<1>6. l.pc = "visit" => \A r \in rooms' : (r.top = l.ptr \/ r \in l.used) /\ r.ch = l.ch => r.at < l.end
  <2>1. SUFFICES ASSUME l.pc = "visit", NEW r \in rooms', r.top = l.ptr \/ r \in l.used, r.ch = l.ch
                 PROVE  r.at < l.end
    OBVIOUS
  <2>2. l.ptr \in given \cup {Foreign, Null} /\ l.used \subseteq rooms  BY <1>1, <2>1 DEF WalkOK, Walking
  <2>3. r \in rooms  BY <2>1, <2>2 DEF Grows
  <2>4. QED  BY <1>1, <2>1, <2>3 DEF WalkOK
<1>7. /\ l.pc \in {"end", "visit"} => l.cur \in Nat /\ l.last \in Nat
      /\ l.pc = "found" => l.ptr \in given'
      /\ l.pc = "notFound" => l.ptr = Foreign
      /\ l.pc = "counted" => l.ptr = Null
  BY <1>1 DEF WalkOK, Grows
<1>8. QED  BY <1>4, <1>5, <1>6, <1>7 DEF WalkOK, Walking, Answering
-----------------------------------------------------------------------------
(* Searches and inspections: what steps do.                                *)

\* Steps that change neither list nor rooms nor what has been returned.
LEMMA Stays ==
  ASSUME NEW t \in Threads, Step(t), ~Build(t), ~Deallocate(t), ~Push(t)
  PROVE  UNCHANGED <<list, rooms, given, freed>>
<1>1. CASE UNCHANGED <<sharedVars, given>>  BY <1>1 DEF sharedVars
<1>2. CASE UNCHANGED <<sharedVars, userVars>>  BY <1>2 DEF sharedVars, userVars
<1>3. CASE UNCHANGED <<list, rooms, freed, userVars>>  BY <1>3 DEF userVars
<1>4. CASE Allocate(t)  BY <1>2, <1>4, Zenon DEF Allocate
<1>5. CASE LoadHead(t)  BY <1>2, <1>5, Zenon DEF LoadHead
<1>6. CASE LoadOffset(t)  BY <1>2, <1>6, Zenon DEF LoadOffset
<1>7. CASE Chop(t)  BY <1>3, <1>7, Zenon DEF Chop
<1>8. CASE LoadHint(t)  BY <1>2, <1>8, Zenon DEF LoadHint
<1>9. CASE LoadSecond(t)  BY <1>2, <1>9, Zenon DEF LoadSecond
<1>10. CASE MoveHint(t)  BY <1>3, <1>10, Zenon DEF MoveHint
<1>11. CASE MapChamber(t)  BY <1>3, <1>11, Zenon DEF MapChamber
<1>12. CASE MapFails(t)  BY <1>2, <1>12, Zenon DEF MapFails
<1>13. CASE LoadToPush(t)  BY <1>2, <1>13, Zenon DEF LoadToPush
<1>14. CASE ReturnNull(t) \/ Skip(t)  BY <1>1, <1>14, Zenon DEF ReturnNull, Skip
<1>15. CASE Search(t)  BY <1>2, <1>15, Zenon DEF Search
<1>16. CASE Inspect(t)  BY <1>2, <1>16, Zenon DEF Inspect
<1>17. CASE Begin(t)  BY <1>1, <1>17, Zenon DEF Begin
<1>18. CASE End(t)  BY <1>2, <1>18, Zenon DEF End
<1>19. CASE Leave(t)  BY <1>2, <1>19, Zenon DEF Leave
<1>20. CASE Visit(t)  BY <1>1, <1>20, Zenon DEF Visit
<1>21. CASE VisitUnbuilt(t)  BY <1>2, <1>21, Zenon DEF VisitUnbuilt
<1>22. CASE Answered(t)  BY <1>2, <1>22, Zenon DEF Answered
<1>23. QED
  BY <1>4, <1>5, <1>6, <1>7, <1>8, <1>9, <1>10, <1>11, <1>12, <1>13, <1>14, <1>15, <1>16, <1>17, <1>18,
     <1>19, <1>20, <1>21, <1>22, Zenon DEF Step

\* A push leaves what is on the list in its order.
LEMMA PushShifts ==
  ASSUME Inv, NEW t \in Threads, Push(t)
  PROVE  /\ \A c, d : Reaches(c, d) => Reaches(c, d)'
         /\ \A c, d : Beyond(c, d) => Beyond(c, d)'
         /\ Listed \subseteq Listed'
<1>1. CASE HeadOf(list) # loc[t].seen
  <2>1. list' = list  BY <1>1 DEF Push
  <2>2. QED  BY <2>1 DEF Reaches, Beyond, Listed
<1>2. CASE HeadOf(list) = loc[t].seen
  <2>1. loc[t].ch \in Nat  BY DEF Inv, CallsOK, CallOK, ChambersOK, Push, At, Pushing
  <2>2. list' = <<loc[t].ch>> \o list /\ list \in Seq(Nat)  BY <1>2 DEF Push, Inv, ChambersOK
  <2>3. \A i \in 1 .. Len(list) : i + 1 \in 1 .. Len(list') /\ list'[i + 1] = list[i]
    <3>1. <<loc[t].ch>> \in Seq(Nat) /\ Len(<<loc[t].ch>>) = 1  BY <2>1
    <3>2. Len(list) \in Nat  BY <2>2
    <3>3. QED  BY <2>2, <3>1, <3>2
  <2>4. ASSUME NEW c, NEW d, NEW i \in 1 .. Len(list), NEW j \in 1 .. Len(list), list[i] = c, list[j] = d
        PROVE  (i <= j => Reaches(c, d)') /\ (i < j => Beyond(c, d)')
    <3>1. /\ i + 1 \in 1 .. Len(list') /\ list'[i + 1] = c
          /\ j + 1 \in 1 .. Len(list') /\ list'[j + 1] = d
      BY <2>3, <2>4
    <3>2. (i <= j => i + 1 <= j + 1) /\ (i < j => i + 1 < j + 1)  OBVIOUS
    <3>3. QED  BY <3>1, <3>2, Zenon DEF Reaches, Beyond
  <2>5. \A c, d : Reaches(c, d) => Reaches(c, d)'
    <3>1. SUFFICES ASSUME NEW c, NEW d, Reaches(c, d) PROVE Reaches(c, d)'  OBVIOUS
    <3>2. PICK i \in 1 .. Len(list), j \in 1 .. Len(list) : i <= j /\ list[i] = c /\ list[j] = d
      BY <3>1, Zenon DEF Reaches
    <3>3. QED  BY <2>4, <3>2
  <2>6. \A c, d : Beyond(c, d) => Beyond(c, d)'
    <3>1. SUFFICES ASSUME NEW c, NEW d, Beyond(c, d) PROVE Beyond(c, d)'  OBVIOUS
    <3>2. PICK i \in 1 .. Len(list), j \in 1 .. Len(list) : i < j /\ list[i] = c /\ list[j] = d
      BY <3>1, Zenon DEF Beyond
    <3>3. QED  BY <2>4, <3>2, Zenon
  <2>7. Listed \subseteq Listed'  BY <2>3, Zenon DEF Listed
  <2>8. QED  BY <2>5, <2>6, <2>7
<1>3. QED  BY <1>1, <1>2

\* A room is built at an address of its own.
LEMMA BuildAdds ==
  ASSUME WalkInv, NEW t \in Threads, Build(t)
  PROVE  Grows /\ RoomsGiven'
<1>1. Inv /\ RoomsGiven /\ CallOK(loc[t]) /\ loc[t].pc = "build" /\ Building(loc[t])
  BY DEF WalkInv, Inv, CallsOK, Build, At, Building
<1> DEFINE b == loc[t].ch + loc[t].off
           e == CutAt(loc[t])
           n == Adapted(loc[t].n)
           al == loc[t].align
           m == [ch |-> loc[t].ch, at |-> b, chopped |-> e - b, top |-> TopOf(b, al), tail |-> TailOf(b, n, al),
                 align |-> al]
<1>2. rooms' = rooms \cup {m} /\ given' = given \cup {m.top} /\ UNCHANGED <<list, freed>>
  BY DEF Build, RoomEnd, CutAt
<1>3. /\ loc[t].ch \in Nat /\ loc[t].off \in Nat /\ 32 <= loc[t].off /\ e \in Nat
      /\ TopOf(b, al) \in Nat /\ b + 40 <= TopOf(b, al) /\ TopOf(b, al) < TailOf(b, n, al)
      /\ TailOf(b, n, al) \in Nat /\ TailOf(b, n, al) < e /\ loc[t].ch \in Listed
  <2>1. loc[t].ch \in Listed  BY <1>1 DEF CallOK
  <2>2. QED  BY <1>1, <2>1, Cut
<1>4. m.ch = loc[t].ch /\ m.top = TopOf(b, al)  OBVIOUS
<1>5. b \in Nat  BY <1>3
<1>6. \A r \in rooms : r.at + r.chopped <= b \/ e <= r.at  BY <1>1 DEF Inv, RoomsOK
<1> HIDE DEF m, b, e, n, al
<1>7. m.top \in Nat /\ b < m.top /\ m.top < e  BY <1>3, <1>4, <1>5
<1>8. ASSUME NEW r \in rooms PROVE r.top # m.top
  <2>1. r.at \in Nat /\ r.chopped \in Nat /\ r.top \in Nat /\ r.at < r.top /\ r.top < r.at + r.chopped
    BY <1>1, RoomFacts
  <2>2. QED  BY <1>3, <1>5, <1>6, <1>7, <2>1
<1>9. m.top \notin given  BY <1>1, <1>8 DEF RoomsGiven
<1>10. m.top # Foreign /\ m.top # Null  BY <1>3, <1>4, <1>5, <1>7, ChamberAssumption DEF Foreign
<1>11. Listed' = Listed  BY <1>2 DEF Listed
<1>12. \A c, d : (Reaches(c, d) => Reaches(c, d)') /\ (Beyond(c, d) => Beyond(c, d)')
  BY <1>2 DEF Reaches, Beyond
<1>13. Grows  BY <1>2, <1>9, <1>10, <1>12 DEF Grows
<1>14. IsFiniteSet(rooms')  BY <1>1, <1>2, FS_AddElement DEF RoomsGiven
<1>15. QED
  <2>1. \A p \in given' : \E r \in rooms' : r.top = p  BY <1>1, <1>2, Zenon DEF RoomsGiven
  <2>2. \A r \in rooms' : r.top \in given' /\ r.ch \in Listed'
    BY <1>1, <1>2, <1>3, <1>4, <1>11 DEF RoomsGiven
  <2>3. QED  BY <1>13, <1>14, <2>1, <2>2 DEF RoomsGiven

LEMMA StepGrows ==
  ASSUME WalkInv, NEW t \in Threads, Step(t)
  PROVE  Grows /\ RoomsGiven'
<1>1. Inv /\ RoomsGiven  BY DEF WalkInv
<1>2. CASE Build(t)  BY <1>2, BuildAdds
<1>3. CASE Push(t)
  <2>1. UNCHANGED <<rooms, given, freed>>  BY <1>3 DEF Push, userVars
  <2>2. Grows  BY <1>1, <1>3, <2>1, PushShifts, Zenon DEF Grows
  <2>3. RoomsGiven'
    <3>1. IsFiniteSet(rooms')  BY <1>1, <2>1, Zenon DEF RoomsGiven
    <3>2. \A p \in given' : \E r \in rooms' : r.top = p  BY <1>1, <2>1, Zenon DEF RoomsGiven
    <3>3. \A r \in rooms' : r.top \in given' /\ r.ch \in Listed'
      BY <1>1, <1>3, <2>1, PushShifts, Zenon DEF RoomsGiven
    <3>4. QED  BY <3>1, <3>2, <3>3, Zenon DEF RoomsGiven
  <2>4. QED  BY <2>2, <2>3
<1>4. CASE UNCHANGED <<list, rooms, given>> /\ freed \subseteq freed'
  <2>1. list' = list /\ rooms' = rooms /\ given' = given  BY <1>4
  <2>2. Listed' = Listed  BY <2>1 DEF Listed
  <2>3. \A c, d : (Reaches(c, d) => Reaches(c, d)') /\ (Beyond(c, d) => Beyond(c, d)')
    BY <2>1 DEF Reaches, Beyond
  <2>4. Grows  BY <1>4, <2>1, <2>3, Zenon DEF Grows
  <2>5. RoomsGiven'  BY <1>1, <2>1, <2>2, Zenon DEF RoomsGiven
  <2>6. QED  BY <2>4, <2>5
<1>5. CASE Deallocate(t)
  <2>1. UNCHANGED <<list, rooms, given>> /\ freed' = freed \cup {Head(held)}  BY <1>5 DEF Deallocate
  <2>2. QED  BY <1>4, <2>1
<1>6. CASE ~Build(t) /\ ~Deallocate(t) /\ ~Push(t)
  <2>1. UNCHANGED <<list, rooms, given, freed>>  BY <1>6, Stays
  <2>2. QED  BY <1>4, <2>1
<1>7. QED  BY <1>2, <1>3, <1>5, <1>6

\* Who does not walk has nothing to answer.
LEMMA NoWalk ==
  ASSUME NEW l, l.pc \notin {"begin", "end", "visit", "found", "notFound", "counted"}
  PROVE  WalkOK(l)
  BY DEF WalkOK, Walking, Answering

\* Every room is reached from the head of the list.
LEMMA FromTheHead ==
  ASSUME Inv, RoomsGiven, NEW r \in rooms
  PROVE  Reaches(HeadOf(list), r.ch)
<1>1. PICK j \in 1 .. Len(list) : list[j] = r.ch  BY DEF RoomsGiven, Listed
<1>2. list \in Seq(Nat)  BY DEF Inv, ChambersOK
<1>3. 1 \in 1 .. Len(list) /\ 1 <= j /\ list[1] = HeadOf(list)  BY <1>1, <1>2 DEF HeadOf
<1>4. QED  BY <1>1, <1>3 DEF Reaches

LEMMA SearchBegins ==
  ASSUME WalkInv, NEW t \in Threads, Search(t)
  PROVE  WalkOK(loc'[t])
<1>1. Inv /\ RoomsGiven /\ DOMAIN loc = Threads  BY DEF WalkInv, Inv, CallsOK
<1>2. PICK p \in given \cup {Foreign} :
        loc' = [loc EXCEPT ![t] = [Idle EXCEPT !.pc = "begin", !.ch = HeadOf(list), !.ptr = p]]
  BY Zenon DEF Search
<1>3. loc'[t].pc = "begin" /\ loc'[t].ch = HeadOf(list) /\ loc'[t].ptr = p /\ loc'[t].used = {}
  BY <1>1, <1>2 DEF Idle
<1>4. p # Null  BY <1>1, ChamberAssumption DEF Inv, HistoryOK, Foreign
<1>5. \A r \in rooms : Ahead(loc'[t], r)  BY <1>1, <1>3, FromTheHead DEF Ahead
<1>6. QED  BY <1>2, <1>3, <1>4, <1>5 DEF WalkOK, Walking, Answering

LEMMA InspectBegins ==
  ASSUME WalkInv, NEW t \in Threads, Inspect(t)
  PROVE  WalkOK(loc'[t])
<1>1. Inv /\ RoomsGiven /\ DOMAIN loc = Threads  BY DEF WalkInv, Inv, CallsOK
<1>2. /\ loc'[t].pc = "begin" /\ loc'[t].ch = HeadOf(list) /\ loc'[t].ptr = Null /\ loc'[t].used = InUse
      /\ loc'[t].count = 0
  BY <1>1 DEF Inspect, Idle
<1>3. InUse \subseteq rooms  BY DEF InUse
<1>4. \A r \in rooms : Ahead(loc'[t], r)  BY <1>1, <1>2, FromTheHead DEF Ahead
<1>5. Passed(loc'[t]) = {}  BY <1>2, <1>3, <1>4 DEF Passed
<1>6. Cardinality(Passed(loc'[t])) = 0  BY <1>5, FS_EmptySet, Zenon
<1>7. QED  BY <1>2, <1>3, <1>6 DEF WalkOK, Walking, Answering
\* A walk goes on, or ends, with all it looks for and has not passed ahead.
LEMMA WalksOn ==
  ASSUME WalkInv, NEW t \in Threads, Walking(loc[t]), Walking(loc'[t]) \/ Answering(loc'[t]),
         loc'[t].ptr = loc[t].ptr, loc'[t].used = loc[t].used, loc'[t].count = loc[t].count,
         \A r \in rooms : (r.top = loc[t].ptr \/ r \in loc[t].used) /\ Ahead(loc[t], r) => Ahead(loc'[t], r)
  PROVE  /\ Walking(loc'[t]) \/ Answering(loc'[t]) =>
              /\ loc'[t].ptr \in given \cup {Foreign, Null} /\ loc'[t].used \subseteq rooms
              /\ loc'[t].ptr = Null => loc'[t].count \in Nat /\ Cardinality(Passed(loc'[t])) <= loc'[t].count
         /\ Walking(loc'[t]) /\ loc'[t].ptr # Null => \A r \in rooms : r.top = loc'[t].ptr => Ahead(loc'[t], r)
<1>1. WalkOK(loc[t]) /\ RoomsGiven  BY DEF WalkInv
<1>2. /\ loc[t].ptr \in given \cup {Foreign, Null} /\ loc[t].used \subseteq rooms
      /\ loc[t].ptr = Null => loc[t].count \in Nat /\ Cardinality(Passed(loc[t])) <= loc[t].count
      /\ loc[t].ptr # Null => \A r \in rooms : r.top = loc[t].ptr => Ahead(loc[t], r)
  BY <1>1, Zenon DEF WalkOK
<1>3. Passed(loc'[t]) \subseteq Passed(loc[t])  BY <1>2 DEF Passed
<1>4. /\ Cardinality(Passed(loc'[t])) \in Nat /\ Cardinality(Passed(loc[t])) \in Nat
      /\ Cardinality(Passed(loc'[t])) <= Cardinality(Passed(loc[t]))
  BY <1>1, <1>2, <1>3, PassedFinite DEF RoomsGiven
<1>5. loc[t].ptr = Null => Cardinality(Passed(loc'[t])) <= loc[t].count  BY <1>2, <1>4
<1>6. loc[t].ptr # Null => \A r \in rooms : r.top = loc[t].ptr => Ahead(loc'[t], r)  BY <1>2
<1>7. QED  BY <1>2, <1>5, <1>6, Zenon

\* Nothing is ahead of a walk that has come to the end of the list.
LEMMA NothingAhead ==
  ASSUME Inv, NEW d
  PROVE  ~Reaches(Null, d)
<1>1. \A i \in 1 .. Len(list) : list[i] \in Nat  BY DEF Inv, ChambersOK
<1>2. QED  BY <1>1, ChamberAssumption DEF Reaches

LEMMA BeginWalks ==
  ASSUME WalkInv, NEW t \in Threads, Begin(t)
  PROVE  WalkOK(loc'[t])
<1>1. /\ Inv /\ RoomsGiven /\ WalkOK(loc[t]) /\ CallOK(loc[t]) /\ DOMAIN loc = Threads
      /\ loc[t].pc = "begin" /\ Walking(loc[t])
  BY DEF WalkInv, Inv, CallsOK, Begin, At, Walking
<1>2. CASE loc[t].ch = Null
  <2>1. PICK how \in {"counted", "notFound"} :
          Return(t, how) /\ how = IF loc[t].ptr = Null THEN "counted" ELSE "notFound"
    BY <1>2 DEF Begin
  <2>2. /\ loc'[t].pc = how /\ loc'[t].ptr = loc[t].ptr /\ loc'[t].count = loc[t].count
        /\ loc'[t].used = loc[t].used
    BY <1>1, <2>1 DEF Return, Idle
  <2>3. Answering(loc'[t]) /\ ~Walking(loc'[t])  BY <2>2 DEF Answering, Walking
  <2>4. \A r \in rooms : ~Ahead(loc[t], r)  BY <1>1, <1>2, NothingAhead DEF Ahead
  <2>5. how = "notFound" => loc[t].ptr = Foreign
    <3>1. SUFFICES ASSUME how = "notFound", loc[t].ptr # Foreign PROVE FALSE  OBVIOUS
    <3>2. loc[t].ptr # Null  BY <2>1, <3>1
    <3>3. loc[t].ptr \in given \cup {Foreign, Null}  BY <1>1, Zenon DEF WalkOK
    <3>4. PICK r \in rooms : r.top = loc[t].ptr  BY <1>1, <3>1, <3>2, <3>3 DEF RoomsGiven
    <3>5. Ahead(loc[t], r)  BY <1>1, <3>2, <3>4, Zenon DEF WalkOK
    <3>6. QED  BY <2>4, <3>5
  <2>6. how = "counted" => loc[t].ptr = Null  BY <2>1
  <2>7. /\ Walking(loc'[t]) \/ Answering(loc'[t]) =>
              /\ loc'[t].ptr \in given \cup {Foreign, Null} /\ loc'[t].used \subseteq rooms
              /\ loc'[t].ptr = Null => loc'[t].count \in Nat /\ Cardinality(Passed(loc'[t])) <= loc'[t].count
        /\ Walking(loc'[t]) /\ loc'[t].ptr # Null => \A r \in rooms : r.top = loc'[t].ptr => Ahead(loc'[t], r)
    BY <1>1, <2>2, <2>3, <2>4, WalksOn
  <2>8. loc'[t].pc \notin {"end", "visit", "found"}  BY <2>2
  <2>9. QED  BY <2>2, <2>5, <2>6, <2>7, <2>8, Zenon DEF WalkOK
<1>3. CASE loc[t].ch # Null
  <2>1. /\ loc'[t].pc = "end" /\ loc'[t].ptr = loc[t].ptr /\ loc'[t].count = loc[t].count
        /\ loc'[t].used = loc[t].used /\ loc'[t].ch = loc[t].ch
        /\ loc'[t].cur = loc[t].ch + InitOffset /\ loc'[t].last = loc[t].ch + offset[loc[t].ch]
    BY <1>1, <1>3, Fields DEF Begin, CallOK
  <2>2. loc[t].ch \in Listed /\ loc[t].ch \in Nat /\ offset[loc[t].ch] \in Nat
    BY <1>1, <1>3 DEF CallOK, Inv, ChambersOK
  <2>3. loc'[t].cur = loc[t].ch + 32 /\ loc'[t].cur \in Nat /\ loc'[t].last \in Nat
    BY <2>1, <2>2, InitOffsetIs
  <2>4. ASSUME NEW r \in rooms, Ahead(loc[t], r)
        PROVE  Ahead(loc'[t], r)
    <3>1. PICK i \in 1 .. Len(list), j \in 1 .. Len(list) : i <= j /\ list[i] = loc[t].ch /\ list[j] = r.ch
      BY <1>1, <2>4, Zenon DEF Ahead, Reaches
    <3>2. CASE i = j  BY <1>1, <2>1, <2>3, <3>1, <3>2, RoomFacts DEF Ahead
    <3>3. CASE i # j
      <4>1. i < j  BY <3>1, <3>3
      <4>2. QED  BY <2>1, <3>1, <4>1, Zenon DEF Ahead, Beyond
    <3>4. QED  BY <3>2, <3>3
  <2>5. Walking(loc'[t])  BY <2>1 DEF Walking
  <2>6. /\ Walking(loc'[t]) \/ Answering(loc'[t]) =>
              /\ loc'[t].ptr \in given \cup {Foreign, Null} /\ loc'[t].used \subseteq rooms
              /\ loc'[t].ptr = Null => loc'[t].count \in Nat /\ Cardinality(Passed(loc'[t])) <= loc'[t].count
        /\ Walking(loc'[t]) /\ loc'[t].ptr # Null => \A r \in rooms : r.top = loc'[t].ptr => Ahead(loc'[t], r)
    BY <1>1, <2>1, <2>4, <2>5, WalksOn
  <2>7. loc'[t].pc \notin {"visit", "found", "notFound", "counted"}  BY <2>1
  <2>8. QED  BY <2>3, <2>6, <2>7, Zenon DEF WalkOK
<1>4. QED  BY <1>2, <1>3

LEMMA EndWalks ==
  ASSUME WalkInv, NEW t \in Threads, End(t)
  PROVE  WalkOK(loc'[t])
<1>1. /\ Inv /\ RoomsGiven /\ WalkOK(loc[t]) /\ CallOK(loc[t]) /\ DOMAIN loc = Threads
      /\ loc[t].pc = "end" /\ Walking(loc[t])
  BY DEF WalkInv, Inv, CallsOK, End, At, Walking
<1>2. /\ loc'[t].pc = "visit" /\ loc'[t].ptr = loc[t].ptr /\ loc'[t].count = loc[t].count
      /\ loc'[t].used = loc[t].used /\ loc'[t].ch = loc[t].ch
      /\ loc'[t].cur = loc[t].cur /\ loc'[t].last = loc[t].last
      /\ loc'[t].end = loc[t].ch + offset[loc[t].ch]
  BY <1>1, Fields DEF End, CallOK
<1>3. \A r \in rooms : Ahead(loc[t], r) => Ahead(loc'[t], r)  BY <1>1, <1>2 DEF Ahead
<1>4. ASSUME NEW r \in rooms, r.ch = loc'[t].ch PROVE r.at < loc'[t].end
  <2>1. /\ r.at \in Nat /\ r.chopped \in Nat /\ r.top \in Nat /\ r.at < r.top /\ r.top < r.at + r.chopped
        /\ r.at + r.chopped <= r.ch + offset[r.ch]
    BY <1>1, RoomFacts
  <2>2. loc[t].ch \in Nat /\ offset[loc[t].ch] \in Nat  BY <1>1 DEF CallOK, Inv, ChambersOK
  <2>3. loc'[t].end = r.ch + offset[r.ch] /\ r.ch \in Nat /\ offset[r.ch] \in Nat  BY <1>2, <1>4, <2>2
  <2>4. QED  BY <2>1, <2>3
<1>5. Walking(loc'[t])  BY <1>2 DEF Walking
<1>6. /\ Walking(loc'[t]) \/ Answering(loc'[t]) =>
            /\ loc'[t].ptr \in given \cup {Foreign, Null} /\ loc'[t].used \subseteq rooms
            /\ loc'[t].ptr = Null => loc'[t].count \in Nat /\ Cardinality(Passed(loc'[t])) <= loc'[t].count
      /\ Walking(loc'[t]) /\ loc'[t].ptr # Null => \A r \in rooms : r.top = loc'[t].ptr => Ahead(loc'[t], r)
  BY <1>1, <1>2, <1>3, <1>5, WalksOn
<1>7. loc'[t].cur \in Nat /\ loc'[t].last \in Nat  BY <1>1, <1>2 DEF WalkOK
<1>8. loc'[t].pc \notin {"found", "notFound", "counted"}  BY <1>2
<1>9. QED  BY <1>4, <1>6, <1>7, <1>8, Zenon DEF WalkOK

\* The chamber behind c is the next one that anything beyond c is reached from.
LEMMA NextReaches ==
  ASSUME Inv, NEW c, NEW d, Beyond(c, d)
  PROVE  Reaches(NextOf(c), d)
<1>1. PICK i \in 1 .. Len(list), j \in 1 .. Len(list) : i < j /\ list[i] = c /\ list[j] = d
  BY Zenon DEF Beyond
<1> DEFINE k == CHOOSE k \in 1 .. Len(list) : list[k] = c
<1>2. k \in 1 .. Len(list) /\ list[k] = c  BY <1>1
<1>3. NextOf(c) = IF k < Len(list) THEN list[k + 1] ELSE Null  BY DEF NextOf
<1> HIDE DEF k
<1>4. \A a \in 1 .. Len(list), b \in 1 .. Len(list) : list[a] = list[b] => a = b  BY Zenon DEF Inv, ChambersOK
<1>5. k = i  BY <1>1, <1>2, <1>4
<1>6. Len(list) \in Nat  BY DEF Inv, ChambersOK
<1>7. i < Len(list) /\ i + 1 \in 1 .. Len(list) /\ i + 1 <= j  BY <1>1, <1>6
<1>8. NextOf(c) = list[i + 1]  BY <1>3, <1>5, <1>7
<1>9. QED  BY <1>1, <1>7, <1>8, Zenon DEF Reaches

LEMMA LeaveWalks ==
  ASSUME WalkInv, NEW t \in Threads, Leave(t)
  PROVE  WalkOK(loc'[t])
<1>1. /\ Inv /\ RoomsGiven /\ WalkOK(loc[t]) /\ CallOK(loc[t]) /\ DOMAIN loc = Threads
      /\ loc[t].pc = "visit" /\ Walking(loc[t]) /\ loc[t].cur = loc[t].end
  BY DEF WalkInv, Inv, CallsOK, Leave, At, Walking
<1>2. /\ loc'[t].pc = "begin" /\ loc'[t].ptr = loc[t].ptr /\ loc'[t].count = loc[t].count
      /\ loc'[t].used = loc[t].used /\ loc'[t].ch = NextOf(loc[t].ch)
  BY <1>1, Fields DEF Leave, CallOK
<1>3. ASSUME NEW r \in rooms, r.top = loc[t].ptr \/ r \in loc[t].used, Ahead(loc[t], r)
      PROVE  Ahead(loc'[t], r)
  <2>1. r.ch = loc[t].ch => r.at < loc[t].cur  BY <1>1, <1>3 DEF WalkOK
  <2>2. loc[t].cur \in Nat /\ r.at \in Nat  BY <1>1, RoomFacts DEF WalkOK
  <2>3. Beyond(loc[t].ch, r.ch)  BY <1>1, <1>3, <2>1, <2>2 DEF Ahead
  <2>4. QED  BY <1>1, <1>2, <2>3, NextReaches DEF Ahead
<1>4. Walking(loc'[t])  BY <1>2 DEF Walking
<1>5. /\ Walking(loc'[t]) \/ Answering(loc'[t]) =>
            /\ loc'[t].ptr \in given \cup {Foreign, Null} /\ loc'[t].used \subseteq rooms
            /\ loc'[t].ptr = Null => loc'[t].count \in Nat /\ Cardinality(Passed(loc'[t])) <= loc'[t].count
      /\ Walking(loc'[t]) /\ loc'[t].ptr # Null => \A r \in rooms : r.top = loc'[t].ptr => Ahead(loc'[t], r)
  BY <1>1, <1>2, <1>3, <1>4, WalksOn
<1>6. loc'[t].pc \notin {"end", "visit", "found", "notFound", "counted"}  BY <1>2
<1>7. QED  BY <1>5, <1>6, Zenon DEF WalkOK

\* A step past a room leaves every other room ahead that was.
LEMMA OnlyOnePassed ==
  ASSUME Inv, NEW q \in rooms, NEW r \in rooms, r # q, NEW to \in Nat, to <= q.at + q.chopped, q.at <= r.at
  PROVE  to <= r.at
<1>1. r.at + r.chopped <= q.at \/ q.at + q.chopped <= r.at  BY DEF Inv, RoomsOK
<1>2. /\ r.at \in Nat /\ r.chopped \in Nat /\ r.top \in Nat /\ r.at < r.top /\ r.top < r.at + r.chopped
      /\ q.at \in Nat /\ q.chopped \in Nat
  BY RoomFacts
<1>3. QED  BY <1>1, <1>2

LEMMA VisitFinds ==
  ASSUME WalkInv, NEW t \in Threads, NEW q \in rooms, loc[t].pc = "visit",
         loc[t].ptr # Null, q.top <= loc[t].ptr, Return(t, "found")
  PROVE  WalkOK(loc'[t])
<1>1. /\ Inv /\ WalkOK(loc[t]) /\ DOMAIN loc = Threads
  BY DEF WalkInv, Inv, CallsOK
<1>2. loc'[t].pc = "found" /\ loc'[t].ptr = loc[t].ptr /\ loc'[t].used = loc[t].used
  BY <1>1 DEF Return, Idle
<1>3. loc[t].ptr \in given \cup {Foreign, Null} /\ loc[t].used \subseteq rooms  BY <1>1, Zenon DEF WalkOK, Walking
<1>4. q.top \in Nat /\ Foreign < q.top  BY <1>1, RoomFacts
<1>5. loc[t].ptr \in given  BY <1>3, <1>4 DEF Foreign
<1>6. loc'[t].ptr # Null  BY <1>2
<1>7. ~Walking(loc'[t]) /\ loc'[t].pc \notin {"end", "visit", "notFound", "counted"}  BY <1>2 DEF Walking
<1>8. QED  BY <1>2, <1>3, <1>5, <1>6, <1>7, Zenon DEF WalkOK

\* What comes into question for a walk that passes a room, or its count.
LEMMA VisitPasses ==
  ASSUME WalkInv, NEW t \in Threads, NEW q \in rooms, loc[t].pc = "visit", q.at = loc[t].cur,
         ~(loc[t].ptr # Null /\ q.top <= loc[t].ptr /\ loc[t].ptr < q.tail),
         loc' = [loc EXCEPT ![t].cur = Onward(t, q.chopped),
                            ![t].count = IF loc[t].ptr # Null \/ q.top \in freed THEN @ ELSE @ + 1]
  PROVE  WalkOK(loc'[t])
<1>1. Inv /\ RoomsGiven /\ WalkOK(loc[t]) /\ CallOK(loc[t]) /\ DOMAIN loc = Threads
  BY DEF WalkInv, Inv, CallsOK
<1>2. /\ loc'[t].pc = "visit" /\ loc'[t].ptr = loc[t].ptr
      /\ loc'[t].count = IF loc[t].ptr # Null \/ q.top \in freed THEN loc[t].count ELSE loc[t].count + 1
      /\ loc'[t].used = loc[t].used /\ loc'[t].ch = loc[t].ch
      /\ loc'[t].cur = Onward(t, q.chopped) /\ loc'[t].last = loc[t].last /\ loc'[t].end = loc[t].end
  BY <1>1, Fields DEF CallOK
<1>3. Walking(loc[t]) /\ Walking(loc'[t])  BY <1>2 DEF Walking
<1>4. /\ q.at \in Nat /\ q.chopped \in Nat /\ q.top \in Nat /\ q.top < q.tail  BY <1>1, RoomFacts
<1>5. PICK to \in Nat : to = loc'[t].cur /\ to <= q.at + q.chopped
  <2>1. loc[t].cur \in Nat /\ loc[t].last \in Nat  BY <1>1 DEF WalkOK
  <2>2. QED  BY <1>2, <1>4, <2>1 DEF Onward
<1>6. ASSUME NEW r \in rooms, r # q, Ahead(loc[t], r)
      PROVE  Ahead(loc'[t], r)
  <2>1. CASE Beyond(loc[t].ch, r.ch)  BY <1>2, <2>1 DEF Ahead
  <2>2. CASE r.ch = loc[t].ch /\ loc[t].cur <= r.at
    <3>1. to <= r.at  BY <1>1, <1>5, <1>6, <2>2, OnlyOnePassed
    <3>2. QED  BY <1>2, <1>5, <2>2, <3>1 DEF Ahead
  <2>3. QED  BY <1>6, <2>1, <2>2 DEF Ahead
<1>7. /\ loc[t].ptr \in given \cup {Foreign, Null} /\ loc[t].used \subseteq rooms
      /\ loc[t].ptr = Null => loc[t].count \in Nat /\ Cardinality(Passed(loc[t])) <= loc[t].count
      /\ loc[t].ptr # Null => \A r \in rooms : r.top = loc[t].ptr => Ahead(loc[t], r)
  BY <1>1, <1>3, Zenon DEF WalkOK
\* An inspection counts the room if it is in use.
<1>8. loc'[t].ptr = Null => loc'[t].count \in Nat /\ Cardinality(Passed(loc'[t])) <= loc'[t].count
  <2>1. SUFFICES ASSUME loc[t].ptr = Null
                 PROVE  loc'[t].count \in Nat /\ Cardinality(Passed(loc'[t])) <= loc'[t].count
    BY <1>2
  <2>2. loc[t].count \in Nat /\ Cardinality(Passed(loc[t])) <= loc[t].count  BY <1>7, <2>1
  <2>3. ASSUME NEW r \in Passed(loc'[t]), r # q
        PROVE  r \in Passed(loc[t])
    <3>1. r \in loc[t].used /\ r.top \notin freed /\ ~Ahead(loc'[t], r)  BY <1>2, Zenon DEF Passed
    <3>2. r \in rooms  BY <1>7, <3>1, Zenon
    <3>3. ~Ahead(loc[t], r)  BY <1>6, <2>3, <3>1, <3>2, Zenon
    <3>4. QED  BY <3>1, <3>3, Zenon DEF Passed
  <2>4. CASE q.top \in freed
    <3>1. Passed(loc'[t]) \subseteq Passed(loc[t])
      <4>1. q \notin Passed(loc'[t])  BY <2>4, Zenon DEF Passed
      <4>2. QED  BY <2>3, <4>1, Zenon
    <3>2. /\ Cardinality(Passed(loc'[t])) \in Nat /\ Cardinality(Passed(loc[t])) \in Nat
          /\ Cardinality(Passed(loc'[t])) <= Cardinality(Passed(loc[t]))
      BY <1>1, <1>7, <3>1, PassedFinite DEF RoomsGiven
    <3>3. QED  BY <1>2, <2>1, <2>2, <2>4, <3>2
  <2>5. CASE q.top \notin freed
    <3>1. Passed(loc'[t]) \subseteq Passed(loc[t]) \cup {q}  BY <2>3, Zenon
    <3>2. IsFiniteSet(Passed(loc[t])) /\ Cardinality(Passed(loc[t])) \in Nat
      BY <1>1, <1>7, PassedFinite DEF RoomsGiven
    <3>3. /\ IsFiniteSet(Passed(loc[t]) \cup {q})
          /\ Cardinality(Passed(loc[t]) \cup {q}) =
               IF q \in Passed(loc[t]) THEN Cardinality(Passed(loc[t])) ELSE Cardinality(Passed(loc[t])) + 1
      BY <3>2, FS_AddElement
    <3>4. /\ IsFiniteSet(Passed(loc'[t]))
          /\ Cardinality(Passed(loc'[t])) <= Cardinality(Passed(loc[t]) \cup {q})
      <4>1. Passed(loc'[t]) \in SUBSET (Passed(loc[t]) \cup {q})  BY <3>1, Zenon
      <4>2. QED  BY <3>3, <4>1, FS_Subset, Zenon
    <3>5. Cardinality(Passed(loc'[t])) \in Nat  BY <3>4, FS_CardinalityType
    <3>6. QED  BY <1>2, <2>1, <2>2, <2>5, <3>2, <3>3, <3>4, <3>5
  <2>6. QED  BY <2>4, <2>5
\* A search passes no room with its address.
<1>9. loc'[t].ptr # Null => \A r \in rooms : r.top = loc'[t].ptr => Ahead(loc'[t], r)
  <2>1. SUFFICES ASSUME loc[t].ptr # Null, NEW r \in rooms, r.top = loc[t].ptr PROVE Ahead(loc'[t], r)
    BY <1>2, Zenon
  <2>2. Ahead(loc[t], r)  BY <1>7, <2>1
  <2>3. r # q  BY <1>4, <2>1
  <2>4. QED  BY <1>6, <2>2, <2>3, Zenon
<1>10. \A r \in rooms : (r.top = loc'[t].ptr \/ r \in loc'[t].used) /\ r.ch = loc'[t].ch => r.at < loc'[t].end
  BY <1>1, <1>2 DEF WalkOK
<1>11. loc'[t].cur \in Nat /\ loc'[t].last \in Nat  BY <1>1, <1>2, <1>5 DEF WalkOK
<1>12. loc'[t].pc \notin {"found", "notFound", "counted"}  BY <1>2
<1>13. QED  BY <1>2, <1>7, <1>8, <1>9, <1>10, <1>11, <1>12, Zenon DEF WalkOK
LEMMA VisitWalks ==
  ASSUME WalkInv, NEW t \in Threads, Visit(t)
  PROVE  WalkOK(loc'[t])
<1>1. loc[t].pc = "visit"  BY Zenon DEF Visit, At
<1>2. PICK q \in rooms :
        /\ q.at = loc[t].cur
        /\ IF loc[t].ptr # Null /\ q.top <= loc[t].ptr /\ loc[t].ptr < q.tail
           THEN Return(t, "found")
           ELSE loc' = [loc EXCEPT ![t].cur = Onward(t, q.chopped),
                                   ![t].count = IF loc[t].ptr # Null \/ q.top \in freed THEN @ ELSE @ + 1]
  BY Zenon DEF Visit
<1>3. CASE loc[t].ptr # Null /\ q.top <= loc[t].ptr /\ loc[t].ptr < q.tail
  <2>1. Return(t, "found")  BY <1>2, <1>3, Zenon
  <2>2. QED  BY <1>1, <1>3, <2>1, VisitFinds, Zenon
<1>4. CASE ~(loc[t].ptr # Null /\ q.top <= loc[t].ptr /\ loc[t].ptr < q.tail)
  <2>1. loc' = [loc EXCEPT ![t].cur = Onward(t, q.chopped),
                           ![t].count = IF loc[t].ptr # Null \/ q.top \in freed THEN @ ELSE @ + 1]
    BY <1>2, <1>4, Zenon
  <2>2. QED  BY <1>1, <1>2, <1>4, <2>1, VisitPasses, Zenon
<1>5. QED  BY <1>3, <1>4, Zenon

\* Steps of calls that look for nothing.
Busy == {"idle", "tryHead", "offset", "chop", "build", "tryHint", "second", "moveHint", "map", "none", "link", "push",
         "crashed"}

LEMMA OthersStayBusy ==
  ASSUME Inv, NEW t \in Threads, Step(t),
         ~(Search(t) \/ Inspect(t) \/ Begin(t) \/ End(t) \/ Leave(t) \/ Visit(t))
  PROVE  loc'[t].pc \in Busy
<1>1. DOMAIN loc = Threads /\ DOMAIN loc[t] = DOMAIN Idle  BY DEF Inv, CallsOK, CallOK
<1>2. ASSUME NEW p, Goto(t, p) PROVE loc'[t].pc = p  BY <1>1, <1>2, Fields DEF Goto
<1>3. ASSUME NEW how \in {"idle"}, Return(t, how) PROVE loc'[t].pc \in Busy
  BY <1>1, <1>3 DEF Return, Idle, Busy
<1>4. TryFails(t) \in Busy  BY DEF TryFails, Busy
<1>5. ASSUME NEW off, TryAt(t, off) PROVE loc'[t].pc \in Busy
  BY <1>1, <1>5, Fields DEF TryAt, Busy
<1>6. CASE Allocate(t)  BY <1>1, <1>6 DEF Allocate, Idle, Busy
<1>7. CASE LoadHead(t)
  <2>1. loc'[t].pc = IF list = <<>> THEN TryFails(t) ELSE "offset"  BY <1>1, <1>7, Fields DEF LoadHead
  <2>2. QED  BY <1>4, <2>1 DEF Busy
<1>8. CASE LoadOffset(t)  BY <1>5, <1>8, Zenon DEF LoadOffset
<1>9. CASE Chop(t)
  <2>1. TryAt(t, offset[loc[t].ch]) \/ Goto(t, "build")  BY <1>9, Zenon DEF Chop
  <2>2. QED  BY <1>2, <1>5, <2>1 DEF Busy
<1>10. CASE Build(t) \/ ReturnNull(t) \/ Deallocate(t) \/ Skip(t)
  <2>1. Return(t, "idle")  BY <1>10, Zenon DEF Build, ReturnNull, Deallocate, Skip
  <2>2. QED  BY <1>3, <2>1
<1>11. CASE LoadHint(t)
  <2>1. loc'[t].pc = IF hint = Null THEN "second" ELSE "offset"  BY <1>1, <1>11, Fields DEF LoadHint
  <2>2. QED  BY <2>1 DEF Busy
<1>12. CASE LoadSecond(t)
  <2>1. PICK c : c = NextOf(Head(list))  OBVIOUS
  <2>2. loc'[t].pc = IF c = Null THEN TryFails(t) ELSE "offset"  BY <1>1, <1>12, <2>1, Fields DEF LoadSecond
  <2>3. QED  BY <1>4, <2>2 DEF Busy
<1>13. CASE MoveHint(t)
  <2>1. Goto(t, TryFails(t))  BY <1>13, Zenon DEF MoveHint
  <2>2. loc'[t].pc = TryFails(t)  BY <1>1, <2>1, Fields DEF Goto
  <2>3. QED  BY <1>4, <2>2
<1>14. CASE MapChamber(t)
  <2>1. PICK x : loc' = [loc EXCEPT ![t].ch = x, ![t].pc = "link"]  BY <1>14, Zenon DEF MapChamber
  <2>2. QED  BY <1>1, <2>1, Fields DEF Busy
<1>15. CASE MapFails(t)
  <2>1. Goto(t, "none")  BY <1>15, Zenon DEF MapFails
  <2>2. QED  BY <1>2, <2>1 DEF Busy
<1>16. CASE LoadToPush(t)  BY <1>1, <1>16, Fields DEF LoadToPush, Busy
<1>17. CASE Push(t)
  <2>1. CASE HeadOf(list) = loc[t].seen  BY <1>1, <1>17, <2>1, Fields DEF Push, Busy
  <2>2. CASE HeadOf(list) # loc[t].seen  BY <1>1, <1>17, <2>2, Fields DEF Push, At, Busy
  <2>3. QED  BY <2>1, <2>2
<1>18. CASE VisitUnbuilt(t)
  <2>1. Goto(t, "crashed")  BY <1>18, Zenon DEF VisitUnbuilt
  <2>2. QED  BY <1>2, <2>1 DEF Busy
<1>19. CASE Answered(t)  BY <1>1, <1>19 DEF Answered, Idle, Busy
<1>20. QED
  BY <1>6, <1>7, <1>8, <1>9, <1>10, <1>11, <1>12, <1>13, <1>14, <1>15, <1>16, <1>17, <1>18, <1>19, Zenon DEF Step

LEMMA StepWalks ==
  ASSUME WalkInv, NEW t \in Threads, Step(t)
  PROVE  WalkOK(loc'[t])
<1>1. CASE Search(t) \/ Inspect(t) \/ Begin(t) \/ End(t) \/ Leave(t) \/ Visit(t)
  BY <1>1, SearchBegins, InspectBegins, BeginWalks, EndWalks, LeaveWalks, VisitWalks
<1>2. CASE ~(Search(t) \/ Inspect(t) \/ Begin(t) \/ End(t) \/ Leave(t) \/ Visit(t))
  <2>1. loc'[t].pc \in Busy  BY <1>2, OthersStayBusy DEF WalkInv
  <2>2. loc'[t].pc \notin {"begin", "end", "visit", "found", "notFound", "counted"}  BY <2>1 DEF Busy
  <2>3. QED  BY <2>2, NoWalk
<1>3. QED  BY <1>1, <1>2

\* The other threads' calls are as they were.
LEMMA StepAlone ==
  ASSUME Inv, NEW t \in Threads, Step(t), NEW u \in Threads, u # t
  PROVE  loc'[u] = loc[u]
<1>1. DOMAIN loc = Threads  BY DEF Inv, CallsOK
<1>2. ASSUME NEW p, Goto(t, p) PROVE loc'[u] = loc[u]  BY <1>1, <1>2 DEF Goto
<1>3. ASSUME NEW how, Return(t, how) PROVE loc'[u] = loc[u]  BY <1>1, <1>3 DEF Return
<1>4. ASSUME NEW off, TryAt(t, off) PROVE loc'[u] = loc[u]  BY <1>1, <1>4 DEF TryAt
<1>5. CASE \E p : Goto(t, p)  BY <1>2, <1>5
<1>6. CASE \E how : Return(t, how)  BY <1>3, <1>6
<1>7. CASE \E off : TryAt(t, off)  BY <1>4, <1>7
<1>8. CASE MoveHint(t) \/ MapFails(t) \/ VisitUnbuilt(t)
  <2>1. \E p : Goto(t, p)  BY <1>8, Zenon DEF MoveHint, MapFails, VisitUnbuilt
  <2>2. QED  BY <1>5, <2>1
<1>9. CASE Build(t) \/ ReturnNull(t) \/ Deallocate(t) \/ Skip(t)
  <2>1. \E how : Return(t, how)  BY <1>9, Zenon DEF Build, ReturnNull, Deallocate, Skip
  <2>2. QED  BY <1>6, <2>1
<1>10. CASE LoadOffset(t) \/ Chop(t)
  <2>1. (\E off : TryAt(t, off)) \/ (\E p : Goto(t, p))  BY <1>10, Zenon DEF LoadOffset, Chop
  <2>2. QED  BY <1>5, <1>7, <2>1
<1>11. CASE Search(t) \/ Inspect(t)
  <2>1. Quiet(t)  BY <1>11, WalkBegins
  <2>2. QED  BY <2>1 DEF Quiet, Alone
<1>12. CASE Allocate(t)  BY <1>1, <1>12 DEF Allocate
<1>13. CASE LoadHead(t)  BY <1>1, <1>13 DEF LoadHead
<1>14. CASE LoadHint(t)  BY <1>1, <1>14 DEF LoadHint
<1>15. CASE LoadSecond(t)  BY <1>1, <1>15 DEF LoadSecond
<1>16. CASE MapChamber(t)
  <2>1. PICK x : loc' = [loc EXCEPT ![t].ch = x, ![t].pc = "link"]  BY <1>16, Zenon DEF MapChamber
  <2>2. QED  BY <1>1, <2>1
<1>17. CASE LoadToPush(t)  BY <1>1, <1>17 DEF LoadToPush
<1>18. CASE Push(t)  BY <1>1, <1>18 DEF Push
<1>19. CASE Begin(t)
  <2>1. Quiet(t)  BY <1>19, BeginIsQuiet
  <2>2. QED  BY <2>1 DEF Quiet, Alone
<1>20. CASE End(t)  BY <1>1, <1>20 DEF End
<1>21. CASE Leave(t)  BY <1>1, <1>21 DEF Leave
<1>22. CASE Visit(t)
  <2>1. Quiet(t)  BY <1>22, VisitIsQuiet
  <2>2. QED  BY <2>1 DEF Quiet, Alone
<1>23. CASE Answered(t)  BY <1>1, <1>23 DEF Answered
<1>24. QED
  BY <1>8, <1>9, <1>10, <1>11, <1>12, <1>13, <1>14, <1>15, <1>16, <1>17, <1>18, <1>19, <1>20, <1>21, <1>22, <1>23,
     Zenon DEF Step

LEMMA WalkInvHolds == Spec => []WalkInv
<1>1. Init => WalkInv
  <2> SUFFICES ASSUME Init PROVE WalkInv  OBVIOUS
  <2>1. Inv  BY InitHolds
  <2>2. RoomsGiven
    <3>1. rooms = {} /\ given = {}  BY DEF Init
    <3>2. IsFiniteSet(rooms)  BY <3>1, FS_EmptySet, Zenon
    <3>3. QED  BY <3>1, <3>2 DEF RoomsGiven
  <2>3. ASSUME NEW t \in Threads PROVE WalkOK(loc[t])
    <3>1. loc[t].pc = "idle"  BY DEF Init, Idle
    <3>2. QED  BY <3>1, NoWalk
  <2>4. QED  BY <2>1, <2>2, <2>3 DEF WalkInv
<1>2. WalkInv /\ Inv' /\ [Next]_vars => WalkInv'
  <2> SUFFICES ASSUME WalkInv, Inv', [Next]_vars PROVE WalkInv'  OBVIOUS
  <2>1. ASSUME NEW t \in Threads, Step(t) PROVE WalkInv'
    <3>1. Grows /\ RoomsGiven'  BY <2>1, StepGrows
    <3>2. ASSUME NEW u \in Threads PROVE WalkOK(loc'[u])
      <4>1. CASE u = t  BY <2>1, <4>1, StepWalks
      <4>2. CASE u # t
        <5>1. loc'[u] = loc[u]  BY <2>1, <4>2, StepAlone DEF WalkInv
        <5>2. QED  BY <5>1 DEF WalkInv
      <4>3. QED  BY <4>1, <4>2
    <3>3. ASSUME NEW u \in Threads PROVE WalkOK(loc[u])'  BY <3>1, <3>2, WalkGrows
    <3>4. QED  BY <3>1, <3>3 DEF WalkInv
  <2>2. CASE UNCHANGED vars
    <3>1. UNCHANGED <<list, hint, size, offset, rooms, freed, loc, given, held, script>>
      BY <2>2 DEF vars
    <3>2. Listed' = Listed  BY <3>1 DEF Listed
    <3>3. RoomsGiven'  BY <3>1, <3>2, Zenon DEF WalkInv, RoomsGiven
    <3>4. ASSUME NEW t \in Threads PROVE WalkOK(loc[t])'
      <4>1. \A c, d : (Reaches(c, d) => Reaches(c, d)') /\ (Beyond(c, d) => Beyond(c, d)')
        BY <3>1 DEF Reaches, Beyond
      <4>2. Grows  BY <3>1, <4>1, Zenon DEF Grows
      <4>3. WalkOK(loc'[t])  BY <3>1 DEF WalkInv
      <4>4. QED  BY <4>2, <4>3, WalkGrows
    <3>5. QED  BY <3>3, <3>4 DEF WalkInv
  <2>3. QED  BY <2>1, <2>2 DEF Next
<1>3. QED  BY <1>1, <1>2, InvHolds, PTL DEF Spec

\* A search finds every address that had been returned when it began, and no
\* other; an inspection counts the rooms in use but those freed meanwhile.
THEOREM WalksAnswer == Spec => []AnswersAreRight
<1>1. ASSUME WalkInv PROVE AnswersAreRight
  <2>1. SUFFICES ASSUME NEW t \in Threads
                 PROVE  /\ loc[t].pc = "notFound" => loc[t].ptr \notin given
                        /\ loc[t].pc = "found" => loc[t].ptr \in given
                        /\ loc[t].pc = "counted" => Cardinality(loc[t].used \cap InUse) <= loc[t].count
    BY Zenon DEF AnswersAreRight, At
  <2>2. Inv /\ RoomsGiven /\ WalkOK(loc[t])  BY <1>1 DEF WalkInv
  <2>3. loc[t].pc = "notFound" => loc[t].ptr \notin given
    <3>1. SUFFICES ASSUME loc[t].pc = "notFound", loc[t].ptr \in given PROVE FALSE  OBVIOUS
    <3>2. PICK r \in rooms : r.top = loc[t].ptr  BY <2>2, <3>1 DEF RoomsGiven
    <3>3. r.top # Foreign  BY <2>2, RoomFacts DEF Foreign
    <3>4. QED  BY <2>2, <3>1, <3>2, <3>3 DEF WalkOK
  <2>4. loc[t].pc = "found" => loc[t].ptr \in given  BY <2>2 DEF WalkOK
  <2>5. loc[t].pc = "counted" => Cardinality(loc[t].used \cap InUse) <= loc[t].count
    <3>1. SUFFICES ASSUME loc[t].pc = "counted"
                   PROVE  Cardinality(loc[t].used \cap InUse) <= loc[t].count
      OBVIOUS
    <3>2. /\ loc[t].used \subseteq rooms /\ loc[t].count \in Nat
          /\ Cardinality(Passed(loc[t])) <= loc[t].count
      BY <2>2, <3>1, Zenon DEF WalkOK, Answering
    <3>3. loc[t].used \cap InUse \subseteq Passed(loc[t])
      <4>1. \A r : ~Ahead(loc[t], r)  BY <3>1 DEF Ahead
      <4>2. QED  BY <4>1 DEF Passed, InUse
    <3>4. /\ Cardinality(loc[t].used \cap InUse) \in Nat /\ Cardinality(Passed(loc[t])) \in Nat
          /\ Cardinality(loc[t].used \cap InUse) <= Cardinality(Passed(loc[t]))
      BY <2>2, <3>2, <3>3, PassedFinite DEF RoomsGiven
    <3>5. QED  BY <3>2, <3>4
  <2>6. QED  BY <2>3, <2>4, <2>5
<1>2. QED  BY <1>1, WalkInvHolds, PTL

-----------------------------------------------------------------------------
(* The slots: what SlotLayout says of the arithmetic of gmem_allocate, for *)
(* every request, every class, and every base of a group.                  *)

(* The classes                                                             *)

\* calc_init_slot_entry names the smallest class that holds what is needed:
\* no class before it does.
THEOREM EntryIsTight ==
  ASSUME NEW n \in Nat, 0 < n, n <= 131072
  PROVE  /\ Entry(n) \in 0 .. NoClass - 1
         /\ n <= Allocatable(Entry(n))
         /\ Entry(n) = 0 \/ Allocatable(Entry(n) - 1) < n
PROOF
  <1>1. CASE n <= 512
    <2>1. PICK q \in 0 .. 63 : /\ q = (n - 1) \div 8
                               /\ 8 * q < n /\ n <= 8 * q + 8
      BY <1>1
    <2>2. Entry(n) = q
      BY <1>1, <2>1 DEF Entry
    <2>3. Allocatable(q) = 8 * q + 8
      BY <2>1 DEF Allocatable
    <2>4. q # 0 => Allocatable(q - 1) = 8 * q
      BY <2>1 DEF Allocatable
    <2> QED BY <2>1, <2>2, <2>3, <2>4 DEF NoClass
  <1>2. CASE 512 < n /\ n <= 1024
    <2>1. PICK q \in 0 .. 7 : /\ q = (n - 513) \div 64
                              /\ 512 + 64 * q < n /\ n <= 512 + 64 * q + 64
      BY <1>2
    <2>2. Entry(n) = q + 64
      BY <1>2, <2>1 DEF Entry
    <2>3. Allocatable(q + 64) = 512 + 64 * q + 64
      BY DEF Allocatable
    <2>4. Allocatable(q + 63) = 512 + 64 * q
      BY DEF Allocatable
    <2> QED BY <2>1, <2>2, <2>3, <2>4 DEF NoClass
  <1>3. CASE 1024 < n /\ n <= 2048
    <2>1. PICK q \in 0 .. 7 : /\ q = (n - 1025) \div 128
                              /\ 1024 + 128 * q < n /\ n <= 1024 + 128 * q + 128
      BY <1>3
    <2>2. Entry(n) = q + 72
      BY <1>3, <2>1 DEF Entry
    <2>3. Allocatable(q + 72) = 1024 + 128 * q + 128
      BY DEF Allocatable
    <2>4. Allocatable(q + 71) = 1024 + 128 * q
      BY DEF Allocatable
    <2> QED BY <2>1, <2>2, <2>3, <2>4 DEF NoClass
  <1>4. CASE 2048 < n /\ n <= 4096
    <2>1. PICK q \in 0 .. 7 : /\ q = (n - 2049) \div 256
                              /\ 2048 + 256 * q < n /\ n <= 2048 + 256 * q + 256
      BY <1>4
    <2>2. Entry(n) = q + 80
      BY <1>4, <2>1 DEF Entry
    <2>3. Allocatable(q + 80) = 2048 + 256 * q + 256
      BY DEF Allocatable
    <2>4. Allocatable(q + 79) = 2048 + 256 * q
      BY DEF Allocatable
    <2> QED BY <2>1, <2>2, <2>3, <2>4 DEF NoClass
  <1>5. CASE 4096 < n /\ n <= 8192
    <2>1. PICK q \in 0 .. 7 : /\ q = (n - 4097) \div 512
                              /\ 4096 + 512 * q < n /\ n <= 4096 + 512 * q + 512
      BY <1>5
    <2>2. Entry(n) = q + 88
      BY <1>5, <2>1 DEF Entry
    <2>3. Allocatable(q + 88) = 4096 + 512 * q + 512
      BY DEF Allocatable
    <2>4. Allocatable(q + 87) = 4096 + 512 * q
      BY DEF Allocatable
    <2> QED BY <2>1, <2>2, <2>3, <2>4 DEF NoClass
  <1>6. CASE 8192 < n /\ n <= 16384
    <2>1. PICK q \in 0 .. 7 : /\ q = (n - 8193) \div 1024
                              /\ 8192 + 1024 * q < n /\ n <= 8192 + 1024 * q + 1024
      BY <1>6
    <2>2. Entry(n) = q + 96
      BY <1>6, <2>1 DEF Entry
    <2>3. Allocatable(q + 96) = 8192 + 1024 * q + 1024
      BY DEF Allocatable
    <2>4. Allocatable(q + 95) = 8192 + 1024 * q
      BY DEF Allocatable
    <2> QED BY <2>1, <2>2, <2>3, <2>4 DEF NoClass
  <1>7. CASE 16384 < n /\ n <= 32768
    <2>1. PICK q \in 0 .. 7 : /\ q = (n - 16385) \div 2048
                              /\ 16384 + 2048 * q < n /\ n <= 16384 + 2048 * q + 2048
      BY <1>7
    <2>2. Entry(n) = q + 104
      BY <1>7, <2>1 DEF Entry
    <2>3. Allocatable(q + 104) = 16384 + 2048 * q + 2048
      BY DEF Allocatable
    <2>4. Allocatable(q + 103) = 16384 + 2048 * q
      BY DEF Allocatable
    <2> QED BY <2>1, <2>2, <2>3, <2>4 DEF NoClass
  <1>8. CASE 32768 < n /\ n <= 65536
    <2>1. PICK q \in 0 .. 7 : /\ q = (n - 32769) \div 4096
                              /\ 32768 + 4096 * q < n /\ n <= 32768 + 4096 * q + 4096
      BY <1>8
    <2>2. Entry(n) = q + 112
      BY <1>8, <2>1 DEF Entry
    <2>3. Allocatable(q + 112) = 32768 + 4096 * q + 4096
      BY DEF Allocatable
    <2>4. Allocatable(q + 111) = 32768 + 4096 * q
      BY DEF Allocatable
    <2> QED BY <2>1, <2>2, <2>3, <2>4 DEF NoClass
  <1>9. CASE 65536 < n /\ n <= 131072
    <2>1. PICK q \in 0 .. 7 : /\ q = (n - 65537) \div 8192
                              /\ 65536 + 8192 * q < n /\ n <= 65536 + 8192 * q + 8192
      BY <1>9
    <2>2. Entry(n) = q + 120
      BY <1>9, <2>1 DEF Entry
    <2>3. Allocatable(q + 120) = 65536 + 8192 * q + 8192
      BY DEF Allocatable
    <2>4. Allocatable(q + 119) = 65536 + 8192 * q
      BY DEF Allocatable
    <2> QED BY <2>1, <2>2, <2>3, <2>4 DEF NoClass
  <1> QED BY <1>1, <1>2, <1>3, <1>4, <1>5, <1>6, <1>7, <1>8, <1>9

\* A slot has the bytes of its class and 32 more, and the first buffer of a
\* class has memory for seven slots at least.
LEMMA SlotOfClass ==
  ASSUME NEW i \in 0 .. 127
  PROVE  /\ Allocatable(i) \in Nat /\ Allocatable(i) >= 8
         /\ OneSlot(Allocatable(i)) = Allocatable(i) + 32
         /\ InitBytes(i) \in Nat /\ InitBytes(i) >= 7 * OneSlot(Allocatable(i)) + 72
         /\ LimitBytes(i) \in Nat /\ LimitBytes(i) >= InitBytes(i)
PROOF
  <1> DEFINE A == Allocatable(i)
  <1>1. PICK j \in Nat : A = 8 * j /\ j >= 1
    <2>1. CASE i < 64  BY <2>1, Allocatable(i) = 8 * (i + 1) DEF Allocatable
    <2>2. CASE i >= 64 /\ i < 72  BY <2>2, Allocatable(i) = 8 * (64 + 8 * (i - 63)) DEF Allocatable
    <2>3. CASE i >= 72 /\ i < 80  BY <2>3, Allocatable(i) = 8 * (128 + 16 * (i - 71)) DEF Allocatable
    <2>4. CASE i >= 80 /\ i < 88  BY <2>4, Allocatable(i) = 8 * (256 + 32 * (i - 79)) DEF Allocatable
    <2>5. CASE i >= 88 /\ i < 96  BY <2>5, Allocatable(i) = 8 * (512 + 64 * (i - 87)) DEF Allocatable
    <2>6. CASE i >= 96 /\ i < 104  BY <2>6, Allocatable(i) = 8 * (1024 + 128 * (i - 95)) DEF Allocatable
    <2>7. CASE i >= 104 /\ i < 112  BY <2>7, Allocatable(i) = 8 * (2048 + 256 * (i - 103)) DEF Allocatable
    <2>8. CASE i >= 112 /\ i < 120  BY <2>8, Allocatable(i) = 8 * (4096 + 512 * (i - 111)) DEF Allocatable
    <2>9. CASE i >= 120  BY <2>9, Allocatable(i) = 8 * (8192 + 1024 * (i - 119)) DEF Allocatable
    <2> QED BY <2>1, <2>2, <2>3, <2>4, <2>5, <2>6, <2>7, <2>8, <2>9
  <1>2. OneSlot(A) = A + 32
    <2>1. (8 * j + 24 + 1 + 8 - 1) \div 8 = j + 4
      BY <1>1
    <2> QED BY <1>1, <2>1 DEF OneSlot, MinAlign, LinkInfo
  <1>3. InitBytes(i) \in Nat /\ InitBytes(i) >= 7 * (A + 32) + 72
    <2>1. CASE i < 63  BY <2>1, A = 8 * (i + 1) DEF InitBytes, Allocatable
    <2>2. CASE i >= 63 /\ i < 72  BY <2>2, A <= 1024 DEF InitBytes, Allocatable
    <2>3. CASE i >= 72 /\ i < 96  BY <2>3, <1>1 DEF InitBytes
    <2>4. CASE i >= 96 /\ i < 104  BY <2>4, A = 8192 + 1024 * (i - 95) DEF InitBytes, Allocatable
    <2>5. CASE i >= 104 /\ i < 112  BY <2>5, <1>1, A >= 18432 DEF InitBytes, Allocatable
    <2>6. CASE i >= 112 /\ i < 120  BY <2>6, A = 32768 + 4096 * (i - 111) DEF InitBytes, Allocatable
    <2>7. CASE i >= 120  BY <2>7, A = 65536 + 8192 * (i - 119) DEF InitBytes, Allocatable
    <2> QED BY <2>1, <2>2, <2>3, <2>4, <2>5, <2>6, <2>7
  <1>4. LimitBytes(i) \in Nat /\ LimitBytes(i) >= InitBytes(i)
    <2>1. CASE i < 72  BY <2>1 DEF InitBytes, LimitBytes
    <2>2. CASE i >= 72 /\ i < 88  BY <2>2, A <= 4096 DEF InitBytes, LimitBytes, Allocatable
    <2>3. CASE i >= 88 /\ i < 96  BY <2>3, A <= 8192 DEF InitBytes, LimitBytes, Allocatable
    <2>4. CASE i >= 96 /\ i < 112  BY <2>4, A <= 32768 DEF InitBytes, LimitBytes, Allocatable
    <2>5. CASE i >= 112  BY <2>5 DEF InitBytes, LimitBytes
    <2> QED BY <2>1, <2>2, <2>3, <2>4, <2>5
  <1> HIDE DEF A
  <1>5. A \in Nat /\ A >= 8
    BY <1>1
  <1> QED BY <1>2, <1>3, <1>4, <1>5 DEF A

\* The buffers of a class are the first one, and with each of them the next:
\* what clac_next_expected_buffer_size returns is one of them again.
LEMMA BuffersAreAll ==
  ASSUME NEW i \in 0 .. 127
  PROVE  /\ InitBytes(i) \in Buffers(i)
         /\ \A b \in Buffers(i) : NextBytes(b, LimitBytes(i)) \in Buffers(i)
PROOF
  <1> DEFINE F == InitBytes(i)
             M == LimitBytes(i)
  <1>1. F \in Nat /\ M \in Nat /\ F <= M /\ M < 512 * F
    <2>1. CASE i < 64
      <3>1. F >= 4096 /\ M = 1048576
        <4>1. CASE i < 4  BY <2>1, <4>1 DEF InitBytes, LimitBytes
        <4>2. CASE i >= 4 /\ i < 63  BY <2>1, <4>2 DEF InitBytes, LimitBytes
        <4>3. CASE i = 63  BY <4>3 DEF InitBytes, LimitBytes
        <4> QED BY <2>1, <4>1, <4>2, <4>3
      <3> QED BY <3>1, SlotOfClass
    <2>2. CASE i >= 64
      <3>1. F >= 65536
        <4>1. CASE i < 72  BY <2>2, <4>1 DEF InitBytes
        <4>2. CASE i >= 72 /\ i < 96
          <5>1. Allocatable(i) >= 1024  BY <4>2 DEF Allocatable
          <5> QED BY <4>2, <5>1, SlotOfClass DEF InitBytes
        <4>3. CASE i >= 96 /\ i < 104  BY <4>3 DEF InitBytes
        <4>4. CASE i >= 104 /\ i < 112
          <5>1. Allocatable(i) >= 16384  BY <4>4 DEF Allocatable
          <5> QED BY <4>4, <5>1, SlotOfClass DEF InitBytes
        <4>5. CASE i >= 112  BY <4>5 DEF InitBytes
        <4> QED BY <2>2, <4>1, <4>2, <4>3, <4>4, <4>5
      <3>2. M <= 4194304  BY DEF LimitBytes
      <3> QED BY <3>1, <3>2, SlotOfClass
    <2> QED BY <2>1, <2>2
  <1>2. Buffers(i) = {b \in {d * F : d \in Doublings} : b < M} \cup {M}
    BY Zenon DEF Buffers
  <1>3. ASSUME NEW b \in Buffers(i)  PROVE NextBytes(b, M) \in Buffers(i)
    <2>1. CASE b = M  BY <1>1, <1>2, <2>1 DEF NextBytes
    <2>2. CASE \E d \in Doublings : b = d * F /\ d * F < M
      <3>1. PICK d \in Doublings : b = d * F /\ d * F < M  BY <2>2
      <3>2. 2 * b = (2 * d) * F /\ 2 * b \in Nat  BY <1>1, <3>1 DEF Doublings
      <3>3. CASE M <= 2 * b  BY <1>1, <1>2, <3>2, <3>3 DEF NextBytes
      <3>4. CASE 2 * b < M
        <4>1. d # 256  BY <1>1, <3>1, <3>2, <3>4
        <4>2. 2 * d \in Doublings  BY <3>1, <4>1 DEF Doublings
        <4>3. 2 * b \in Buffers(i)  BY <1>2, <3>2, <3>4, <4>2
        <4> QED BY <1>1, <3>2, <3>4, <4>3 DEF NextBytes
      <3> QED BY <1>1, <3>2, <3>3, <3>4
    <2> QED BY <1>2, <1>3, <2>1, <2>2
  <1>4. F \in Buffers(i)
    <2>1. F = 1 * F /\ 1 \in Doublings  BY <1>1 DEF Doublings
    <2> QED BY <1>1, <1>2, <2>1
  <1> QED BY <1>3, <1>4

\* So has every buffer that comes later.
LEMMA BufferOfClass ==
  ASSUME NEW i \in 0 .. 127, NEW b \in Buffers(i)
  PROVE  b \in Nat /\ b >= 7 * OneSlot(Allocatable(i)) + 72
PROOF
  <1>1. b \in Nat /\ b >= InitBytes(i)
    <2>1. CASE b = LimitBytes(i)  BY <2>1, SlotOfClass
    <2>2. CASE \E d \in Doublings : b = d * InitBytes(i)
      <3>1. PICK d \in Doublings : b = d * InitBytes(i)  BY <2>2
      <3>2. d \in Nat \ {0}  BY DEF Doublings
      <3> QED BY <3>1, <3>2, SlotOfClass
    <2> QED BY <2>1, <2>2 DEF Buffers
  <1>2. OneSlot(Allocatable(i)) \in Nat
    BY SlotOfClass
  <1> QED BY <1>1, <1>2, SlotOfClass

-----------------------------------------------------------------------------
(* The memory in a slot                                                    *)

LEMMA MultipleMod ==
  ASSUME NEW k \in Nat, NEW align \in Nat \ {0}
  PROVE  (align * k) % align = 0
OBVIOUS

LEMMA AlignUpBounds ==
  ASSUME NEW p \in Nat, NEW align \in Nat \ {0}
  PROVE  /\ AlignUp(p, align) \in Nat
         /\ p <= AlignUp(p, align)
         /\ AlignUp(p, align) < p + align
         /\ AlignUp(p, align) % align = 0
PROOF
  <1>1. /\ p % align \in 0 .. align - 1
        /\ p = align * (p \div align) + (p % align)
    OBVIOUS
  <1>2. CASE p % align = 0
    BY <1>2 DEF AlignUp
  <1>3. CASE p % align # 0
    <2>1. AlignUp(p, align) = align * (p \div align + 1)
      BY <1>1, <1>3 DEF AlignUp
    <2>2. p \div align + 1 \in Nat
      OBVIOUS
    <2>3. (align * (p \div align + 1)) % align = 0
      BY <2>2, MultipleMod, Zenon
    <2>4. AlignUp(p, align) % align = 0
      BY <2>1, <2>3
    <2> QED BY <1>1, <1>3, <2>4 DEF AlignUp
  <1> QED BY <1>2, <1>3

\* What gmem_allocate returns lies in the slot with all the bytes that were
\* asked for, and one more.
LEMMA PointerInSlot ==
  ASSUME NEW s \in Nat, NEW n \in Nat, NEW align \in Nat \ {0}, NEW A \in Nat,
         Needed(n, align) <= A
  PROVE  /\ PointerIn(s, align) \in Nat
         /\ s + 16 <= PointerIn(s, align)
         /\ PointerIn(s, align) + n < s + A + 32
PROOF
  <1>1. /\ AlignUp(s + 16, align) \in Nat
        /\ s + 16 <= AlignUp(s + 16, align)
        /\ AlignUp(s + 16, align) < s + 16 + align
    <2>1. s + 16 \in Nat
      OBVIOUS
    <2> QED BY <2>1, AlignUpBounds, Zenon
  <1>2. PointerIn(s, align) \in {s + 16, AlignUp(s + 16, align) + 8}
    BY DEF PointerIn, DataAt, MinAlign
  <1>3. n + align <= A \/ (align <= 8 /\ n + 1 <= A)
    BY DEF Needed, MinAlign
  <1> QED BY <1>1, <1>2, <1>3

-----------------------------------------------------------------------------
(* The slots of a group                                                    *)

SlotBytes(class) == OneSlot(Allocatable(class))
Slots(class, bytes) == NumSlots(bytes, SlotBytes(class))

LEMMA GroupFacts ==
  ASSUME NEW class \in 0 .. 127, NEW base \in Nat, base % 8 = 0, NEW bytes \in Buffers(class)
  PROVE  /\ Allocatable(class) \in Nat /\ bytes \in Nat
         /\ SlotBytes(class) = Allocatable(class) + 32
         /\ Slots(class, bytes) \in Nat
         /\ SlotBytes(class) * Slots(class, bytes) + 72 <= bytes
         /\ \A k \in Nat : SlotAt(base, SlotBytes(class), k) = base + 72 + k * SlotBytes(class)
PROOF
  <1>2. /\ Allocatable(class) \in Nat /\ bytes \in Nat
        /\ SlotBytes(class) = Allocatable(class) + 32
        /\ bytes - 72 \in Nat
    BY SlotOfClass, BufferOfClass DEF SlotBytes
  <1>3. Slots(class, bytes) \in Nat /\ SlotBytes(class) * Slots(class, bytes) <= bytes - 72
    <2>1. Slots(class, bytes) = (bytes - 72) \div SlotBytes(class)
      BY DEF Slots, NumSlots, GroupHead
    <2> QED BY <1>2, <2>1
  <1>4. 8 * ((base + 72 + 8 - 1) \div 8) = base + 72
    OBVIOUS
  <1>5. \A k \in Nat : SlotAt(base, SlotBytes(class), k) = base + 72 + k * SlotBytes(class)
    BY <1>4 DEF SlotAt, GroupHead, MinAlign
  <1> QED BY <1>2, <1>3, <1>5

\* A slot lies in the group, with the next one right behind it.
LEMMA SlotInGroup ==
  ASSUME NEW class \in 0 .. 127, NEW base \in Nat, base % 8 = 0, NEW bytes \in Buffers(class), NEW k \in Nat, k < Slots(class, bytes)
  PROVE  /\ SlotAt(base, SlotBytes(class), k) \in Nat
         /\ base + 72 <= SlotAt(base, SlotBytes(class), k)
         /\ SlotAt(base, SlotBytes(class), k + 1) = SlotAt(base, SlotBytes(class), k) + SlotBytes(class)
         /\ SlotAt(base, SlotBytes(class), k + 1) <= base + bytes
PROOF
  <1>0. /\ Allocatable(class) \in Nat /\ bytes \in Nat
        /\ SlotBytes(class) = Allocatable(class) + 32
        /\ Slots(class, bytes) \in Nat
        /\ SlotBytes(class) * Slots(class, bytes) + 72 <= bytes
        /\ \A j \in Nat : SlotAt(base, SlotBytes(class), j) = base + 72 + j * SlotBytes(class)
    BY GroupFacts, Zenon
  <1> DEFINE S == SlotBytes(class)
             N == Slots(class, bytes)
             I == bytes
  <1>1. /\ S \in Nat /\ N \in Nat /\ I \in Nat /\ base \in Nat
        /\ S * N + 72 <= I
        /\ SlotAt(base, S, k) = base + 72 + k * S
        /\ SlotAt(base, S, k + 1) = base + 72 + (k + 1) * S
        /\ k + 1 <= N
    BY <1>0
  <1> HIDE DEF S, N, I
  <1>2. k * S \in Nat /\ (k + 1) * S = k * S + S
    BY <1>1
  <1>3. (k + 1) * S <= S * N
    BY <1>1
  <1>4. S * N \in Nat
    BY <1>1
  <1>5. /\ SlotAt(base, S, k) \in Nat
        /\ base + 72 <= SlotAt(base, S, k)
        /\ SlotAt(base, S, k + 1) = SlotAt(base, S, k) + S
        /\ SlotAt(base, S, k + 1) <= base + I
    BY <1>1, <1>2, <1>3, <1>4
  <1> QED BY <1>5 DEF S, N, I

LEMMA Quotient ==
  ASSUME NEW k \in Nat, NEW a \in Nat \ {0}, NEW r \in Nat, r < a
  PROVE  (k * a + r) \div a = k
OBVIOUS

\* Every address in a slot leads to the slot.
LEMMA IndexOfSlot ==
  ASSUME NEW class \in 0 .. 127, NEW base \in Nat, base % 8 = 0, NEW bytes \in Buffers(class), NEW k \in Nat, NEW p \in Nat,
         SlotAt(base, SlotBytes(class), k) <= p, p < SlotAt(base, SlotBytes(class), k) + SlotBytes(class)
  PROVE  IndexOf(base, SlotBytes(class), p) = k
PROOF
  <1>0. /\ Allocatable(class) \in Nat /\ bytes \in Nat
        /\ SlotBytes(class) = Allocatable(class) + 32
        /\ Slots(class, bytes) \in Nat
        /\ SlotBytes(class) * Slots(class, bytes) + 72 <= bytes
        /\ \A j \in Nat : SlotAt(base, SlotBytes(class), j) = base + 72 + j * SlotBytes(class)
    BY GroupFacts, Zenon
  <1> DEFINE S == SlotBytes(class)
  <1>1. /\ S \in Nat \ {0} /\ base \in Nat
        /\ SlotAt(base, S, k) = base + 72 + k * S
        /\ SlotAt(base, S, 0) = base + 72 + 0 * S
    BY <1>0
  <1>2. base + 72 + k * S <= p /\ p < base + 72 + k * S + S
    BY <1>1
  <1> HIDE DEF S
  <1>3. k * S \in Nat
    BY <1>1
  <1> DEFINE r == p - (base + 72) - k * S
  <1>4. r \in Nat /\ r < S /\ p - (base + 72) = k * S + r
    BY <1>1, <1>2, <1>3
  <1> HIDE DEF r
  <1>5. (k * S + r) \div S = k
    BY <1>1, <1>4, Quotient
  <1>6. IndexOf(base, S, p) = (p - (base + 72)) \div S
    BY <1>1 DEF IndexOf
  <1> QED BY <1>4, <1>5, <1>6 DEF S

LEMMA BlockInSlot ==
  ASSUME NEW class \in 0 .. 127, NEW base \in Nat, base % 8 = 0, NEW bytes \in Buffers(class), NEW k \in Nat, k < Slots(class, bytes),
         NEW n \in Nat, NEW align \in Nat \ {0}, Needed(n, align) <= Allocatable(class),
         NEW p, p = PointerIn(SlotAt(base, SlotBytes(class), k), align)
  PROVE  /\ SlotAt(base, SlotBytes(class), k) + 16 <= p
         /\ p + n < SlotAt(base, SlotBytes(class), k + 1)
         /\ IndexOf(base, SlotBytes(class), p) = k
         /\ n <= MaxAllocatable(base, SlotBytes(class), p)
PROOF
  <1>0. /\ Allocatable(class) \in Nat /\ bytes \in Nat
        /\ SlotBytes(class) = Allocatable(class) + 32
        /\ Slots(class, bytes) \in Nat
        /\ SlotBytes(class) * Slots(class, bytes) + 72 <= bytes
        /\ \A j \in Nat : SlotAt(base, SlotBytes(class), j) = base + 72 + j * SlotBytes(class)
    BY GroupFacts, Zenon
  <1>a. /\ SlotAt(base, SlotBytes(class), k) \in Nat
        /\ SlotAt(base, SlotBytes(class), k + 1) = SlotAt(base, SlotBytes(class), k) + SlotBytes(class)
    BY SlotInGroup, Zenon
  <1> DEFINE at == SlotAt(base, SlotBytes(class), k)
  <1>1. /\ Allocatable(class) \in Nat /\ SlotBytes(class) = Allocatable(class) + 32
        /\ at \in Nat /\ SlotAt(base, SlotBytes(class), k + 1) = at + SlotBytes(class)
    BY <1>0, <1>a
  <1> HIDE DEF at
  <1>2. p \in Nat /\ at + 16 <= p /\ p + n < at + Allocatable(class) + 32
    <2>1. p = PointerIn(at, align)
      BY DEF at
    <2>2. /\ PointerIn(at, align) \in Nat
          /\ at + 16 <= PointerIn(at, align)
          /\ PointerIn(at, align) + n < at + Allocatable(class) + 32
      BY <1>1, PointerInSlot, Zenon
    <2> QED BY <2>1, <2>2, Zenon
  <1>3. p < at + SlotBytes(class)
    BY <1>1, <1>2
  <1>4. IndexOf(base, SlotBytes(class), p) = k
    BY <1>1, <1>2, <1>3, IndexOfSlot DEF at
  <1>5. p + n < SlotAt(base, SlotBytes(class), k + 1)
    BY <1>1, <1>2
  <1>6. MaxAllocatable(base, SlotBytes(class), p) = SlotAt(base, SlotBytes(class), k + 1) - p
    BY <1>4, Zenon DEF MaxAllocatable
  <1>7. SlotAt(base, SlotBytes(class), k + 1) \in Nat
    BY <1>1
  <1>8. n <= MaxAllocatable(base, SlotBytes(class), p)
    BY <1>2, <1>5, <1>6, <1>7
  <1> QED BY <1>2, <1>4, <1>5, <1>8 DEF at

-----------------------------------------------------------------------------
(* The memory of all users                                                 *)

\* What gmem_allocate returns lies in its slot and the slot in its group, for
\* every class, request, base and buffer, the doublings of the first one
\* included (BuffersAreAll): the memory of two slots lies apart.
THEOREM MemoryLiesInSlot ==
  ASSUME NEW i, NEW base, NEW bytes, NEW k, NEW n, NEW align,
         IsSlot(i, base, bytes, k), Takes(i, n, align)
  PROVE  MemoryInSlot(i, base, bytes, k, n, align)
PROOF
  <1>1. /\ i \in 0 .. 127 /\ base \in Nat /\ base % 8 = 0 /\ bytes \in Buffers(i)
        /\ k \in 0 .. Slots(i, bytes) - 1
    BY DEF IsSlot, NoClass, MinAlign, Slots, SlotBytes
  <1>2. k \in Nat /\ k < Slots(i, bytes)
    BY <1>1, GroupFacts
  <1>3. n \in Nat /\ align \in Nat \ {0} /\ Needed(n, align) <= Allocatable(i)
    BY DEF Takes
  <1> DEFINE at == SlotAt(base, SlotBytes(i), k)
  <1>4. /\ at + 16 <= PointerIn(at, align)
        /\ PointerIn(at, align) + n < SlotAt(base, SlotBytes(i), k + 1)
    BY <1>1, <1>2, <1>3, BlockInSlot, Zenon
  <1>5. /\ base + 72 <= at
        /\ SlotAt(base, SlotBytes(i), k + 1) <= base + bytes
    BY <1>1, <1>2, SlotInGroup, Zenon
  <1> QED BY <1>4, <1>5, Zenon DEF MemoryInSlot, SlotBytes, DataAt, GroupHead

\* gmem_deallocate always finds the slot that the memory lies in.
THEOREM SlotsAreFound ==
  ASSUME NEW i, NEW base, NEW bytes, NEW k, NEW n, NEW align,
         IsSlot(i, base, bytes, k), Takes(i, n, align)
  PROVE  SlotIsFound(i, base, k, n, align)
PROOF
  <1>1. /\ i \in 0 .. 127 /\ base \in Nat /\ base % 8 = 0 /\ bytes \in Buffers(i)
        /\ k \in 0 .. Slots(i, bytes) - 1
    BY DEF IsSlot, NoClass, MinAlign, Slots, SlotBytes
  <1>2. k \in Nat /\ k < Slots(i, bytes)
    BY <1>1, GroupFacts
  <1>3. n \in Nat /\ align \in Nat \ {0} /\ Needed(n, align) <= Allocatable(i)
    BY DEF Takes
  <1> DEFINE p == PointerIn(SlotAt(base, SlotBytes(i), k), align)
  <1>4. /\ IndexOf(base, SlotBytes(i), p) = k
        /\ n <= MaxAllocatable(base, SlotBytes(i), p)
    <2>1. ASSUME NEW q, q = PointerIn(SlotAt(base, SlotBytes(i), k), align)
          PROVE  /\ IndexOf(base, SlotBytes(i), q) = k
                 /\ n <= MaxAllocatable(base, SlotBytes(i), q)
      BY <1>1, <1>2, <1>3, <2>1, BlockInSlot, SMT
    <2> QED BY <2>1, Zenon
  <1> QED BY <1>4, Zenon DEF SlotIsFound, SlotBytes

\* Memory with an alignment above 8 bytes is put 8 bytes behind the aligned
\* address, where the slot's data is not aligned by chance: it is not aligned.
THEOREM AlignedByChance ==
  ASSUME NEW s \in Nat, NEW align \in Nat, align > 8, (s + 16) % align # 0
  PROVE  PointerIn(s, align) % align = 8
PROOF
  <1>1. s + 16 \in Nat /\ align \in Nat \ {0}
    OBVIOUS
  <1>2. AlignUp(s + 16, align) \in Nat /\ AlignUp(s + 16, align) % align = 0
    BY <1>1, AlignUpBounds, Zenon
  <1>3. AlignUp(s + 16, align) # s + 16
    BY <1>2
  <1>4. PointerIn(s, align) = AlignUp(s + 16, align) + 8
    BY <1>3 DEF PointerIn, DataAt, MinAlign
  <1>5. \A p \in Nat : p % align = 0 => (p + 8) % align = 8
    <2> SUFFICES ASSUME NEW p \in Nat, p % align = 0 PROVE (p + 8) % align = 8
      OBVIOUS
    <2>1. p = align * (p \div align) /\ p \div align \in Nat
      OBVIOUS
    <2> QED BY <2>1
  <1> QED BY <1>2, <1>4, <1>5
=============================================================================
