--------------------------- MODULE DynamicTls_proofs ---------------------------
(***************************************************************************)
(* Proofs about DynamicTls, for every number of threads, objects, arrays   *)
(* and calls: keys, heads and contents pass from object to object and from *)
(* thread to thread, and each thread gets what it has made itself.         *)
(***************************************************************************)
EXTENDS DynamicTls, FiniteSetTheorems, SequenceTheorems, TLAPS

-----------------------------------------------------------------------------
(* The inductive invariant.                                                *)

\* No deallocator asks for the content of another object.
NothingAsked == \A v \in Vars : Uses[v] = None

\* Where a call is: it has no key yet; it has one that nobody else knows; it has
\* that of its object; it goes through the heads to release one.
Seeking == {"key", "reload", "scan", "array", "claim", "base", "push"}
Claiming == {"count", "fill", "publish"}
Keyed == {"check", "head", "link", "find", "get", "set"}
Walking == {"walk", "arrays", "destruct", "clear"}
Releasing == Walking \cup {"heads", "unused"}

Calling(l) == l.op \in {"get", "set"} /\ l.pc \notin {"idle", "gone"}
Destroying(l) == l.op = "destroy"
Exiting(l) == l.op = "exit" /\ l.pc # "gone"
Unpublished(l) ==
  l.pc \in Claiming \/ (l.op \in {"get", "set"} /\ l.pc \in Releasing \cup {"release"})
HasKey(l) == l.pc \in Keyed \/ (l.op = "destroy" /\ l.pc \in Releasing \cup {"release", "null"})
Frees(l) == l.op # "exit" /\ l.pc \in Releasing
Walks(l) == l.op # "exit" /\ l.pc \in Walking

Points == {"idle", "gone", "destroy", "release", "null", "each"}
            \cup Seeking \cup Claiming \cup Keyed \cup Releasing
Fields == {"pc", "op", "var", "key", "todo", "idx", "try", "back", "up"}
IsLocal(l) ==
  /\ DOMAIN l = Fields
  /\ l.pc \in Points /\ l.op \in Ops \cup {"exit"}
  /\ l.var \in Vars \cup {None} /\ l.key \in Keys \cup {None}
  /\ l.todo \in Seq(Nat) /\ l.idx \in Nat /\ l.try \in Nat
  /\ l.back \in {None, "reload", "null"} /\ l.up = None

\* What the locals of a thread are, whatever the others do.
LocalOK(l) ==
  /\ IsLocal(l)
  /\ l.pc \in Seeking \cup Claiming \cup Keyed \cup {"idle"} => l.op \in {"get", "set"}
  /\ l.pc \in {"destroy", "null"} => l.op = "destroy"
  /\ l.pc = "each" => l.op = "exit"
  /\ l.pc = "gone" => l.op # "destroy"
  /\ l.op = "exit" => l.pc \in {"each", "destruct", "clear", "gone"}
  /\ l.pc = "clear" => l.op \in {"destroy", "exit"}
  /\ Calling(l) \/ Destroying(l) => l.var \in Vars
  /\ Unpublished(l) \/ HasKey(l) => l.key \in Keys
  /\ Frees(l) \/ l.pc = "release" => l.back = IF Destroying(l) THEN "null" ELSE "reload"
  /\ l.pc \in {"array", "claim"} \/ Exiting(l) => l.todo \in Seq(Arrays)
  /\ l.pc \in {"claim", "arrays", "destruct", "clear"} => l.todo # <<>>
  /\ l.pc \in {"claim", "count", "fill"} \/ (Exiting(l) /\ l.pc # "each") => l.idx < ArraySize
  /\ Exiting(l) => l.idx <= ArraySize

\* Every variable has its type, but the mutex and the locals.
Types ==
  /\ keyStat \in [Keys -> {"notUsed", "releasing", "used"}]
  /\ param \in [Keys -> Vars \cup {None}]
  /\ hint \in [Arrays -> 0 .. ArraySize - 1]
  /\ nextBase \in 0 .. MaxArrays /\ keyChain \in Seq(0 .. nextBase - 1)
  /\ made \in Nat /\ heads \in Seq(1 .. made)
  /\ own \in [Heads -> {"used", "notUsed"}]
  /\ arrays \in [Heads -> Seq(Arrays)]
  /\ stat \in [Heads -> [Keys -> {"uninitialized", "used", "destructing"}]]
  /\ data \in [Heads -> [Keys -> Data \cup {None}]]
  /\ tls \in [Threads -> Heads \cup {None}]
  /\ tlsKey \in [Vars -> Keys \cup {None}]
  /\ phase \in [Vars -> {"alive", "dying", "gone"}]
  /\ live \subseteq Data
  /\ DOMAIN answer = Threads
  /\ script \in [Threads -> Seq(Ops \X Vars)]

LocalsOK ==
  /\ DOMAIN loc = Threads
  /\ \A t \in Threads : LocalOK(loc[t]) /\ (At(t, "push") => loc[t].idx < nextBase)

\* How often a thread has locked the mutex.
Depth(l) == (IF Exiting(l) \/ (HasKey(l) /\ Destroying(l)) THEN 1 ELSE 0) + (IF Frees(l) THEN 1 ELSE 0)

MutexOK ==
  /\ mutex \in [owner : Threads \cup {None}, depth : Nat]
  /\ mutex.owner = None <=> mutex.depth = 0
  /\ \A t \in Threads : Depth(loc[t]) = IF mutex.owner = t THEN mutex.depth ELSE 0

\* Objects that threads work on are there, and one thread at most destroys one.
VarsOK ==
  /\ \A t \in Threads : /\ Calling(loc[t]) => phase[loc[t].var] = "alive"
                        /\ Destroying(loc[t]) => phase[loc[t].var] = "dying"
  /\ \A t, u \in Threads :
       Destroying(loc[t]) /\ Destroying(loc[u]) /\ loc[t].var = loc[u].var => t = u
  /\ \A v \in Vars : tlsKey[v] # None => phase[v] # "gone"

\* The object has given its key back, but it still names it.
Past(v) == \E t \in Threads : At(t, "null") /\ loc[t].var = v
Owns(v, k) == tlsKey[v] = k /\ ~Past(v)

KeyOK(l) ==
  /\ Unpublished(l) => keyStat[l.key] # "notUsed" /\ \A v \in Vars : ~Owns(v, l.key)
  /\ HasKey(l) => tlsKey[l.var] = l.key
  /\ Frees(l) => keyStat[l.key] = "releasing"
  /\ l.pc = "publish" => param[l.key] = l.var

\* A key in use belongs to one object or to one thread that has just claimed it.
KeysOK ==
  /\ \A t \in Threads : KeyOK(loc[t])
  /\ \A t, u \in Threads :
       Unpublished(loc[t]) /\ Unpublished(loc[u]) /\ loc[t].key = loc[u].key => t = u
  /\ \A v, w \in Vars : \A k \in Keys : Owns(v, k) /\ Owns(w, k) => v = w
  /\ \A v \in Vars : \A k \in Keys : Owns(v, k) => keyStat[k] # "notUsed" /\ param[k] = v
  /\ \A k \in Keys : keyStat[k] = "releasing" =>
       \E t \in Threads : Frees(loc[t]) /\ loc[t].key = k

HeadOK(t) ==
  /\ tls[t] # None => In(tls[t], heads) /\ (~At(t, "gone") => own[tls[t]] = "used")
  /\ At(t, "link") => loc[t].idx \in 1 .. made /\ ~In(loc[t].idx, heads)
  /\ At(t, "head") \/ At(t, "link") => tls[t] = None
  /\ At(t, "find") \/ At(t, "get") \/ At(t, "set") \/ Exiting(loc[t]) => tls[t] # None
  /\ At(t, "get") \/ At(t, "set") => In(ArrayOf(loc[t].key), arrays[tls[t]])
  /\ At(t, "head") \/ Walks(loc[t]) => \A h \in Nat : In(h, loc[t].todo) => In(h, heads)

\* A head belongs to one thread at a time.
HeadsOK ==
  /\ \A t \in Threads : HeadOK(t)
  /\ \A t, u \in Threads :
       tls[t] # None /\ tls[t] = tls[u] /\ ~At(t, "gone") /\ ~At(u, "gone") => t = u
  /\ \A t, u \in Threads : At(t, "link") /\ At(u, "link") /\ loc[t].idx = loc[u].idx => t = u
  /\ \A h \in Heads : own[h] = "notUsed" => In(h, heads)

\* A thread allocates one head at most.
Makers == {t \in Threads : tls[t] # None \/ At(t, "link")}
MadeOK == made <= Cardinality(Makers)

\* A content that is not empty has been made by the owner of its head for the
\* object that has its key.
Filled(h, k) == stat[h][k] # "uninitialized"
ContentOK(h, k) ==
  /\ Filled(h, k) =>
       /\ data[h][k] # None
       /\ ~At(data[h][k][1], "gone")
       /\ Owns(data[h][k][2], k)
       /\ In(ArrayOf(k), arrays[h])
  /\ data[h][k] # None =>
       /\ tls[data[h][k][1]] = h
       /\ tlsKey[data[h][k][2]] = k \/ phase[data[h][k][2]] = "gone"
  /\ stat[h][k] = "destructing" => \E t \in Threads : At(t, "clear") /\ Spot(t) = <<h, k>>
ContentsOK == \A h \in Heads, k \in Keys : ContentOK(h, k)

\* What a walk over the heads, or over the keys at the end of a thread, has yet
\* to find is ahead of it.
WalkOK(t) ==
  LET l == loc[t] IN
  /\ Walks(l) => \A h \in Heads : Filled(h, l.key) => In(h, l.todo)
  /\ l.pc = "unused" => \A h \in Heads : ~Filled(h, l.key)
  /\ Exiting(l) => \A k \in Keys : Filled(tls[t], k) =>
       /\ l.todo # <<>>
       /\ \/ ArrayOf(k) = Head(l.todo) /\ Head(l.todo) * ArraySize + l.idx <= k
          \/ In(ArrayOf(k), Tail(l.todo))
  /\ l.pc = "clear" => stat[Spot(t)[1]][Spot(t)[2]] = "destructing"
WalksOK == \A t \in Threads : WalkOK(t)

\* What the count of an array of keys stands for.
FreeIn(a) ==
  {k \in Keys : /\ ArrayOf(k) = a
                /\ keyStat[k] = "notUsed" \/ \E t \in Threads : loc[t].pc \in {"count", "unused"} /\ loc[t].key = k}
CountsOK == numFree \in [Arrays -> Int] /\ \A a \in Arrays : numFree[a] = Cardinality(FreeIn(a))

LiveOK == live = {data[c[1]][c[2]] : c \in InUse}

Inv == /\ Types /\ LocalsOK /\ MutexOK /\ VarsOK /\ KeysOK /\ HeadsOK /\ MadeOK
       /\ ContentsOK /\ WalksOK /\ CountsOK /\ LiveOK /\ OwnData

-----------------------------------------------------------------------------
(* Numbers, sequences and locals                                           *)

\* Quotient and remainder.
LEMMA Division ==
  ASSUME NEW n \in Nat, NEW a \in Nat \ {0}
  PROVE  /\ n \div a \in Nat /\ n % a \in Nat
         /\ n = a * (n \div a) + (n % a) /\ n % a < a
  OBVIOUS

\* They are the only ones.
LEMMA DivisionIs ==
  ASSUME NEW n \in Nat, NEW a \in Nat \ {0}, NEW q \in Nat, NEW r \in Nat, n = a * q + r, r < a
  PROVE  n \div a = q /\ n % a = r
OBVIOUS

\* The key at a place of an array.
LEMMA KeyAt ==
  ASSUME NEW a \in Arrays, NEW i \in Nat, i < ArraySize
  PROVE  a * ArraySize + i \in Keys /\ ArrayOf(a * ArraySize + i) = a
<1>1. ArraySize \in Nat \ {0} /\ MaxArrays \in Nat \ {0}  BY TlsAssumption
<1>2. a \in Nat /\ a + 1 <= MaxArrays  BY <1>1 DEF Arrays
<1>3. a * ArraySize \in Nat /\ a * ArraySize = ArraySize * a  BY <1>1, <1>2
<1>4. a * ArraySize + i \in Nat /\ a * ArraySize + i = ArraySize * a + i  BY <1>3
<1>5. (a * ArraySize + i) \div ArraySize = a  BY <1>1, <1>2, <1>4, DivisionIs, Zenon
<1>6. (a + 1) * ArraySize <= MaxArrays * ArraySize  BY <1>1, <1>2
<1>7. (a + 1) * ArraySize = a * ArraySize + ArraySize /\ MaxArrays * ArraySize \in Nat  BY <1>1, <1>2
<1>8. a * ArraySize + i <= MaxArrays * ArraySize - 1  BY <1>1, <1>3, <1>6, <1>7
<1>9. QED  BY <1>4, <1>5, <1>7, <1>8 DEF Keys, ArrayOf

\* The array of a key, and where the keys of the array begin and end.
LEMMA ArrayAt ==
  ASSUME NEW k \in Keys
  PROVE  /\ k \in Nat /\ ArrayOf(k) \in Arrays
         /\ ArrayOf(k) * ArraySize \in Nat
         /\ ArrayOf(k) * ArraySize <= k /\ k < ArrayOf(k) * ArraySize + ArraySize
<1>1. ArraySize \in Nat \ {0} /\ MaxArrays \in Nat \ {0}  BY TlsAssumption
<1>2. MaxArrays * ArraySize \in Nat  BY <1>1
<1>3. k \in Nat /\ k < MaxArrays * ArraySize  BY <1>2 DEF Keys
<1> DEFINE q == k \div ArraySize
           r == k % ArraySize
<1>4. q \in Nat /\ r \in Nat /\ k = ArraySize * q + r /\ r < ArraySize  BY <1>1, <1>3, Division, Zenon
<1> HIDE DEF q, r
<1>5. q * ArraySize \in Nat /\ ArraySize * q = q * ArraySize  BY <1>1, <1>4
<1>6. q < MaxArrays
  <2>1. SUFFICES ASSUME MaxArrays <= q PROVE FALSE  BY <1>1, <1>4
  <2>2. MaxArrays * ArraySize <= q * ArraySize  BY <1>1, <1>4, <2>1
  <2>3. QED  BY <1>2, <1>3, <1>4, <1>5, <2>2
<1>7. q * ArraySize <= k /\ k < q * ArraySize + ArraySize  BY <1>1, <1>3, <1>4, <1>5
<1>8. q \in Arrays  BY <1>1, <1>4, <1>6 DEF Arrays
<1>9. QED  BY <1>3, <1>5, <1>7, <1>8 DEF ArrayOf, q

\* The first element and the others.
LEMMA HeadAndTail ==
  ASSUME NEW S, NEW s \in Seq(S), s # <<>>
  PROVE  /\ Head(s) \in S /\ Tail(s) \in Seq(S) /\ In(Head(s), s)
         /\ \A x : In(x, s) <=> x = Head(s) \/ In(x, Tail(s))
<1>1. Len(s) \in Nat \ {0}  OBVIOUS
<1>2. Head(s) = s[1] /\ Tail(s) \in Seq(S) /\ Len(Tail(s)) = Len(s) - 1
      /\ \A i \in 1 .. Len(Tail(s)) : Tail(s)[i] = s[i + 1]
  OBVIOUS
<1>3. ASSUME NEW x  PROVE In(x, s) <=> x = Head(s) \/ In(x, Tail(s))
  <2>1. ASSUME In(x, s) PROVE x = Head(s) \/ In(x, Tail(s))
    <3>1. PICK i \in 1 .. Len(s) : s[i] = x  BY <2>1 DEF In
    <3>2. CASE i = 1  BY <1>2, <3>1, <3>2
    <3>3. CASE i # 1
      <4>1. i - 1 \in 1 .. Len(Tail(s)) /\ (i - 1) + 1 = i  BY <1>1, <1>2, <3>3
      <4>2. Tail(s)[i - 1] = x  BY <1>2, <3>1, <4>1
      <4>3. QED  BY <4>1, <4>2, Zenon DEF In
    <3>4. QED  BY <3>2, <3>3
  <2>2. ASSUME In(x, Tail(s)) PROVE In(x, s)
    <3>1. PICK i \in 1 .. Len(Tail(s)) : Tail(s)[i] = x  BY <2>2 DEF In
    <3>2. i + 1 \in 1 .. Len(s) /\ s[i + 1] = x  BY <1>1, <1>2, <3>1
    <3>3. QED  BY <3>2 DEF In
  <2>3. x = Head(s) => In(x, s)  BY <1>1, <1>2 DEF In
  <2>4. QED  BY <2>1, <2>2, <2>3
<1>4. Head(s) \in S  BY <1>1, <1>2
<1>5. QED  BY <1>2, <1>3, <1>4

LEMMA SeqOfMore ==
  ASSUME NEW S, NEW T, NEW s \in Seq(S), S \subseteq T
  PROVE  s \in Seq(T)
OBVIOUS

\* A list with a new element at the front.
LEMMA Front ==
  ASSUME NEW S, NEW s \in Seq(S), NEW a \in S
  PROVE  <<a>> \o s \in Seq(S) /\ \A x : In(x, <<a>> \o s) <=> x = a \/ In(x, s)
<1>1. <<a>> \in Seq(S) /\ Len(<<a>>) = 1 /\ <<a>>[1] = a  OBVIOUS
<1>2. <<a>> \o s \in Seq(S) /\ Len(<<a>> \o s) = 1 + Len(s) /\ Len(s) \in Nat
      /\ (<<a>> \o s)[1] = a /\ \A i \in 1 .. Len(s) : (<<a>> \o s)[i + 1] = s[i]
  BY <1>1
<1> DEFINE r == <<a>> \o s
<1> HIDE DEF r
<1>3. ASSUME NEW x PROVE In(x, r) <=> x = a \/ In(x, s)
  <2>1. Len(r) = 1 + Len(s) /\ Len(s) \in Nat /\ r[1] = a /\ \A i \in 1 .. Len(s) : r[i + 1] = s[i]
    BY <1>2 DEF r
  <2>2. ASSUME In(x, r) PROVE x = a \/ In(x, s)
    <3>1. PICK i \in 1 .. Len(r) : r[i] = x  BY <2>2 DEF In
    <3>2. CASE i = 1  BY <2>1, <3>1, <3>2
    <3>3. CASE i # 1
      <4>1. i - 1 \in 1 .. Len(s) /\ (i - 1) + 1 = i  BY <2>1, <3>1, <3>3
      <4>2. s[i - 1] = x  BY <2>1, <3>1, <4>1
      <4>3. QED  BY <4>1, <4>2, Zenon DEF In
    <3>4. QED  BY <3>2, <3>3
  <2>3. ASSUME In(x, s) PROVE In(x, r)
    <3>1. PICK i \in 1 .. Len(s) : s[i] = x  BY <2>3 DEF In
    <3>2. i + 1 \in 1 .. Len(r) /\ r[i + 1] = x  BY <2>1, <3>1
    <3>3. QED  BY <3>2 DEF In
  <2>4. x = a => In(x, r)  BY <2>1 DEF In
  <2>5. QED  BY <2>2, <2>3, <2>4
<1>4. QED  BY <1>2, <1>3 DEF r

LEMMA EmptyHasNone == \A x : ~In(x, <<>>)
BY DEF In

-----------------------------------------------------------------------------
(* Steps of one thread that leave most alone                               *)

\* The other calls go on as they are.
Alone(t) == DOMAIN loc' = Threads /\ \A u \in Threads : u # t => loc'[u] = loc[u]

\* Two threads do not hold the mutex.
LEMMA OneHolder ==
  ASSUME Inv, NEW t \in Threads, NEW u \in Threads, Depth(loc[t]) # 0, Depth(loc[u]) # 0
  PROVE  t = u /\ mutex.owner = t
BY DEF Inv, MutexOK

LEMMA MutexStays ==
  ASSUME Inv, NEW t \in Threads, Alone(t), mutex' = mutex, Depth(loc'[t]) = Depth(loc[t])
  PROVE  MutexOK'
<1>1. ASSUME NEW u \in Threads PROVE Depth(loc'[u]) = IF mutex.owner = u THEN mutex.depth ELSE 0
  <2>1. Depth(loc'[u]) = Depth(loc[u])  BY DEF Alone
  <2>2. QED  BY <2>1 DEF Inv, MutexOK
<1>2. \A u \in Threads : Depth(loc[u])' = Depth(loc'[u])  BY DEF Depth, Exiting, HasKey, Destroying, Frees
<1>3. mutex \in [owner : Threads \cup {None}, depth : Nat] /\ (mutex.owner = None <=> mutex.depth = 0)
  BY DEF Inv, MutexOK
<1>4. QED  BY <1>1, <1>2, <1>3 DEF MutexOK

\* What is asked of the locals of one thread beside those of the others.
SameObject(t) ==
  /\ Calling(loc'[t]) => Calling(loc[t]) /\ loc'[t].var = loc[t].var
  /\ Destroying(loc'[t]) => Destroying(loc[t]) /\ loc'[t].var = loc[t].var

LEMMA VarsStay ==
  ASSUME Inv, NEW t \in Threads, Alone(t), phase' = phase, tlsKey' = tlsKey, SameObject(t)
  PROVE  VarsOK'
<1>1. ASSUME NEW u \in Threads
      PROVE  /\ Calling(loc'[u]) => Calling(loc[u]) /\ loc'[u].var = loc[u].var
             /\ Destroying(loc'[u]) => Destroying(loc[u]) /\ loc'[u].var = loc[u].var
  BY DEF Alone, SameObject
<1>2. QED  BY <1>1 DEF Inv, VarsOK, Calling, Destroying

SameKey(t) ==
  /\ ~At(t, "null") /\ loc'[t].pc # "null"
  /\ Unpublished(loc'[t]) => Unpublished(loc[t]) /\ loc'[t].key = loc[t].key
  /\ Frees(loc[t]) => Frees(loc'[t]) /\ loc'[t].key = loc[t].key

LEMMA PastStays ==
  ASSUME NEW t \in Threads, Alone(t), ~At(t, "null"), loc'[t].pc # "null"
  PROVE  \A v : Past(v)' <=> Past(v)
BY DEF Alone, Past, At

LEMMA KeysStay ==
  ASSUME Inv, NEW t \in Threads, Alone(t), keyStat' = keyStat, param' = param, tlsKey' = tlsKey,
         SameKey(t), KeyOK(loc'[t])
  PROVE  KeysOK' /\ \A v, k : Owns(v, k)' <=> Owns(v, k)
<1>1. \A v, k : Owns(v, k)' <=> Owns(v, k)  BY PastStays DEF SameKey, Owns
<1>2. ASSUME NEW u \in Threads PROVE KeyOK(loc[u])'
  <2>1. KeyOK(loc'[u])  BY DEF Alone, Inv, KeysOK
  <2>2. QED  BY <1>1, <2>1 DEF KeyOK, Unpublished, HasKey, Frees
<1>3. ASSUME NEW u \in Threads, NEW w \in Threads, Unpublished(loc'[u]), Unpublished(loc'[w]),
             loc'[u].key = loc'[w].key
      PROVE  u = w
  <2>1. /\ Unpublished(loc[u]) /\ loc'[u].key = loc[u].key
        /\ Unpublished(loc[w]) /\ loc'[w].key = loc[w].key
    BY <1>3 DEF Alone, SameKey
  <2>2. loc[u].key = loc[w].key  BY <1>3, <2>1, Zenon
  <2>3. QED  BY <2>1, <2>2, Zenon DEF Inv, KeysOK
<1>4. ASSUME NEW k \in Keys, keyStat[k] = "releasing"
      PROVE  \E u \in Threads : Frees(loc'[u]) /\ loc'[u].key = k
  <2>1. PICK u \in Threads : Frees(loc[u]) /\ loc[u].key = k  BY <1>4 DEF Inv, KeysOK
  <2>2. Frees(loc'[u]) /\ loc'[u].key = k  BY <2>1 DEF Alone, SameKey
  <2>3. QED  BY <2>2
<1>5. \A v, w \in Vars : \A k \in Keys : Owns(v, k)' /\ Owns(w, k)' => v = w
  BY <1>1 DEF Inv, KeysOK
<1>6. \A v \in Vars : \A k \in Keys : Owns(v, k)' => keyStat'[k] # "notUsed" /\ param'[k] = v
  BY <1>1 DEF Inv, KeysOK
<1>7. KeysOK'  BY <1>2, <1>3, <1>4, <1>5, <1>6 DEF KeysOK, Unpublished, Frees
<1>8. QED  BY <1>1, <1>7

\* Contents of heads and of keys that the step does not touch.
LEMMA HeadsStay ==
  ASSUME Inv, NEW t \in Threads, Alone(t), heads' = heads, made' = made, own' = own, tls' = tls,
         arrays' = arrays, HeadOK(t)',
         ~At(t, "gone") \/ loc'[t].pc = "gone",
         loc'[t].pc = "link" => At(t, "link") /\ loc'[t].idx = loc[t].idx
  PROVE  HeadsOK'
<1>1. ASSUME NEW u \in Threads PROVE HeadOK(u)'
  <2>1. CASE u = t  BY <2>1
  <2>2. CASE u # t
    <3>1. HeadOK(u) /\ loc'[u] = loc[u]  BY <2>2 DEF Alone, Inv, HeadsOK
    <3>2. QED  BY <3>1 DEF HeadOK, At, Exiting, Walks
  <2>3. QED  BY <2>1, <2>2
<1>2. \A u \in Threads : At(u, "gone") => loc'[u].pc = "gone"  BY DEF Alone, At
<1>3. \A u \in Threads : loc'[u].pc = "link" => At(u, "link") /\ loc'[u].idx = loc[u].idx
  BY DEF Alone, At
<1>4. \A u, w \in Threads :
        tls'[u] # None /\ tls'[u] = tls'[w] /\ ~At(u, "gone")' /\ ~At(w, "gone")' => u = w
  BY <1>2 DEF Inv, HeadsOK, At
<1>5. \A u, w \in Threads : At(u, "link")' /\ At(w, "link")' /\ loc'[u].idx = loc'[w].idx => u = w
  BY <1>3 DEF Inv, HeadsOK, At
<1>6. \A h \in Heads : own'[h] = "notUsed" => In(h, heads')  BY DEF Inv, HeadsOK
<1>7. QED  BY <1>1, <1>4, <1>5, <1>6 DEF HeadsOK

LEMMA MadeStays ==
  ASSUME Inv, NEW t \in Threads, Alone(t), made' = made, tls' = tls,
         loc'[t].pc = "link" <=> At(t, "link")
  PROVE  MadeOK'
<1>1. Makers' = Makers  BY DEF Makers, Alone, At
<1>2. QED  BY <1>1 DEF Inv, MadeOK

LEMMA CountsStay ==
  ASSUME Inv, NEW t \in Threads, Alone(t), keyStat' = keyStat, numFree' = numFree,
         loc[t].pc \notin {"count", "unused"}, loc'[t].pc \notin {"count", "unused"}
  PROVE  CountsOK'
<1>1. \A u \in Threads : \A k : loc'[u].pc \in {"count", "unused"} /\ loc'[u].key = k
                            <=> loc[u].pc \in {"count", "unused"} /\ loc[u].key = k
  BY DEF Alone
<1>2. \A a : FreeIn(a)' = FreeIn(a)  BY <1>1 DEF FreeIn
<1>3. QED  BY <1>2 DEF Inv, CountsOK

\* The contents, and what walks have found of them.
LEMMA ContentsGoOn ==
  ASSUME Inv, NEW t \in Threads, Alone(t), UNCHANGED <<arrays, stat, data, tls, tlsKey>>,
         \A v \in Vars : phase[v] = "gone" => phase'[v] = "gone",
         \A v, k : Owns(v, k)' <=> Owns(v, k), ~At(t, "clear"),
         \/ loc'[t].pc = "gone" => At(t, "gone")
         \/ \A h \in Heads, k \in Keys : tls[t] = h => ~Filled(h, k)
  PROVE  ContentsOK' /\ (live' = live => LiveOK')
<1>1. ASSUME NEW h \in Heads, NEW k \in Keys PROVE ContentOK(h, k)'
  <2>1. ContentOK(h, k)  BY DEF Inv, ContentsOK
  <2>2. \A u \in Threads : loc'[u].pc = "gone" => At(u, "gone") \/ (u = t /\ \A j \in Keys : tls[t] = h => ~Filled(h, j))
    <3>1. \A u \in Threads : u # t => loc'[u] = loc[u]  BY DEF Alone
    <3>2. (loc'[t].pc = "gone" => At(t, "gone")) \/ \A j \in Keys : tls[t] = h => ~Filled(h, j)  OBVIOUS
    <3>3. QED  BY <3>1, <3>2 DEF At
  <2>3. data[h][k] \in Data \cup {None}  BY DEF Inv, Types
  <2>4. stat[h][k] = "destructing" => \E u \in Threads : At(u, "clear")' /\ Spot(u)' = <<h, k>>
    <3>1. ASSUME stat[h][k] = "destructing" PROVE \E u \in Threads : At(u, "clear")' /\ Spot(u)' = <<h, k>>
      <4>1. PICK u \in Threads : At(u, "clear") /\ Spot(u) = <<h, k>>  BY <2>1, <3>1 DEF ContentOK
      <4>2. u # t  BY <4>1
      <4>3. loc'[u] = loc[u]  BY <4>2 DEF Alone
      <4>4. At(u, "clear")' /\ Spot(u)' = <<h, k>>  BY <4>1, <4>3 DEF At, Spot
      <4>5. QED  BY <4>4
    <3>2. QED  BY <3>1
  <2>5. data[h][k] # None => data[h][k][1] \in Threads /\ data[h][k][2] \in Vars  BY <2>3 DEF Data
  <2>6. Filled(h, k)' <=> Filled(h, k)  BY DEF Filled
  <2>7. Filled(h, k) => data[h][k] # None /\ loc'[data[h][k][1]].pc # "gone" /\ Owns(data[h][k][2], k)'
                        /\ In(ArrayOf(k), arrays[h])
    BY <2>1, <2>2, <2>5 DEF ContentOK, At
  <2>8. data[h][k] # None => tls[data[h][k][1]] = h
                             /\ (tlsKey[data[h][k][2]] = k \/ phase'[data[h][k][2]] = "gone")
    BY <2>1, <2>5 DEF ContentOK
  <2>9. QED  BY <2>4, <2>6, <2>7, <2>8 DEF ContentOK, At
<1>2. ContentsOK'  BY <1>1 DEF ContentsOK
<1>3. InUse' = InUse  BY DEF InUse
<1>4. live' = live => LiveOK'  BY <1>3 DEF Inv, LiveOK
<1>5. QED  BY <1>2, <1>4

LEMMA ContentsStay ==
  ASSUME Inv, NEW t \in Threads, Alone(t), UNCHANGED <<arrays, stat, data, tls, tlsKey>>,
         \A v \in Vars : phase'[v] = "gone" <=> phase[v] = "gone",
         \A v, k : Owns(v, k)' <=> Owns(v, k),
         loc'[t].pc = "gone" <=> At(t, "gone"), ~At(t, "clear")
  PROVE  ContentsOK' /\ (live' = live => LiveOK')
<1>1. \A v \in Vars : phase[v] = "gone" => phase'[v] = "gone"  OBVIOUS
<1>2. \/ loc'[t].pc = "gone" => At(t, "gone")
      \/ \A h \in Heads, k \in Keys : tls[t] = h => ~Filled(h, k)
  OBVIOUS
<1>3. QED  BY <1>1, <1>2, ContentsGoOn, Zenon

LEMMA WalksStay ==
  ASSUME Inv, NEW t \in Threads, Alone(t), stat' = stat, tls' = tls, WalkOK(t)'
  PROVE  WalksOK'
<1>1. ASSUME NEW u \in Threads, u # t PROVE WalkOK(u)'
  <2>1. WalkOK(u) /\ loc'[u] = loc[u]  BY <1>1 DEF Alone, Inv, WalksOK
  <2>2. \A h, k : Filled(h, k)' <=> Filled(h, k)  BY DEF Filled
  <2>3. Spot(u)' = Spot(u)  BY <2>1 DEF Spot
  <2>4. QED  BY <2>1, <2>2, <2>3 DEF WalkOK, Walks, Exiting
<1>2. QED  BY <1>1 DEF WalksOK

LEMMA LocalsStay ==
  ASSUME Inv, NEW t \in Threads, Alone(t), LocalOK(loc'[t]), loc'[t].pc = "push" => loc'[t].idx < nextBase',
         nextBase <= nextBase', nextBase' \in 0 .. MaxArrays
  PROVE  LocalsOK'
<1>1. ASSUME NEW u \in Threads PROVE LocalOK(loc'[u]) /\ (loc'[u].pc = "push" => loc'[u].idx < nextBase')
  <2>1. CASE u = t  BY <2>1
  <2>2. CASE u # t
    <3>1. LocalOK(loc[u]) /\ (loc[u].pc = "push" => loc[u].idx < nextBase)  BY DEF Inv, LocalsOK, At
    <3>2. loc'[u] = loc[u] /\ nextBase <= nextBase'  BY <2>2 DEF Alone
    <3>3. loc[u].pc = "push" => loc[u].idx \in Nat  BY <3>1 DEF LocalOK, IsLocal, Fields
    <3>4. nextBase \in Nat /\ nextBase' \in Nat  BY TlsAssumption DEF Inv, Types
    <3>5. loc[u].pc = "push" => loc[u].idx < nextBase'  BY <3>1, <3>2, <3>3, <3>4
    <3>6. QED  BY <3>1, <3>2, <3>5, Zenon
  <2>3. QED  BY <2>1, <2>2
<1>2. QED  BY <1>1 DEF LocalsOK, Alone, At, LocalOK, Calling, Destroying, Unpublished, HasKey, Frees, Exiting

\* A step that changes no key, head or content.
Quiet(t) ==
  /\ UNCHANGED <<keyStat, param, numFree, heads, made, own, contentVars, tls, mutex, tlsKey, phase, live>>
  /\ nextBase <= nextBase'
  /\ Alone(t) /\ LocalOK(loc'[t]) /\ (loc'[t].pc = "push" => loc'[t].idx < nextBase')
  /\ Depth(loc'[t]) = Depth(loc[t])
  /\ SameObject(t) /\ SameKey(t)
  /\ KeyOK(loc'[t]) /\ HeadOK(t)' /\ WalkOK(t)'
  /\ loc[t].pc \notin {"count", "unused", "clear", "gone"}
  /\ loc'[t].pc \notin {"count", "unused", "clear", "gone"}
  /\ loc'[t].pc = "link" <=> At(t, "link")
  /\ At(t, "link") => loc'[t].idx = loc[t].idx

LEMMA QuietKeeps ==
  ASSUME Inv, NEW t \in Threads, Quiet(t), Types', OwnData'
  PROVE  Inv'
<1>1. /\ Alone(t) /\ keyStat' = keyStat /\ param' = param /\ numFree' = numFree /\ heads' = heads
      /\ made' = made /\ own' = own /\ arrays' = arrays /\ stat' = stat /\ data' = data /\ tls' = tls
      /\ mutex' = mutex /\ tlsKey' = tlsKey /\ phase' = phase /\ live' = live
  BY DEF Quiet, contentVars
<1>2. LocalsOK'  BY <1>1, LocalsStay DEF Quiet, Types
<1>3. MutexOK'  BY <1>1, MutexStays DEF Quiet
<1>4. VarsOK'  BY <1>1, VarsStay DEF Quiet
<1>5. KeysOK' /\ \A v, k : Owns(v, k)' <=> Owns(v, k)  BY <1>1, KeysStay DEF Quiet
<1>6. HeadsOK'  BY <1>1, HeadsStay DEF Quiet, At
<1>7. MadeOK'  BY <1>1, MadeStays DEF Quiet
<1>8. ContentsOK' /\ LiveOK'
  <2>1. (loc'[t].pc = "gone" <=> At(t, "gone")) /\ ~At(t, "clear")  BY DEF Quiet, At
  <2>2. QED  BY <1>1, <1>5, <2>1, ContentsStay
<1>9. WalksOK'  BY <1>1, WalksStay DEF Quiet
<1>10. CountsOK'  BY <1>1, CountsStay DEF Quiet
<1>11. QED  BY <1>2, <1>3, <1>4, <1>5, <1>6, <1>7, <1>8, <1>9, <1>10 DEF Inv

LEMMA TypesStay ==
  ASSUME Inv, UNCHANGED <<keyStat, param, hint, keyChain, nextBase, heads, made, own, arrays, stat, data, tls,
                          tlsKey, phase, live, answer>>,
         script' \in [Threads -> Seq(Ops \X Vars)]
  PROVE  Types' /\ OwnData'
<1>1. Types'  BY DEF Inv, Types
<1>2. OwnData'  BY DEF Inv, OwnData
<1>3. QED  BY <1>1, <1>2

-----------------------------------------------------------------------------
(* A call looks for its key and its head                                   *)

LEMMA IdleIs ==
  /\ IsLocal(Idle) /\ Idle.pc = "idle" /\ Idle.op = "get" /\ Idle.var = None /\ Idle.key = None
  /\ Idle.todo = <<>> /\ Idle.idx = 0 /\ Idle.back = None /\ Idle.up = None
  /\ LocalOK(Idle)
<1>1. <<>> \in Seq(Nat)  OBVIOUS
<1>2. IsLocal(Idle)  BY <1>1 DEF Idle, IsLocal, Fields, Points, Ops
<1>3. /\ Idle.pc = "idle" /\ Idle.op = "get" /\ Idle.var = None /\ Idle.key = None
      /\ Idle.todo = <<>> /\ Idle.idx = 0 /\ Idle.back = None /\ Idle.up = None
  BY DEF Idle
<1>4. LocalOK(Idle)
  BY <1>2, <1>3 DEF LocalOK, Calling, Destroying, Unpublished, HasKey, Frees, Exiting, Seeking, Claiming,
                    Keyed, Releasing, Walking
<1>5. QED  BY <1>2, <1>3, <1>4

LEMMA LocalIs ==
  ASSUME Inv, NEW t \in Threads
  PROVE  /\ DOMAIN loc = Threads /\ LocalOK(loc[t]) /\ IsLocal(loc[t])
         /\ KeyOK(loc[t]) /\ HeadOK(t) /\ WalkOK(t)
BY DEF Inv, LocalsOK, LocalOK, KeysOK, HeadsOK, WalksOK

LEMMA ReturnIs ==
  ASSUME Inv, NEW t \in Threads, Return(t)
  PROVE  Alone(t) /\ loc'[t] = Idle
BY LocalIs DEF Return, Alone, IsLocal, Fields

LEMMA GotoIs ==
  ASSUME Inv, NEW t \in Threads, NEW p, Goto(t, p)
  PROVE  Alone(t) /\ loc'[t] = [loc[t] EXCEPT !.pc = p]
BY LocalIs DEF Goto, Alone

LEMMA WithKeyIs ==
  ASSUME Inv, NEW t \in Threads, NEW k \in Keys, WithKey(t, k), Calling(loc[t])
  PROVE  /\ Alone(t) /\ LocalOK(loc'[t])
         /\ loc'[t].pc = "check" /\ loc'[t].op = loc[t].op /\ loc'[t].var = loc[t].var /\ loc'[t].key = k
<1>1. LocalOK(loc[t]) /\ IsLocal(loc[t]) /\ DOMAIN loc = Threads  BY LocalIs
<1>2. /\ Alone(t)
      /\ loc'[t] = [Idle EXCEPT !.pc = "check", !.op = loc[t].op, !.var = loc[t].var,
                                !.key = k, !.up = loc[t].up]
  BY <1>1 DEF WithKey, Alone
<1>3. /\ IsLocal(loc'[t])
      /\ loc'[t].pc = "check" /\ loc'[t].op = loc[t].op /\ loc'[t].var = loc[t].var /\ loc'[t].key = k
  <2>1. /\ loc[t].op \in Ops \cup {"exit"} /\ loc[t].var \in Vars \cup {None} /\ loc[t].up = None
        /\ k \in Keys \cup {None} /\ "check" \in Points
    BY <1>1 DEF IsLocal, Fields, Points, Keyed
  <2>2. loc'[t] = [pc |-> "check", op |-> loc[t].op, var |-> loc[t].var, key |-> k, todo |-> <<>>,
                   idx |-> 0, try |-> 0, back |-> None, up |-> loc[t].up]
    BY <1>2, Zenon DEF Idle
  <2>3. IsLocal(loc'[t])  BY <2>1, <2>2 DEF IsLocal, Fields
  <2>4. QED  BY <2>2, <2>3
<1>4. loc[t].op \in {"get", "set"} /\ loc[t].var \in Vars  BY <1>1 DEF Calling, LocalOK
<1>5. LocalOK(loc'[t])
  BY <1>3, <1>4 DEF LocalOK, Calling, Destroying, Unpublished, HasKey, Frees, Exiting, Seeking, Claiming,
                    Keyed, Releasing, Walking
<1>6. QED  BY <1>2, <1>3, <1>5

\* A call without a lock goes from one place to another.
LEMMA CallGoesOn ==
  ASSUME Inv, NEW t \in Threads,
         UNCHANGED <<keyStat, param, numFree, heads, made, own, contentVars, tls, mutex, tlsKey, phase, live>>,
         nextBase <= nextBase', Alone(t), LocalOK(loc'[t]),
         loc'[t].pc = "push" => loc'[t].idx < nextBase',
         loc[t].pc \in Seeking \cup Keyed \cup {"idle"}, loc'[t].pc \in Seeking \cup Keyed \cup {"idle"},
         loc'[t].pc = "link" <=> At(t, "link"), At(t, "link") => loc'[t].idx = loc[t].idx,
         Calling(loc'[t]) => Calling(loc[t]) /\ loc'[t].var = loc[t].var,
         loc'[t].pc \in Keyed => tlsKey[loc'[t].var] = loc'[t].key,
         HeadOK(t)'
  PROVE  Quiet(t)
<1>1. LocalOK(loc[t])  BY LocalIs
<1>2. loc[t].op \in {"get", "set"} /\ loc'[t].op \in {"get", "set"}  BY <1>1 DEF LocalOK
<1>3. /\ ~Unpublished(loc[t]) /\ ~Unpublished(loc'[t]) /\ ~Frees(loc[t]) /\ ~Frees(loc'[t])
      /\ ~Exiting(loc[t]) /\ ~Exiting(loc'[t]) /\ ~Destroying(loc[t]) /\ ~Destroying(loc'[t])
      /\ ~Walks(loc'[t]) /\ (HasKey(loc'[t]) <=> loc'[t].pc \in Keyed)
  BY <1>2 DEF Unpublished, Frees, Exiting, Destroying, HasKey, Seeking, Claiming, Keyed, Releasing, Walking, Walks
<1>4. Depth(loc[t]) = 0 /\ Depth(loc'[t]) = 0  BY <1>3 DEF Depth
<1>5. SameObject(t)  BY <1>3 DEF SameObject
<1>6. loc[t].pc \notin {"null", "count", "unused", "clear", "gone", "publish"}
      /\ loc'[t].pc \notin {"null", "count", "unused", "clear", "gone", "publish"}
  BY DEF Seeking, Keyed
<1>7. SameKey(t)  BY <1>3, <1>6 DEF SameKey, At
<1>8. KeyOK(loc'[t])  BY <1>3, <1>6 DEF KeyOK
<1>9. WalkOK(t)'  BY <1>3, <1>6 DEF WalkOK, Walks, Exiting
<1>10. QED  BY <1>4, <1>5, <1>6, <1>7, <1>8, <1>9 DEF Quiet

LEMMA LoadKeyKeeps ==
  ASSUME Inv, NEW t \in Threads, LoadKey(t)
  PROVE  Inv'
<1>1. LocalOK(loc[t]) /\ IsLocal(loc[t]) /\ DOMAIN loc = Threads /\ HeadOK(t)  BY LocalIs
<1>2. loc[t].pc \in {"key", "reload"} /\ Calling(loc[t]) /\ loc[t].var \in Vars
  BY <1>1 DEF LoadKey, At, LocalOK, Calling, Seeking
<1>3. tlsKey[loc[t].var] \in Keys \cup {None}  BY <1>2 DEF Inv, Types
<1>4. /\ UNCHANGED <<keyStat, param, numFree, heads, made, own, contentVars, tls, mutex, tlsKey, phase, live>>
      /\ UNCHANGED <<hint, keyChain, nextBase, arrays, stat, data, answer, script>>
  BY DEF LoadKey, keyVars, headVars, contentVars, histVars
<1>5. /\ Alone(t) /\ LocalOK(loc'[t]) /\ loc'[t].pc \in {"check", "scan", "idle"}
      /\ Calling(loc'[t]) => loc'[t].var = loc[t].var
      /\ loc'[t].pc = "check" => tlsKey[loc'[t].var] = loc'[t].key
  <2>1. CASE tlsKey[loc[t].var] # None
    <3>1. WithKey(t, tlsKey[loc[t].var]) /\ tlsKey[loc[t].var] \in Keys  BY <1>3, <2>1 DEF LoadKey
    <3>2. QED  BY <1>2, <3>1, WithKeyIs
  <2>2. CASE tlsKey[loc[t].var] = None /\ At(t, "key")
    <3>1. Goto(t, "scan")  BY <2>2 DEF LoadKey
    <3>2. Alone(t) /\ loc'[t] = [loc[t] EXCEPT !.pc = "scan"]  BY <3>1, GotoIs
    <3>3. /\ IsLocal(loc'[t]) /\ loc'[t].pc = "scan" /\ loc'[t].op = loc[t].op /\ loc'[t].var = loc[t].var
      BY <1>1, <3>2 DEF IsLocal, Fields, Points, Seeking
    <3>4. LocalOK(loc'[t])
      BY <1>1, <1>2, <3>3 DEF LocalOK, Calling, Destroying, Unpublished, HasKey, Frees, Exiting, Seeking, Claiming,
                              Keyed, Releasing, Walking
    <3>5. QED  BY <3>2, <3>3, <3>4
  <2>3. CASE tlsKey[loc[t].var] = None /\ ~At(t, "key")
    <3>1. Return(t)  BY <2>3 DEF LoadKey
    <3>2. QED  BY <3>1, ReturnIs, IdleIs DEF Calling
  <2>4. QED  BY <2>1, <2>2, <2>3
<1>6. HeadOK(t)'
  BY <1>1, <1>2, <1>4, <1>5 DEF HeadOK, At, LocalOK, Exiting, Walks, Walking
<1>7. nextBase <= nextBase  BY TlsAssumption DEF Inv, Types
<1>8. Quiet(t)  BY <1>2, <1>4, <1>5, <1>6, <1>7, CallGoesOn DEF Seeking, Keyed, At
<1>9. Types' /\ OwnData'
  <2>1. script' \in [Threads -> Seq(Ops \X Vars)]  BY <1>4 DEF Inv, Types
  <2>2. QED  BY <1>4, <2>1, TypesStay
<1>10. QED  BY <1>8, <1>9, QuietKeeps

\* A call without a key goes on.
LEMMA SeekingGoesOn ==
  ASSUME Inv, NEW t \in Threads,
         UNCHANGED <<keyStat, param, numFree, heads, made, own, contentVars, tls, mutex, tlsKey, phase, live, answer>>,
         Types', nextBase <= nextBase', Alone(t), LocalOK(loc'[t]),
         loc'[t].pc = "push" => loc'[t].idx < nextBase',
         loc[t].pc \in Seeking, loc'[t].pc \in Seeking, loc'[t].var = loc[t].var
  PROVE  Inv'
<1>1. LocalOK(loc[t]) /\ HeadOK(t)  BY LocalIs
<1>2. loc[t].op \in {"get", "set"} /\ loc'[t].op \in {"get", "set"}  BY <1>1 DEF LocalOK
<1>3. Calling(loc[t])  BY <1>2 DEF Calling, Seeking
<1>4. loc[t].pc \notin Keyed /\ loc'[t].pc \notin Keyed /\ loc[t].pc # "link" /\ loc'[t].pc # "link"
  BY DEF Seeking, Keyed
<1>5. loc'[t].pc \notin Walking \cup {"gone", "find", "get", "set", "head", "link"} /\ ~At(t, "gone")
  BY DEF Seeking, Walking, At
<1>6. HeadOK(t)'  BY <1>1, <1>2, <1>5 DEF HeadOK, At, Exiting, Walks
<1>7. Quiet(t)  BY <1>3, <1>4, <1>6, CallGoesOn DEF At
<1>8. OwnData'  BY DEF Inv, OwnData
<1>9. QED  BY <1>7, <1>8, QuietKeeps

LEMMA ScanArraysKeeps ==
  ASSUME Inv, NEW t \in Threads, ScanArrays(t)
  PROVE  Inv'
<1>1. LocalOK(loc[t]) /\ IsLocal(loc[t]) /\ DOMAIN loc = Threads  BY LocalIs
<1>2. /\ UNCHANGED <<keyStat, param, numFree, heads, made, own, contentVars, tls, mutex, tlsKey, phase, live, answer>>
      /\ UNCHANGED <<hint, keyChain, nextBase, arrays, stat, data, script>>
  BY DEF ScanArrays, keyVars, headVars, contentVars, histVars
<1>3. Types'
  <2>1. script' \in [Threads -> Seq(Ops \X Vars)]  BY <1>2 DEF Inv, Types
  <2>2. QED  BY <1>2, <2>1, TypesStay
<1>4. keyChain \in Seq(Arrays) /\ keyChain \in Seq(Nat)
  <2>1. keyChain \in Seq(0 .. nextBase - 1) /\ nextBase \in 0 .. MaxArrays  BY DEF Inv, Types
  <2>2. MaxArrays \in Nat  BY TlsAssumption
  <2>3. 0 .. nextBase - 1 \subseteq Arrays /\ 0 .. nextBase - 1 \subseteq Nat  BY <2>1, <2>2 DEF Arrays
  <2>4. QED  BY <2>1, <2>3
<1>5. /\ Alone(t) /\ loc'[t] = [loc[t] EXCEPT !.pc = "array", !.todo = keyChain] /\ loc[t].pc = "scan"
  BY <1>1 DEF ScanArrays, Alone, At
<1>6. /\ IsLocal(loc'[t]) /\ loc'[t].pc = "array" /\ loc'[t].op = loc[t].op /\ loc'[t].var = loc[t].var
      /\ loc'[t].todo = keyChain
  BY <1>1, <1>4, <1>5 DEF IsLocal, Fields, Points, Seeking
<1>7. LocalOK(loc'[t])
  BY <1>1, <1>4, <1>5, <1>6 DEF LocalOK, Calling, Destroying, Unpublished, HasKey, Frees, Exiting, Seeking, Claiming,
                                Keyed, Releasing, Walking
<1>8. nextBase <= nextBase' /\ loc[t].pc \in Seeking /\ loc'[t].pc \in Seeking /\ loc'[t].pc # "push"
  BY <1>2, <1>5, <1>6, TlsAssumption DEF Seeking, Inv, Types
<1>9. QED  BY <1>2, <1>3, <1>5, <1>6, <1>7, <1>8, SeekingGoesOn, Zenon

LEMMA SeekingLocal ==
  ASSUME NEW l, LocalOK(l), l.pc \in Seeking, NEW m, IsLocal(m), m.pc \in Seeking, m.op = l.op, m.var = l.var,
         m.pc \in {"array", "claim"} => m.todo \in Seq(Arrays),
         m.pc = "claim" => m.todo # <<>> /\ m.idx < ArraySize
  PROVE  LocalOK(m)
<1>1. m.op \in {"get", "set"} /\ Calling(l)  BY DEF LocalOK, Calling, Seeking
<1>2. m.var \in Vars  BY <1>1 DEF LocalOK
<1>3. QED
  BY <1>1, <1>2 DEF LocalOK, Calling, Destroying, Unpublished, HasKey, Frees, Exiting, Seeking, Claiming,
                    Keyed, Releasing, Walking

LEMMA TryArrayKeeps ==
  ASSUME Inv, NEW t \in Threads, TryArray(t)
  PROVE  Inv'
<1>1. LocalOK(loc[t]) /\ IsLocal(loc[t]) /\ DOMAIN loc = Threads  BY LocalIs
<1>2. /\ UNCHANGED <<keyStat, param, numFree, heads, made, own, contentVars, tls, mutex, tlsKey, phase, live, answer>>
      /\ UNCHANGED <<hint, keyChain, nextBase, arrays, stat, data, script>>
  BY DEF TryArray, keyVars, headVars, contentVars, histVars
<1>3. Types'
  <2>1. script' \in [Threads -> Seq(Ops \X Vars)]  BY <1>2 DEF Inv, Types
  <2>2. QED  BY <1>2, <2>1, TypesStay
<1>4. loc[t].pc = "array" /\ loc[t].todo \in Seq(Arrays)  BY <1>1 DEF TryArray, At, LocalOK
<1>5. /\ Alone(t) /\ loc'[t].op = loc[t].op /\ loc'[t].var = loc[t].var /\ IsLocal(loc'[t])
      /\ loc'[t].pc \in {"base", "array", "claim"}
      /\ loc'[t].pc \in {"array", "claim"} => loc'[t].todo \in Seq(Arrays)
      /\ loc'[t].pc = "claim" => loc'[t].todo # <<>> /\ loc'[t].idx < ArraySize
  <2>1. CASE loc[t].todo = <<>>
    <3>1. Goto(t, "base")  BY <2>1 DEF TryArray
    <3>2. Alone(t) /\ loc'[t] = [loc[t] EXCEPT !.pc = "base"]  BY <3>1, GotoIs
    <3>3. QED  BY <1>1, <3>2 DEF IsLocal, Fields, Points, Seeking
  <2>2. CASE loc[t].todo # <<>> /\ numFree[Head(loc[t].todo)] = 0
    <3>1. loc' = [loc EXCEPT ![t].todo = Tail(@)]  BY <2>2 DEF TryArray
    <3>2. Alone(t) /\ loc'[t] = [loc[t] EXCEPT !.todo = Tail(loc[t].todo)]  BY <1>1, <3>1 DEF Alone
    <3>3. Tail(loc[t].todo) \in Seq(Arrays) /\ Tail(loc[t].todo) \in Seq(Nat)
      BY <1>1, <1>4, <2>2, HeadAndTail DEF IsLocal
    <3>4. QED  BY <1>1, <1>4, <3>2, <3>3 DEF IsLocal, Fields, Points, Seeking
  <2>3. CASE loc[t].todo # <<>> /\ numFree[Head(loc[t].todo)] # 0
    <3>1. loc' = [loc EXCEPT ![t].pc = "claim", ![t].idx = hint[Head(loc[t].todo)], ![t].try = 0]
      BY <2>3 DEF TryArray
    <3>2. Alone(t) /\ loc'[t] = [loc[t] EXCEPT !.pc = "claim", !.idx = hint[Head(loc[t].todo)], !.try = 0]
      BY <1>1, <3>1 DEF Alone
    <3>3. Head(loc[t].todo) \in Arrays  BY <1>4, <2>3, HeadAndTail
    <3>4. hint[Head(loc[t].todo)] \in Nat /\ hint[Head(loc[t].todo)] < ArraySize
      BY <3>3, TlsAssumption DEF Inv, Types
    <3>5. QED  BY <1>1, <1>4, <2>3, <3>2, <3>4 DEF IsLocal, Fields, Points, Seeking
  <2>4. QED  BY <2>1, <2>2, <2>3
<1>6. loc[t].pc \in Seeking /\ loc'[t].pc \in Seeking /\ loc'[t].pc # "push"  BY <1>4, <1>5 DEF Seeking
<1>7. LocalOK(loc'[t])  BY <1>1, <1>5, <1>6, SeekingLocal
<1>8. nextBase <= nextBase'  BY <1>2, TlsAssumption DEF Inv, Types
<1>9. QED  BY <1>2, <1>3, <1>5, <1>6, <1>7, <1>8, SeekingGoesOn, Zenon

LEMMA NewArrayKeeps ==
  ASSUME Inv, NEW t \in Threads, NewArray(t)
  PROVE  Inv'
<1>1. LocalOK(loc[t]) /\ IsLocal(loc[t]) /\ DOMAIN loc = Threads  BY LocalIs
<1>2. /\ UNCHANGED <<keyStat, param, numFree, heads, made, own, contentVars, tls, mutex, tlsKey, phase, live, answer>>
      /\ UNCHANGED <<hint, keyChain, arrays, stat, data, script>>
      /\ nextBase' = nextBase + 1
  BY DEF NewArray, headVars, contentVars, histVars
<1>3. nextBase \in Nat /\ nextBase < MaxArrays /\ MaxArrays \in Nat  BY TlsAssumption DEF Inv, Types, NewArray
<1>4. keyChain \in Seq(Nat) /\ keyChain \in Seq(0 .. nextBase)
  <2>1. keyChain \in Seq(0 .. nextBase - 1) /\ 0 .. nextBase - 1 \subseteq Nat /\ 0 .. nextBase - 1 \subseteq 0 .. nextBase
    BY <1>3 DEF Inv, Types
  <2>2. QED  BY <2>1, SeqOfMore, Zenon
<1>5. Types'
  <2>1. nextBase' \in 0 .. MaxArrays /\ keyChain' \in Seq(0 .. nextBase' - 1)  BY <1>2, <1>3, <1>4
  <2>2. QED  BY <1>2, <2>1 DEF Inv, Types
<1>6. /\ Alone(t) /\ loc[t].pc = "base"
      /\ loc'[t] = [loc[t] EXCEPT !.pc = "push", !.idx = nextBase, !.todo = keyChain]
  BY <1>1 DEF NewArray, Alone, At
<1>7. /\ loc'[t].op = loc[t].op /\ loc'[t].var = loc[t].var /\ IsLocal(loc'[t])
      /\ loc'[t].pc = "push" /\ loc'[t].idx = nextBase
  BY <1>1, <1>3, <1>4, <1>6 DEF IsLocal, Fields, Points, Seeking
<1>8. loc[t].pc \in Seeking /\ loc'[t].pc \in Seeking  BY <1>6, <1>7 DEF Seeking
<1>9. LocalOK(loc'[t])  BY <1>1, <1>7, <1>8, SeekingLocal
<1>10. nextBase <= nextBase' /\ loc'[t].idx < nextBase'  BY <1>2, <1>3, <1>7
<1>11. QED  BY <1>2, <1>5, <1>6, <1>7, <1>8, <1>9, <1>10, SeekingGoesOn, Zenon

LEMMA PushArrayKeeps ==
  ASSUME Inv, NEW t \in Threads, PushArray(t)
  PROVE  Inv'
<1>1. LocalOK(loc[t]) /\ IsLocal(loc[t]) /\ DOMAIN loc = Threads  BY LocalIs
<1>2. /\ UNCHANGED <<keyStat, param, numFree, heads, made, own, contentVars, tls, mutex, tlsKey, phase, live, answer>>
      /\ UNCHANGED <<hint, nextBase, arrays, stat, data, script>>
  BY DEF PushArray, headVars, contentVars, histVars
<1>3. nextBase \in Nat /\ nextBase <= MaxArrays /\ MaxArrays \in Nat /\ keyChain \in Seq(0 .. nextBase - 1)
  BY TlsAssumption DEF Inv, Types
<1>4. loc[t].pc = "push" /\ loc[t].idx \in 0 .. nextBase - 1
  BY <1>1, <1>3 DEF PushArray, At, Inv, LocalsOK, IsLocal
<1>5. keyChain \in Seq(Nat)
  <2>1. 0 .. nextBase - 1 \subseteq Nat  BY <1>3
  <2>2. QED  BY <1>3, <2>1
<1>6. /\ keyChain' \in Seq(0 .. nextBase - 1)
      /\ Alone(t) /\ loc'[t].op = loc[t].op /\ loc'[t].var = loc[t].var /\ IsLocal(loc'[t])
      /\ loc'[t].pc \in {"scan", "push"} /\ loc'[t].idx = loc[t].idx
  <2>1. CASE keyChain = loc[t].todo
    <3>1. keyChain' = <<loc[t].idx>> \o keyChain /\ Goto(t, "scan")  BY <2>1 DEF PushArray
    <3>2. Alone(t) /\ loc'[t] = [loc[t] EXCEPT !.pc = "scan"]  BY <3>1, GotoIs
    <3>3. keyChain' \in Seq(0 .. nextBase - 1)  BY <1>3, <1>4, <3>1, Front
    <3>4. QED  BY <1>1, <3>2, <3>3 DEF IsLocal, Fields, Points, Seeking
  <2>2. CASE keyChain # loc[t].todo
    <3>1. keyChain' = keyChain /\ loc' = [loc EXCEPT ![t].todo = keyChain]  BY <2>2 DEF PushArray
    <3>2. Alone(t) /\ loc'[t] = [loc[t] EXCEPT !.todo = keyChain]  BY <1>1, <3>1 DEF Alone
    <3>3. QED  BY <1>1, <1>3, <1>4, <1>5, <3>1, <3>2 DEF IsLocal, Fields, Points, Seeking
  <2>3. QED  BY <2>1, <2>2
<1>7. Types'
  <2>1. nextBase' \in 0 .. MaxArrays /\ keyChain' \in Seq(0 .. nextBase' - 1)  BY <1>2, <1>3, <1>6
  <2>2. QED  BY <1>2, <2>1 DEF Inv, Types
<1>8. loc[t].pc \in Seeking /\ loc'[t].pc \in Seeking /\ loc'[t].pc \notin {"array", "claim"}
  BY <1>4, <1>6 DEF Seeking
<1>9. LocalOK(loc'[t])  BY <1>1, <1>6, <1>8, SeekingLocal
<1>10. nextBase <= nextBase' /\ loc'[t].idx < nextBase'  BY <1>2, <1>3, <1>4, <1>6
<1>11. QED  BY <1>2, <1>6, <1>7, <1>8, <1>9, <1>10, SeekingGoesOn, Zenon

LEMMA SkipKeeps ==
  ASSUME Inv, NEW t \in Threads, Skip(t)
  PROVE  Inv'
<1>1. /\ UNCHANGED <<keyStat, param, numFree, heads, made, own, contentVars, tls, mutex, tlsKey, phase, live, answer>>
      /\ UNCHANGED <<hint, keyChain, nextBase, arrays, stat, data, loc>>
  BY DEF Skip, keyVars, headVars, contentVars, histVars
<1>2. loc[t].pc = "idle" /\ Alone(t) /\ loc'[t] = loc[t] /\ LocalOK(loc[t]) /\ HeadOK(t) /\ WalkOK(t) /\ KeyOK(loc[t])
  BY <1>1, LocalIs DEF Skip, At, Alone
<1>3. Types' /\ OwnData'
  <2>1. script[t] \in Seq(Ops \X Vars) /\ script[t] # <<>>  BY DEF Skip, Inv, Types
  <2>2. Tail(script[t]) \in Seq(Ops \X Vars)  BY <2>1, HeadAndTail
  <2>3. script' = [script EXCEPT ![t] = Tail(script[t])]  BY DEF Skip
  <2>4. script' \in [Threads -> Seq(Ops \X Vars)]  BY <2>2, <2>3 DEF Inv, Types
  <2>5. QED  BY <1>1, <2>4, TypesStay
<1>4. HeadOK(t)'  BY <1>1, <1>2 DEF HeadOK, At, Walks, Exiting
<1>5. nextBase <= nextBase'  BY <1>1, TlsAssumption DEF Inv, Types
<1>6. ~Calling(loc[t]) /\ loc[t].pc \notin Keyed  BY <1>2 DEF Calling, Keyed
<1>7. Quiet(t)
  BY <1>1, <1>2, <1>4, <1>5, <1>6, CallGoesOn DEF At
<1>8. QED  BY <1>3, <1>7, QuietKeeps

\* A call of the script begins.
LEMMA BeginKeeps ==
  ASSUME Inv, NEW t \in Threads, Begin(t)
  PROVE  Inv'
<1>1. LocalOK(loc[t]) /\ IsLocal(loc[t]) /\ DOMAIN loc = Threads /\ HeadOK(t) /\ KeyOK(loc[t]) /\ loc[t].pc = "idle"
  BY LocalIs DEF Begin, At
<1>2. loc[t].op \in {"get", "set"}  BY <1>1 DEF LocalOK
<1>3. /\ UNCHANGED <<keyStat, param, numFree, heads, made, own, arrays, stat, data, tls, mutex, tlsKey, live>>
      /\ UNCHANGED <<hint, keyChain, nextBase>>
  BY DEF Begin, keyVars, headVars, contentVars
<1> DEFINE op == Head(script[t])[1]
           v == Head(script[t])[2]
<1>4. op \in Ops /\ v \in Vars /\ Tail(script[t]) \in Seq(Ops \X Vars)
  <2>1. script[t] \in Seq(Ops \X Vars) /\ script[t] # <<>>  BY DEF Begin, Inv, Types
  <2>2. Head(script[t]) \in Ops \X Vars /\ Tail(script[t]) \in Seq(Ops \X Vars)  BY <2>1, HeadAndTail
  <2>3. QED  BY <2>2
<1>5. /\ phase[v] = "alive"
      /\ op = "destroy" => MayDestroy(v)
      /\ loc' = [loc EXCEPT ![t].op = op, ![t].var = v, ![t].pc = IF op = "destroy" THEN "destroy" ELSE "key"]
      /\ phase' = IF op = "destroy" THEN [phase EXCEPT ![v] = "dying"] ELSE phase
      /\ script' = [script EXCEPT ![t] = Tail(script[t])]
      /\ answer' = [answer EXCEPT ![t] = None]
  BY DEF Begin
<1> HIDE DEF op, v
<1>6. /\ Alone(t) /\ IsLocal(loc'[t]) /\ loc'[t].op = op /\ loc'[t].var = v
      /\ loc'[t].pc = IF op = "destroy" THEN "destroy" ELSE "key"
  BY <1>1, <1>4, <1>5 DEF Alone, IsLocal, Fields, Points, Seeking
<1>7. LocalOK(loc'[t])
  BY <1>4, <1>6 DEF LocalOK, Ops, Calling, Destroying, Unpublished, HasKey, Frees, Exiting, Seeking, Claiming,
                    Keyed, Releasing, Walking
<1>8. Types'
  <2>1. phase' \in [Vars -> {"alive", "dying", "gone"}]  BY <1>4, <1>5 DEF Inv, Types
  <2>2. script' \in [Threads -> Seq(Ops \X Vars)]  BY <1>4, <1>5 DEF Inv, Types
  <2>3. DOMAIN answer' = Threads  BY <1>5 DEF Inv, Types
  <2>4. QED  BY <1>3, <2>1, <2>2, <2>3 DEF Inv, Types
<1>9. OwnData'
  <2>1. \A u \in Threads : answer'[u] = IF u = t THEN None ELSE answer[u]  BY <1>5 DEF Inv, Types
  <2>2. QED  BY <2>1 DEF Inv, OwnData
<1>10. /\ ~Unpublished(loc[t]) /\ ~Unpublished(loc'[t]) /\ ~Frees(loc[t]) /\ ~Frees(loc'[t])
       /\ ~Exiting(loc[t]) /\ ~Exiting(loc'[t]) /\ ~Destroying(loc[t]) /\ ~Calling(loc[t])
       /\ ~Walks(loc'[t]) /\ ~HasKey(loc[t]) /\ ~HasKey(loc'[t])
       /\ (Destroying(loc'[t]) <=> op = "destroy")
  BY <1>1, <1>2, <1>4, <1>6 DEF Unpublished, Frees, Exiting, Destroying, HasKey, Seeking, Claiming, Keyed, Releasing,
                                Walking, Walks, Calling, Ops
<1>11. LocalsOK'
  <2>1. loc'[t].pc # "push" /\ nextBase <= nextBase' /\ nextBase' \in 0 .. MaxArrays
    BY <1>3, <1>6, TlsAssumption DEF Inv, Types
  <2>2. QED  BY <1>6, <1>7, <2>1, LocalsStay
<1>12. MutexOK'
  <2>1. Depth(loc'[t]) = Depth(loc[t])  BY <1>10 DEF Depth
  <2>2. QED  BY <1>3, <1>6, <2>1, MutexStays
<1>13. VarsOK'
  <2>1. ASSUME NEW u \in Threads
        PROVE  /\ Calling(loc'[u]) => phase'[loc'[u].var] = "alive"
               /\ Destroying(loc'[u]) => phase'[loc'[u].var] = "dying"
    <3>1. CASE u = t
      <4>1. CASE op = "destroy"
        <5>1. ~Calling(loc'[t])  BY <1>6, <4>1 DEF Calling
        <5>2. phase'[v] = "dying"  BY <1>4, <1>5, <4>1 DEF Inv, Types
        <5>3. QED  BY <1>6, <3>1, <5>1, <5>2
      <4>2. CASE op # "destroy"  BY <1>5, <1>6, <1>10, <3>1, <4>2
      <4>3. QED  BY <4>1, <4>2
    <3>2. CASE u # t
      <4>1. loc'[u] = loc[u]  BY <1>6, <3>2 DEF Alone
      <4>2. /\ Calling(loc[u]) => phase[loc[u].var] = "alive"
            /\ Destroying(loc[u]) => phase[loc[u].var] = "dying"
        BY DEF Inv, VarsOK
      <4>3. Calling(loc[u]) \/ Destroying(loc[u]) => loc[u].var \in Vars  BY LocalIs DEF LocalOK
      <4>4. op = "destroy" => loc[u].var # v  BY <1>5 DEF MayDestroy
      <4>5. op = "destroy" => \A w \in Vars : w # v => phase'[w] = phase[w]  BY <1>5 DEF Inv, Types
      <4>6. op # "destroy" => phase' = phase  BY <1>5
      <4>7. QED  BY <4>1, <4>2, <4>3, <4>4, <4>5, <4>6
    <3>3. QED  BY <3>1, <3>2
  <2>2. ASSUME NEW u \in Threads, NEW w \in Threads, Destroying(loc'[u]), Destroying(loc'[w]), loc'[u].var = loc'[w].var
        PROVE  u = w
    <3>1. \A z \in Threads : z # t => loc'[z] = loc[z] /\ (op = "destroy" => loc[z].var # v)
      BY <1>5, <1>6 DEF Alone, MayDestroy
    <3>2. CASE u # t /\ w # t  BY <2>2, <3>1, <3>2 DEF Inv, VarsOK
    <3>3. CASE u = t \/ w = t  BY <1>6, <1>10, <2>2, <3>1, <3>3
    <3>4. QED  BY <3>2, <3>3
  <2>3. \A w \in Vars : tlsKey'[w] # None => phase'[w] # "gone"
    <3>1. \A w \in Vars : phase'[w] = phase[w] \/ phase'[w] = "dying"  BY <1>5 DEF Inv, Types
    <3>2. QED  BY <1>3, <3>1 DEF Inv, VarsOK
  <2>4. QED  BY <2>1, <2>2, <2>3 DEF VarsOK, Calling, Destroying
<1>14. KeysOK' /\ \A w, k : Owns(w, k)' <=> Owns(w, k)
  <2>1. SameKey(t)  BY <1>1, <1>6, <1>10 DEF SameKey, At
  <2>2. KeyOK(loc'[t])  BY <1>6, <1>10 DEF KeyOK
  <2>3. QED  BY <1>3, <1>6, <2>1, <2>2, KeysStay
<1>15. HeadsOK'
  <2>1. HeadOK(t)'  BY <1>1, <1>3, <1>6, <1>10 DEF HeadOK, At
  <2>2. QED  BY <1>1, <1>3, <1>6, <2>1, HeadsStay DEF At
<1>16. MadeOK'
  <2>1. loc'[t].pc = "link" <=> At(t, "link")  BY <1>1, <1>6 DEF At
  <2>2. QED  BY <1>3, <1>6, <2>1, MadeStays
<1>17. ContentsOK' /\ LiveOK'
  <2>1. \A w \in Vars : phase'[w] = "gone" <=> phase[w] = "gone"  BY <1>4, <1>5 DEF Inv, Types
  <2>2. (loc'[t].pc = "gone" <=> At(t, "gone")) /\ ~At(t, "clear")  BY <1>1, <1>6 DEF At
  <2>3. QED  BY <1>3, <1>6, <1>14, <2>1, <2>2, ContentsStay
<1>18. WalksOK'
  <2>1. WalkOK(t)'  BY <1>6, <1>10 DEF WalkOK, Walks, Exiting
  <2>2. QED  BY <1>3, <1>6, <2>1, WalksStay
<1>19. CountsOK'  BY <1>1, <1>3, <1>6, CountsStay
<1>20. QED
  BY <1>8, <1>9, <1>11, <1>12, <1>13, <1>14, <1>15, <1>16, <1>17, <1>18, <1>19 DEF Inv

-----------------------------------------------------------------------------
(* A key is claimed                                                        *)

\* What a call leaves alone while it claims a key.
LEMMA CallParts ==
  ASSUME Inv, NEW t \in Threads,
         UNCHANGED <<heads, made, own, arrays, stat, data, tls, mutex, tlsKey, phase, live, nextBase, answer>>,
         Alone(t), LocalOK(loc'[t]), Calling(loc[t]), loc'[t].op = loc[t].op, loc'[t].var = loc[t].var,
         loc[t].pc \in Seeking \cup Claiming \cup {"release"}, loc'[t].pc \in Seeking \cup Claiming \cup {"release"},
         loc'[t].pc # "push"
  PROVE  /\ LocalsOK' /\ MutexOK' /\ VarsOK' /\ HeadsOK' /\ MadeOK' /\ ContentsOK' /\ LiveOK' /\ WalksOK' /\ OwnData'
         /\ \A v, k : Owns(v, k)' <=> Owns(v, k)
<1>1. LocalOK(loc[t]) /\ HeadOK(t)  BY LocalIs
<1>2. loc[t].op \in {"get", "set"} /\ loc'[t].op \in {"get", "set"}  BY DEF Calling
<1>3. /\ loc[t].pc \notin Walking \cup {"gone", "idle", "head", "link", "find", "get", "set", "null", "unused", "clear"}
      /\ loc'[t].pc \notin Walking \cup {"gone", "idle", "head", "link", "find", "get", "set", "null", "unused", "clear"}
      /\ loc[t].pc \notin Releasing /\ loc'[t].pc \notin Releasing
  BY DEF Seeking, Claiming, Walking, Releasing
<1>4. /\ ~Frees(loc[t]) /\ ~Frees(loc'[t]) /\ ~Exiting(loc[t]) /\ ~Exiting(loc'[t])
      /\ ~Destroying(loc[t]) /\ ~Destroying(loc'[t]) /\ ~Walks(loc'[t])
  BY <1>2, <1>3 DEF Frees, Exiting, Destroying, Walks
<1>5. LocalsOK'
  <2>1. nextBase <= nextBase' /\ nextBase' \in 0 .. MaxArrays  BY TlsAssumption DEF Inv, Types
  <2>2. QED  BY <2>1, LocalsStay
<1>6. MutexOK'
  <2>1. Depth(loc'[t]) = Depth(loc[t])  BY <1>4 DEF Depth
  <2>2. QED  BY <2>1, MutexStays
<1>7. VarsOK'
  <2>1. SameObject(t)  BY <1>4 DEF SameObject
  <2>2. QED  BY <2>1, VarsStay
<1>8. \A v, k : Owns(v, k)' <=> Owns(v, k)  BY <1>3, PastStays DEF Owns, At
<1>9. HeadsOK'
  <2>1. HeadOK(t)'  BY <1>1, <1>3, <1>4 DEF HeadOK, At
  <2>2. QED  BY <1>3, <2>1, HeadsStay DEF At
<1>10. MadeOK'
  <2>1. loc'[t].pc = "link" <=> At(t, "link")  BY <1>3 DEF At
  <2>2. QED  BY <2>1, MadeStays
<1>11. ContentsOK' /\ LiveOK'
  <2>1. (loc'[t].pc = "gone" <=> At(t, "gone")) /\ ~At(t, "clear")  BY <1>3 DEF At
  <2>2. QED  BY <1>8, <2>1, ContentsStay
<1>12. WalksOK'
  <2>1. WalkOK(t)'  BY <1>3, <1>4 DEF WalkOK, Walks, Exiting
  <2>2. QED  BY <2>1, WalksStay
<1>13. OwnData'  BY DEF Inv, OwnData
<1>14. QED  BY <1>5, <1>6, <1>7, <1>8, <1>9, <1>10, <1>11, <1>12, <1>13

LEMMA ClaimingLocal ==
  ASSUME NEW l, LocalOK(l), Calling(l), NEW m, IsLocal(m), m.pc \in Claiming \cup {"release"}, m.op = l.op, m.var = l.var,
         m.key \in Keys, m.pc = "release" => m.back = "reload", m.pc # "release" => m.idx < ArraySize
  PROVE  LocalOK(m)
<1>1. m.op \in {"get", "set"} /\ m.var \in Vars  BY DEF LocalOK, Calling
<1>2. QED
  BY <1>1 DEF LocalOK, Calling, Destroying, Unpublished, HasKey, Frees, Exiting, Seeking, Claiming,
              Keyed, Releasing, Walking

LEMMA ClaimKeyKeeps ==
  ASSUME Inv, NEW t \in Threads, ClaimKey(t)
  PROVE  Inv'
<1>1. LocalOK(loc[t]) /\ IsLocal(loc[t]) /\ DOMAIN loc = Threads /\ KeyOK(loc[t])  BY LocalIs
<1>2. /\ loc[t].pc = "claim" /\ loc[t].todo \in Seq(Arrays) /\ loc[t].todo # <<>> /\ loc[t].idx < ArraySize
      /\ loc[t].op \in {"get", "set"} /\ Calling(loc[t]) /\ loc[t].idx \in Nat /\ loc[t].try \in Nat
      /\ ArraySize \in Nat \ {0}
  BY <1>1, TlsAssumption DEF ClaimKey, At, LocalOK, Calling, Seeking, IsLocal
<1>3. /\ UNCHANGED <<heads, made, own, arrays, stat, data, tls, mutex, tlsKey, phase, live, nextBase, answer>>
      /\ UNCHANGED <<param, numFree, hint, keyChain, script, contentVars>>
  BY DEF ClaimKey, headVars, contentVars, histVars
<1> DEFINE a == Head(loc[t].todo)
           k == a * ArraySize + loc[t].idx
           i == NextKey(loc[t].idx)
<1>4. a \in Arrays /\ Tail(loc[t].todo) \in Seq(Arrays) /\ Tail(loc[t].todo) \in Seq(Nat)
  <2>1. Arrays \subseteq Nat  BY TlsAssumption DEF Arrays
  <2>2. a \in Arrays /\ Tail(loc[t].todo) \in Seq(Arrays)  BY <1>2, HeadAndTail
  <2>3. QED  BY <2>1, <2>2, SeqOfMore, Zenon
<1>5. k \in Keys /\ ArrayOf(k) = a  BY <1>2, <1>4, KeyAt, Zenon
<1>6. i \in Nat /\ i < ArraySize
  <2>1. loc[t].idx + 1 \in Nat  BY <1>2
  <2>2. (loc[t].idx + 1) % ArraySize \in Nat /\ (loc[t].idx + 1) % ArraySize < ArraySize
    BY <1>2, <2>1, Division, Zenon
  <2>3. QED  BY <2>2 DEF NextKey
<1>7. CASE keyStat[k] = "notUsed"
  <2>1. /\ keyStat' = [keyStat EXCEPT ![k] = "used"]
        /\ loc' = [loc EXCEPT ![t].pc = "count", ![t].key = k, ![t].idx = i]
    BY <1>7 DEF ClaimKey
  <2> HIDE DEF a, k, i
  <2>2. Alone(t) /\ loc'[t] = [loc[t] EXCEPT !.pc = "count", !.key = k, !.idx = i]  BY <1>1, <2>1 DEF Alone
  <2>3. /\ IsLocal(loc'[t]) /\ loc'[t].pc = "count" /\ loc'[t].key = k /\ loc'[t].op = loc[t].op
        /\ loc'[t].var = loc[t].var /\ loc'[t].idx = i
    BY <1>1, <1>5, <1>6, <2>2 DEF IsLocal, Fields, Points, Claiming
  <2>4. LocalOK(loc'[t])  BY <1>1, <1>2, <1>5, <1>6, <2>3, ClaimingLocal DEF Claiming
  <2>5. /\ LocalsOK' /\ MutexOK' /\ VarsOK' /\ HeadsOK' /\ MadeOK' /\ ContentsOK' /\ LiveOK' /\ WalksOK' /\ OwnData'
        /\ \A v, j : Owns(v, j)' <=> Owns(v, j)
    <3>1. /\ loc[t].pc \in Seeking \cup Claiming \cup {"release"} /\ loc'[t].pc \in Seeking \cup Claiming \cup {"release"}
          /\ loc'[t].pc # "push"
      BY <1>2, <2>3 DEF Seeking, Claiming
    <3>2. QED  BY <1>2, <1>3, <2>2, <2>3, <2>4, <3>1, CallParts, Zenon
  <2>6. keyStat' \in [Keys -> {"notUsed", "releasing", "used"}]
        /\ keyStat'[k] = "used" /\ \A j \in Keys : j # k => keyStat'[j] = keyStat[j]
    BY <1>5, <2>1 DEF Inv, Types
  <2>7. Types'  BY <1>3, <2>6 DEF Inv, Types
  <2>8. /\ \A v \in Vars : ~Owns(v, k)
        /\ \A u \in Threads : Unpublished(loc[u]) => loc[u].key # k
        /\ \A u \in Threads : Frees(loc[u]) => loc[u].key # k
    BY <1>5, <1>7 DEF Inv, KeysOK, KeyOK
  <2>9. ~Unpublished(loc[t]) /\ ~Frees(loc[t]) /\ Unpublished(loc'[t]) /\ ~HasKey(loc'[t]) /\ ~Frees(loc'[t])
    BY <1>2, <2>3 DEF Unpublished, HasKey, Frees, Claiming, Releasing, Walking, Keyed
  <2>10. KeysOK'
    <3>1. ASSUME NEW u \in Threads PROVE KeyOK(loc[u])'
      <4>1. CASE u = t  BY <2>3, <2>5, <2>6, <2>8, <2>9, <4>1 DEF KeyOK
      <4>2. CASE u # t
        <5>1. loc'[u] = loc[u] /\ KeyOK(loc[u]) /\ LocalOK(loc[u])  BY <2>2, <4>2, LocalIs DEF Alone
        <5>2. Unpublished(loc[u]) => loc[u].key \in Keys /\ loc[u].key # k  BY <2>8, <5>1 DEF LocalOK
        <5>3. Frees(loc[u]) => loc[u].key \in Keys /\ loc[u].key # k
          BY <2>8, <5>1 DEF LocalOK, Frees, Unpublished, HasKey, Ops, IsLocal
        <5>4. QED  BY <1>3, <2>5, <2>6, <5>1, <5>2, <5>3 DEF KeyOK, Unpublished, HasKey, Frees
      <4>3. QED  BY <4>1, <4>2
    <3>2. ASSUME NEW u \in Threads, NEW w \in Threads, Unpublished(loc'[u]), Unpublished(loc'[w]),
                 loc'[u].key = loc'[w].key
          PROVE  u = w
      <4>1. \A z \in Threads : z # t => loc'[z] = loc[z]  BY <2>2 DEF Alone
      <4>2. CASE u # t /\ w # t  BY <3>2, <4>1, <4>2 DEF Inv, KeysOK
      <4>3. CASE u = t /\ w # t  BY <2>3, <2>8, <3>2, <4>1, <4>3
      <4>4. CASE u # t /\ w = t  BY <2>3, <2>8, <3>2, <4>1, <4>4
      <4>5. QED  BY <4>2, <4>3, <4>4
    <3>3. ASSUME NEW j \in Keys, keyStat'[j] = "releasing"
          PROVE  \E u \in Threads : Frees(loc'[u]) /\ loc'[u].key = j
      <4>1. PICK u \in Threads : Frees(loc[u]) /\ loc[u].key = j  BY <2>6, <3>3 DEF Inv, KeysOK
      <4>2. u # t  BY <2>9, <4>1
      <4>3. QED  BY <2>2, <4>1, <4>2 DEF Alone
    <3>4. \A v, w \in Vars : \A j \in Keys : Owns(v, j)' /\ Owns(w, j)' => v = w  BY <2>5 DEF Inv, KeysOK
    <3>5. \A v \in Vars : \A j \in Keys : Owns(v, j)' => keyStat'[j] # "notUsed" /\ param'[j] = v
      BY <1>3, <2>5, <2>6 DEF Inv, KeysOK
    <3>6. QED  BY <3>1, <3>2, <3>3, <3>4, <3>5 DEF KeysOK, Unpublished, Frees
  <2>11. CountsOK'
    <3>1. \A j \in Keys : (\E u \in Threads : loc'[u].pc \in {"count", "unused"} /\ loc'[u].key = j)
                          <=> j = k \/ \E u \in Threads : loc[u].pc \in {"count", "unused"} /\ loc[u].key = j
      <4>1. \A u \in Threads : u # t => loc'[u] = loc[u]  BY <2>2 DEF Alone
      <4>2. loc[t].pc \notin {"count", "unused"} /\ loc'[t].pc \in {"count", "unused"} /\ loc'[t].key = k
        BY <1>2, <2>3
      <4>3. QED  BY <4>1, <4>2
    <3>2. \A b : FreeIn(b)' = FreeIn(b)  BY <1>5, <1>7, <2>6, <3>1 DEF FreeIn
    <3>3. QED  BY <1>3, <3>2 DEF Inv, CountsOK
  <2>12. QED  BY <2>5, <2>7, <2>10, <2>11 DEF Inv
<1>8. CASE keyStat[k] # "notUsed"
  <2>1. /\ keyStat' = keyStat
        /\ loc' = IF loc[t].try + 1 < ArraySize
                  THEN [loc EXCEPT ![t].idx = i, ![t].try = loc[t].try + 1]
                  ELSE [loc EXCEPT ![t].pc = "array", ![t].todo = Tail(loc[t].todo)]
    BY <1>8 DEF ClaimKey
  <2> HIDE DEF a, k, i
  <2>2. /\ Alone(t) /\ loc'[t].op = loc[t].op /\ loc'[t].var = loc[t].var /\ IsLocal(loc'[t])
        /\ loc'[t].pc \in {"claim", "array"} /\ loc'[t].todo \in Seq(Arrays)
        /\ loc'[t].pc = "claim" => loc'[t].todo # <<>> /\ loc'[t].idx < ArraySize
    <3>1. CASE loc[t].try + 1 < ArraySize
      <4>1. Alone(t) /\ loc'[t] = [loc[t] EXCEPT !.idx = i, !.try = loc[t].try + 1]  BY <1>1, <2>1, <3>1 DEF Alone
      <4>2. QED  BY <1>1, <1>2, <1>6, <4>1 DEF IsLocal, Fields, Points, Seeking
    <3>2. CASE ~(loc[t].try + 1 < ArraySize)
      <4>1. Alone(t) /\ loc'[t] = [loc[t] EXCEPT !.pc = "array", !.todo = Tail(loc[t].todo)]
        BY <1>1, <2>1, <3>2 DEF Alone
      <4>2. QED  BY <1>1, <1>2, <1>4, <4>1 DEF IsLocal, Fields, Points, Seeking
    <3>3. QED  BY <3>1, <3>2
  <2>3. loc[t].pc \in Seeking /\ loc'[t].pc \in Seeking /\ loc'[t].pc # "push"  BY <1>2, <2>2 DEF Seeking
  <2>4. LocalOK(loc'[t])  BY <1>1, <2>2, <2>3, SeekingLocal
  <2>5. UNCHANGED <<keyStat, param, numFree, heads, made, own, contentVars, tls, mutex, tlsKey, phase, live, answer>>
    BY <1>3, <2>1
  <2>6. Types' /\ nextBase <= nextBase'
    <3>1. script' \in [Threads -> Seq(Ops \X Vars)] /\ nextBase <= nextBase'
      BY <1>3, TlsAssumption DEF Inv, Types
    <3>2. QED  BY <1>3, <2>1, <3>1, TypesStay
  <2>7. QED  BY <2>2, <2>3, <2>4, <2>5, <2>6, SeekingGoesOn, Zenon
<1>9. QED  BY <1>7, <1>8

\* The object whose destructor releases its key owns it until the key is free.
LEMMA Destroyed ==
  ASSUME Inv, NEW t \in Threads, Destroying(loc[t]), loc[t].pc \in Releasing \cup {"release"}
  PROVE  loc[t].var \in Vars /\ loc[t].key \in Keys /\ Owns(loc[t].var, loc[t].key)
<1>1. LocalOK(loc[t]) /\ KeyOK(loc[t])  BY LocalIs
<1>2. HasKey(loc[t])  BY DEF Destroying, HasKey
<1>3. loc[t].var \in Vars /\ loc[t].key \in Keys /\ tlsKey[loc[t].var] = loc[t].key
  BY <1>1, <1>2 DEF LocalOK, KeyOK
<1>4. ~Past(loc[t].var)
  <2>1. ASSUME NEW u \in Threads, loc[u].pc = "null", loc[u].var = loc[t].var PROVE FALSE
    <3>1. Destroying(loc[u])  BY <2>1, LocalIs DEF LocalOK, Destroying
    <3>2. u = t  BY <2>1, <3>1 DEF Inv, VarsOK
    <3>3. QED  BY <2>1, <3>2 DEF Releasing, Walking
  <2>2. QED  BY <2>1 DEF Past, At
<1>5. QED  BY <1>3, <1>4 DEF Owns

\* A key that is claimed or released is one thread's.
LEMMA OneUser ==
  ASSUME Inv, NEW t \in Threads, NEW u \in Threads, loc[t].key = loc[u].key,
         Unpublished(loc[t]) \/ Frees(loc[t]), Unpublished(loc[u]) \/ Frees(loc[u])
  PROVE  t = u
<1>1. LocalOK(loc[t]) /\ KeyOK(loc[t]) /\ LocalOK(loc[u]) /\ KeyOK(loc[u])  BY LocalIs
<1>2. CASE Unpublished(loc[t]) /\ Unpublished(loc[u])  BY <1>2 DEF Inv, KeysOK
<1>3. ASSUME NEW w \in Threads, ~Unpublished(loc[w]), Frees(loc[w])
      PROVE  /\ Destroying(loc[w])
             /\ loc[w].var \in Vars /\ loc[w].key \in Keys /\ Owns(loc[w].var, loc[w].key)
  <2>1. loc[w].op \in {"get", "set", "destroy"} /\ loc[w].pc \in Releasing
    BY <1>3, LocalIs DEF Frees, IsLocal, Ops
  <2>2. Destroying(loc[w])  BY <1>3, <2>1 DEF Unpublished, Destroying
  <2>3. QED  BY <2>1, <2>2, Destroyed
<1>4. CASE Unpublished(loc[t]) /\ ~Unpublished(loc[u])
  <2>1. Owns(loc[u].var, loc[t].key) /\ loc[u].var \in Vars  BY <1>3, <1>4
  <2>2. QED  BY <1>1, <1>4, <2>1 DEF KeyOK
<1>5. CASE ~Unpublished(loc[t]) /\ Unpublished(loc[u])
  <2>1. Owns(loc[t].var, loc[u].key) /\ loc[t].var \in Vars  BY <1>3, <1>5
  <2>2. QED  BY <1>1, <1>5, <2>1 DEF KeyOK
<1>6. CASE ~Unpublished(loc[t]) /\ ~Unpublished(loc[u])
  <2>1. loc[t].var = loc[u].var /\ Destroying(loc[t]) /\ Destroying(loc[u])
    BY <1>3, <1>6 DEF Inv, KeysOK
  <2>2. QED  BY <2>1 DEF Inv, VarsOK
<1>7. QED  BY <1>2, <1>4, <1>5, <1>6

LEMMA FreeIsFinite == \A a : IsFiniteSet(FreeIn(a))
<1>1. MaxArrays * ArraySize - 1 \in Int  BY TlsAssumption
<1>2. IsFiniteSet(Keys)  BY <1>1, FS_Interval DEF Keys
<1>3. \A a : FreeIn(a) \subseteq Keys  BY DEF FreeIn
<1>4. QED  BY <1>2, <1>3, FS_Subset

LEMMA CountKeyKeeps ==
  ASSUME Inv, NEW t \in Threads, CountKey(t)
  PROVE  Inv'
<1>1. LocalOK(loc[t]) /\ IsLocal(loc[t]) /\ DOMAIN loc = Threads /\ KeyOK(loc[t])  BY LocalIs
<1>2. /\ loc[t].pc = "count" /\ loc[t].key \in Keys /\ loc[t].idx < ArraySize /\ Unpublished(loc[t])
  BY <1>1 DEF CountKey, At, LocalOK, Unpublished, Claiming
<1>3. loc[t].op \in {"get", "set"} /\ Calling(loc[t])  BY <1>1, <1>2 DEF LocalOK, Calling, Claiming
<1>4. /\ UNCHANGED <<heads, made, own, arrays, stat, data, tls, mutex, tlsKey, phase, live, nextBase, answer>>
      /\ UNCHANGED <<keyStat, param, hint, keyChain, script>>
      /\ numFree' = [numFree EXCEPT ![ArrayOf(loc[t].key)] = @ - 1]
  BY DEF CountKey, headVars, contentVars, histVars
<1>5. Alone(t) /\ loc'[t] = [loc[t] EXCEPT !.pc = "fill"]  BY GotoIs DEF CountKey
<1>6. /\ IsLocal(loc'[t]) /\ loc'[t].pc = "fill" /\ loc'[t].key = loc[t].key /\ loc'[t].op = loc[t].op
      /\ loc'[t].var = loc[t].var /\ loc'[t].idx = loc[t].idx
  BY <1>1, <1>5 DEF IsLocal, Fields, Points, Claiming
<1>7. LocalOK(loc'[t])  BY <1>1, <1>2, <1>3, <1>6, ClaimingLocal DEF Claiming
<1>8. /\ LocalsOK' /\ MutexOK' /\ VarsOK' /\ HeadsOK' /\ MadeOK' /\ ContentsOK' /\ LiveOK' /\ WalksOK' /\ OwnData'
      /\ \A v, j : Owns(v, j)' <=> Owns(v, j)
  <2>1. /\ loc[t].pc \in Seeking \cup Claiming \cup {"release"} /\ loc'[t].pc \in Seeking \cup Claiming \cup {"release"}
        /\ loc'[t].pc # "push"
    BY <1>2, <1>6 DEF Seeking, Claiming
  <2>2. QED  BY <1>3, <1>4, <1>5, <1>6, <1>7, <2>1, CallParts, Zenon
<1>9. Types'  BY <1>4 DEF Inv, Types
<1>10. KeysOK'
  <2>1. ~Frees(loc[t]) /\ ~Frees(loc'[t]) /\ ~HasKey(loc'[t]) /\ Unpublished(loc'[t])
    BY <1>2, <1>3, <1>6 DEF Frees, Releasing, Walking, HasKey, Keyed, Unpublished, Claiming
  <2>2. SameKey(t)  BY <1>2, <1>6, <2>1 DEF SameKey, At
  <2>3. KeyOK(loc'[t])  BY <1>1, <1>2, <1>6, <2>1 DEF KeyOK
  <2>4. QED  BY <1>4, <1>5, <2>2, <2>3, KeysStay
<1>11. CountsOK'
  <2> DEFINE k == loc[t].key
  <2>1. keyStat[k] # "notUsed" /\ k \in FreeIn(ArrayOf(k))
    BY <1>1, <1>2 DEF KeyOK, FreeIn
  <2>2. ASSUME NEW u \in Threads, u # t, loc[u].pc \in {"count", "unused"}, loc[u].key = k
        PROVE  FALSE
    <3>1. Frees(loc[u]) \/ Unpublished(loc[u])
      BY <2>2, LocalIs DEF LocalOK, Frees, Unpublished, Releasing, Claiming
    <3>2. QED  BY <1>2, <2>2, <3>1, OneUser
  <2>3. \A j : (\E u \in Threads : loc'[u].pc \in {"count", "unused"} /\ loc'[u].key = j)
                 <=> j # k /\ \E u \in Threads : loc[u].pc \in {"count", "unused"} /\ loc[u].key = j
    <3>1. \A u \in Threads : u # t => loc'[u] = loc[u]  BY <1>5 DEF Alone
    <3>2. loc'[t].pc \notin {"count", "unused"}  BY <1>6
    <3>3. QED  BY <2>2, <3>1, <3>2
  <2> HIDE DEF k
  <2>4. ASSUME NEW a \in Arrays PROVE numFree'[a] = Cardinality(FreeIn(a)')
    <3>1. numFree[a] = Cardinality(FreeIn(a)) /\ numFree \in [Arrays -> Int]  BY DEF Inv, CountsOK
    <3>2. CASE a = ArrayOf(k)
      <4>1. FreeIn(a)' = FreeIn(a) \ {k}  BY <1>4, <2>1, <2>3, <3>2 DEF FreeIn
      <4>2. IsFiniteSet(FreeIn(a))  BY FreeIsFinite
      <4>3. Cardinality(FreeIn(a) \ {k}) = Cardinality(FreeIn(a)) - 1
        <5>1. k \in FreeIn(a)  BY <2>1, <3>2
        <5>2. QED  BY <4>2, <5>1, FS_RemoveElement, Zenon
      <4>4. numFree'[a] = numFree[a] - 1  BY <1>4, <3>1, <3>2 DEF k
      <4>5. QED  BY <3>1, <4>1, <4>3, <4>4
    <3>3. CASE a # ArrayOf(k)
      <4>1. FreeIn(a)' = FreeIn(a)  BY <1>4, <2>3, <3>3 DEF FreeIn
      <4>2. numFree'[a] = numFree[a]  BY <1>4, <3>1, <3>3 DEF k
      <4>3. QED  BY <3>1, <4>1, <4>2
    <3>4. QED  BY <3>2, <3>3
  <2>5. numFree' \in [Arrays -> Int]
    <3>1. numFree \in [Arrays -> Int] /\ ArrayOf(k) \in Arrays  BY <1>2, ArrayAt DEF Inv, CountsOK, k
    <3>2. numFree' = [numFree EXCEPT ![ArrayOf(k)] = numFree[ArrayOf(k)] - 1]  BY <1>4 DEF k
    <3>3. QED  BY <3>1, <3>2
  <2>6. QED  BY <2>4, <2>5 DEF CountsOK
<1>12. QED  BY <1>8, <1>9, <1>10, <1>11 DEF Inv

LEMMA FillKeyKeeps ==
  ASSUME Inv, NEW t \in Threads, FillKey(t)
  PROVE  Inv'
<1>1. LocalOK(loc[t]) /\ IsLocal(loc[t]) /\ DOMAIN loc = Threads /\ KeyOK(loc[t])  BY LocalIs
<1>2. /\ loc[t].pc = "fill" /\ loc[t].key \in Keys /\ loc[t].idx < ArraySize /\ Unpublished(loc[t]) /\ loc[t].idx \in Nat
  BY <1>1 DEF FillKey, At, LocalOK, Unpublished, Claiming, IsLocal
<1>3. loc[t].op \in {"get", "set"} /\ Calling(loc[t]) /\ loc[t].var \in Vars
  BY <1>1, <1>2 DEF LocalOK, Calling, Claiming
<1>4. /\ UNCHANGED <<heads, made, own, arrays, stat, data, tls, mutex, tlsKey, phase, live, nextBase, answer>>
      /\ UNCHANGED <<keyStat, numFree, keyChain, script>>
      /\ param' = [param EXCEPT ![loc[t].key] = loc[t].var]
      /\ hint' = [hint EXCEPT ![ArrayOf(loc[t].key)] = loc[t].idx]
  BY DEF FillKey, headVars, contentVars, histVars
<1>5. Alone(t) /\ loc'[t] = [loc[t] EXCEPT !.pc = "publish"]  BY GotoIs DEF FillKey
<1>6. /\ IsLocal(loc'[t]) /\ loc'[t].pc = "publish" /\ loc'[t].key = loc[t].key /\ loc'[t].op = loc[t].op
      /\ loc'[t].var = loc[t].var /\ loc'[t].idx = loc[t].idx
  BY <1>1, <1>5 DEF IsLocal, Fields, Points, Claiming
<1>7. LocalOK(loc'[t])  BY <1>1, <1>2, <1>3, <1>6, ClaimingLocal DEF Claiming
<1>8. /\ LocalsOK' /\ MutexOK' /\ VarsOK' /\ HeadsOK' /\ MadeOK' /\ ContentsOK' /\ LiveOK' /\ WalksOK' /\ OwnData'
      /\ \A v, j : Owns(v, j)' <=> Owns(v, j)
  <2>1. /\ loc[t].pc \in Seeking \cup Claiming \cup {"release"} /\ loc'[t].pc \in Seeking \cup Claiming \cup {"release"}
        /\ loc'[t].pc # "push"
    BY <1>2, <1>6 DEF Seeking, Claiming
  <2>2. QED  BY <1>3, <1>4, <1>5, <1>6, <1>7, <2>1, CallParts, Zenon
<1>9. /\ param' \in [Keys -> Vars \cup {None}] /\ param'[loc[t].key] = loc[t].var
      /\ \A j \in Keys : j # loc[t].key => param'[j] = param[j]
  BY <1>2, <1>3, <1>4 DEF Inv, Types
<1>10. Types'
  <2>1. ArrayOf(loc[t].key) \in Arrays /\ loc[t].idx \in 0 .. ArraySize - 1
    BY <1>2, ArrayAt, TlsAssumption
  <2>2. hint' \in [Arrays -> 0 .. ArraySize - 1]  BY <1>4, <2>1 DEF Inv, Types
  <2>3. QED  BY <1>4, <1>9, <2>2 DEF Inv, Types
<1>11. KeysOK'
  <2>1. ~Frees(loc[t]) /\ ~Frees(loc'[t]) /\ ~HasKey(loc'[t]) /\ Unpublished(loc'[t])
    BY <1>2, <1>3, <1>6 DEF Frees, Releasing, Walking, HasKey, Keyed, Unpublished, Claiming
  <2>2. \A v \in Vars : ~Owns(v, loc[t].key)  BY <1>1, <1>2 DEF KeyOK
  <2>3. ASSUME NEW u \in Threads PROVE KeyOK(loc[u])'
    <3>1. CASE u = t  BY <1>1, <1>2, <1>4, <1>6, <1>8, <1>9, <2>1, <3>1 DEF KeyOK
    <3>2. CASE u # t
      <4>1. loc'[u] = loc[u] /\ KeyOK(loc[u]) /\ LocalOK(loc[u])  BY <1>5, <3>2, LocalIs DEF Alone
      <4>2. loc[u].pc = "publish" => loc[u].key \in Keys /\ loc[u].key # loc[t].key
        BY <1>2, <3>2, <4>1, OneUser DEF LocalOK, Unpublished, Claiming
      <4>3. QED  BY <1>4, <1>8, <1>9, <4>1, <4>2 DEF KeyOK, Unpublished, HasKey, Frees
    <3>3. QED  BY <3>1, <3>2
  <2>4. ASSUME NEW u \in Threads, NEW w \in Threads, Unpublished(loc'[u]), Unpublished(loc'[w]),
               loc'[u].key = loc'[w].key
        PROVE  u = w
    <3>1. \A z \in Threads : Unpublished(loc'[z]) => Unpublished(loc[z]) /\ loc'[z].key = loc[z].key
      <4>1. \A z \in Threads : z # t => loc'[z] = loc[z]  BY <1>5 DEF Alone
      <4>2. Unpublished(loc[t]) /\ loc'[t].key = loc[t].key  BY <1>2, <1>6
      <4>3. QED  BY <4>1, <4>2
    <3>2. loc[u].key = loc[w].key  BY <2>4, <3>1, Zenon
    <3>3. QED  BY <2>4, <3>1, <3>2, OneUser, Zenon
  <2>5. ASSUME NEW j \in Keys, keyStat'[j] = "releasing"
        PROVE  \E u \in Threads : Frees(loc'[u]) /\ loc'[u].key = j
    <3>1. PICK u \in Threads : Frees(loc[u]) /\ loc[u].key = j  BY <1>4, <2>5 DEF Inv, KeysOK
    <3>2. u # t  BY <2>1, <3>1
    <3>3. QED  BY <1>5, <3>1, <3>2 DEF Alone
  <2>6. \A v, w \in Vars : \A j \in Keys : Owns(v, j)' /\ Owns(w, j)' => v = w  BY <1>8 DEF Inv, KeysOK
  <2>7. \A v \in Vars : \A j \in Keys : Owns(v, j)' => keyStat'[j] # "notUsed" /\ param'[j] = v
    BY <1>4, <1>8, <1>9, <2>2 DEF Inv, KeysOK
  <2>8. QED  BY <2>3, <2>4, <2>5, <2>6, <2>7 DEF KeysOK, Unpublished, Frees
<1>12. CountsOK'
  <2>1. loc[t].pc \notin {"count", "unused"} /\ loc'[t].pc \notin {"count", "unused"}  BY <1>2, <1>6
  <2>2. QED  BY <1>4, <1>5, <2>1, CountsStay, Zenon
<1>13. QED  BY <1>8, <1>10, <1>11, <1>12 DEF Inv

\* The key becomes the object's, or another thread has been faster.
LEMMA PublishKeyKeeps ==
  ASSUME Inv, NEW t \in Threads, PublishKey(t)
  PROVE  Inv'
<1>1. LocalOK(loc[t]) /\ IsLocal(loc[t]) /\ DOMAIN loc = Threads /\ KeyOK(loc[t]) /\ HeadOK(t)  BY LocalIs
<1>2. /\ loc[t].pc = "publish" /\ loc[t].key \in Keys /\ Unpublished(loc[t])
  BY <1>1 DEF PublishKey, At, LocalOK, Unpublished, Claiming
<1>3. loc[t].op \in {"get", "set"} /\ Calling(loc[t]) /\ loc[t].var \in Vars
  BY <1>1, <1>2 DEF LocalOK, Calling, Claiming
<1>4. /\ UNCHANGED <<heads, made, own, arrays, stat, data, tls, mutex, phase, live, nextBase, answer>>
      /\ UNCHANGED <<keyStat, param, numFree, hint, keyChain, script>>
  BY DEF PublishKey, keyVars, headVars, contentVars, histVars
<1> DEFINE v == loc[t].var
           k == loc[t].key
<1>5. CASE tlsKey[v] = None
  <2>1. tlsKey' = [tlsKey EXCEPT ![v] = k] /\ WithKey(t, k)  BY <1>5 DEF PublishKey
  <2>2. /\ Alone(t) /\ LocalOK(loc'[t])
        /\ loc'[t].pc = "check" /\ loc'[t].op = loc[t].op /\ loc'[t].var = v /\ loc'[t].key = k
    BY <1>2, <1>3, <2>1, WithKeyIs
  <2>3. v \in Vars /\ k \in Keys /\ phase[v] = "alive"  BY <1>2, <1>3 DEF Inv, VarsOK
  <2>4. /\ tlsKey' \in [Vars -> Keys \cup {None}] /\ tlsKey'[v] = k
        /\ \A w \in Vars : w # v => tlsKey'[w] = tlsKey[w]
    BY <2>1, <2>3 DEF Inv, Types
  <2>5. param[k] = v /\ keyStat[k] # "notUsed" /\ \A w \in Vars : ~Owns(w, k)  BY <1>1, <1>2 DEF KeyOK
  <2>6. /\ ~Unpublished(loc'[t]) /\ HasKey(loc'[t]) /\ ~Frees(loc'[t]) /\ ~Exiting(loc'[t]) /\ ~Walks(loc'[t])
        /\ ~Frees(loc[t]) /\ ~Exiting(loc[t]) /\ ~Destroying(loc[t]) /\ ~Destroying(loc'[t])
    BY <1>2, <1>3, <2>2 DEF Unpublished, HasKey, Frees, Exiting, Walks, Claiming, Releasing, Walking, Keyed, Destroying
  <2> HIDE DEF v, k
  <2>7. ~Past(v)
    <3>1. ASSUME NEW u \in Threads, loc[u].pc = "null", loc[u].var = v PROVE FALSE
      <4>1. Destroying(loc[u])  BY <3>1, LocalIs DEF LocalOK, Destroying
      <4>2. phase[v] = "dying"  BY <3>1, <4>1 DEF Inv, VarsOK
      <4>3. QED  BY <2>3, <4>2
    <3>2. QED  BY <3>1 DEF Past, At
  <2>8. \A w : Past(w)' <=> Past(w)  BY <1>2, <2>2, PastStays DEF At
  <2>9. \A w \in Vars : \A j : Owns(w, j)' <=> IF w = v THEN j = k ELSE Owns(w, j)
    <3>1. ASSUME NEW w \in Vars, NEW j, w # v PROVE Owns(w, j)' <=> Owns(w, j)
      BY <2>4, <2>8, <3>1 DEF Owns
    <3>2. ASSUME NEW w \in Vars, NEW j, w = v PROVE Owns(w, j)' <=> j = k
      <4>1. tlsKey'[w] = k /\ ~Past(w)'  BY <2>4, <2>7, <2>8, <3>2
      <4>2. QED  BY <4>1 DEF Owns
    <3>3. QED  BY <3>1, <3>2
  <2>10. Types'  BY <1>4, <2>4 DEF Inv, Types
  <2>11. LocalsOK'
    <3>1. nextBase <= nextBase' /\ nextBase' \in 0 .. MaxArrays /\ loc'[t].pc # "push"
      BY <1>4, <2>2, TlsAssumption DEF Inv, Types
    <3>2. QED  BY <2>2, <3>1, LocalsStay
  <2>12. MutexOK'
    <3>1. Depth(loc'[t]) = Depth(loc[t])  BY <2>6 DEF Depth
    <3>2. QED  BY <1>4, <2>2, <3>1, MutexStays
  <2>13. VarsOK'
    <3>1. ASSUME NEW u \in Threads
          PROVE  /\ Calling(loc'[u]) => Calling(loc[u]) /\ loc'[u].var = loc[u].var
                 /\ Destroying(loc'[u]) => Destroying(loc[u]) /\ loc'[u].var = loc[u].var
      BY <1>3, <2>2, <2>6 DEF Alone, v
    <3>2. \A w \in Vars : tlsKey'[w] # None => phase'[w] # "gone"
      BY <1>4, <2>3, <2>4 DEF Inv, VarsOK
    <3>3. QED  BY <1>4, <3>1, <3>2 DEF Inv, VarsOK, Calling, Destroying
  <2>14. KeysOK'
    <3>1. ASSUME NEW u \in Threads PROVE KeyOK(loc[u])'
      <4>1. CASE u = t  BY <2>2, <2>4, <2>6, <4>1 DEF KeyOK
      <4>2. CASE u # t
        <5>1. loc'[u] = loc[u] /\ KeyOK(loc[u]) /\ LocalOK(loc[u])  BY <2>2, <4>2, LocalIs DEF Alone
        <5>2. HasKey(loc[u]) => loc[u].var \in Vars /\ loc[u].key \in Keys
          BY <5>1 DEF LocalOK, HasKey, Calling, Destroying, Keyed
        <5>3. HasKey(loc[u]) => tlsKey'[loc[u].var] = loc[u].key
          <6>1. HasKey(loc[u]) => tlsKey[loc[u].var] = loc[u].key  BY <5>1 DEF KeyOK
          <6>2. HasKey(loc[u]) => loc[u].key # None /\ tlsKey[v] = None  BY <1>5, <5>2, TlsAssumption DEF Keys, v
          <6>3. QED  BY <2>4, <5>2, <6>1, <6>2
        <5>4. Unpublished(loc[u]) => \A w \in Vars : ~Owns(w, loc[u].key)'
          <6>1. ASSUME Unpublished(loc[u]), NEW w \in Vars, Owns(w, loc[u].key)' PROVE FALSE
            <7>1. CASE w # v  BY <2>9, <5>1, <6>1, <7>1 DEF KeyOK
            <7>2. CASE w = v
              <8>1. loc[u].key = loc[t].key  BY <2>9, <5>1, <6>1, <7>2 DEF k
              <8>2. QED  BY <1>2, <4>2, <6>1, <8>1, OneUser
            <7>3. QED  BY <7>1, <7>2
          <6>2. QED  BY <6>1
        <5>5. Unpublished(loc[u]) => keyStat'[loc[u].key] # "notUsed"  BY <1>4, <5>1 DEF KeyOK
        <5>6. Frees(loc[u]) => keyStat'[loc[u].key] = "releasing"  BY <1>4, <5>1 DEF KeyOK
        <5>7. loc[u].pc = "publish" => param'[loc[u].key] = loc[u].var  BY <1>4, <5>1 DEF KeyOK
        <5>8. QED  BY <5>1, <5>3, <5>4, <5>5, <5>6, <5>7 DEF KeyOK, Unpublished, HasKey, Frees
      <4>3. QED  BY <4>1, <4>2
    <3>2. ASSUME NEW u \in Threads, NEW w \in Threads, Unpublished(loc'[u]), Unpublished(loc'[w]),
                 loc'[u].key = loc'[w].key
          PROVE  u = w
      <4>1. \A z \in Threads : Unpublished(loc'[z]) => Unpublished(loc[z]) /\ loc'[z].key = loc[z].key
        BY <2>2, <2>6 DEF Alone
      <4>2. loc[u].key = loc[w].key  BY <3>2, <4>1, Zenon
      <4>3. QED  BY <3>2, <4>1, <4>2, OneUser, Zenon
    <3>3. ASSUME NEW j \in Keys, keyStat'[j] = "releasing"
          PROVE  \E u \in Threads : Frees(loc'[u]) /\ loc'[u].key = j
      <4>1. PICK u \in Threads : Frees(loc[u]) /\ loc[u].key = j  BY <1>4, <3>3 DEF Inv, KeysOK
      <4>2. u # t  BY <2>6, <4>1
      <4>3. QED  BY <2>2, <4>1, <4>2 DEF Alone
    <3>4. ASSUME NEW w \in Vars, NEW x \in Vars, NEW j \in Keys, Owns(w, j)', Owns(x, j)'
          PROVE  w = x
      <4>1. CASE w # v /\ x # v  BY <2>9, <3>4, <4>1 DEF Inv, KeysOK
      <4>2. CASE w = v /\ x # v
        <5>1. j = k /\ Owns(x, j)  BY <2>9, <3>4, <4>2
        <5>2. QED  BY <2>5, <5>1
      <4>3. CASE w # v /\ x = v
        <5>1. j = k /\ Owns(w, j)  BY <2>9, <3>4, <4>3
        <5>2. QED  BY <2>5, <5>1
      <4>4. QED  BY <4>1, <4>2, <4>3
    <3>5. ASSUME NEW w \in Vars, NEW j \in Keys, Owns(w, j)' PROVE keyStat'[j] # "notUsed" /\ param'[j] = w
      <4>1. CASE w # v  BY <1>4, <2>9, <3>5, <4>1 DEF Inv, KeysOK
      <4>2. CASE w = v
        <5>1. j = k  BY <2>9, <3>5, <4>2
        <5>2. QED  BY <1>4, <2>5, <4>2, <5>1
      <4>3. QED  BY <4>1, <4>2
    <3>6. QED  BY <3>1, <3>2, <3>3, <3>4, <3>5 DEF KeysOK, Unpublished, Frees
  <2>15. HeadsOK'
    <3>1. HeadOK(t)'  BY <1>1, <1>2, <1>4, <2>2, <2>6 DEF HeadOK, At
    <3>2. QED  BY <1>2, <1>4, <2>2, <3>1, HeadsStay DEF At
  <2>16. MadeOK'
    <3>1. loc'[t].pc = "link" <=> At(t, "link")  BY <1>2, <2>2 DEF At
    <3>2. QED  BY <1>4, <2>2, <3>1, MadeStays
  <2>17. ContentsOK'
    <3>1. ASSUME NEW h \in Heads, NEW j \in Keys PROVE ContentOK(h, j)'
      <4>1. ContentOK(h, j) /\ data[h][j] \in Data \cup {None}  BY DEF Inv, ContentsOK, Types
      <4>2. data[h][j] # None => data[h][j][1] \in Threads /\ data[h][j][2] \in Vars /\ data[h][j][2] # v
        <5>1. data[h][j] # None => data[h][j][1] \in Threads /\ data[h][j][2] \in Vars  BY <4>1 DEF Data
        <5>2. j # None  BY TlsAssumption DEF Keys
        <5>3. data[h][j] # None => tlsKey[data[h][j][2]] = j \/ phase[data[h][j][2]] = "gone"  BY <4>1 DEF ContentOK
        <5>4. QED  BY <1>5, <2>3, <5>1, <5>2, <5>3 DEF v
      <4>3. \A u \in Threads : loc'[u].pc = "gone" <=> loc[u].pc = "gone"  BY <1>2, <2>2 DEF Alone
      <4>4. Filled(h, j)' <=> Filled(h, j)  BY <1>4 DEF Filled
      <4>5. Filled(h, j) => data[h][j] # None /\ loc'[data[h][j][1]].pc # "gone" /\ Owns(data[h][j][2], j)'
                            /\ In(ArrayOf(j), arrays[h])
        <5>1. ASSUME Filled(h, j) PROVE Owns(data[h][j][2], j)'  BY <1>4, <2>9, <4>1, <4>2, <5>1 DEF ContentOK
        <5>2. QED  BY <4>1, <4>2, <4>3, <5>1 DEF ContentOK, At
      <4>6. data[h][j] # None => tls[data[h][j][1]] = h
                                 /\ (tlsKey'[data[h][j][2]] = j \/ phase[data[h][j][2]] = "gone")
        BY <2>4, <4>1, <4>2 DEF ContentOK
      <4>7. stat[h][j] = "destructing" => \E u \in Threads : At(u, "clear")' /\ Spot(u)' = <<h, j>>
        <5>1. ASSUME stat[h][j] = "destructing" PROVE \E u \in Threads : At(u, "clear")' /\ Spot(u)' = <<h, j>>
          <6>1. PICK u \in Threads : At(u, "clear") /\ Spot(u) = <<h, j>>  BY <4>1, <5>1 DEF ContentOK
          <6>2. loc'[u] = loc[u]  BY <1>2, <2>2, <6>1 DEF Alone, At
          <6>3. At(u, "clear")' /\ Spot(u)' = <<h, j>>  BY <1>4, <6>1, <6>2 DEF At, Spot
          <6>4. QED  BY <6>3
        <5>2. QED  BY <5>1
      <4>8. QED  BY <1>4, <4>4, <4>5, <4>6, <4>7 DEF ContentOK, At
    <3>2. QED  BY <3>1 DEF ContentsOK
  <2>18. LiveOK'
    <3>1. InUse' = InUse  BY <1>4 DEF InUse
    <3>2. QED  BY <1>4, <3>1 DEF Inv, LiveOK
  <2>19. WalksOK'
    <3>1. WalkOK(t)'  BY <2>2, <2>6 DEF WalkOK, Walks, Exiting
    <3>2. QED  BY <1>4, <2>2, <3>1, WalksStay
  <2>20. CountsOK'
    <3>1. loc[t].pc \notin {"count", "unused"} /\ loc'[t].pc \notin {"count", "unused"}  BY <1>2, <2>2
    <3>2. QED  BY <1>4, <2>2, <3>1, CountsStay, Zenon
  <2>21. OwnData'  BY <1>4 DEF Inv, OwnData
  <2>22. QED
    BY <2>10, <2>11, <2>12, <2>13, <2>14, <2>15, <2>16, <2>17, <2>18, <2>19, <2>20, <2>21 DEF Inv
<1>6. CASE tlsKey[v] # None
  <2>1. tlsKey' = tlsKey /\ loc' = [loc EXCEPT ![t].pc = "release", ![t].back = "reload"]  BY <1>6 DEF PublishKey
  <2>2. Alone(t) /\ loc'[t] = [loc[t] EXCEPT !.pc = "release", !.back = "reload"]  BY <1>1, <2>1 DEF Alone
  <2>3. /\ IsLocal(loc'[t]) /\ loc'[t].pc = "release" /\ loc'[t].key = loc[t].key /\ loc'[t].op = loc[t].op
        /\ loc'[t].var = loc[t].var /\ loc'[t].back = "reload"
    BY <1>1, <2>2 DEF IsLocal, Fields, Points
  <2>4. LocalOK(loc'[t])  BY <1>1, <1>2, <1>3, <2>3, ClaimingLocal
  <2>5. UNCHANGED <<heads, made, own, arrays, stat, data, tls, mutex, tlsKey, phase, live, nextBase, answer>>
    BY <1>4, <2>1
  <2>6. /\ LocalsOK' /\ MutexOK' /\ VarsOK' /\ HeadsOK' /\ MadeOK' /\ ContentsOK' /\ LiveOK' /\ WalksOK' /\ OwnData'
        /\ \A w, j : Owns(w, j)' <=> Owns(w, j)
    <3>1. /\ loc[t].pc \in Seeking \cup Claiming \cup {"release"} /\ loc'[t].pc \in Seeking \cup Claiming \cup {"release"}
          /\ loc'[t].pc # "push"
      BY <1>2, <2>3 DEF Seeking, Claiming
    <3>2. QED  BY <1>3, <2>2, <2>3, <2>4, <2>5, <3>1, CallParts, Zenon
  <2>7. Types'  BY <1>4, <2>1 DEF Inv, Types
  <2>8. ~Frees(loc[t]) /\ ~Frees(loc'[t]) /\ ~HasKey(loc'[t]) /\ Unpublished(loc'[t])
    BY <1>2, <1>3, <2>3 DEF Frees, Releasing, Walking, HasKey, Keyed, Unpublished, Claiming
  <2>9. KeysOK'
    <3>1. SameKey(t)  BY <1>2, <2>3, <2>8 DEF SameKey, At
    <3>2. KeyOK(loc'[t])  BY <1>1, <1>2, <2>3, <2>8 DEF KeyOK
    <3>3. QED  BY <1>4, <2>1, <2>2, <3>1, <3>2, KeysStay, Zenon
  <2>10. CountsOK'
    <3>1. loc[t].pc \notin {"count", "unused"} /\ loc'[t].pc \notin {"count", "unused"}  BY <1>2, <2>3
    <3>2. QED  BY <1>4, <2>2, <3>1, CountsStay, Zenon
  <2>11. QED  BY <2>6, <2>7, <2>9, <2>10 DEF Inv
<1>7. QED  BY <1>5, <1>6

-----------------------------------------------------------------------------
(* A head for the thread                                                   *)

\* No more heads are made than there are threads.
LEMMA MadeBound ==
  ASSUME Inv
  PROVE  /\ made \in Nat /\ made <= Cardinality(Heads) /\ 1 .. made \subseteq Heads
         /\ IsFiniteSet(Makers) /\ Cardinality(Makers) \in Nat
         /\ \A i \in 1 .. Len(heads) : heads[i] \in 1 .. made
<1>1. IsFiniteSet(Threads) /\ Makers \subseteq Threads  BY TlsAssumption DEF Makers
<1>2. /\ IsFiniteSet(Makers) /\ Cardinality(Makers) \in Nat /\ Cardinality(Threads) \in Nat
      /\ Cardinality(Makers) <= Cardinality(Threads)
  BY <1>1, FS_Subset, FS_CardinalityType
<1>3. Cardinality(Heads) = Cardinality(Threads)
  <2> DEFINE n == Cardinality(Threads)
  <2>1. n \in Nat  BY <1>2
  <2> HIDE DEF n
  <2>2. 1 \in Int /\ n \in Int /\ n - 1 + 1 = n  BY <2>1
  <2>3. Cardinality(1 .. n) = IF 1 > n THEN 0 ELSE n - 1 + 1  BY <2>2, FS_Interval, Zenon
  <2>4. Cardinality(1 .. n) = n  BY <2>1, <2>2, <2>3
  <2>5. QED  BY <2>4 DEF Heads, n
<1>4. made \in Nat /\ made <= Cardinality(Makers)  BY DEF Inv, Types, MadeOK
<1>5. made <= Cardinality(Threads)  BY <1>2, <1>4
<1>6. 1 .. made \subseteq Heads  BY <1>2, <1>4, <1>5 DEF Heads
<1>7. \A i \in 1 .. Len(heads) : heads[i] \in 1 .. made  BY DEF Inv, Types
<1>8. QED  BY <1>2, <1>3, <1>4, <1>5, <1>6, <1>7

LEMMA HeadIs == \A h \in Heads : h \in Nat /\ h # None
<1>1. Cardinality(Threads) \in Nat  BY TlsAssumption, FS_CardinalityType
<1>2. QED  BY <1>1, TlsAssumption DEF Heads

LEMMA KeyedLocal ==
  ASSUME NEW l, LocalOK(l), l.pc \in Keyed, NEW m, IsLocal(m), m.pc \in Keyed, m.op = l.op, m.var = l.var,
         m.key = l.key
  PROVE  LocalOK(m)
<1>1. m.op \in {"get", "set"} /\ Calling(l) /\ HasKey(l)  BY DEF LocalOK, Calling, HasKey, Keyed
<1>2. m.var \in Vars /\ m.key \in Keys  BY <1>1 DEF LocalOK
<1>3. QED
  BY <1>1, <1>2 DEF LocalOK, Calling, Destroying, Unpublished, HasKey, Frees, Exiting, Seeking, Claiming,
                    Keyed, Releasing, Walking

\* What a call leaves alone when it has its key.
LEMMA KeyedParts ==
  ASSUME Inv, NEW t \in Threads,
         UNCHANGED <<keyStat, param, numFree, nextBase, mutex, tlsKey, phase>>,
         Alone(t), LocalOK(loc'[t]), loc[t].pc \in Keyed, loc'[t].pc \in Keyed \cup {"idle"},
         loc'[t].pc \in Keyed => loc'[t].op = loc[t].op /\ loc'[t].var = loc[t].var /\ loc'[t].key = loc[t].key
  PROVE  /\ LocalsOK' /\ MutexOK' /\ VarsOK' /\ KeysOK' /\ CountsOK'
         /\ \A v, k : Owns(v, k)' <=> Owns(v, k)
<1>1. LocalOK(loc[t]) /\ KeyOK(loc[t]) /\ loc[t].op \in {"get", "set"} /\ loc'[t].op \in {"get", "set"}
  BY LocalIs DEF LocalOK
<1>2. /\ loc[t].pc \notin Releasing \cup Claiming \cup {"null", "release", "push", "idle", "gone"}
      /\ loc'[t].pc \notin Releasing \cup Claiming \cup {"null", "release", "push"}
  BY DEF Keyed, Releasing, Walking, Claiming
<1>3. /\ ~Frees(loc[t]) /\ ~Frees(loc'[t]) /\ ~Exiting(loc[t]) /\ ~Exiting(loc'[t])
      /\ ~Destroying(loc[t]) /\ ~Destroying(loc'[t]) /\ ~Unpublished(loc[t]) /\ ~Unpublished(loc'[t])
      /\ HasKey(loc[t]) /\ (HasKey(loc'[t]) => loc'[t].pc \in Keyed)
  BY <1>1, <1>2 DEF Frees, Exiting, Destroying, Unpublished, HasKey
<1>4. Calling(loc[t]) /\ (Calling(loc'[t]) => loc'[t].var = loc[t].var)
  BY <1>1, <1>2 DEF Calling
<1>5. LocalsOK'
  <2>1. nextBase <= nextBase' /\ nextBase' \in 0 .. MaxArrays  BY TlsAssumption DEF Inv, Types
  <2>2. QED  BY <1>2, <2>1, LocalsStay
<1>6. MutexOK'
  <2>1. Depth(loc'[t]) = Depth(loc[t])  BY <1>3 DEF Depth
  <2>2. QED  BY <2>1, MutexStays
<1>7. VarsOK'
  <2>1. SameObject(t)  BY <1>3, <1>4 DEF SameObject
  <2>2. QED  BY <2>1, VarsStay
<1>8. KeysOK' /\ \A v, k : Owns(v, k)' <=> Owns(v, k)
  <2>1. SameKey(t)  BY <1>2, <1>3 DEF SameKey, At
  <2>2. KeyOK(loc'[t])  BY <1>1, <1>2, <1>3 DEF KeyOK, Claiming
  <2>3. QED  BY <2>1, <2>2, KeysStay
<1>9. CountsOK'
  <2>1. loc[t].pc \notin {"count", "unused"} /\ loc'[t].pc \notin {"count", "unused"}
    BY <1>2 DEF Claiming, Releasing
  <2>2. QED  BY <2>1, CountsStay
<1>10. QED  BY <1>5, <1>6, <1>7, <1>8, <1>9

LEMMA CheckKeyKeeps ==
  ASSUME Inv, NEW t \in Threads, CheckKey(t)
  PROVE  Inv'
<1>1. LocalOK(loc[t]) /\ IsLocal(loc[t]) /\ DOMAIN loc = Threads /\ HeadOK(t) /\ KeyOK(loc[t])  BY LocalIs
<1>2. /\ loc[t].pc = "check" /\ loc[t].pc \in Keyed /\ Calling(loc[t]) /\ tlsKey[loc[t].var] = loc[t].key
  BY <1>1 DEF CheckKey, At, LocalOK, Calling, Keyed, KeyOK, HasKey
<1>3. /\ UNCHANGED <<keyStat, param, numFree, heads, made, own, contentVars, tls, mutex, tlsKey, phase, live>>
      /\ UNCHANGED <<hint, keyChain, nextBase, arrays, stat, data, answer, script>>
  BY DEF CheckKey, keyVars, headVars, contentVars, histVars
<1>4. heads \in Seq(Nat)
  <2>1. heads \in Seq(1 .. made) /\ made \in Nat  BY DEF Inv, Types
  <2>2. 1 .. made \subseteq Nat  BY <2>1
  <2>3. QED  BY <2>1, <2>2, SeqOfMore, Zenon
<1>5. /\ Alone(t) /\ LocalOK(loc'[t]) /\ loc'[t].pc \in {"idle", "find", "head"}
      /\ loc'[t].pc # "idle" => loc'[t].var = loc[t].var /\ loc'[t].key = loc[t].key
      /\ loc'[t].pc = "find" => tls[t] # None
      /\ loc'[t].pc = "head" => tls[t] = None /\ loc'[t].todo = heads
  <2>1. CASE keyStat[loc[t].key] # "used"
    <3>1. Return(t)  BY <2>1 DEF CheckKey
    <3>2. QED  BY <3>1, ReturnIs, IdleIs
  <2>2. CASE keyStat[loc[t].key] = "used" /\ tls[t] # None
    <3>1. Goto(t, "find")  BY <2>2 DEF CheckKey
    <3>2. Alone(t) /\ loc'[t] = [loc[t] EXCEPT !.pc = "find"]  BY <3>1, GotoIs
    <3>3. /\ IsLocal(loc'[t]) /\ loc'[t].pc = "find" /\ loc'[t].op = loc[t].op /\ loc'[t].var = loc[t].var
          /\ loc'[t].key = loc[t].key
      BY <1>1, <3>2 DEF IsLocal, Fields, Points, Keyed
    <3>4. LocalOK(loc'[t])  BY <1>1, <1>2, <3>3, KeyedLocal DEF Keyed
    <3>5. QED  BY <2>2, <3>2, <3>3, <3>4
  <2>3. CASE keyStat[loc[t].key] = "used" /\ tls[t] = None
    <3>1. loc' = [loc EXCEPT ![t].pc = "head", ![t].todo = heads]  BY <2>3 DEF CheckKey
    <3>2. Alone(t) /\ loc'[t] = [loc[t] EXCEPT !.pc = "head", !.todo = heads]  BY <1>1, <3>1 DEF Alone
    <3>3. /\ IsLocal(loc'[t]) /\ loc'[t].pc = "head" /\ loc'[t].op = loc[t].op /\ loc'[t].var = loc[t].var
          /\ loc'[t].key = loc[t].key /\ loc'[t].todo = heads
      BY <1>1, <1>4, <3>2 DEF IsLocal, Fields, Points, Keyed
    <3>4. LocalOK(loc'[t])  BY <1>1, <1>2, <3>3, KeyedLocal DEF Keyed
    <3>5. QED  BY <2>3, <3>2, <3>3, <3>4
  <2>4. QED  BY <2>1, <2>2, <2>3
<1>6. HeadOK(t)'
  <2>1. ~Exiting(loc'[t]) /\ ~Walks(loc'[t])  BY <1>5 DEF LocalOK, Exiting, Walks, Walking, Keyed
  <2>2. QED  BY <1>1, <1>2, <1>3, <1>5, <2>1 DEF HeadOK, At
<1>7. nextBase <= nextBase'  BY <1>3, TlsAssumption DEF Inv, Types
<1>8. Quiet(t)
  <2>1. loc'[t].pc \in Seeking \cup Keyed \cup {"idle"} /\ loc'[t].pc # "push" /\ loc'[t].pc # "link" /\ ~At(t, "link")
    BY <1>2, <1>5 DEF Seeking, Keyed, At
  <2>2. Calling(loc'[t]) => loc'[t].var = loc[t].var  BY <1>5 DEF Calling
  <2>3. loc'[t].pc \in Keyed => tlsKey[loc'[t].var] = loc'[t].key  BY <1>2, <1>5 DEF Keyed
  <2>4. QED  BY <1>2, <1>3, <1>5, <1>6, <1>7, <2>1, <2>2, <2>3, CallGoesOn
<1>9. Types' /\ OwnData'
  <2>1. script' \in [Threads -> Seq(Ops \X Vars)]  BY <1>3 DEF Inv, Types
  <2>2. QED  BY <1>3, <2>1, TypesStay
<1>10. QED  BY <1>8, <1>9, QuietKeeps

\* What a call leaves alone when it looks for a head, or gets one.
LEMMA HeadParts ==
  ASSUME Inv, NEW t \in Threads, Alone(t), LocalOK(loc'[t]),
         UNCHANGED <<arrays, stat, data, tlsKey, phase, live, answer>>,
         \A v, k : Owns(v, k)' <=> Owns(v, k),
         tls[t] = None, DOMAIN tls' = Threads, \A u \in Threads : u # t => tls'[u] = tls[u],
         loc[t].pc \in Keyed, loc'[t].pc \in Keyed
  PROVE  ContentsOK' /\ LiveOK' /\ WalksOK' /\ OwnData'
<1>1. /\ loc[t].pc \notin {"gone", "clear", "unused"} /\ loc'[t].pc \notin {"gone", "clear", "unused"} \cup Walking
      /\ loc'[t].op \in {"get", "set"}
  BY DEF Keyed, LocalOK, Walking
<1>2. ~Walks(loc'[t]) /\ ~Exiting(loc'[t])  BY <1>1 DEF Walks, Exiting
<1>3. ASSUME NEW h \in Heads, NEW k \in Keys PROVE ContentOK(h, k)'
  <2>1. ContentOK(h, k) /\ data[h][k] \in Data \cup {None} /\ h # None
    BY HeadIs DEF Inv, ContentsOK, Types
  <2>2. data[h][k] # None => data[h][k][1] \in Threads /\ data[h][k][2] \in Vars /\ data[h][k][1] # t
    <3>1. data[h][k] # None => data[h][k][1] \in Threads /\ data[h][k][2] \in Vars  BY <2>1 DEF Data
    <3>2. data[h][k] # None => tls[data[h][k][1]] = h  BY <2>1 DEF ContentOK
    <3>3. QED  BY <2>1, <3>1, <3>2
  <2>3. \A u \in Threads : loc'[u].pc = "gone" <=> loc[u].pc = "gone"  BY <1>1 DEF Alone
  <2>4. Filled(h, k)' <=> Filled(h, k)  BY DEF Filled
  <2>5. Filled(h, k) => data[h][k] # None /\ loc'[data[h][k][1]].pc # "gone" /\ Owns(data[h][k][2], k)'
                        /\ In(ArrayOf(k), arrays[h])
    BY <2>1, <2>2, <2>3 DEF ContentOK, At
  <2>6. data[h][k] # None => tls'[data[h][k][1]] = h
                             /\ (tlsKey[data[h][k][2]] = k \/ phase[data[h][k][2]] = "gone")
    BY <2>1, <2>2 DEF ContentOK
  <2>7. stat[h][k] = "destructing" => \E u \in Threads : At(u, "clear")' /\ Spot(u)' = <<h, k>>
    <3>1. ASSUME stat[h][k] = "destructing" PROVE \E u \in Threads : At(u, "clear")' /\ Spot(u)' = <<h, k>>
      <4>1. PICK u \in Threads : At(u, "clear") /\ Spot(u) = <<h, k>>  BY <2>1, <3>1 DEF ContentOK
      <4>2. u # t  BY <1>1, <4>1 DEF At
      <4>3. loc'[u] = loc[u] /\ tls'[u] = tls[u]  BY <4>2 DEF Alone
      <4>4. At(u, "clear")' /\ Spot(u)' = <<h, k>>  BY <4>1, <4>3 DEF At, Spot
      <4>5. QED  BY <4>4
    <3>2. QED  BY <3>1
  <2>8. QED  BY <2>4, <2>5, <2>6, <2>7 DEF ContentOK, At
<1>4. ASSUME NEW u \in Threads PROVE WalkOK(u)'
  <2>1. CASE u = t  BY <1>1, <1>2, <2>1 DEF WalkOK, Walks, Exiting
  <2>2. CASE u # t
    <3>1. WalkOK(u) /\ loc'[u] = loc[u] /\ tls'[u] = tls[u]  BY <2>2 DEF Alone, Inv, WalksOK
    <3>2. \A h, k : Filled(h, k)' <=> Filled(h, k)  BY DEF Filled
    <3>3. Spot(u)' = Spot(u)  BY <3>1 DEF Spot
    <3>4. QED  BY <3>1, <3>2, <3>3 DEF WalkOK, Walks, Exiting
  <2>3. QED  BY <2>1, <2>2
<1>5. InUse' = InUse  BY DEF InUse
<1>6. LiveOK' /\ OwnData'  BY <1>5 DEF Inv, LiveOK, OwnData
<1>7. QED  BY <1>3, <1>4, <1>6 DEF ContentsOK, WalksOK

LEMMA WithHeadIs ==
  ASSUME Inv, NEW t \in Threads, WithHead(t), loc[t].pc \in Keyed
  PROVE  /\ Alone(t) /\ LocalOK(loc'[t]) /\ loc'[t].pc = "find"
         /\ loc'[t].op = loc[t].op /\ loc'[t].var = loc[t].var /\ loc'[t].key = loc[t].key
<1>1. LocalOK(loc[t]) /\ IsLocal(loc[t]) /\ DOMAIN loc = Threads  BY LocalIs
<1>2. Alone(t) /\ loc'[t] = [loc[t] EXCEPT !.pc = "find", !.todo = <<>>, !.idx = 0]
  BY <1>1 DEF Alone, WithHead
<1>3. <<>> \in Seq(Nat)  OBVIOUS
<1>4. /\ IsLocal(loc'[t]) /\ loc'[t].pc = "find" /\ loc'[t].op = loc[t].op /\ loc'[t].var = loc[t].var
      /\ loc'[t].key = loc[t].key
  BY <1>1, <1>2, <1>3 DEF IsLocal, Fields, Points, Keyed
<1>5. LocalOK(loc'[t])  BY <1>1, <1>4, KeyedLocal DEF Keyed
<1>6. QED  BY <1>2, <1>4, <1>5

\* A head that its thread has left is taken by another one.
LEMMA TryHeadKeeps ==
  ASSUME Inv, NEW t \in Threads, TryHead(t)
  PROVE  Inv'
<1>1. LocalOK(loc[t]) /\ IsLocal(loc[t]) /\ DOMAIN loc = Threads /\ HeadOK(t) /\ KeyOK(loc[t])  BY LocalIs
<1>2. /\ loc[t].pc = "head" /\ loc[t].pc \in Keyed /\ Calling(loc[t]) /\ tlsKey[loc[t].var] = loc[t].key
      /\ loc[t].todo # <<>> /\ loc[t].todo \in Seq(Nat) /\ tls[t] = None
      /\ \A h \in Nat : In(h, loc[t].todo) => In(h, heads)
  BY <1>1 DEF TryHead, At, LocalOK, Calling, Keyed, KeyOK, HasKey, HeadOK, IsLocal
<1>3. UNCHANGED <<keyStat, param, numFree, hint, keyChain, nextBase, heads, made, arrays, stat, data, contentVars,
                  mutex, tlsKey, phase, live, answer, script>>
  BY DEF TryHead, keyVars, contentVars, histVars
<1> DEFINE h == Head(loc[t].todo)
<1>4. h \in Nat /\ In(h, heads) /\ h \in Heads /\ Tail(loc[t].todo) \in Seq(Nat)
      /\ \A x : In(x, Tail(loc[t].todo)) => In(x, loc[t].todo)
  <2>1. h \in Nat /\ In(h, loc[t].todo) /\ Tail(loc[t].todo) \in Seq(Nat)
        /\ \A x : In(x, Tail(loc[t].todo)) => In(x, loc[t].todo)
    BY <1>2, HeadAndTail
  <2>2. In(h, heads)  BY <1>2, <2>1
  <2>3. h \in Heads  BY <2>2, MadeBound DEF In
  <2>4. QED  BY <2>1, <2>2, <2>3
<1>5. CASE own[h] = "notUsed"
  <2>1. own' = [own EXCEPT ![h] = "used"] /\ tls' = [tls EXCEPT ![t] = h] /\ WithHead(t)  BY <1>5 DEF TryHead
  <2> HIDE DEF h
  <2>2. /\ Alone(t) /\ LocalOK(loc'[t]) /\ loc'[t].pc = "find"
        /\ loc'[t].op = loc[t].op /\ loc'[t].var = loc[t].var /\ loc'[t].key = loc[t].key
    BY <1>2, <2>1, WithHeadIs
  <2>3. /\ tls' \in [Threads -> Heads \cup {None}] /\ tls'[t] = h /\ \A u \in Threads : u # t => tls'[u] = tls[u]
        /\ own' \in [Heads -> {"used", "notUsed"}] /\ own'[h] = "used" /\ \A g \in Heads : g # h => own'[g] = own[g]
    BY <1>4, <2>1 DEF Inv, Types
  <2>4. /\ LocalsOK' /\ MutexOK' /\ VarsOK' /\ KeysOK' /\ CountsOK'
        /\ \A v, k : Owns(v, k)' <=> Owns(v, k)
    BY <1>2, <1>3, <2>2, KeyedParts DEF Keyed
  <2>5. ContentsOK' /\ LiveOK' /\ WalksOK' /\ OwnData'
    <3>1. DOMAIN tls' = Threads /\ loc'[t].pc \in Keyed  BY <2>2, <2>3 DEF Keyed
    <3>2. QED  BY <1>2, <1>3, <2>2, <2>3, <2>4, <3>1, HeadParts, Zenon
  <2>6. Types'  BY <1>3, <2>3, SMTT(20) DEF Inv, Types
  <2>7. h # None  BY <1>4, TlsAssumption
  <2>8. HeadsOK'
    <3>1. ASSUME NEW u \in Threads PROVE HeadOK(u)'
      <4>1. CASE u = t
        <5>1. ~Exiting(loc'[t]) /\ ~Walks(loc'[t])
          BY <2>2, LocalIs, <1>2 DEF LocalOK, Exiting, Walks, Walking, Calling
        <5>2. h # None  BY <1>4, HeadIs
        <5>3. QED  BY <1>3, <1>4, <2>2, <2>3, <4>1, <5>1, <5>2 DEF HeadOK, At
      <4>2. CASE u # t
        <5>1. HeadOK(u) /\ loc'[u] = loc[u] /\ tls'[u] = tls[u] /\ tls[u] \in Heads \cup {None}
          BY <2>2, <2>3, <4>2 DEF Alone, Inv, HeadsOK, Types
        <5>2. \A g \in Heads : own[g] = "used" => own'[g] = "used"  BY <2>3
        <5>3. QED  BY <1>3, <5>1, <5>2 DEF HeadOK, At, Exiting, Walks
      <4>3. QED  BY <4>1, <4>2
    <3>2. ASSUME NEW u \in Threads, tls[u] = h, ~At(u, "gone") PROVE FALSE
      BY <1>5, <2>7, <3>2 DEF Inv, HeadsOK, HeadOK, h
    <3>3. ASSUME NEW u \in Threads, NEW w \in Threads, tls'[u] # None, tls'[u] = tls'[w],
                 loc'[u].pc # "gone", loc'[w].pc # "gone"
          PROVE  u = w
      <4>1. \A z \in Threads : z # t => loc'[z] = loc[z]  BY <2>2 DEF Alone
      <4>2. CASE u # t /\ w # t  BY <2>3, <3>3, <4>1, <4>2 DEF Inv, HeadsOK, At
      <4>3. CASE u = t /\ w # t  BY <2>3, <3>2, <3>3, <4>1, <4>3 DEF At
      <4>4. CASE u # t /\ w = t  BY <2>3, <3>2, <3>3, <4>1, <4>4 DEF At
      <4>5. QED  BY <4>2, <4>3, <4>4
    <3>4. \A u, w \in Threads : At(u, "link")' /\ At(w, "link")' /\ loc'[u].idx = loc'[w].idx => u = w
      <4>1. \A z \in Threads : loc'[z].pc = "link" => loc[z].pc = "link" /\ loc'[z].idx = loc[z].idx
        BY <2>2 DEF Alone
      <4>2. QED  BY <4>1 DEF Inv, HeadsOK, At
    <3>5. \A g \in Heads : own'[g] = "notUsed" => In(g, heads')  BY <1>3, <2>3 DEF Inv, HeadsOK
    <3>6. QED  BY <3>1, <3>3, <3>4, <3>5 DEF HeadsOK, At
  <2>9. MadeOK'
    <3>1. \A u \in Threads : loc'[u].pc = "link" <=> loc[u].pc = "link"  BY <1>2, <2>2 DEF Alone
    <3>2. Makers' = Makers \cup {t} /\ t \notin Makers  BY <1>2, <2>3, <2>7, <3>1 DEF Makers, At
    <3>3. Cardinality(Makers \cup {t}) = Cardinality(Makers) + 1
      <4>1. IsFiniteSet(Makers)  BY MadeBound
      <4>2. QED  BY <3>2, <4>1, FS_AddElement, Zenon
    <3>4. made <= Cardinality(Makers)  BY DEF Inv, MadeOK
    <3>5. QED  BY <1>3, <3>2, <3>3, <3>4, MadeBound DEF MadeOK
  <2>10. QED  BY <2>4, <2>5, <2>6, <2>8, <2>9 DEF Inv
<1>6. CASE own[h] # "notUsed"
  <2>1. loc' = [loc EXCEPT ![t].todo = Tail(loc[t].todo)] /\ own' = own /\ tls' = tls  BY <1>6 DEF TryHead
  <2> HIDE DEF h
  <2>2. Alone(t) /\ loc'[t] = [loc[t] EXCEPT !.todo = Tail(loc[t].todo)]  BY <1>1, <2>1 DEF Alone
  <2>3. /\ IsLocal(loc'[t]) /\ loc'[t].pc = "head" /\ loc'[t].op = loc[t].op /\ loc'[t].var = loc[t].var
        /\ loc'[t].key = loc[t].key /\ loc'[t].todo = Tail(loc[t].todo)
    BY <1>1, <1>2, <1>4, <2>2 DEF IsLocal, Fields, Points, Keyed
  <2>4. LocalOK(loc'[t])  BY <1>1, <1>2, <2>3, KeyedLocal DEF Keyed
  <2>5. HeadOK(t)'
    <3>1. ~Exiting(loc'[t]) /\ ~Walks(loc'[t])  BY <2>3, <2>4 DEF LocalOK, Exiting, Walks, Walking, Keyed
    <3>2. QED  BY <1>1, <1>2, <1>3, <1>4, <2>1, <2>3, <3>1 DEF HeadOK, At
  <2>6. Quiet(t)
    <3>1. loc'[t].pc \in Seeking \cup Keyed \cup {"idle"} /\ loc'[t].pc # "push" /\ loc'[t].pc # "link" /\ ~At(t, "link")
      BY <1>2, <2>3 DEF Seeking, Keyed, At
    <3>2. nextBase <= nextBase'  BY <1>3, TlsAssumption DEF Inv, Types
    <3>3. loc'[t].pc \in Keyed => tlsKey[loc'[t].var] = loc'[t].key  BY <1>2, <2>3
    <3>4. UNCHANGED <<keyStat, param, numFree, heads, made, own, contentVars, tls, mutex, tlsKey, phase, live>>
      BY <1>3, <2>1
    <3>5. Calling(loc'[t]) => Calling(loc[t]) /\ loc'[t].var = loc[t].var  BY <1>2, <2>3
    <3>6. loc[t].pc \in Seeking \cup Keyed \cup {"idle"}  BY <1>2
    <3>7. QED  BY <2>2, <2>4, <2>5, <3>1, <3>2, <3>3, <3>4, <3>5, <3>6, CallGoesOn, Zenon
  <2>7. Types' /\ OwnData'
    <3>1. script' \in [Threads -> Seq(Ops \X Vars)]  BY <1>3 DEF Inv, Types
    <3>2. QED  BY <1>3, <2>1, <3>1, TypesStay
  <2>8. QED  BY <2>6, <2>7, QuietKeeps
<1>7. QED  BY <1>5, <1>6

\* A thread that finds no head makes one.
LEMMA NewHeadKeeps ==
  ASSUME Inv, NEW t \in Threads, NewHead(t)
  PROVE  Inv'
<1>1. LocalOK(loc[t]) /\ IsLocal(loc[t]) /\ DOMAIN loc = Threads /\ HeadOK(t)  BY LocalIs
<1>2. loc[t].pc = "head" /\ loc[t].pc \in Keyed /\ Calling(loc[t]) /\ tls[t] = None
  BY <1>1 DEF NewHead, At, LocalOK, Calling, Keyed, HeadOK
<1>3. /\ UNCHANGED <<keyStat, param, numFree, hint, keyChain, nextBase, heads, own, tls, arrays, stat, data,
                     mutex, tlsKey, phase, live, answer, script>>
      /\ made' = made + 1
  BY DEF NewHead, keyVars, contentVars, histVars
<1>4. made \in Nat /\ heads \in Seq(1 .. made)  BY DEF Inv, Types
<1>5. heads \in Seq(Nat) /\ heads \in Seq(1 .. made + 1)
  <2>1. 1 .. made \subseteq Nat /\ 1 .. made \subseteq 1 .. made + 1  BY <1>4
  <2>2. QED  BY <1>4, <2>1, SeqOfMore, Zenon
<1>6. Alone(t) /\ loc'[t] = [loc[t] EXCEPT !.pc = "link", !.idx = made + 1, !.todo = heads]
  BY <1>1 DEF NewHead, Alone
<1>7. /\ IsLocal(loc'[t]) /\ loc'[t].pc = "link" /\ loc'[t].op = loc[t].op /\ loc'[t].var = loc[t].var
      /\ loc'[t].key = loc[t].key /\ loc'[t].idx = made + 1
  BY <1>1, <1>4, <1>5, <1>6 DEF IsLocal, Fields, Points, Keyed
<1>8. LocalOK(loc'[t])  BY <1>1, <1>2, <1>7, KeyedLocal DEF Keyed
<1>9. /\ LocalsOK' /\ MutexOK' /\ VarsOK' /\ KeysOK' /\ CountsOK'
      /\ \A v, k : Owns(v, k)' <=> Owns(v, k)
  <2>1. loc'[t].pc \in Keyed \cup {"idle"}  BY <1>7 DEF Keyed
  <2>2. UNCHANGED <<keyStat, param, numFree, nextBase, mutex, tlsKey, phase>>  BY <1>3
  <2>3. QED  BY <1>2, <1>6, <1>7, <1>8, <2>1, <2>2, KeyedParts, Zenon
<1>10. ContentsOK' /\ LiveOK' /\ WalksOK' /\ OwnData'
  <2>1. /\ DOMAIN tls' = Threads /\ (\A u \in Threads : u # t => tls'[u] = tls[u]) /\ loc'[t].pc \in Keyed
    BY <1>3, <1>7 DEF Keyed, Inv, Types
  <2>2. QED  BY <1>2, <1>3, <1>6, <1>8, <1>9, <2>1, HeadParts, Zenon
<1>11. Types'
  <2>1. made' \in Nat /\ heads' \in Seq(1 .. made')  BY <1>3, <1>4, <1>5
  <2>2. QED  BY <1>3, <2>1 DEF Inv, Types
<1>12. \A h : In(h, heads) => h \in 1 .. made
  BY MadeBound DEF In
<1>13. HeadsOK'
  <2>1. ASSUME NEW u \in Threads PROVE HeadOK(u)'
    <3>1. CASE u = t
      <4>1. ~Exiting(loc'[t]) /\ ~Walks(loc'[t])
        BY <1>2, <1>7 DEF Exiting, Walks, Walking, Calling
      <4>2. made + 1 \in 1 .. made' /\ ~In(made + 1, heads)  BY <1>3, <1>4, <1>12
      <4>3. QED  BY <1>2, <1>3, <1>7, <3>1, <4>1, <4>2 DEF HeadOK, At
    <3>2. CASE u # t
      <4>1. HeadOK(u) /\ loc'[u] = loc[u]  BY <1>6, <3>2 DEF Alone, Inv, HeadsOK
      <4>2. 1 .. made \subseteq 1 .. made'  BY <1>3, <1>4
      <4>3. QED  BY <1>3, <4>1, <4>2 DEF HeadOK, At, Exiting, Walks
    <3>3. QED  BY <3>1, <3>2
  <2>2. ASSUME NEW u \in Threads, NEW w \in Threads, loc'[u].pc = "link", loc'[w].pc = "link", loc'[u].idx = loc'[w].idx
        PROVE  u = w
    <3>1. \A z \in Threads : z # t => loc'[z] = loc[z]  BY <1>6 DEF Alone
    <3>2. \A z \in Threads : loc[z].pc = "link" => loc[z].idx # made + 1  BY <1>4 DEF Inv, HeadsOK, HeadOK, At
    <3>3. CASE u # t /\ w # t  BY <2>2, <3>1, <3>3 DEF Inv, HeadsOK, At
    <3>4. CASE u = t /\ w # t  BY <1>7, <2>2, <3>1, <3>2, <3>4
    <3>5. CASE u # t /\ w = t  BY <1>7, <2>2, <3>1, <3>2, <3>5
    <3>6. QED  BY <3>3, <3>4, <3>5
  <2>3. \A u, w \in Threads :
          tls'[u] # None /\ tls'[u] = tls'[w] /\ ~At(u, "gone")' /\ ~At(w, "gone")' => u = w
    <3>1. \A z \in Threads : loc'[z].pc = "gone" <=> loc[z].pc = "gone"
      <4>1. \A z \in Threads : z # t => loc'[z] = loc[z]  BY <1>6 DEF Alone
      <4>2. QED  BY <1>2, <1>7, <4>1
    <3>2. QED  BY <1>3, <3>1 DEF Inv, HeadsOK, At
  <2>4. \A h \in Heads : own'[h] = "notUsed" => In(h, heads')  BY <1>3 DEF Inv, HeadsOK
  <2>5. QED  BY <2>1, <2>2, <2>3, <2>4 DEF HeadsOK, At
<1>14. MadeOK'
  <2>1. \A u \in Threads : loc'[u].pc = "link" <=> u = t \/ loc[u].pc = "link"
    <3>1. \A z \in Threads : z # t => loc'[z] = loc[z]  BY <1>6 DEF Alone
    <3>2. QED  BY <1>7, <3>1
  <2>2. Makers' = Makers \cup {t} /\ t \notin Makers  BY <1>2, <1>3, <2>1 DEF Makers, At
  <2>3. Cardinality(Makers \cup {t}) = Cardinality(Makers) + 1
    <3>1. IsFiniteSet(Makers)  BY MadeBound
    <3>2. QED  BY <2>2, <3>1, FS_AddElement, Zenon
  <2>4. made <= Cardinality(Makers)  BY DEF Inv, MadeOK
  <2>5. QED  BY <1>3, <1>4, <2>2, <2>3, <2>4, MadeBound DEF MadeOK
<1>15. QED  BY <1>9, <1>10, <1>11, <1>13, <1>14 DEF Inv

LEMMA PushHeadKeeps ==
  ASSUME Inv, NEW t \in Threads, PushHead(t)
  PROVE  Inv'
<1>1. LocalOK(loc[t]) /\ IsLocal(loc[t]) /\ DOMAIN loc = Threads /\ HeadOK(t) /\ KeyOK(loc[t])  BY LocalIs
<1>2. /\ loc[t].pc = "link" /\ loc[t].pc \in Keyed /\ Calling(loc[t]) /\ tlsKey[loc[t].var] = loc[t].key
      /\ tls[t] = None /\ loc[t].idx \in 1 .. made /\ ~In(loc[t].idx, heads)
  BY <1>1 DEF PushHead, At, LocalOK, Calling, Keyed, KeyOK, HasKey, HeadOK
<1>3. UNCHANGED <<keyStat, param, numFree, hint, keyChain, nextBase, made, own, arrays, stat, data, contentVars,
                  mutex, tlsKey, phase, live, answer, script>>
  BY DEF PushHead, keyVars, contentVars, histVars
<1>4. made \in Nat /\ heads \in Seq(1 .. made) /\ heads \in Seq(Nat)
  <2>1. made \in Nat /\ heads \in Seq(1 .. made)  BY DEF Inv, Types
  <2>2. 1 .. made \subseteq Nat  BY <2>1
  <2>3. QED  BY <2>1, <2>2, SeqOfMore, Zenon
<1> DEFINE h == loc[t].idx
<1>5. h \in Heads /\ h # None  BY <1>2, MadeBound, HeadIs
<1>6. CASE heads = loc[t].todo
  <2>1. heads' = <<h>> \o heads /\ tls' = [tls EXCEPT ![t] = h] /\ WithHead(t)  BY <1>6 DEF PushHead
  <2>2. h \in 1 .. made /\ ~In(h, heads)  BY <1>2
  <2>3. \A u \in Threads : loc[u].pc = "link" /\ loc[u].idx = h => u = t  BY <1>2 DEF Inv, HeadsOK, At
  <2> HIDE DEF h
  <2>4. /\ Alone(t) /\ LocalOK(loc'[t]) /\ loc'[t].pc = "find"
        /\ loc'[t].op = loc[t].op /\ loc'[t].var = loc[t].var /\ loc'[t].key = loc[t].key
    BY <1>2, <2>1, WithHeadIs
  <2>5. /\ tls' \in [Threads -> Heads \cup {None}] /\ tls'[t] = h /\ \A u \in Threads : u # t => tls'[u] = tls[u]
    BY <1>5, <2>1 DEF Inv, Types
  <2>6. /\ heads' \in Seq(1 .. made) /\ \A x : In(x, heads') <=> x = h \/ In(x, heads)
    BY <1>4, <2>1, <2>2, Front
  <2>7. /\ LocalsOK' /\ MutexOK' /\ VarsOK' /\ KeysOK' /\ CountsOK'
        /\ \A v, k : Owns(v, k)' <=> Owns(v, k)
    BY <1>2, <1>3, <2>4, KeyedParts DEF Keyed
  <2>8. ContentsOK' /\ LiveOK' /\ WalksOK' /\ OwnData'
    <3>1. DOMAIN tls' = Threads /\ loc'[t].pc \in Keyed  BY <2>4, <2>5 DEF Keyed
    <3>2. QED  BY <1>2, <1>3, <2>4, <2>5, <2>7, <3>1, HeadParts, Zenon
  <2>9. Types'  BY <1>3, <2>5, <2>6 DEF Inv, Types
  <2>10. HeadsOK'
    <3>1. ASSUME NEW u \in Threads PROVE HeadOK(u)'
      <4>1. CASE u = t
        <5>1. ~Exiting(loc'[t]) /\ ~Walks(loc'[t])
          BY <1>2, <2>4 DEF LocalOK, Exiting, Walks, Walking, Calling
        <5>2. own[h] = "used"  BY <1>5, <2>2 DEF Inv, HeadsOK, Types
        <5>3. QED  BY <1>3, <1>5, <2>4, <2>5, <2>6, <4>1, <5>1, <5>2 DEF HeadOK, At
      <4>2. CASE u # t
        <5>1. HeadOK(u) /\ loc'[u] = loc[u] /\ tls'[u] = tls[u]
          BY <2>4, <2>5, <4>2 DEF Alone, Inv, HeadsOK
        <5>2. \A x : In(x, heads) => In(x, heads')  BY <2>6
        <5>3. loc[u].pc = "link" => ~In(loc[u].idx, heads')  BY <2>3, <2>6, <4>2, <5>1 DEF HeadOK, At
        <5>4. QED  BY <1>3, <5>1, <5>2, <5>3 DEF HeadOK, At, Exiting, Walks
      <4>3. QED  BY <4>1, <4>2
    <3>2. ASSUME NEW u \in Threads PROVE tls[u] # h
      BY <1>5, <2>2 DEF Inv, HeadsOK, HeadOK
    <3>3. ASSUME NEW u \in Threads, NEW w \in Threads, tls'[u] # None, tls'[u] = tls'[w],
                 loc'[u].pc # "gone", loc'[w].pc # "gone"
          PROVE  u = w
      <4>1. \A z \in Threads : z # t => loc'[z] = loc[z]  BY <2>4 DEF Alone
      <4>2. CASE u # t /\ w # t  BY <2>5, <3>3, <4>1, <4>2 DEF Inv, HeadsOK, At
      <4>3. CASE u = t /\ w # t  BY <2>5, <3>2, <3>3, <4>3
      <4>4. CASE u # t /\ w = t  BY <2>5, <3>2, <3>3, <4>4
      <4>5. QED  BY <4>2, <4>3, <4>4
    <3>4. \A u, w \in Threads : At(u, "link")' /\ At(w, "link")' /\ loc'[u].idx = loc'[w].idx => u = w
      <4>1. \A z \in Threads : loc'[z].pc = "link" => loc[z].pc = "link" /\ loc'[z].idx = loc[z].idx
        BY <2>4 DEF Alone
      <4>2. QED  BY <4>1 DEF Inv, HeadsOK, At
    <3>5. \A g \in Heads : own'[g] = "notUsed" => In(g, heads')  BY <1>3, <2>6 DEF Inv, HeadsOK
    <3>6. QED  BY <3>1, <3>3, <3>4, <3>5 DEF HeadsOK, At
  <2>11. MadeOK'
    <3>1. \A u \in Threads : u # t => (loc'[u].pc = "link" <=> loc[u].pc = "link")  BY <2>4 DEF Alone
    <3>2. Makers' = Makers  BY <1>2, <1>5, <2>5, <3>1 DEF Makers, At
    <3>3. QED  BY <1>3, <3>2 DEF Inv, MadeOK
  <2>12. QED  BY <2>7, <2>8, <2>9, <2>10, <2>11 DEF Inv
<1>7. CASE heads # loc[t].todo
  <2>1. loc' = [loc EXCEPT ![t].todo = heads] /\ heads' = heads /\ tls' = tls  BY <1>7 DEF PushHead
  <2> HIDE DEF h
  <2>2. Alone(t) /\ loc'[t] = [loc[t] EXCEPT !.todo = heads]  BY <1>1, <2>1 DEF Alone
  <2>3. /\ IsLocal(loc'[t]) /\ loc'[t].pc = "link" /\ loc'[t].op = loc[t].op /\ loc'[t].var = loc[t].var
        /\ loc'[t].key = loc[t].key /\ loc'[t].idx = loc[t].idx
    BY <1>1, <1>2, <1>4, <2>2 DEF IsLocal, Fields, Points, Keyed
  <2>4. LocalOK(loc'[t])  BY <1>1, <1>2, <2>3, KeyedLocal DEF Keyed
  <2>5. HeadOK(t)'
    <3>1. ~Exiting(loc'[t]) /\ ~Walks(loc'[t])  BY <2>3, <2>4 DEF LocalOK, Exiting, Walks, Walking, Keyed
    <3>2. QED  BY <1>2, <1>3, <2>1, <2>3, <3>1 DEF HeadOK, At
  <2>6. Quiet(t)
    <3>1. loc'[t].pc \in Seeking \cup Keyed \cup {"idle"} /\ loc'[t].pc # "push"
          /\ (loc'[t].pc = "link" <=> At(t, "link")) /\ (At(t, "link") => loc'[t].idx = loc[t].idx)
      BY <1>2, <2>3 DEF Seeking, Keyed, At
    <3>2. nextBase <= nextBase'  BY <1>3, TlsAssumption DEF Inv, Types
    <3>3. loc'[t].pc \in Keyed => tlsKey[loc'[t].var] = loc'[t].key  BY <1>2, <2>3
    <3>4. UNCHANGED <<keyStat, param, numFree, heads, made, own, contentVars, tls, mutex, tlsKey, phase, live>>
      BY <1>3, <2>1
    <3>5. Calling(loc'[t]) => Calling(loc[t]) /\ loc'[t].var = loc[t].var  BY <1>2, <2>3
    <3>6. loc[t].pc \in Seeking \cup Keyed \cup {"idle"}  BY <1>2
    <3>7. QED  BY <2>2, <2>4, <2>5, <3>1, <3>2, <3>3, <3>4, <3>5, <3>6, CallGoesOn, Zenon
  <2>7. Types' /\ OwnData'
    <3>1. script' \in [Threads -> Seq(Ops \X Vars)]  BY <1>3 DEF Inv, Types
    <3>2. QED  BY <1>3, <2>1, <3>1, TypesStay
  <2>8. QED  BY <2>6, <2>7, QuietKeeps
<1>8. QED  BY <1>6, <1>7

-----------------------------------------------------------------------------
(* The content of a call                                                   *)

LEMMA FindContentKeeps ==
  ASSUME Inv, NEW t \in Threads, FindContent(t)
  PROVE  Inv'
<1>1. LocalOK(loc[t]) /\ IsLocal(loc[t]) /\ DOMAIN loc = Threads /\ HeadOK(t)  BY LocalIs
<1>2. /\ loc[t].pc = "find" /\ loc[t].pc \in Keyed /\ loc[t].op \in {"get", "set"} /\ Calling(loc[t])
      /\ loc[t].key \in Keys /\ tls[t] # None
  BY <1>1 DEF FindContent, At, LocalOK, Calling, HasKey, Keyed, HeadOK
<1>3. UNCHANGED <<keyStat, param, numFree, hint, keyChain, nextBase, heads, made, own, stat, data,
                  tls, mutex, tlsKey, phase, live, answer, script>>
  BY DEF FindContent, keyVars, headVars, histVars
<1> DEFINE h == tls[t]
           a == ArrayOf(loc[t].key)
<1>4. h \in Heads /\ own[h] = "used" /\ a \in Arrays
  <2>1. h \in Heads  BY <1>2 DEF Inv, Types
  <2>2. own[h] = "used"  BY <1>1, <1>2 DEF HeadOK, At
  <2>3. QED  BY <1>2, <2>1, <2>2, ArrayAt
<1>5. /\ arrays' = IF In(a, arrays[h]) THEN arrays ELSE [arrays EXCEPT ![h] = <<a>> \o @]
      /\ Goto(t, loc[t].op)
  BY <1>4 DEF FindContent
<1> HIDE DEF h, a
<1>6. Alone(t) /\ loc'[t] = [loc[t] EXCEPT !.pc = loc[t].op]  BY <1>5, GotoIs
<1>7. /\ IsLocal(loc'[t]) /\ loc'[t].pc = loc[t].op /\ loc'[t].op = loc[t].op /\ loc'[t].var = loc[t].var
      /\ loc'[t].key = loc[t].key
  BY <1>1, <1>2, <1>6 DEF IsLocal, Fields, Points, Keyed
<1>8. loc'[t].pc \in Keyed /\ loc'[t].pc \in {"get", "set"}  BY <1>2, <1>7 DEF Keyed
<1>9. LocalOK(loc'[t])  BY <1>1, <1>2, <1>7, <1>8, KeyedLocal
<1>10. /\ arrays' \in [Heads -> Seq(Arrays)] /\ In(a, arrays'[h])
       /\ \A g \in Heads : \A b : In(b, arrays[g]) => In(b, arrays'[g])
  <2>1. arrays \in [Heads -> Seq(Arrays)]  BY DEF Inv, Types
  <2>2. CASE In(a, arrays[h])  BY <1>5, <2>1, <2>2
  <2>3. CASE ~In(a, arrays[h])
    <3>1. /\ <<a>> \o arrays[h] \in Seq(Arrays)
          /\ \A b : In(b, <<a>> \o arrays[h]) <=> b = a \/ In(b, arrays[h])
      BY <1>4, <2>1, Front
    <3>2. /\ arrays' \in [Heads -> Seq(Arrays)] /\ arrays'[h] = <<a>> \o arrays[h]
          /\ \A g \in Heads : g # h => arrays'[g] = arrays[g]
      BY <1>4, <1>5, <2>1, <2>3, <3>1
    <3>3. ASSUME NEW g \in Heads, NEW b, In(b, arrays[g]) PROVE In(b, arrays'[g])
      <4>1. CASE g = h
        <5>1. arrays[g] = arrays[h] /\ arrays'[g] = <<a>> \o arrays[h]  BY <3>2, <4>1
        <5>2. In(b, arrays[h])  BY <3>3, <5>1
        <5>3. In(b, <<a>> \o arrays[h])  BY <3>1, <5>2
        <5>4. QED  BY <5>1, <5>3
      <4>2. CASE g # h
        <5>1. arrays'[g] = arrays[g]  BY <3>2, <4>2
        <5>2. QED  BY <3>3, <5>1
      <4>3. QED  BY <4>1, <4>2
    <3>4. In(a, arrays'[h])
      <4>1. In(a, <<a>> \o arrays[h])  BY <3>1
      <4>2. QED  BY <3>2, <4>1
    <3>5. QED  BY <3>2, <3>3, <3>4, Zenon
  <2>4. QED  BY <2>2, <2>3, Zenon
<1>11. /\ LocalsOK' /\ MutexOK' /\ VarsOK' /\ KeysOK' /\ CountsOK'
       /\ \A v, k : Owns(v, k)' <=> Owns(v, k)
  <2>1. UNCHANGED <<keyStat, param, numFree, nextBase, mutex, tlsKey, phase>>  BY <1>3
  <2>2. loc'[t].pc \in Keyed \cup {"idle"}  BY <1>8
  <2>3. QED  BY <1>2, <1>6, <1>7, <1>9, <2>1, <2>2, KeyedParts, Zenon
<1>12. Types'  BY <1>3, <1>10 DEF Inv, Types
<1>13. HeadsOK'
  <2>1. ASSUME NEW u \in Threads PROVE HeadOK(u)'
    <3>1. CASE u = t
      <4>1. ~Exiting(loc'[t]) /\ ~Walks(loc'[t])  BY <1>2, <1>7, <1>8 DEF Exiting, Walks, Walking
      <4>2. ArrayOf(loc'[t].key) = a /\ tls'[t] = h  BY <1>3, <1>7 DEF a, h
      <4>3. QED  BY <1>1, <1>2, <1>3, <1>8, <1>10, <3>1, <4>1, <4>2 DEF HeadOK, At
    <3>2. CASE u # t
      <4>1. HeadOK(u) /\ loc'[u] = loc[u] /\ tls[u] \in Heads \cup {None}
        BY <1>6, <3>2 DEF Alone, Inv, HeadsOK, Types
      <4>2. QED  BY <1>3, <1>10, <4>1 DEF HeadOK, At, Exiting, Walks
    <3>3. QED  BY <3>1, <3>2
  <2>2. \A z \in Threads : z # t => loc'[z] = loc[z]  BY <1>6 DEF Alone
  <2>3. \A u, w \in Threads :
          tls'[u] # None /\ tls'[u] = tls'[w] /\ ~At(u, "gone")' /\ ~At(w, "gone")' => u = w
    <3>1. \A z \in Threads : loc'[z].pc = "gone" <=> loc[z].pc = "gone"  BY <1>2, <1>8, <2>2
    <3>2. QED  BY <1>3, <3>1 DEF Inv, HeadsOK, At
  <2>4. \A u, w \in Threads : At(u, "link")' /\ At(w, "link")' /\ loc'[u].idx = loc'[w].idx => u = w
    <3>1. \A z \in Threads : loc'[z].pc = "link" => loc[z].pc = "link" /\ loc'[z].idx = loc[z].idx
      BY <1>8, <2>2
    <3>2. QED  BY <3>1 DEF Inv, HeadsOK, At
  <2>5. \A g \in Heads : own'[g] = "notUsed" => In(g, heads')  BY <1>3 DEF Inv, HeadsOK
  <2>6. QED  BY <2>1, <2>3, <2>4, <2>5 DEF HeadsOK
<1>14. MadeOK'
  <2>1. loc'[t].pc = "link" <=> At(t, "link")  BY <1>2, <1>8 DEF At
  <2>2. made' = made /\ tls' = tls  BY <1>3
  <2>3. QED  BY <1>6, <2>1, <2>2, MadeStays, Zenon
<1>15. ContentsOK'
  <2>1. ASSUME NEW g \in Heads, NEW k \in Keys PROVE ContentOK(g, k)'
    <3>1. ContentOK(g, k) /\ data[g][k] \in Data \cup {None}  BY DEF Inv, ContentsOK, Types
    <3>2. data[g][k] # None => data[g][k][1] \in Threads /\ data[g][k][2] \in Vars  BY <3>1 DEF Data
    <3>3. \A z \in Threads : loc'[z].pc = "gone" <=> loc[z].pc = "gone"
      <4>1. \A z \in Threads : z # t => loc'[z] = loc[z]  BY <1>6 DEF Alone
      <4>2. QED  BY <1>2, <1>8, <4>1
    <3>4. Filled(g, k)' <=> Filled(g, k)  BY <1>3 DEF Filled
    <3>5. Filled(g, k) => data[g][k] # None /\ loc'[data[g][k][1]].pc # "gone" /\ In(ArrayOf(k), arrays'[g])
      BY <1>10, <3>1, <3>2, <3>3 DEF ContentOK, At
    <3>6. Filled(g, k) => Owns(data[g][k][2], k)'  BY <1>3, <1>11, <3>1, <3>2 DEF ContentOK
    <3>7. stat[g][k] = "destructing" => \E u \in Threads : At(u, "clear")' /\ Spot(u)' = <<g, k>>
      <4>1. ASSUME stat[g][k] = "destructing" PROVE \E u \in Threads : At(u, "clear")' /\ Spot(u)' = <<g, k>>
        <5>1. PICK u \in Threads : At(u, "clear") /\ Spot(u) = <<g, k>>  BY <3>1, <4>1 DEF ContentOK
        <5>2. loc'[u] = loc[u]  BY <1>2, <1>6, <5>1 DEF Alone, At
        <5>3. At(u, "clear")' /\ Spot(u)' = <<g, k>>  BY <1>3, <5>1, <5>2 DEF At, Spot
        <5>4. QED  BY <5>3
      <4>2. QED  BY <4>1
    <3>8. data[g][k] # None => tls[data[g][k][1]] = g
                               /\ (tlsKey[data[g][k][2]] = k \/ phase[data[g][k][2]] = "gone")
      BY <3>1 DEF ContentOK
    <3>9. QED  BY <1>3, <3>4, <3>5, <3>6, <3>7, <3>8 DEF ContentOK, At
  <2>2. QED  BY <2>1 DEF ContentsOK
<1>16. LiveOK'
  <2>1. InUse' = InUse  BY <1>3 DEF InUse
  <2>2. QED  BY <1>3, <2>1 DEF Inv, LiveOK
<1>17. WalksOK'
  <2>1. WalkOK(t)'  BY <1>2, <1>7, <1>8 DEF WalkOK, Walks, Exiting, Walking
  <2>2. QED  BY <1>3, <1>6, <2>1, WalksStay
<1>18. OwnData'  BY <1>3 DEF Inv, OwnData
<1>19. QED  BY <1>11, <1>12, <1>13, <1>14, <1>15, <1>16, <1>17, <1>18 DEF Inv

\* The place a destruction is at is a content.
LEMMA SpotIs ==
  ASSUME Inv, NEW t \in Threads, loc[t].pc \in {"destruct", "clear"}
  PROVE  /\ Spot(t)[1] \in Heads /\ Spot(t)[2] \in Keys /\ Spot(t) = <<Spot(t)[1], Spot(t)[2]>>
         /\ loc[t].todo # <<>> /\ loc[t].todo \in Seq(Nat) /\ Head(loc[t].todo) \in Nat
         /\ loc[t].op = "exit" => /\ loc[t].todo \in Seq(Arrays) /\ Head(loc[t].todo) \in Arrays
                                  /\ loc[t].idx \in Nat /\ loc[t].idx < ArraySize /\ tls[t] # None
                                  /\ Spot(t) = <<tls[t], Head(loc[t].todo) * ArraySize + loc[t].idx>>
                                  /\ ArrayOf(Spot(t)[2]) = Head(loc[t].todo)
         /\ loc[t].op # "exit" => Spot(t) = <<Head(loc[t].todo), loc[t].key>> /\ In(Head(loc[t].todo), heads)
<1>1. LocalOK(loc[t]) /\ IsLocal(loc[t]) /\ HeadOK(t)  BY LocalIs
<1>2. loc[t].todo # <<>> /\ loc[t].todo \in Seq(Nat) /\ Head(loc[t].todo) \in Nat /\ In(Head(loc[t].todo), loc[t].todo)
  <2>1. loc[t].todo # <<>> /\ loc[t].todo \in Seq(Nat)  BY <1>1 DEF LocalOK, IsLocal
  <2>2. QED  BY <2>1, HeadAndTail
<1>3. CASE loc[t].op = "exit"
  <2>1. Exiting(loc[t]) /\ loc[t].pc # "each"  BY <1>3 DEF Exiting
  <2>2. loc[t].todo \in Seq(Arrays) /\ loc[t].idx \in Nat /\ loc[t].idx < ArraySize
    BY <1>1, <2>1 DEF LocalOK, IsLocal
  <2>3. Head(loc[t].todo) \in Arrays  BY <1>2, <2>2, HeadAndTail
  <2>4. tls[t] # None /\ tls[t] \in Heads  BY <1>1, <2>1 DEF HeadOK, Inv, Types
  <2>5. Head(loc[t].todo) * ArraySize + loc[t].idx \in Keys
        /\ ArrayOf(Head(loc[t].todo) * ArraySize + loc[t].idx) = Head(loc[t].todo)
    BY <2>2, <2>3, KeyAt
  <2>6. Spot(t) = <<tls[t], Head(loc[t].todo) * ArraySize + loc[t].idx>>  BY <1>3 DEF Spot
  <2>7. QED  BY <1>2, <1>3, <2>2, <2>3, <2>4, <2>5, <2>6
<1>4. CASE loc[t].op # "exit"
  <2>1. Walks(loc[t]) /\ Frees(loc[t])  BY <1>4 DEF Walks, Walking, Frees, Releasing
  <2>2. Unpublished(loc[t]) \/ HasKey(loc[t])
    BY <1>1, <1>4, <2>1 DEF IsLocal, Ops, Unpublished, HasKey, Frees
  <2>3. loc[t].key \in Keys  BY <1>1, <2>2 DEF LocalOK
  <2>4. In(Head(loc[t].todo), heads)  BY <1>1, <1>2, <2>1 DEF HeadOK
  <2>5. Head(loc[t].todo) \in Heads  BY <2>4, MadeBound DEF In
  <2>6. Spot(t) = <<Head(loc[t].todo), loc[t].key>>  BY <1>4 DEF Spot
  <2>7. QED  BY <1>2, <1>4, <2>3, <2>4, <2>5, <2>6
<1>5. QED  BY <1>3, <1>4

\* A call has the key of its object, which nobody destroys.
LEMMA KeyIsOwned ==
  ASSUME Inv, NEW t \in Threads, loc[t].pc \in Keyed
  PROVE  /\ Calling(loc[t]) /\ loc[t].var \in Vars /\ loc[t].key \in Keys /\ phase[loc[t].var] = "alive"
         /\ Owns(loc[t].var, loc[t].key) /\ tlsKey[loc[t].var] = loc[t].key /\ param[loc[t].key] = loc[t].var
<1>1. LocalOK(loc[t]) /\ KeyOK(loc[t]) /\ HasKey(loc[t])  BY LocalIs DEF HasKey
<1>2. Calling(loc[t])  BY <1>1 DEF LocalOK, Calling, Keyed
<1>3. loc[t].var \in Vars /\ loc[t].key \in Keys /\ phase[loc[t].var] = "alive" /\ tlsKey[loc[t].var] = loc[t].key
  BY <1>1, <1>2 DEF LocalOK, KeyOK, Inv, VarsOK
<1>4. ~Past(loc[t].var)
  <2>1. ASSUME NEW u \in Threads, loc[u].pc = "null", loc[u].var = loc[t].var PROVE FALSE
    <3>1. Destroying(loc[u])  BY <2>1, LocalIs DEF LocalOK, Destroying
    <3>2. phase[loc[t].var] = "dying"  BY <2>1, <3>1 DEF Inv, VarsOK
    <3>3. QED  BY <1>3, <3>2
  <2>2. QED  BY <2>1 DEF Past, At
<1>5. Owns(loc[t].var, loc[t].key)  BY <1>3, <1>4 DEF Owns
<1>6. param[loc[t].key] = loc[t].var  BY <1>3, <1>5 DEF Inv, KeysOK
<1>7. QED  BY <1>2, <1>3, <1>5, <1>6

\* Nobody releases the key of a call.
LEMMA NoneFreesIt ==
  ASSUME Inv, NEW t \in Threads, loc[t].pc \in Keyed, NEW u \in Threads, Frees(loc[u])
  PROVE  loc[u].key # loc[t].key
<1>1. SUFFICES ASSUME loc[u].key = loc[t].key PROVE FALSE  OBVIOUS
<1>2. LocalOK(loc[u]) /\ KeyOK(loc[u]) /\ IsLocal(loc[u])  BY LocalIs
<1>3. /\ loc[t].var \in Vars /\ loc[t].key \in Keys /\ phase[loc[t].var] = "alive"
      /\ Owns(loc[t].var, loc[t].key)
  BY KeyIsOwned
<1>4. CASE Unpublished(loc[u])  BY <1>1, <1>2, <1>3, <1>4 DEF KeyOK
<1>5. CASE ~Unpublished(loc[u])
  <2>1. Destroying(loc[u]) /\ loc[u].pc \in Releasing
    BY <1>2, <1>5 DEF Frees, Unpublished, Destroying, IsLocal, Ops
  <2>2. loc[u].var \in Vars /\ Owns(loc[u].var, loc[t].key)  BY <1>1, <2>1, Destroyed
  <2>3. loc[u].var = loc[t].var  BY <1>3, <2>2 DEF Inv, KeysOK
  <2>4. phase[loc[t].var] = "dying"  BY <2>1, <2>3 DEF Inv, VarsOK
  <2>5. QED  BY <1>3, <2>4
<1>6. QED  BY <1>4, <1>5

\* What is in the content of a call, and where else the same data can be.
LEMMA ContentIs ==
  ASSUME Inv, NEW t \in Threads, loc[t].pc \in {"get", "set"}
  PROVE  /\ tls[t] \in Heads /\ tls[t] # None /\ In(ArrayOf(loc[t].key), arrays[tls[t]])
         /\ stat[tls[t]][loc[t].key] \in {"uninitialized", "used"}
         /\ stat[tls[t]][loc[t].key] = "used" => data[tls[t]][loc[t].key] = <<t, loc[t].var>>
         /\ stat[tls[t]][loc[t].key] # "used" => data[tls[t]][loc[t].key] \notin live
         /\ stat[tls[t]][loc[t].key] = "used" => <<t, loc[t].var>> \in live
<1> DEFINE h == tls[t]
           k == loc[t].key
           v == loc[t].var
<1>1. loc[t].pc \in Keyed /\ ~At(t, "gone")  BY DEF Keyed, At
<1>2. HeadOK(t) /\ v \in Vars /\ k \in Keys /\ phase[v] = "alive" /\ Owns(v, k)  BY <1>1, KeyIsOwned, LocalIs
<1>3. h \in Heads /\ h # None /\ In(ArrayOf(k), arrays[h])  BY <1>2 DEF HeadOK, At, Inv, Types
<1>4. ContentOK(h, k) /\ data[h][k] \in Data \cup {None} /\ stat[h][k] \in {"uninitialized", "used", "destructing"}
  BY <1>2, <1>3 DEF Inv, ContentsOK, Types
<1>5. ASSUME NEW u \in Threads, tls[u] = h, loc[u].pc # "gone" PROVE u = t
  BY <1>1, <1>3, <1>5 DEF Inv, HeadsOK, At
<1> HIDE DEF h, k, v
<1>6. stat[h][k] # "destructing"
  <2>1. SUFFICES ASSUME stat[h][k] = "destructing" PROVE FALSE  OBVIOUS
  <2>2. PICK u \in Threads : At(u, "clear") /\ Spot(u) = <<h, k>>  BY <1>4, <2>1 DEF ContentOK
  <2>3. CASE loc[u].op = "exit"
    <3>1. tls[u] = h  BY <2>2, <2>3 DEF Spot
    <3>2. u = t  BY <1>5, <2>2, <3>1 DEF At
    <3>3. QED  BY <2>2, <3>2 DEF At
  <2>4. CASE loc[u].op # "exit"
    <3>1. loc[u].key = k /\ Frees(loc[u])  BY <2>2, <2>4 DEF Spot, At, Frees, Releasing, Walking
    <3>2. QED  BY <1>1, <3>1, NoneFreesIt DEF k
  <2>5. QED  BY <2>3, <2>4
<1>7. data[h][k] # None => data[h][k][1] \in Threads /\ data[h][k][2] \in Vars /\ data[h][k] = <<data[h][k][1], data[h][k][2]>>
  BY <1>4 DEF Data
<1>8. ASSUME stat[h][k] = "used" PROVE data[h][k] = <<t, v>> /\ <<t, v>> \in live
  <2>1. /\ data[h][k] # None /\ loc[data[h][k][1]].pc # "gone" /\ Owns(data[h][k][2], k) /\ tls[data[h][k][1]] = h
    BY <1>4, <1>8 DEF ContentOK, Filled, At
  <2>2. data[h][k][1] = t  BY <1>5, <1>7, <2>1
  <2>3. data[h][k][2] = v  BY <1>2, <1>7, <2>1 DEF Inv, KeysOK
  <2>4. <<h, k>> \in InUse /\ <<h, k>>[1] = h /\ <<h, k>>[2] = k  BY <1>2, <1>3, <1>8 DEF InUse, k
  <2>5. data[h][k] \in live  BY <2>4 DEF Inv, LiveOK
  <2>6. QED  BY <1>7, <2>1, <2>2, <2>3, <2>5
<1>9. ASSUME stat[h][k] # "used" PROVE data[h][k] \notin live
  <2>1. SUFFICES ASSUME data[h][k] \in live PROVE FALSE  OBVIOUS
  <2>2. PICK c \in InUse : data[h][k] = data[c[1]][c[2]]  BY <2>1 DEF Inv, LiveOK
  <2>3. c[1] \in Heads /\ c[2] \in Keys /\ stat[c[1]][c[2]] = "used"  BY <2>2 DEF InUse
  <2>4. ContentOK(c[1], c[2]) /\ Filled(c[1], c[2])  BY <2>3 DEF Inv, ContentsOK, Filled
  <2>5. /\ data[h][k] # None /\ tls[data[h][k][1]] = c[1] /\ Owns(data[h][k][2], c[2])
    BY <2>2, <2>4 DEF ContentOK
  <2>6. tls[data[h][k][1]] = h /\ (tlsKey[data[h][k][2]] = k \/ phase[data[h][k][2]] = "gone")
    BY <1>4, <2>5 DEF ContentOK
  <2>7. tlsKey[data[h][k][2]] = c[2] /\ c[2] # None  BY <2>3, <2>5, TlsAssumption DEF Owns, Keys
  <2>8. phase[data[h][k][2]] # "gone"  BY <1>7, <2>5, <2>7 DEF Inv, VarsOK
  <2>9. c[1] = h /\ c[2] = k  BY <2>5, <2>6, <2>7, <2>8
  <2>10. QED  BY <1>9, <2>3, <2>9
<1>10. QED  BY <1>3, <1>4, <1>6, <1>8, <1>9 DEF h, k, v

\* The content of a call holds what the thread has made for the object.
LEMMA ContentStored ==
  ASSUME Inv, NEW t \in Threads, loc[t].pc \in {"get", "set"}, Return(t),
         stat' = [stat EXCEPT ![tls[t]][loc[t].key] = "used"],
         data' = [data EXCEPT ![tls[t]][loc[t].key] = <<t, loc[t].var>>],
         live' = live \cup {<<t, loc[t].var>>},
         UNCHANGED <<keyStat, param, numFree, hint, keyChain, nextBase, heads, made, own, arrays,
                     tls, mutex, tlsKey, phase, script>>,
         DOMAIN answer' = Threads, OwnData'
  PROVE  Inv'
<1> DEFINE h == tls[t]
           k == loc[t].key
           v == loc[t].var
           d == <<t, v>>
<1>1. loc[t].pc \in Keyed  BY DEF Keyed
<1>2. v \in Vars /\ k \in Keys /\ phase[v] = "alive" /\ Owns(v, k) /\ tlsKey[v] = k  BY <1>1, KeyIsOwned
<1>3. /\ h \in Heads /\ h # None /\ In(ArrayOf(k), arrays[h])
      /\ stat[h][k] \in {"uninitialized", "used"}
      /\ stat[h][k] = "used" => data[h][k] = d /\ d \in live
  BY ContentIs, SMTT(20)
<1>4. Alone(t) /\ loc'[t] = Idle /\ LocalOK(loc'[t]) /\ loc'[t].pc = "idle" /\ loc'[t].op = "get"
  BY ReturnIs, IdleIs
<1>5. \A z \in Threads : z # t => loc'[z] = loc[z]  BY <1>4 DEF Alone
<1>6. /\ LocalsOK' /\ MutexOK' /\ VarsOK' /\ KeysOK' /\ CountsOK'
      /\ \A w, j : Owns(w, j)' <=> Owns(w, j)
  <2>1. loc'[t].pc \in Keyed \cup {"idle"} /\ loc'[t].pc \notin Keyed  BY <1>4 DEF Keyed
  <2>2. UNCHANGED <<keyStat, param, numFree, nextBase, mutex, tlsKey, phase>>  OBVIOUS
  <2>3. QED  BY <1>1, <1>4, <2>1, <2>2, KeyedParts, Zenon
<1>7. /\ stat' \in [Heads -> [Keys -> {"uninitialized", "used", "destructing"}]]
      /\ stat'[h][k] = "used"
      /\ \A g \in Heads, j \in Keys : g # h \/ j # k => stat'[g][j] = stat[g][j]
  BY <1>2, <1>3 DEF Inv, Types
<1>8. /\ data' \in [Heads -> [Keys -> Data \cup {None}]]
      /\ data'[h][k] = d
      /\ \A g \in Heads, j \in Keys : g # h \/ j # k => data'[g][j] = data[g][j]
  BY <1>2, <1>3 DEF Inv, Types, Data
<1>9. d \in Data /\ live' \subseteq Data /\ d # None /\ d[1] = t /\ d[2] = v
  <2>1. d \in Data  BY <1>2 DEF Data
  <2>2. QED  BY <2>1, TlsAssumption DEF Inv, Types, Data
<1>10. live' = live \cup {d}  OBVIOUS
<1> HIDE DEF h, k, v, d
<1>11. Types'  BY <1>7, <1>8, <1>9 DEF Inv, Types
<1>12. HeadsOK' /\ MadeOK'
  <2>1. ~Exiting(loc'[t]) /\ ~Walks(loc'[t])  BY <1>4 DEF Exiting, Walks, Walking
  <2>2. HeadOK(t)'
    <3>1. HeadOK(t) /\ ~At(t, "gone")  BY <1>1, LocalIs DEF Keyed, At
    <3>2. QED  BY <1>4, <2>1, <3>1 DEF HeadOK, At
  <2>3. ~At(t, "gone") /\ ~At(t, "link") /\ loc'[t].pc # "link"  BY <1>4 DEF At
  <2>4. HeadsOK'  BY <1>4, <2>2, <2>3, HeadsStay
  <2>5. MadeOK'  BY <1>4, <2>3, MadeStays
  <2>6. QED  BY <2>4, <2>5
<1>13. ContentsOK'
  <2>1. ASSUME NEW g \in Heads, NEW j \in Keys PROVE ContentOK(g, j)'
    <3>1. CASE g = h /\ j = k
      <4>1. /\ data'[g][j] = d /\ stat'[g][j] = "used" /\ tls'[t] = g /\ tlsKey'[v] = j /\ loc'[t].pc # "gone"
            /\ In(ArrayOf(j), arrays'[g])
        BY <1>2, <1>3, <1>4, <1>7, <1>8, <3>1 DEF h
      <4>2. data'[g][j][1] = t /\ data'[g][j][2] = v /\ data'[g][j] # None  BY <1>9, <4>1
      <4>3. Owns(data'[g][j][2], j)  BY <1>2, <3>1, <4>2
      <4>4. Owns(data[g][j][2], j)'  BY <1>6, <4>3
      <4>5. QED  BY <4>1, <4>2, <4>4 DEF ContentOK, At
    <3>2. CASE g # h \/ j # k
      <4>1. ContentOK(g, j) /\ data[g][j] \in Data \cup {None}  BY DEF Inv, ContentsOK, Types
      <4>2. data[g][j] # None => data[g][j][1] \in Threads /\ data[g][j][2] \in Vars  BY <4>1 DEF Data
      <4>3. data'[g][j] = data[g][j] /\ stat'[g][j] = stat[g][j]  BY <1>7, <1>8, <3>2
      <4>4. \A z \in Threads : loc'[z].pc = "gone" <=> loc[z].pc = "gone"  BY <1>4, <1>5
      <4>5. Filled(g, j)' <=> Filled(g, j)  BY <4>3 DEF Filled
      <4>6. Filled(g, j) => data[g][j] # None /\ loc'[data[g][j][1]].pc # "gone" /\ In(ArrayOf(j), arrays[g])
        BY <4>1, <4>2, <4>4 DEF ContentOK, At
      <4>7. Filled(g, j) => Owns(data[g][j][2], j)'  BY <1>6, <4>1, <4>2, <4>3 DEF ContentOK
      <4>8. stat[g][j] = "destructing" => \E u \in Threads : At(u, "clear")' /\ Spot(u)' = <<g, j>>
        <5>1. ASSUME stat[g][j] = "destructing" PROVE \E u \in Threads : At(u, "clear")' /\ Spot(u)' = <<g, j>>
          <6>1. PICK u \in Threads : At(u, "clear") /\ Spot(u) = <<g, j>>  BY <4>1, <5>1 DEF ContentOK
          <6>2. loc'[u] = loc[u]  BY <1>5, <6>1 DEF At
          <6>3. At(u, "clear")' /\ Spot(u)' = <<g, j>>  BY <6>1, <6>2 DEF At, Spot
          <6>4. QED  BY <6>3
        <5>2. QED  BY <5>1
      <4>9. data[g][j] # None => tls[data[g][j][1]] = g
                                 /\ (tlsKey[data[g][j][2]] = j \/ phase[data[g][j][2]] = "gone")
        BY <4>1 DEF ContentOK
      <4>10. QED  BY <4>3, <4>5, <4>6, <4>7, <4>8, <4>9 DEF ContentOK, At
    <3>3. QED  BY <3>1, <3>2
  <2>2. QED  BY <2>1 DEF ContentsOK
<1>14. LiveOK'
  <2>1. ASSUME NEW x \in live' PROVE \E c \in InUse' : x = data'[c[1]][c[2]]
    <3>1. CASE x = d
      <4>1. <<h, k>> \in InUse' /\ <<h, k>>[1] = h /\ <<h, k>>[2] = k  BY <1>2, <1>3, <1>7 DEF InUse, k
      <4>2. QED  BY <1>8, <3>1, <4>1
    <3>2. CASE x # d
      <4>1. x \in live  BY <1>10, <3>2
      <4>2. PICK c \in InUse : x = data[c[1]][c[2]]  BY <4>1 DEF Inv, LiveOK
      <4>3. c \in Heads \X Keys /\ c[1] \in Heads /\ c[2] \in Keys /\ stat[c[1]][c[2]] = "used"  BY <4>2 DEF InUse
      <4>4. c[1] # h \/ c[2] # k  BY <1>3, <3>2, <4>2, <4>3
      <4>5. stat'[c[1]][c[2]] = "used" /\ data'[c[1]][c[2]] = x  BY <1>7, <1>8, <4>2, <4>3, <4>4
      <4>6. c \in InUse'  BY <4>3, <4>5 DEF InUse
      <4>7. QED  BY <4>5, <4>6
    <3>3. QED  BY <3>1, <3>2
  <2>2. ASSUME NEW c \in InUse' PROVE data'[c[1]][c[2]] \in live'
    <3>1. c \in Heads \X Keys /\ c[1] \in Heads /\ c[2] \in Keys /\ stat'[c[1]][c[2]] = "used"  BY DEF InUse
    <3>2. CASE c[1] = h /\ c[2] = k  BY <1>8, <1>10, <3>2
    <3>3. CASE c[1] # h \/ c[2] # k
      <4>1. stat[c[1]][c[2]] = "used" /\ data'[c[1]][c[2]] = data[c[1]][c[2]]  BY <1>7, <1>8, <3>1, <3>3
      <4>2. c \in InUse  BY <3>1, <4>1 DEF InUse
      <4>3. data[c[1]][c[2]] \in live  BY <4>2 DEF Inv, LiveOK
      <4>4. QED  BY <1>10, <4>1, <4>3
    <3>4. QED  BY <3>2, <3>3
  <2>3. QED  BY <2>1, <2>2 DEF LiveOK
<1>15. WalksOK'
  <2>1. ASSUME NEW u \in Threads PROVE WalkOK(u)'
    <3>1. CASE u = t  BY <1>4, <3>1 DEF WalkOK, Walks, Exiting, Walking
    <3>2. CASE u # t
      <4>1. WalkOK(u) /\ loc'[u] = loc[u] /\ LocalOK(loc[u]) /\ HeadOK(u) /\ IsLocal(loc[u])
        BY <1>5, <3>2, LocalIs
      <4>2. \A g \in Heads, j \in Keys : g # h \/ j # k => (Filled(g, j)' <=> Filled(g, j))  BY <1>7 DEF Filled
      <4>3. Frees(loc[u]) => loc[u].key # k /\ loc[u].key \in Keys
        <5>1. Frees(loc[u]) => loc[u].key # k  BY <1>1, NoneFreesIt DEF k
        <5>2. Frees(loc[u]) => Unpublished(loc[u]) \/ HasKey(loc[u])
          BY <4>1 DEF IsLocal, Ops, Unpublished, HasKey, Frees
        <5>3. QED  BY <4>1, <5>1, <5>2 DEF LocalOK
      <4>4. Walks(loc[u]) => \A g \in Heads : Filled(g, loc[u].key)' => In(g, loc[u].todo)
        <5>1. Walks(loc[u]) => Frees(loc[u])  BY DEF Walks, Frees, Releasing
        <5>2. QED  BY <4>1, <4>2, <4>3, <5>1 DEF WalkOK
      <4>5. loc[u].pc = "unused" => \A g \in Heads : ~Filled(g, loc[u].key)'
        <5>1. loc[u].pc = "unused" => Frees(loc[u])  BY <4>1 DEF Frees, Releasing, LocalOK
        <5>2. QED  BY <4>1, <4>2, <4>3, <5>1 DEF WalkOK
      <4>6. Exiting(loc[u]) => tls[u] \in Heads /\ tls[u] # h
        <5>1. Exiting(loc[u]) => tls[u] # None /\ ~At(u, "gone")  BY <4>1 DEF HeadOK, Exiting, At
        <5>2. ~At(t, "gone")  BY DEF At
        <5>3. QED  BY <1>3, <3>2, <5>1, <5>2 DEF Inv, HeadsOK, Types, h
      <4>7. Exiting(loc[u]) => \A j \in Keys : Filled(tls[u], j)' <=> Filled(tls[u], j)  BY <1>7, <4>6 DEF Filled
      <4>8. loc[u].pc = "clear" => stat'[Spot(u)[1]][Spot(u)[2]] = "destructing"
        <5>1. ASSUME loc[u].pc = "clear" PROVE stat'[Spot(u)[1]][Spot(u)[2]] = "destructing"
          <6>1. Spot(u)[1] \in Heads /\ Spot(u)[2] \in Keys  BY <5>1, SpotIs
          <6>2. stat[Spot(u)[1]][Spot(u)[2]] = "destructing"  BY <4>1, <5>1 DEF WalkOK
          <6>3. QED  BY <1>3, <1>7, <6>1, <6>2
        <5>2. QED  BY <5>1
      <4>9. Spot(u)' = Spot(u)  BY <4>1 DEF Spot
      <4>10. QED  BY <4>1, <4>4, <4>5, <4>7, <4>8, <4>9 DEF WalkOK, Walks, Exiting
    <3>3. QED  BY <3>1, <3>2
  <2>2. QED  BY <2>1 DEF WalksOK
<1>16. QED  BY <1>6, <1>11, <1>12, <1>13, <1>14, <1>15 DEF Inv

LEMMA GetContentKeeps ==
  ASSUME Inv, NEW t \in Threads, GetContent(t)
  PROVE  Inv'
<1> DEFINE h == tls[t]
           k == loc[t].key
           v == loc[t].var
<1>1. loc[t].pc \in {"get", "set"} /\ loc[t].pc \in Keyed  BY DEF GetContent, At, Keyed
<1>2. k \in Keys /\ param[k] = v  BY <1>1, KeyIsOwned
<1>3. /\ h \in Heads /\ stat[h][k] \in {"uninitialized", "used"}
      /\ stat[h][k] = "used" => data[h][k] = <<t, v>> /\ <<t, v>> \in live
  BY <1>1, ContentIs
<1>4. UNCHANGED <<keyStat, param, numFree, hint, keyChain, nextBase, heads, made, own, arrays,
                  tls, mutex, tlsKey, phase, script>>
  BY DEF GetContent, keyVars, headVars
<1> DEFINE d == IF stat[h][k] = "uninitialized" THEN <<t, param[k]>> ELSE data[h][k]
<1>5. d = <<t, v>>  BY <1>2, <1>3
<1>6. /\ stat' = IF stat[h][k] = "uninitialized" THEN [stat EXCEPT ![h][k] = "used"] ELSE stat
      /\ data' = [data EXCEPT ![h][k] = d]
      /\ live' = IF stat[h][k] = "uninitialized" THEN live \cup {d} ELSE live
      /\ answer' = IF stat[h][k] = "destructing" THEN answer
                   ELSE [answer EXCEPT ![t] = [var |-> v, data |-> d]]
      /\ Return(t)
  BY DEF GetContent
<1> HIDE DEF h, k, v, d
<1>7. data' = [data EXCEPT ![h][k] = <<t, v>>]  BY <1>5, <1>6
<1>8. answer' = [answer EXCEPT ![t] = [var |-> v, data |-> <<t, v>>]]  BY <1>3, <1>5, <1>6
<1>9. live' = live \cup {<<t, v>>}  BY <1>3, <1>5, <1>6
<1>10. stat' = [stat EXCEPT ![h][k] = "used"]
  <2>1. stat \in [Heads -> [Keys -> {"uninitialized", "used", "destructing"}]]  BY DEF Inv, Types
  <2>2. CASE stat[h][k] = "uninitialized"  BY <1>6, <2>2
  <2>3. CASE stat[h][k] = "used"
    <3>1. stat' = stat  BY <1>6, <2>3
    <3>2. [stat EXCEPT ![h][k] = "used"] = stat  BY <1>2, <1>3, <2>1, <2>3
    <3>3. QED  BY <3>1, <3>2
  <2>4. QED  BY <1>3, <2>2, <2>3
<1>11. DOMAIN answer' = Threads /\ OwnData'
  <2>1. DOMAIN answer = Threads  BY DEF Inv, Types
  <2>2. answer'[t] = [var |-> v, data |-> <<t, v>>] /\ \A u \in Threads : u # t => answer'[u] = answer[u]
    BY <1>8, <2>1
  <2>3. ASSUME NEW u \in Threads, answer'[u] # None PROVE answer'[u].data = <<u, answer'[u].var>>
    <3>1. CASE u = t
      <4>1. answer'[u].data = <<t, v>> /\ answer'[u].var = v  BY <2>2, <3>1
      <4>2. QED  BY <3>1, <4>1
    <3>2. CASE u # t  BY <2>2, <2>3, <3>2 DEF Inv, OwnData
    <3>3. QED  BY <3>1, <3>2
  <2>4. QED  BY <1>8, <2>1, <2>3 DEF OwnData
<1>12. /\ stat' = [stat EXCEPT ![tls[t]][loc[t].key] = "used"]
       /\ data' = [data EXCEPT ![tls[t]][loc[t].key] = <<t, loc[t].var>>]
       /\ live' = live \cup {<<t, loc[t].var>>}
  BY <1>7, <1>9, <1>10, Zenon DEF h, k, v
<1>13. Return(t)  BY <1>6
<1>14. QED  BY <1>1, <1>4, <1>11, <1>12, <1>13, ContentStored, Zenon

LEMMA SetContentKeeps ==
  ASSUME Inv, NEW t \in Threads, SetContent(t)
  PROVE  Inv'
<1> DEFINE h == tls[t]
           k == loc[t].key
           v == loc[t].var
<1>1. loc[t].pc \in {"get", "set"}  BY DEF SetContent, At
<1>2. /\ stat[h][k] \in {"uninitialized", "used"}
      /\ stat[h][k] = "used" => data[h][k] = <<t, v>>
      /\ stat[h][k] # "used" => data[h][k] \notin live
  BY <1>1, ContentIs, Zenon
<1>3. UNCHANGED <<keyStat, param, numFree, hint, keyChain, nextBase, heads, made, own, arrays,
                  tls, mutex, tlsKey, phase, script>>
  BY DEF SetContent, keyVars, headVars
<1>4. /\ stat' = [stat EXCEPT ![h][k] = "used"]
      /\ data' = [data EXCEPT ![h][k] = <<t, v>>]
      /\ live' = (live \ {data[h][k]}) \cup {<<t, v>>}
      /\ Return(t) /\ answer' = answer
  BY <1>2 DEF SetContent
<1>5. live' = live \cup {<<t, v>>}
  <2> HIDE DEF h, k, v
  <2>1. CASE stat[h][k] = "used"  BY <1>2, <1>4, <2>1
  <2>2. CASE stat[h][k] # "used"  BY <1>2, <1>4, <2>2
  <2>3. QED  BY <2>1, <2>2
<1>6. DOMAIN answer' = Threads /\ OwnData'  BY <1>4 DEF Inv, Types, OwnData
<1>7. QED  BY <1>1, <1>3, <1>4, <1>5, <1>6, ContentStored, Zenon

-----------------------------------------------------------------------------
(* A walk over the heads, or over the keys of a thread that ends           *)

Afoot == Walking \cup {"heads", "each", "unused"}

LEMMA WalkingLocal ==
  ASSUME NEW l, LocalOK(l), l.pc \in Afoot, l.op = "exit" \/ l.pc # "each", NEW m, IsLocal(m), m.pc \in Afoot,
         m.op = l.op, m.var = l.var, m.key = l.key, m.back = l.back,
         m.pc = "each" => m.op = "exit", m.pc = "clear" => m.op \in {"destroy", "exit"},
         m.pc \in {"arrays", "destruct", "clear"} => m.todo # <<>>,
         m.op = "exit" => /\ m.pc \in {"each", "destruct", "clear"} /\ m.todo \in Seq(Arrays)
                          /\ m.idx <= ArraySize /\ (m.pc # "each" => m.idx < ArraySize)
  PROVE  LocalOK(m)
<1>1. CASE m.op = "exit"
  BY <1>1 DEF LocalOK, Calling, Destroying, Unpublished, HasKey, Frees, Exiting, Seeking, Claiming,
              Keyed, Releasing, Walking, Afoot
<1>2. CASE m.op = "destroy"
  <2>1. Destroying(l) /\ HasKey(l) /\ Frees(l)  BY <1>2 DEF Destroying, HasKey, Frees, Releasing, Afoot
  <2>2. l.var \in Vars /\ l.key \in Keys /\ l.back = "null"  BY <2>1 DEF LocalOK
  <2>3. QED
    BY <1>2, <2>2 DEF LocalOK, Calling, Destroying, Unpublished, HasKey, Frees, Exiting, Seeking, Claiming,
                      Keyed, Releasing, Walking, Afoot
<1>3. CASE m.op \in {"get", "set"}
  <2>1. Calling(l) /\ Unpublished(l) /\ Frees(l) /\ ~Destroying(l)
    BY <1>3 DEF Calling, Destroying, Unpublished, Frees, Releasing, Walking, Afoot
  <2>2. l.var \in Vars /\ l.key \in Keys /\ l.back = "reload"  BY <2>1 DEF LocalOK
  <2>3. QED
    BY <1>3, <2>2 DEF LocalOK, Calling, Destroying, Unpublished, HasKey, Frees, Exiting, Seeking, Claiming,
                      Keyed, Releasing, Walking, Afoot
<1>4. QED  BY <1>1, <1>2, <1>3 DEF IsLocal, Ops

\* What a walk leaves alone.
LEMMA WalkParts ==
  ASSUME Inv, NEW t \in Threads,
         UNCHANGED <<keyStat, param, nextBase, heads, made, own, arrays, tls, mutex, tlsKey, phase, answer>>,
         Alone(t), LocalOK(loc'[t]), loc[t].pc \in Afoot, loc'[t].pc \in Afoot,
         loc'[t].op = loc[t].op, loc'[t].var = loc[t].var, loc'[t].key = loc[t].key,
         Walks(loc'[t]) => \A h \in Nat : In(h, loc'[t].todo) => In(h, heads)
  PROVE  /\ LocalsOK' /\ MutexOK' /\ VarsOK' /\ KeysOK' /\ HeadsOK' /\ MadeOK' /\ OwnData'
         /\ \A v, k : Owns(v, k)' <=> Owns(v, k)
<1>1. LocalOK(loc[t]) /\ KeyOK(loc[t]) /\ HeadOK(t) /\ IsLocal(loc[t])  BY LocalIs
<1>2. /\ loc[t].pc \notin Claiming \cup Keyed \cup {"null", "release", "push", "idle", "gone", "publish", "link"}
      /\ loc'[t].pc \notin Claiming \cup Keyed \cup {"null", "release", "push", "idle", "gone", "publish", "link"}
  BY DEF Keyed, Afoot, Walking, Claiming
<1>3. loc[t].op # "exit" => loc[t].pc \in Releasing /\ loc'[t].pc \in Releasing
  BY <1>1 DEF LocalOK, Releasing, Afoot
<1>4. /\ Frees(loc[t]) <=> Frees(loc'[t])
      /\ Exiting(loc[t]) <=> Exiting(loc'[t])
      /\ Destroying(loc[t]) <=> Destroying(loc'[t])
      /\ Unpublished(loc[t]) <=> Unpublished(loc'[t])
      /\ HasKey(loc[t]) <=> HasKey(loc'[t])
      /\ Calling(loc[t]) <=> Calling(loc'[t])
  BY <1>2, <1>3 DEF Frees, Exiting, Destroying, Unpublished, HasKey, Calling
<1>5. LocalsOK'
  <2>1. nextBase <= nextBase' /\ nextBase' \in 0 .. MaxArrays  BY TlsAssumption DEF Inv, Types
  <2>2. QED  BY <1>2, <2>1, LocalsStay
<1>6. MutexOK'
  <2>1. Depth(loc'[t]) = Depth(loc[t])  BY <1>4 DEF Depth
  <2>2. QED  BY <2>1, MutexStays
<1>7. VarsOK'
  <2>1. SameObject(t)  BY <1>4 DEF SameObject
  <2>2. QED  BY <2>1, VarsStay
<1>8. KeysOK' /\ \A v, k : Owns(v, k)' <=> Owns(v, k)
  <2>1. SameKey(t)  BY <1>2, <1>4 DEF SameKey, At
  <2>2. KeyOK(loc'[t])  BY <1>1, <1>2, <1>4 DEF KeyOK
  <2>3. QED  BY <2>1, <2>2, KeysStay
<1>9. HeadsOK' /\ MadeOK'
  <2>1. loc[t].pc \notin {"head", "find", "get", "set"} /\ loc'[t].pc \notin {"head", "find", "get", "set"}
    BY <1>2 DEF Keyed
  <2>2. HeadOK(t)'  BY <1>1, <1>2, <1>4, <2>1 DEF HeadOK, At, Exiting, Walks
  <2>3. HeadsOK'  BY <1>2, <2>2, HeadsStay DEF At
  <2>4. loc'[t].pc = "link" <=> At(t, "link")  BY <1>2 DEF At
  <2>5. MadeOK'  BY <2>4, MadeStays
  <2>6. QED  BY <2>3, <2>5
<1>10. OwnData'  BY DEF Inv, OwnData
<1>11. QED  BY <1>5, <1>6, <1>7, <1>8, <1>9, <1>10

\* A walk goes on and changes nothing.
LEMMA WalkGoesOn ==
  ASSUME Inv, NEW t \in Threads,
         UNCHANGED <<keyStat, param, numFree, hint, keyChain, nextBase, heads, made, own, arrays, stat, data, tls,
                     mutex, tlsKey, phase, live, answer, script>>,
         Alone(t), LocalOK(loc'[t]), loc[t].pc \in Afoot, loc'[t].pc \in Afoot,
         loc'[t].op = loc[t].op, loc'[t].var = loc[t].var, loc'[t].key = loc[t].key,
         loc[t].pc \notin {"clear", "unused"}, loc'[t].pc \notin {"clear", "unused"},
         Walks(loc'[t]) => \A h \in Nat : In(h, loc'[t].todo) => In(h, heads),
         Walks(loc'[t]) => \A h \in Heads : Filled(h, loc[t].key) => In(h, loc'[t].todo),
         Exiting(loc'[t]) => \A k \in Keys : Filled(tls[t], k) =>
            /\ loc'[t].todo # <<>>
            /\ \/ ArrayOf(k) = Head(loc'[t].todo) /\ Head(loc'[t].todo) * ArraySize + loc'[t].idx <= k
               \/ In(ArrayOf(k), Tail(loc'[t].todo))
  PROVE  Inv'
<1>1. /\ LocalsOK' /\ MutexOK' /\ VarsOK' /\ KeysOK' /\ HeadsOK' /\ MadeOK' /\ OwnData'
      /\ \A v, k : Owns(v, k)' <=> Owns(v, k)
  BY WalkParts
<1>2. Types'
  <2>1. script' \in [Threads -> Seq(Ops \X Vars)]  BY DEF Inv, Types
  <2>2. QED  BY <2>1, TypesStay
<1>3. ContentsOK' /\ LiveOK'
  <2>1. (loc'[t].pc = "gone" <=> At(t, "gone")) /\ ~At(t, "clear")  BY DEF At, Afoot, Walking
  <2>2. QED  BY <1>1, <2>1, ContentsStay
<1>4. WalksOK'
  <2>1. \A h, k : Filled(h, k)' <=> Filled(h, k)  BY DEF Filled
  <2>2. Walks(loc'[t]) => \A h \in Heads : Filled(h, loc[t].key)' => In(h, loc'[t].todo)  BY <2>1
  <2>3. WalkOK(t)'  BY <2>1, <2>2 DEF WalkOK, Walks, Exiting
  <2>4. QED  BY <2>3, WalksStay
<1>5. CountsOK'
  <2>1. loc[t].pc \notin {"count", "unused"} /\ loc'[t].pc \notin {"count", "unused"}  BY DEF Afoot, Walking
  <2>2. QED  BY <2>1, CountsStay
<1>6. QED  BY <1>1, <1>2, <1>3, <1>4, <1>5 DEF Inv

\* A walk passes the content it is at.
LEMMA OnwardIs ==
  ASSUME Inv, NEW t \in Threads, loc[t].pc \in {"arrays", "destruct", "clear"},
         Alone(t), loc'[t] = Onward(t, loc[t])
  PROVE  /\ LocalOK(loc'[t]) /\ loc'[t].pc \in {"walk", "each"}
         /\ loc'[t].op = loc[t].op /\ loc'[t].var = loc[t].var /\ loc'[t].key = loc[t].key
         /\ loc[t].op = "exit" => loc'[t].todo = loc[t].todo /\ loc'[t].idx = loc[t].idx + 1
         /\ loc[t].op # "exit" => /\ loc'[t].pc = "walk" /\ loc'[t].todo = Tail(loc[t].todo)
                                  /\ \A x : In(x, loc[t].todo) <=> x = Head(loc[t].todo) \/ In(x, loc'[t].todo)
         /\ Walks(loc'[t]) => \A h \in Nat : In(h, loc'[t].todo) => In(h, heads)
<1>1. LocalOK(loc[t]) /\ IsLocal(loc[t]) /\ HeadOK(t)  BY LocalIs
<1>2. loc[t].todo # <<>> /\ loc[t].todo \in Seq(Nat) /\ loc[t].idx \in Nat /\ loc[t].pc \in Afoot
  BY <1>1 DEF LocalOK, IsLocal, Afoot, Walking
<1>3. /\ Tail(loc[t].todo) \in Seq(Nat)
      /\ \A x : In(x, loc[t].todo) <=> x = Head(loc[t].todo) \/ In(x, Tail(loc[t].todo))
  BY <1>2, HeadAndTail
<1>4. CASE loc[t].op = "exit"
  <2>1. loc'[t] = [loc[t] EXCEPT !.pc = "each", !.idx = loc[t].idx + 1]  BY <1>4 DEF Onward
  <2>2. /\ IsLocal(loc'[t]) /\ loc'[t].pc = "each" /\ loc'[t].op = loc[t].op /\ loc'[t].var = loc[t].var
        /\ loc'[t].key = loc[t].key /\ loc'[t].back = loc[t].back /\ loc'[t].todo = loc[t].todo
        /\ loc'[t].idx = loc[t].idx + 1
    BY <1>1, <1>2, <2>1 DEF IsLocal, Fields, Points
  <2>3. loc[t].todo \in Seq(Arrays) /\ loc[t].idx < ArraySize  BY <1>1, <1>4 DEF LocalOK, Exiting
  <2>4. loc'[t].idx <= ArraySize  BY <1>2, <2>2, <2>3, TlsAssumption
  <2>5. loc'[t].pc \in Afoot  BY <2>2 DEF Afoot
  <2>6. LocalOK(loc'[t])  BY <1>1, <1>2, <1>4, <2>2, <2>3, <2>4, <2>5, WalkingLocal
  <2>7. ~Walks(loc'[t])  BY <1>4, <2>2 DEF Walks
  <2>8. QED  BY <1>4, <2>2, <2>6, <2>7
<1>5. CASE loc[t].op # "exit"
  <2>1. loc'[t] = [loc[t] EXCEPT !.pc = "walk", !.todo = Tail(loc[t].todo)]  BY <1>5 DEF Onward
  <2>2. /\ IsLocal(loc'[t]) /\ loc'[t].pc = "walk" /\ loc'[t].op = loc[t].op /\ loc'[t].var = loc[t].var
        /\ loc'[t].key = loc[t].key /\ loc'[t].back = loc[t].back /\ loc'[t].todo = Tail(loc[t].todo)
    BY <1>1, <1>2, <1>3, <2>1 DEF IsLocal, Fields, Points, Releasing, Walking
  <2>3. loc'[t].pc \in Afoot /\ loc[t].pc # "each"  BY <2>2 DEF Afoot, Walking
  <2>4. LocalOK(loc'[t])  BY <1>1, <1>2, <1>5, <2>2, <2>3, WalkingLocal
  <2>5. Walks(loc[t])  BY <1>5 DEF Walks, Walking
  <2>6. \A h \in Nat : In(h, loc'[t].todo) => In(h, heads)  BY <1>1, <1>3, <2>2, <2>5 DEF HeadOK
  <2>7. QED  BY <1>3, <1>5, <2>2, <2>4, <2>6
<1>6. QED  BY <1>4, <1>5

\* What a walk that has passed a content without anything in it has yet to find.
LEMMA OnwardFinds ==
  ASSUME Inv, NEW t \in Threads, loc[t].pc \in {"destruct", "clear"},
         Alone(t), loc'[t] = Onward(t, loc[t]), NEW S,
         \A h \in Heads, k \in Keys : <<h, k>> \in S => Filled(h, k) /\ <<h, k>> # Spot(t)
  PROVE  /\ Walks(loc'[t]) => \A h \in Heads : <<h, loc[t].key>> \in S => In(h, loc'[t].todo)
         /\ Exiting(loc'[t]) => \A k \in Keys : <<tls[t], k>> \in S =>
              /\ loc'[t].todo # <<>>
              /\ \/ ArrayOf(k) = Head(loc'[t].todo) /\ Head(loc'[t].todo) * ArraySize + loc'[t].idx <= k
                 \/ In(ArrayOf(k), Tail(loc'[t].todo))
<1>1. WalkOK(t) /\ LocalOK(loc[t])  BY LocalIs
<1>2. /\ loc'[t].op = loc[t].op
      /\ loc[t].op = "exit" => loc'[t].todo = loc[t].todo /\ loc'[t].idx = loc[t].idx + 1
      /\ loc[t].op # "exit" => \A x : In(x, loc[t].todo) <=> x = Head(loc[t].todo) \/ In(x, loc'[t].todo)
  BY OnwardIs
<1>3. ASSUME Walks(loc'[t]), NEW h \in Heads, <<h, loc[t].key>> \in S PROVE In(h, loc'[t].todo)
  <2>1. loc[t].op # "exit" /\ Walks(loc[t])  BY <1>2, <1>3 DEF Walks, Walking
  <2>2. loc[t].key \in Keys /\ Spot(t) = <<Head(loc[t].todo), loc[t].key>>
    <3>1. Spot(t) = <<Head(loc[t].todo), loc[t].key>> /\ Spot(t)[2] \in Keys  BY <2>1, SpotIs
    <3>2. QED  BY <3>1
  <2>3. Filled(h, loc[t].key) /\ h # Head(loc[t].todo)  BY <1>3, <2>2
  <2>4. QED  BY <1>1, <1>2, <2>1, <2>3 DEF WalkOK
<1>4. ASSUME Exiting(loc'[t]), NEW k \in Keys, <<tls[t], k>> \in S
      PROVE  /\ loc'[t].todo # <<>>
             /\ \/ ArrayOf(k) = Head(loc'[t].todo) /\ Head(loc'[t].todo) * ArraySize + loc'[t].idx <= k
                \/ In(ArrayOf(k), Tail(loc'[t].todo))
  <2>1. loc[t].op = "exit" /\ Exiting(loc[t])  BY <1>2, <1>4 DEF Exiting
  <2>2. /\ Spot(t) = <<tls[t], Head(loc[t].todo) * ArraySize + loc[t].idx>> /\ Head(loc[t].todo) \in Arrays
        /\ loc[t].idx \in Nat /\ tls[t] \in Heads
    <3>1. /\ Spot(t) = <<tls[t], Head(loc[t].todo) * ArraySize + loc[t].idx>> /\ Head(loc[t].todo) \in Arrays
          /\ loc[t].idx \in Nat /\ Spot(t)[1] \in Heads
      BY <2>1, SpotIs
    <3>2. QED  BY <3>1
  <2>3. Filled(tls[t], k) /\ k # Head(loc[t].todo) * ArraySize + loc[t].idx  BY <1>4, <2>2
  <2>4. /\ loc[t].todo # <<>>
        /\ \/ ArrayOf(k) = Head(loc[t].todo) /\ Head(loc[t].todo) * ArraySize + loc[t].idx <= k
           \/ In(ArrayOf(k), Tail(loc[t].todo))
    BY <1>1, <2>1, <2>3 DEF WalkOK
  <2>5. k \in Nat /\ Head(loc[t].todo) * ArraySize \in Nat
    <3>1. k \in Nat  BY ArrayAt, Zenon
    <3>2. ArraySize \in Nat /\ MaxArrays \in Nat  BY TlsAssumption
    <3>3. \A m, n \in Nat : m * n \in Nat  OBVIOUS
    <3>4. Head(loc[t].todo) \in Nat  BY <2>2, <3>2 DEF Arrays
    <3>5. QED  BY <3>1, <3>2, <3>3, <3>4, Zenon
  <2>6. Head(loc[t].todo) * ArraySize + loc[t].idx <= k => Head(loc[t].todo) * ArraySize + (loc[t].idx + 1) <= k
    BY <2>2, <2>3, <2>5
  <2>7. QED  BY <1>2, <2>1, <2>4, <2>6
<1>5. QED  BY <1>3, <1>4

\* A content that is not empty has an owner and an object.
LEMMA FilledIs ==
  ASSUME Inv, NEW h \in Heads, NEW k \in Keys, Filled(h, k)
  PROVE  /\ data[h][k] # None /\ data[h][k] = <<data[h][k][1], data[h][k][2]>>
         /\ data[h][k][1] \in Threads /\ data[h][k][2] \in Vars
         /\ tls[data[h][k][1]] = h /\ ~At(data[h][k][1], "gone")
         /\ In(h, heads) /\ own[h] = "used" /\ In(ArrayOf(k), arrays[h])
         /\ Owns(data[h][k][2], k) /\ param[k] = data[h][k][2] /\ keyStat[k] # "notUsed"
         /\ phase[data[h][k][2]] # "gone"
<1>1. ContentOK(h, k) /\ data[h][k] \in Data \cup {None} /\ h # None  BY HeadIs DEF Inv, ContentsOK, Types
<1>2. data[h][k] # None /\ ~At(data[h][k][1], "gone") /\ Owns(data[h][k][2], k) /\ In(ArrayOf(k), arrays[h])
      /\ tls[data[h][k][1]] = h
  BY <1>1 DEF ContentOK
<1>3. data[h][k][1] \in Threads /\ data[h][k][2] \in Vars /\ data[h][k] = <<data[h][k][1], data[h][k][2]>>
  BY <1>1, <1>2 DEF Data
<1>4. HeadOK(data[h][k][1])  BY <1>3, LocalIs
<1>5. In(h, heads) /\ own[h] = "used"  BY <1>1, <1>2, <1>4 DEF HeadOK
<1>6. param[k] = data[h][k][2] /\ keyStat[k] # "notUsed"  BY <1>2, <1>3 DEF Inv, KeysOK
<1>7. tlsKey[data[h][k][2]] # None  BY <1>2, TlsAssumption DEF Owns, Keys
<1>8. phase[data[h][k][2]] # "gone"  BY <1>3, <1>7 DEF Inv, VarsOK
<1>9. QED  BY <1>2, <1>3, <1>5, <1>6, <1>8

LEMMA LoadHeadsKeeps ==
  ASSUME Inv, NEW t \in Threads, LoadHeads(t)
  PROVE  Inv'
<1>1. LocalOK(loc[t]) /\ IsLocal(loc[t]) /\ DOMAIN loc = Threads  BY LocalIs
<1>2. loc[t].pc = "heads" /\ loc[t].pc \in Afoot /\ loc[t].op # "exit"  BY <1>1 DEF LoadHeads, At, LocalOK, Afoot
<1>3. UNCHANGED <<keyStat, param, numFree, hint, keyChain, nextBase, heads, made, own, arrays, stat, data, tls,
                  mutex, tlsKey, phase, live, answer, script>>
  BY DEF LoadHeads, keyVars, headVars, contentVars, histVars
<1>4. heads \in Seq(Nat)
  <2>1. heads \in Seq(1 .. made) /\ made \in Nat  BY DEF Inv, Types
  <2>2. 1 .. made \subseteq Nat  BY <2>1
  <2>3. QED  BY <2>1, <2>2, SeqOfMore, Zenon
<1>5. Alone(t) /\ loc'[t] = [loc[t] EXCEPT !.pc = "walk", !.todo = heads]  BY <1>1 DEF LoadHeads, Alone
<1>6. /\ IsLocal(loc'[t]) /\ loc'[t].pc = "walk" /\ loc'[t].op = loc[t].op /\ loc'[t].var = loc[t].var
      /\ loc'[t].key = loc[t].key /\ loc'[t].back = loc[t].back /\ loc'[t].todo = heads
  BY <1>1, <1>4, <1>5 DEF IsLocal, Fields, Points, Releasing, Walking
<1>7. loc'[t].pc \in Afoot  BY <1>6 DEF Afoot, Walking
<1>8. LocalOK(loc'[t])  BY <1>1, <1>2, <1>6, <1>7, WalkingLocal
<1>9. Walks(loc'[t]) => \A h \in Heads : Filled(h, loc[t].key) => In(h, loc'[t].todo)
  <2>1. ASSUME Walks(loc'[t]), NEW h \in Heads, Filled(h, loc[t].key) PROVE In(h, loc'[t].todo)
    <3>1. Frees(loc[t])  BY <1>2 DEF Frees, Releasing
    <3>2. Unpublished(loc[t]) \/ HasKey(loc[t])  BY <1>1, <1>2, <3>1 DEF IsLocal, Ops, Unpublished, HasKey, Frees
    <3>3. loc[t].key \in Keys  BY <1>1, <3>2 DEF LocalOK
    <3>4. QED  BY <1>6, <2>1, <3>3, FilledIs
  <2>2. QED  BY <2>1
<1>10. /\ Walks(loc'[t]) => \A h \in Nat : In(h, loc'[t].todo) => In(h, heads)
       /\ ~Exiting(loc'[t])
  BY <1>2, <1>6 DEF Exiting
<1>11. loc[t].pc \notin {"clear", "unused"} /\ loc'[t].pc \notin {"clear", "unused"}  BY <1>2, <1>6
<1>12. QED  BY <1>2, <1>3, <1>5, <1>6, <1>7, <1>8, <1>9, <1>10, <1>11, WalkGoesOn, Zenon

\* What a walk over the heads is about.
LEMMA WalkIs ==
  ASSUME Inv, NEW t \in Threads, loc[t].pc \in {"walk", "arrays"}
  PROVE  /\ loc[t].op # "exit" /\ loc[t].pc \in Afoot /\ loc[t].key \in Keys /\ loc[t].todo \in Seq(Nat)
         /\ \A h \in Nat : In(h, loc[t].todo) => In(h, heads)
         /\ \A h \in Heads : Filled(h, loc[t].key) => In(h, loc[t].todo)
         /\ loc[t].todo # <<>> =>
              /\ Head(loc[t].todo) \in Heads /\ Tail(loc[t].todo) \in Seq(Nat)
              /\ \A x : In(x, loc[t].todo) <=> x = Head(loc[t].todo) \/ In(x, Tail(loc[t].todo))
<1>1. LocalOK(loc[t]) /\ IsLocal(loc[t]) /\ HeadOK(t) /\ WalkOK(t)  BY LocalIs
<1>2. loc[t].op # "exit" /\ loc[t].pc \in Afoot  BY <1>1 DEF LocalOK, Afoot, Walking
<1>3. Walks(loc[t]) /\ Frees(loc[t])  BY <1>2 DEF Walks, Walking, Frees, Releasing
<1>4. Unpublished(loc[t]) \/ HasKey(loc[t])  BY <1>1, <1>2, <1>3 DEF IsLocal, Ops, Unpublished, HasKey, Frees
<1>5. loc[t].key \in Keys /\ loc[t].todo \in Seq(Nat)  BY <1>1, <1>4 DEF LocalOK, IsLocal
<1>6. \A h \in Nat : In(h, loc[t].todo) => In(h, heads)  BY <1>1, <1>3 DEF HeadOK
<1>7. \A h \in Heads : Filled(h, loc[t].key) => In(h, loc[t].todo)  BY <1>1, <1>3 DEF WalkOK
<1>8. ASSUME loc[t].todo # <<>>
      PROVE  /\ Head(loc[t].todo) \in Heads /\ Tail(loc[t].todo) \in Seq(Nat)
             /\ \A x : In(x, loc[t].todo) <=> x = Head(loc[t].todo) \/ In(x, Tail(loc[t].todo))
  <2>1. /\ Head(loc[t].todo) \in Nat /\ Tail(loc[t].todo) \in Seq(Nat)
        /\ \A x : In(x, loc[t].todo) <=> x = Head(loc[t].todo) \/ In(x, Tail(loc[t].todo))
    BY <1>5, <1>8, HeadAndTail
  <2>2. In(Head(loc[t].todo), heads)  BY <1>6, <2>1
  <2>3. Head(loc[t].todo) \in Heads  BY <2>2, MadeBound DEF In
  <2>4. QED  BY <2>1, <2>3
<1>9. QED  BY <1>2, <1>5, <1>6, <1>7, <1>8

LEMMA WalkHeadsKeeps ==
  ASSUME Inv, NEW t \in Threads, WalkHeads(t)
  PROVE  Inv'
<1>1. LocalOK(loc[t]) /\ IsLocal(loc[t]) /\ DOMAIN loc = Threads  BY LocalIs
<1>2. loc[t].pc = "walk" /\ loc[t].todo # <<>>  BY DEF WalkHeads, At
<1>3. UNCHANGED <<keyStat, param, numFree, hint, keyChain, nextBase, heads, made, own, arrays, stat, data, tls,
                  mutex, tlsKey, phase, live, answer, script>>
  BY DEF WalkHeads, keyVars, headVars, contentVars, histVars
<1>4. /\ loc[t].op # "exit" /\ loc[t].pc \in Afoot /\ loc[t].key \in Keys /\ loc[t].todo \in Seq(Nat)
      /\ \A h \in Nat : In(h, loc[t].todo) => In(h, heads)
      /\ \A h \in Heads : Filled(h, loc[t].key) => In(h, loc[t].todo)
      /\ Head(loc[t].todo) \in Heads /\ Tail(loc[t].todo) \in Seq(Nat)
      /\ \A x : In(x, loc[t].todo) <=> x = Head(loc[t].todo) \/ In(x, Tail(loc[t].todo))
  BY <1>2, WalkIs, SMTT(20)
<1>5. /\ Alone(t) /\ IsLocal(loc'[t]) /\ loc'[t].pc \in {"walk", "arrays"} /\ loc'[t].op = loc[t].op
      /\ loc'[t].var = loc[t].var /\ loc'[t].key = loc[t].key /\ loc'[t].back = loc[t].back
      /\ loc'[t].pc = "arrays" => loc'[t].todo # <<>>
      /\ \A h \in Nat : In(h, loc'[t].todo) => In(h, heads)
      /\ \A h \in Heads : Filled(h, loc[t].key) => In(h, loc'[t].todo)
  <2>1. CASE own[Head(loc[t].todo)] = "used"
    <3>1. loc' = [loc EXCEPT ![t].pc = "arrays"]  BY <2>1 DEF WalkHeads
    <3>2. Alone(t) /\ loc'[t] = [loc[t] EXCEPT !.pc = "arrays"]  BY <1>1, <3>1 DEF Alone
    <3>3. /\ IsLocal(loc'[t]) /\ loc'[t].pc = "arrays" /\ loc'[t].op = loc[t].op
          /\ loc'[t].var = loc[t].var /\ loc'[t].key = loc[t].key /\ loc'[t].back = loc[t].back
          /\ loc'[t].todo = loc[t].todo
      BY <1>1, <3>2 DEF IsLocal, Fields, Points, Releasing, Walking
    <3>4. QED  BY <1>2, <1>4, <3>2, <3>3
  <2>2. CASE own[Head(loc[t].todo)] # "used"
    <3>1. loc' = [loc EXCEPT ![t].todo = Tail(loc[t].todo)]  BY <2>2 DEF WalkHeads
    <3>2. Alone(t) /\ loc'[t] = [loc[t] EXCEPT !.todo = Tail(loc[t].todo)]  BY <1>1, <3>1 DEF Alone
    <3>3. /\ IsLocal(loc'[t]) /\ loc'[t].pc = "walk" /\ loc'[t].op = loc[t].op
          /\ loc'[t].var = loc[t].var /\ loc'[t].key = loc[t].key /\ loc'[t].back = loc[t].back
          /\ loc'[t].todo = Tail(loc[t].todo)
      BY <1>1, <1>2, <1>4, <3>2 DEF IsLocal, Fields, Points, Releasing, Walking
    <3>4. \A h \in Heads : Filled(h, loc[t].key) => h # Head(loc[t].todo)  BY <1>4, <2>2, FilledIs
    <3>5. QED  BY <1>4, <3>2, <3>3, <3>4
  <2>3. QED  BY <2>1, <2>2
<1>6. loc'[t].pc \in Afoot  BY <1>5 DEF Afoot, Walking
<1>7. LocalOK(loc'[t])  BY <1>1, <1>2, <1>4, <1>5, <1>6, WalkingLocal
<1>8. ~Exiting(loc'[t])  BY <1>4, <1>5 DEF Exiting
<1>9. loc[t].pc \notin {"clear", "unused"} /\ loc'[t].pc \notin {"clear", "unused"}  BY <1>2, <1>5
<1>10. QED  BY <1>3, <1>4, <1>5, <1>6, <1>7, <1>8, <1>9, WalkGoesOn, Zenon

LEMMA WalkArraysKeeps ==
  ASSUME Inv, NEW t \in Threads, WalkArrays(t)
  PROVE  Inv'
<1>1. LocalOK(loc[t]) /\ IsLocal(loc[t]) /\ DOMAIN loc = Threads  BY LocalIs
<1>2. loc[t].pc = "arrays" /\ loc[t].todo # <<>>  BY <1>1 DEF WalkArrays, At, LocalOK
<1>3. UNCHANGED <<keyStat, param, numFree, hint, keyChain, nextBase, heads, made, own, arrays, stat, data, tls,
                  mutex, tlsKey, phase, live, answer, script>>
  BY DEF WalkArrays, keyVars, headVars, contentVars, histVars
<1>4. /\ loc[t].op # "exit" /\ loc[t].pc \in Afoot /\ loc[t].key \in Keys /\ loc[t].todo \in Seq(Nat)
      /\ \A h \in Nat : In(h, loc[t].todo) => In(h, heads)
      /\ \A h \in Heads : Filled(h, loc[t].key) => In(h, loc[t].todo)
      /\ Head(loc[t].todo) \in Heads
  BY <1>2, WalkIs
<1>5. /\ Alone(t) /\ LocalOK(loc'[t]) /\ loc'[t].pc \in {"walk", "destruct"} /\ loc'[t].op = loc[t].op
      /\ loc'[t].var = loc[t].var /\ loc'[t].key = loc[t].key
      /\ Walks(loc'[t]) => \A h \in Nat : In(h, loc'[t].todo) => In(h, heads)
      /\ \A h \in Heads : Filled(h, loc[t].key) => In(h, loc'[t].todo)
  <2>1. CASE In(ArrayOf(loc[t].key), arrays[Head(loc[t].todo)])
    <3>1. loc' = [loc EXCEPT ![t].pc = "destruct"]  BY <2>1 DEF WalkArrays
    <3>2. Alone(t) /\ loc'[t] = [loc[t] EXCEPT !.pc = "destruct"]  BY <1>1, <3>1 DEF Alone
    <3>3. /\ IsLocal(loc'[t]) /\ loc'[t].pc = "destruct" /\ loc'[t].op = loc[t].op
          /\ loc'[t].var = loc[t].var /\ loc'[t].key = loc[t].key /\ loc'[t].back = loc[t].back
          /\ loc'[t].todo = loc[t].todo
      BY <1>1, <3>2 DEF IsLocal, Fields, Points, Releasing, Walking
    <3>4. loc'[t].pc \in Afoot  BY <3>3 DEF Afoot, Walking
    <3>5. LocalOK(loc'[t])  BY <1>1, <1>2, <1>4, <3>3, <3>4, WalkingLocal
    <3>6. QED  BY <1>4, <3>2, <3>3, <3>5
  <2>2. CASE ~In(ArrayOf(loc[t].key), arrays[Head(loc[t].todo)])
    <3>1. loc' = [loc EXCEPT ![t] = Onward(t, loc[t])]  BY <2>2 DEF WalkArrays
    <3>2. Alone(t) /\ loc'[t] = Onward(t, loc[t])  BY <1>1, <3>1 DEF Alone
    <3>3. /\ LocalOK(loc'[t])
          /\ loc'[t].op = loc[t].op /\ loc'[t].var = loc[t].var /\ loc'[t].key = loc[t].key
          /\ loc'[t].pc = "walk"
          /\ \A x : In(x, loc[t].todo) <=> x = Head(loc[t].todo) \/ In(x, loc'[t].todo)
          /\ Walks(loc'[t]) => \A h \in Nat : In(h, loc'[t].todo) => In(h, heads)
      BY <1>2, <1>4, <3>2, OnwardIs
    <3>4. \A h \in Heads : Filled(h, loc[t].key) => h # Head(loc[t].todo)  BY <1>4, <2>2, FilledIs
    <3>5. QED  BY <1>4, <3>2, <3>3, <3>4
  <2>3. QED  BY <2>1, <2>2
<1>6. loc'[t].pc \in Afoot  BY <1>5 DEF Afoot, Walking
<1>7. ~Exiting(loc'[t])  BY <1>4, <1>5 DEF Exiting
<1>8. loc[t].pc \notin {"clear", "unused"} /\ loc'[t].pc \notin {"clear", "unused"}  BY <1>2, <1>5
<1>9. QED  BY <1>3, <1>4, <1>5, <1>6, <1>7, <1>8, WalkGoesOn, Zenon

\* A thread that ends goes from key to key: one that is not in use has no content
\* of this thread, for nobody releases a key meanwhile.
LEMMA EachKeyKeeps ==
  ASSUME Inv, NEW t \in Threads, EachKey(t)
  PROVE  Inv'
<1>1. LocalOK(loc[t]) /\ IsLocal(loc[t]) /\ DOMAIN loc = Threads /\ WalkOK(t) /\ HeadOK(t)  BY LocalIs
<1>2. /\ loc[t].pc = "each" /\ loc[t].pc \in Afoot /\ loc[t].todo # <<>> /\ loc[t].op = "exit" /\ Exiting(loc[t])
  BY <1>1 DEF EachKey, At, LocalOK, Afoot, Exiting
<1>3. UNCHANGED <<keyStat, param, numFree, hint, keyChain, nextBase, heads, made, own, arrays, stat, data, tls,
                  mutex, tlsKey, phase, live, answer, script>>
  BY DEF EachKey, keyVars, headVars, contentVars, histVars
<1>4. /\ loc[t].todo \in Seq(Arrays) /\ loc[t].todo \in Seq(Nat) /\ loc[t].idx \in Nat /\ loc[t].idx <= ArraySize
      /\ ArraySize \in Nat \ {0}
  BY <1>1, <1>2, TlsAssumption DEF LocalOK, IsLocal
<1>5. /\ Head(loc[t].todo) \in Arrays /\ Tail(loc[t].todo) \in Seq(Arrays) /\ Tail(loc[t].todo) \in Seq(Nat)
  <2>1. Head(loc[t].todo) \in Arrays /\ Tail(loc[t].todo) \in Seq(Arrays)  BY <1>2, <1>4, HeadAndTail
  <2>2. Tail(loc[t].todo) \in Seq(Nat)  BY <1>2, <1>4, HeadAndTail
  <2>3. QED  BY <2>1, <2>2
<1>6. tls[t] \in Heads  BY <1>1, <1>2 DEF HeadOK, Inv, Types
<1> DEFINE b == Head(loc[t].todo)
           j == b * ArraySize + loc[t].idx
<1>7. \A k \in Keys : Filled(tls[t], k) =>
        (ArrayOf(k) = b /\ j <= k) \/ In(ArrayOf(k), Tail(loc[t].todo))
  BY <1>1, <1>2 DEF WalkOK
<1>8. b * ArraySize \in Nat  BY <1>4, <1>5 DEF Arrays
<1> HIDE DEF b
<1>9. /\ Alone(t) /\ IsLocal(loc'[t]) /\ loc'[t].pc \in {"each", "destruct"} /\ loc'[t].op = loc[t].op
      /\ loc'[t].var = loc[t].var /\ loc'[t].key = loc[t].key /\ loc'[t].back = loc[t].back
      /\ loc'[t].todo \in Seq(Arrays) /\ loc'[t].idx <= ArraySize
      /\ loc'[t].pc = "destruct" => loc'[t].todo # <<>> /\ loc'[t].idx < ArraySize
      /\ \A k \in Keys : Filled(tls[t], k) =>
           /\ loc'[t].todo # <<>>
           /\ \/ ArrayOf(k) = Head(loc'[t].todo) /\ Head(loc'[t].todo) * ArraySize + loc'[t].idx <= k
              \/ In(ArrayOf(k), Tail(loc'[t].todo))
  <2>1. CASE PassDone(loc[t])
    <3>1. loc' = [loc EXCEPT ![t].todo = Tail(loc[t].todo), ![t].idx = 0]  BY <2>1 DEF EachKey
    <3>2. Alone(t) /\ loc'[t] = [loc[t] EXCEPT !.todo = Tail(loc[t].todo), !.idx = 0]  BY <1>1, <3>1 DEF Alone
    <3>3. /\ IsLocal(loc'[t]) /\ loc'[t].pc = "each" /\ loc'[t].op = loc[t].op
          /\ loc'[t].var = loc[t].var /\ loc'[t].key = loc[t].key /\ loc'[t].back = loc[t].back
          /\ loc'[t].todo = Tail(loc[t].todo) /\ loc'[t].idx = 0
      BY <1>1, <1>2, <1>5, <3>2 DEF IsLocal, Fields, Points
    <3>4. ASSUME NEW k \in Keys, Filled(tls[t], k)
          PROVE  /\ loc'[t].todo # <<>>
                 /\ \/ ArrayOf(k) = Head(loc'[t].todo) /\ Head(loc'[t].todo) * ArraySize + loc'[t].idx <= k
                    \/ In(ArrayOf(k), Tail(loc'[t].todo))
      <4>1. /\ k \in Nat /\ ArrayOf(k) * ArraySize <= k /\ k < ArrayOf(k) * ArraySize + ArraySize
            /\ ArrayOf(k) * ArraySize \in Nat
        BY ArrayAt
      <4>2. ~(ArrayOf(k) = b /\ j <= k)
        <5>1. SUFFICES ASSUME ArrayOf(k) = b, j <= k PROVE FALSE  OBVIOUS
        <5>2. k < b * ArraySize + ArraySize  BY <4>1, <5>1
        <5>3. loc[t].idx = ArraySize  BY <2>1 DEF PassDone
        <5>4. QED  BY <1>4, <1>8, <4>1, <5>1, <5>2, <5>3
      <4>3. In(ArrayOf(k), Tail(loc[t].todo))  BY <1>7, <3>4, <4>2
      <4>4. Tail(loc[t].todo) # <<>>  BY <4>3, EmptyHasNone, Zenon
      <4>5. \A x : In(x, Tail(loc[t].todo)) <=> x = Head(Tail(loc[t].todo)) \/ In(x, Tail(Tail(loc[t].todo)))
        BY <1>5, <4>4, HeadAndTail, Zenon
      <4>6. ArrayOf(k) * ArraySize + 0 <= k  BY <4>1
      <4>7. ArrayOf(k) = Head(Tail(loc[t].todo)) => Head(Tail(loc[t].todo)) * ArraySize + 0 <= k  BY <4>6, Zenon
      <4>8. ArrayOf(k) = Head(Tail(loc[t].todo)) \/ In(ArrayOf(k), Tail(Tail(loc[t].todo)))  BY <4>3, <4>5, Zenon
      <4>9. QED  BY <3>3, <4>4, <4>7, <4>8
    <3>5. QED  BY <1>4, <1>5, <3>2, <3>3, <3>4
  <2>2. CASE ~PassDone(loc[t]) /\ keyStat[Spot(t)[2]] = "used"
    <3>1. loc' = [loc EXCEPT ![t].pc = "destruct"]  BY <2>2 DEF EachKey
    <3>2. Alone(t) /\ loc'[t] = [loc[t] EXCEPT !.pc = "destruct"]  BY <1>1, <3>1 DEF Alone
    <3>3. /\ IsLocal(loc'[t]) /\ loc'[t].pc = "destruct" /\ loc'[t].op = loc[t].op
          /\ loc'[t].var = loc[t].var /\ loc'[t].key = loc[t].key /\ loc'[t].back = loc[t].back
          /\ loc'[t].todo = loc[t].todo /\ loc'[t].idx = loc[t].idx
      BY <1>1, <3>2 DEF IsLocal, Fields, Points, Releasing, Walking
    <3>4. loc[t].idx < ArraySize  BY <1>4, <2>2 DEF PassDone
    <3>5. QED  BY <1>2, <1>4, <1>7, <3>2, <3>3, <3>4 DEF b
  <2>3. CASE ~PassDone(loc[t]) /\ keyStat[Spot(t)[2]] # "used"
    <3>1. loc' = [loc EXCEPT ![t].idx = loc[t].idx + 1]  BY <2>3 DEF EachKey
    <3>2. Alone(t) /\ loc'[t] = [loc[t] EXCEPT !.idx = loc[t].idx + 1]  BY <1>1, <3>1 DEF Alone
    <3>3. /\ IsLocal(loc'[t]) /\ loc'[t].pc = "each" /\ loc'[t].op = loc[t].op
          /\ loc'[t].var = loc[t].var /\ loc'[t].key = loc[t].key /\ loc'[t].back = loc[t].back
          /\ loc'[t].todo = loc[t].todo /\ loc'[t].idx = loc[t].idx + 1
      BY <1>1, <1>2, <1>4, <3>2 DEF IsLocal, Fields, Points
    <3>4. loc[t].idx < ArraySize  BY <1>4, <2>3 DEF PassDone
    <3>5. Spot(t)[2] = j  BY <1>2 DEF Spot, b
    <3>6. j \in Keys  BY <1>4, <1>5, <3>4, KeyAt, Zenon DEF b
    <3>7. ~Filled(tls[t], j)
      <4>1. SUFFICES ASSUME Filled(tls[t], j) PROVE FALSE  OBVIOUS
      <4>2. keyStat[j] = "releasing"  BY <1>6, <2>3, <3>5, <3>6, <4>1, FilledIs DEF Inv, Types
      <4>3. PICK u \in Threads : Frees(loc[u])  BY <3>6, <4>2 DEF Inv, KeysOK
      <4>4. Depth(loc[u]) # 0 /\ Depth(loc[t]) # 0 /\ ~Frees(loc[t])  BY <1>2, <4>3 DEF Depth, Frees
      <4>5. QED  BY <4>3, <4>4, OneHolder
    <3>8. ASSUME NEW k \in Keys, Filled(tls[t], k), ArrayOf(k) = b, j <= k
          PROVE  b * ArraySize + (loc[t].idx + 1) <= k
      <4>1. k # j /\ k \in Nat  BY <3>7, <3>8, ArrayAt
      <4>2. ASSUME NEW n \in Nat, NEW i \in Nat, n + i <= k, k # n + i PROVE n + (i + 1) <= k  BY <4>1, <4>2
      <4>3. QED  BY <1>4, <1>8, <3>8, <4>1, <4>2
    <3>9. QED  BY <1>2, <1>4, <1>7, <3>2, <3>3, <3>4, <3>8 DEF b
  <2>4. QED  BY <2>1, <2>2, <2>3
<1>10. loc'[t].pc \in Afoot  BY <1>9 DEF Afoot, Walking
<1>11. LocalOK(loc'[t])  BY <1>1, <1>2, <1>9, <1>10, WalkingLocal
<1>12. ~Walks(loc'[t])  BY <1>2, <1>9 DEF Walks
<1>13. loc[t].pc \notin {"clear", "unused"} /\ loc'[t].pc \notin {"clear", "unused"}  BY <1>2, <1>9
<1>14. QED  BY <1>2, <1>3, <1>9, <1>10, <1>11, <1>12, <1>13, WalkGoesOn, Zenon

-----------------------------------------------------------------------------
(* A content is destroyed                                                  *)

\* The thread that destroys a content holds the mutex.
LEMMA AfootHolds ==
  ASSUME Inv, NEW t \in Threads, loc[t].pc \in Afoot
  PROVE  Depth(loc[t]) # 0
<1>1. LocalOK(loc[t])  BY LocalIs
<1>2. loc[t].op = "exit" => Exiting(loc[t])  BY DEF Exiting, Afoot, Walking
<1>3. loc[t].op # "exit" => Frees(loc[t])  BY <1>1 DEF LocalOK, Frees, Afoot, Releasing
<1>4. QED  BY <1>2, <1>3 DEF Depth

\* The same data is not in two contents.
LEMMA DataOnce ==
  ASSUME Inv, NEW h \in Heads, NEW k \in Keys, NEW g \in Heads, NEW j \in Keys,
         Filled(h, k), Filled(g, j), data[h][k] = data[g][j]
  PROVE  h = g /\ k = j
<1>1. tls[data[h][k][1]] = h /\ Owns(data[h][k][2], k)  BY FilledIs
<1>2. tls[data[g][j][1]] = g /\ Owns(data[g][j][2], j)  BY FilledIs
<1>3. QED  BY <1>1, <1>2 DEF Owns

LEMMA DestructKeeps ==
  ASSUME NothingAsked, Inv, NEW t \in Threads, Destruct(t)
  PROVE  Inv'
<1>1. LocalOK(loc[t]) /\ IsLocal(loc[t]) /\ DOMAIN loc = Threads /\ WalkOK(t) /\ HeadOK(t) /\ KeyOK(loc[t])  BY LocalIs
<1>2. loc[t].pc = "destruct" /\ loc[t].pc \in Afoot  BY DEF Destruct, At, Afoot, Walking
<1>3. UNCHANGED <<keyStat, param, numFree, hint, keyChain, nextBase, heads, made, own, arrays, data, tls,
                  mutex, tlsKey, phase, answer, script>>
  BY DEF Destruct, keyVars, headVars
<1>4. PICK h \in Heads, k \in Keys : Spot(t) = <<h, k>>  BY <1>2, SpotIs
<1>5. Spot(t)[1] = h /\ Spot(t)[2] = k  BY <1>4
<1>6. CASE stat[h][k] # "used"
  <2>1. loc' = [loc EXCEPT ![t] = Onward(t, loc[t])] /\ stat' = stat /\ live' = live
    BY <1>5, <1>6 DEF Destruct
  <2>2. Alone(t) /\ loc'[t] = Onward(t, loc[t])  BY <1>1, <2>1 DEF Alone
  <2>3. ~Filled(h, k)
    <3>1. SUFFICES ASSUME Filled(h, k) PROVE FALSE  OBVIOUS
    <3>2. stat[h][k] = "destructing"  BY <1>6, <3>1 DEF Filled, Inv, Types
    <3>3. PICK u \in Threads : At(u, "clear")  BY <3>2 DEF Inv, ContentsOK, ContentOK
    <3>4. loc[u].pc = "clear" /\ loc[u].pc \in Afoot  BY <3>3 DEF At, Afoot, Walking
    <3>5. u = t  BY <1>2, <3>4, AfootHolds, OneHolder
    <3>6. QED  BY <1>2, <3>4, <3>5
  <2>4. /\ LocalOK(loc'[t]) /\ loc'[t].pc \in {"walk", "each"}
        /\ loc'[t].op = loc[t].op /\ loc'[t].var = loc[t].var /\ loc'[t].key = loc[t].key
        /\ Walks(loc'[t]) => \A g \in Nat : In(g, loc'[t].todo) => In(g, heads)
    BY <1>2, <2>2, OnwardIs
  <2> DEFINE S == {c \in Heads \X Keys : Filled(c[1], c[2])}
  <2>5. \A g \in Heads, j \in Keys : <<g, j>> \in S => Filled(g, j) /\ <<g, j>> # Spot(t)  BY <1>4, <2>3
  <2>6. \A g \in Heads, j \in Keys : Filled(g, j) => <<g, j>> \in S  OBVIOUS
  <2> HIDE DEF S
  <2>7. /\ Walks(loc'[t]) => \A g \in Heads : <<g, loc[t].key>> \in S => In(g, loc'[t].todo)
        /\ Exiting(loc'[t]) => \A j \in Keys : <<tls[t], j>> \in S =>
             /\ loc'[t].todo # <<>>
             /\ \/ ArrayOf(j) = Head(loc'[t].todo) /\ Head(loc'[t].todo) * ArraySize + loc'[t].idx <= j
                \/ In(ArrayOf(j), Tail(loc'[t].todo))
    BY <1>2, <2>2, <2>5, OnwardFinds
  <2>8. Walks(loc'[t]) => \A g \in Heads : Filled(g, loc[t].key) => In(g, loc'[t].todo)
    <3>1. Walks(loc'[t]) => loc[t].key \in Keys
      <4>1. Walks(loc'[t]) => Spot(t) = <<Head(loc[t].todo), loc[t].key>> /\ Spot(t)[2] \in Keys
        BY <1>2, <2>4, SpotIs DEF Walks
      <4>2. QED  BY <4>1
    <3>2. ASSUME Walks(loc'[t]), NEW g \in Heads, Filled(g, loc[t].key) PROVE In(g, loc'[t].todo)
      <4>1. <<g, loc[t].key>> \in S  BY <2>6, <3>1, <3>2
      <4>2. QED  BY <2>7, <3>2, <4>1
    <3>3. QED  BY <3>2
  <2>9. Exiting(loc'[t]) => \A j \in Keys : Filled(tls[t], j) =>
             /\ loc'[t].todo # <<>>
             /\ \/ ArrayOf(j) = Head(loc'[t].todo) /\ Head(loc'[t].todo) * ArraySize + loc'[t].idx <= j
                \/ In(ArrayOf(j), Tail(loc'[t].todo))
    <3>1. Exiting(loc'[t]) => tls[t] \in Heads
      <4>1. Exiting(loc'[t]) => Exiting(loc[t])  BY <1>2, <2>4 DEF Exiting
      <4>2. QED  BY <1>1, <4>1 DEF HeadOK, Inv, Types
    <3>2. ASSUME Exiting(loc'[t]), NEW j \in Keys, Filled(tls[t], j)
          PROVE  /\ loc'[t].todo # <<>>
                 /\ \/ ArrayOf(j) = Head(loc'[t].todo) /\ Head(loc'[t].todo) * ArraySize + loc'[t].idx <= j
                    \/ In(ArrayOf(j), Tail(loc'[t].todo))
      <4>1. <<tls[t], j>> \in S  BY <2>6, <3>1, <3>2
      <4>2. QED  BY <2>7, <3>2, <4>1
    <3>3. QED  BY <3>2
  <2>10. loc'[t].pc \in Afoot /\ loc[t].pc \notin {"clear", "unused"} /\ loc'[t].pc \notin {"clear", "unused"}
    BY <1>2, <2>4 DEF Afoot, Walking
  <2>11. UNCHANGED <<keyStat, param, numFree, hint, keyChain, nextBase, heads, made, own, arrays, stat, data, tls,
                     mutex, tlsKey, phase, live, answer, script>>
    BY <1>3, <2>1
  <2>12. QED  BY <1>2, <2>2, <2>4, <2>8, <2>9, <2>10, <2>11, WalkGoesOn, Zenon
<1>7. CASE stat[h][k] = "used"
  <2>1. Filled(h, k)  BY <1>7 DEF Filled
  <2>2. /\ Owns(data[h][k][2], k) /\ data[h][k][2] \in Vars /\ param[k] = data[h][k][2] /\ data[h][k] # None
    BY <2>1, FilledIs
  <2>3. Uses[param[k]] = None  BY <2>2 DEF NothingAsked
  <2>4. /\ stat' = [stat EXCEPT ![h][k] = "destructing"] /\ live' = live \ {data[h][k]}
        /\ loc' = [loc EXCEPT ![t] = [loc[t] EXCEPT !.pc = "clear"]]
    BY <1>5, <1>7, <2>3 DEF Destruct
  <2>5. Alone(t) /\ loc'[t] = [loc[t] EXCEPT !.pc = "clear"]  BY <1>1, <2>4 DEF Alone
  <2>6. /\ IsLocal(loc'[t]) /\ loc'[t].pc = "clear" /\ loc'[t].op = loc[t].op /\ loc'[t].var = loc[t].var
        /\ loc'[t].key = loc[t].key /\ loc'[t].back = loc[t].back /\ loc'[t].todo = loc[t].todo
        /\ loc'[t].idx = loc[t].idx
    BY <1>1, <2>5 DEF IsLocal, Fields, Points, Releasing, Walking
  <2>7. loc[t].op \in {"destroy", "exit"}
    <3>1. SUFFICES ASSUME loc[t].op \in {"get", "set"} PROVE FALSE  BY <1>1 DEF IsLocal, Ops
    <3>2. Unpublished(loc[t])  BY <1>2, <3>1 DEF Unpublished, Releasing, Walking
    <3>3. loc[t].key = k
      <4>1. Spot(t) = <<Head(loc[t].todo), loc[t].key>>  BY <3>1 DEF Spot
      <4>2. QED  BY <1>5, <4>1
    <3>4. QED  BY <1>1, <2>2, <3>2, <3>3 DEF KeyOK
  <2>8. loc'[t].pc \in Afoot  BY <2>6 DEF Afoot, Walking
  <2>9. LocalOK(loc'[t])
    <3>1. loc[t].todo # <<>>  BY <1>1, <1>2 DEF LocalOK
    <3>2. loc[t].op = "exit" => loc[t].todo \in Seq(Arrays) /\ loc[t].idx <= ArraySize /\ loc[t].idx < ArraySize
      BY <1>1, <1>2 DEF LocalOK, Exiting
    <3>3. QED  BY <1>1, <1>2, <2>6, <2>7, <2>8, <3>1, <3>2, WalkingLocal
  <2>10. Walks(loc'[t]) <=> Walks(loc[t])  BY <1>2, <2>6 DEF Walks, Walking
  <2>11. /\ LocalsOK' /\ MutexOK' /\ VarsOK' /\ KeysOK' /\ HeadsOK' /\ MadeOK' /\ OwnData'
         /\ \A v, j : Owns(v, j)' <=> Owns(v, j)
    <3>1. Walks(loc'[t]) => \A g \in Nat : In(g, loc'[t].todo) => In(g, heads)  BY <1>1, <2>6, <2>10 DEF HeadOK
    <3>2. UNCHANGED <<keyStat, param, nextBase, heads, made, own, arrays, tls, mutex, tlsKey, phase, answer>>  BY <1>3
    <3>3. QED  BY <1>2, <2>5, <2>6, <2>8, <2>9, <3>1, <3>2, WalkParts, Zenon
  <2>12. /\ stat' \in [Heads -> [Keys -> {"uninitialized", "used", "destructing"}]]
         /\ stat'[h][k] = "destructing"
         /\ \A g \in Heads, j \in Keys : g # h \/ j # k => stat'[g][j] = stat[g][j]
    BY <2>4 DEF Inv, Types
  <2>13. Types'  BY <1>3, <2>4, <2>12 DEF Inv, Types
  <2>14. Spot(t)' = <<h, k>>  BY <1>3, <1>4, <2>6 DEF Spot
  <2>15. \A g \in Heads, j \in Keys : Filled(g, j)' <=> Filled(g, j)  BY <2>1, <2>12 DEF Filled
  <2>16. ContentsOK'
    <3>1. ASSUME NEW g \in Heads, NEW j \in Keys PROVE ContentOK(g, j)'
      <4>1. ContentOK(g, j) /\ data[g][j] \in Data \cup {None}  BY DEF Inv, ContentsOK, Types
      <4>2. data[g][j] # None => data[g][j][1] \in Threads /\ data[g][j][2] \in Vars  BY <4>1 DEF Data
      <4>3. \A z \in Threads : loc'[z].pc = "gone" <=> loc[z].pc = "gone"
        <5>1. \A z \in Threads : z # t => loc'[z] = loc[z]  BY <2>5 DEF Alone
        <5>2. QED  BY <1>2, <2>6, <5>1
      <4>4. Filled(g, j) => data[g][j] # None /\ loc'[data[g][j][1]].pc # "gone" /\ In(ArrayOf(j), arrays[g])
        BY <4>1, <4>2, <4>3 DEF ContentOK, At
      <4>5. Filled(g, j) => Owns(data[g][j][2], j)'  BY <1>3, <2>11, <4>1, <4>2 DEF ContentOK
      <4>6. stat'[g][j] = "destructing" => \E u \in Threads : At(u, "clear")' /\ Spot(u)' = <<g, j>>
        <5>1. CASE g = h /\ j = k  BY <2>6, <2>14, <5>1 DEF At
        <5>2. ASSUME g # h \/ j # k, stat'[g][j] = "destructing"
              PROVE  \E u \in Threads : At(u, "clear")' /\ Spot(u)' = <<g, j>>
          <6>1. stat[g][j] = "destructing"  BY <2>12, <5>2
          <6>2. PICK u \in Threads : At(u, "clear") /\ Spot(u) = <<g, j>>  BY <4>1, <6>1 DEF ContentOK
          <6>3. loc'[u] = loc[u]  BY <1>2, <2>5, <6>2 DEF Alone, At
          <6>4. At(u, "clear")' /\ Spot(u)' = <<g, j>>  BY <1>3, <6>2, <6>3 DEF At, Spot
          <6>5. QED  BY <6>4
        <5>3. QED  BY <5>1, <5>2
      <4>7. data[g][j] # None => tls[data[g][j][1]] = g
                                 /\ (tlsKey[data[g][j][2]] = j \/ phase[data[g][j][2]] = "gone")
        BY <4>1 DEF ContentOK
      <4>8. QED  BY <1>3, <2>15, <4>4, <4>5, <4>6, <4>7 DEF ContentOK, At
    <3>2. QED  BY <3>1 DEF ContentsOK
  <2>17. LiveOK'
    <3>1. ASSUME NEW x \in live' PROVE \E c \in InUse' : x = data'[c[1]][c[2]]
      <4>1. x \in live /\ x # data[h][k]  BY <2>4
      <4>2. PICK c \in InUse : x = data[c[1]][c[2]]  BY <4>1 DEF Inv, LiveOK
      <4>3. c \in Heads \X Keys /\ c[1] \in Heads /\ c[2] \in Keys /\ stat[c[1]][c[2]] = "used"  BY <4>2 DEF InUse
      <4>4. c[1] # h \/ c[2] # k  BY <4>1, <4>2
      <4>5. stat'[c[1]][c[2]] = "used"  BY <2>12, <4>3, <4>4
      <4>6. c \in InUse'  BY <4>3, <4>5 DEF InUse
      <4>7. QED  BY <1>3, <4>2, <4>6
    <3>2. ASSUME NEW c \in InUse' PROVE data'[c[1]][c[2]] \in live'
      <4>1. c \in Heads \X Keys /\ c[1] \in Heads /\ c[2] \in Keys /\ stat'[c[1]][c[2]] = "used"  BY DEF InUse
      <4>2. c[1] # h \/ c[2] # k  BY <2>12, <4>1
      <4>3. stat[c[1]][c[2]] = "used"  BY <2>12, <4>1, <4>2
      <4>4. c \in InUse /\ Filled(c[1], c[2])  BY <4>1, <4>3 DEF InUse, Filled
      <4>5. data[c[1]][c[2]] \in live  BY <4>4 DEF Inv, LiveOK
      <4>6. data[c[1]][c[2]] # data[h][k]  BY <2>1, <4>1, <4>2, <4>4, DataOnce
      <4>7. QED  BY <1>3, <2>4, <4>5, <4>6
    <3>3. QED  BY <3>1, <3>2 DEF LiveOK
  <2>18. WalksOK'
    <3>1. ASSUME NEW u \in Threads PROVE WalkOK(u)'
      <4>1. CASE u = t
        <5>1. stat'[Spot(t)'[1]][Spot(t)'[2]] = "destructing"  BY <2>12, <2>14
        <5>2. Walks(loc'[t]) => \A g \in Heads : stat'[g][loc'[t].key] # "uninitialized" => In(g, loc'[t].todo)
          <6>1. Walks(loc'[t]) => loc[t].key \in Keys
            <7>1. Walks(loc'[t]) => Spot(t) = <<Head(loc[t].todo), loc[t].key>> /\ Spot(t)[2] \in Keys
              BY <1>2, <2>6, SpotIs DEF Walks
            <7>2. QED  BY <7>1
          <6>2. ASSUME Walks(loc'[t]), NEW g \in Heads, stat'[g][loc'[t].key] # "uninitialized"
                PROVE  In(g, loc'[t].todo)
            <7>1. loc'[t].key = loc[t].key /\ loc[t].key \in Keys /\ Walks(loc[t])  BY <2>6, <2>10, <6>1, <6>2
            <7>2. stat'[g][loc[t].key] # "uninitialized"  BY <6>2, <7>1, Zenon
            <7>3. Filled(g, loc[t].key)  BY <2>15, <7>1, <7>2 DEF Filled
            <7>4. In(g, loc[t].todo)  BY <1>1, <7>1, <7>3 DEF WalkOK
            <7>5. QED  BY <2>6, <7>4
          <6>3. QED  BY <6>2
        <5>3. Exiting(loc'[t]) <=> Exiting(loc[t])  BY <1>2, <2>6 DEF Exiting
        <5>4. Exiting(loc[t]) => tls[t] \in Heads  BY <1>1 DEF HeadOK, Inv, Types
        <5>5. ASSUME Exiting(loc'[t]), NEW j \in Keys, stat'[tls'[t]][j] # "uninitialized"
              PROVE  /\ loc'[t].todo # <<>>
                     /\ \/ ArrayOf(j) = Head(loc'[t].todo) /\ Head(loc'[t].todo) * ArraySize + loc'[t].idx <= j
                        \/ In(ArrayOf(j), Tail(loc'[t].todo))
          <6>1. tls'[t] = tls[t] /\ tls[t] \in Heads  BY <1>3, <5>3, <5>4, <5>5
          <6>2. Filled(tls[t], j)  BY <2>15, <5>5, <6>1 DEF Filled
          <6>3. QED  BY <1>1, <2>6, <5>3, <5>5, <6>2 DEF WalkOK
        <5>6. loc'[t].pc # "unused"  BY <2>6
        <5>7. QED  BY <4>1, <5>1, <5>2, <5>5, <5>6 DEF WalkOK, Walks, Exiting, Filled
      <4>2. CASE u # t
        <5>1. loc'[u] = loc[u]  BY <2>5, <4>2 DEF Alone
        <5>2. loc[u].pc \notin Afoot  BY <1>2, <4>2, AfootHolds, OneHolder
        <5>3. ~Exiting(loc[u])
          <6>1. Depth(loc[t]) # 0  BY <1>2, AfootHolds
          <6>2. Exiting(loc[u]) => Depth(loc[u]) # 0  BY DEF Depth, Frees
          <6>3. QED  BY <4>2, <6>1, <6>2, OneHolder
        <5>4. QED  BY <5>1, <5>2, <5>3 DEF WalkOK, Walks, Exiting, Afoot, Walking
      <4>3. QED  BY <4>1, <4>2
    <3>2. QED  BY <3>1 DEF WalksOK
  <2>19. CountsOK'
    <3>1. loc[t].pc \notin {"count", "unused"} /\ loc'[t].pc \notin {"count", "unused"}  BY <1>2, <2>6
    <3>2. QED  BY <1>3, <2>5, <3>1, CountsStay, Zenon
  <2>20. QED  BY <2>11, <2>13, <2>16, <2>17, <2>18, <2>19 DEF Inv
<1>8. QED  BY <1>6, <1>7

LEMMA ClearKeeps ==
  ASSUME Inv, NEW t \in Threads, Clear(t)
  PROVE  Inv'
<1>1. LocalOK(loc[t]) /\ IsLocal(loc[t]) /\ DOMAIN loc = Threads /\ WalkOK(t) /\ HeadOK(t)  BY LocalIs
<1>2. loc[t].pc = "clear" /\ loc[t].pc \in Afoot  BY DEF Clear, At, Afoot, Walking
<1>3. UNCHANGED <<keyStat, param, numFree, hint, keyChain, nextBase, heads, made, own, arrays, data, tls,
                  mutex, tlsKey, phase, live, answer, script>>
  BY DEF Clear, keyVars, headVars, histVars
<1>4. PICK h \in Heads, k \in Keys : Spot(t) = <<h, k>>  BY <1>2, SpotIs
<1>5. Spot(t)[1] = h /\ Spot(t)[2] = k  BY <1>4
<1>6. stat[h][k] = "destructing"  BY <1>1, <1>2, <1>5 DEF WalkOK
<1>7. stat' = [stat EXCEPT ![h][k] = "uninitialized"] /\ loc' = [loc EXCEPT ![t] = Onward(t, loc[t])]
  BY <1>5 DEF Clear
<1>8. Alone(t) /\ loc'[t] = Onward(t, loc[t])  BY <1>1, <1>7 DEF Alone
<1>9. /\ LocalOK(loc'[t]) /\ loc'[t].pc \in {"walk", "each"}
      /\ loc'[t].op = loc[t].op /\ loc'[t].var = loc[t].var /\ loc'[t].key = loc[t].key
      /\ Walks(loc'[t]) => \A g \in Nat : In(g, loc'[t].todo) => In(g, heads)
  BY <1>2, <1>8, OnwardIs
<1>10. loc'[t].pc \in Afoot  BY <1>9 DEF Afoot, Walking
<1>11. /\ LocalsOK' /\ MutexOK' /\ VarsOK' /\ KeysOK' /\ HeadsOK' /\ MadeOK' /\ OwnData'
       /\ \A v, j : Owns(v, j)' <=> Owns(v, j)
  <2>1. UNCHANGED <<keyStat, param, nextBase, heads, made, own, arrays, tls, mutex, tlsKey, phase, answer>>  BY <1>3
  <2>2. QED  BY <1>2, <1>8, <1>9, <1>10, <2>1, WalkParts, Zenon
<1>12. /\ stat' \in [Heads -> [Keys -> {"uninitialized", "used", "destructing"}]]
       /\ stat'[h][k] = "uninitialized"
       /\ \A g \in Heads, j \in Keys : g # h \/ j # k => stat'[g][j] = stat[g][j]
  BY <1>7 DEF Inv, Types
<1>13. Types'  BY <1>3, <1>12 DEF Inv, Types
<1>14. \A z \in Threads : z # t => loc'[z] = loc[z]  BY <1>8 DEF Alone
<1>15. ContentsOK'
  <2>1. ASSUME NEW g \in Heads, NEW j \in Keys PROVE ContentOK(g, j)'
    <3>1. ContentOK(g, j) /\ data[g][j] \in Data \cup {None}  BY DEF Inv, ContentsOK, Types
    <3>2. data[g][j] # None => data[g][j][1] \in Threads /\ data[g][j][2] \in Vars  BY <3>1 DEF Data
    <3>3. \A z \in Threads : loc'[z].pc = "gone" <=> loc[z].pc = "gone"  BY <1>2, <1>9, <1>14
    <3>4. Filled(g, j)' => Filled(g, j)  BY <1>6, <1>12 DEF Filled
    <3>5. Filled(g, j) => data[g][j] # None /\ loc'[data[g][j][1]].pc # "gone" /\ In(ArrayOf(j), arrays[g])
      BY <3>1, <3>2, <3>3 DEF ContentOK, At
    <3>6. Filled(g, j) => Owns(data[g][j][2], j)'  BY <1>3, <1>11, <3>1, <3>2 DEF ContentOK
    <3>7. ASSUME stat'[g][j] = "destructing" PROVE \E u \in Threads : At(u, "clear")' /\ Spot(u)' = <<g, j>>
      <4>1. g # h \/ j # k  BY <1>12, <3>7
      <4>2. stat[g][j] = "destructing"  BY <1>12, <3>7, <4>1
      <4>3. PICK u \in Threads : At(u, "clear") /\ Spot(u) = <<g, j>>  BY <3>1, <4>2 DEF ContentOK
      <4>4. u # t  BY <1>4, <4>1, <4>3
      <4>5. loc'[u] = loc[u]  BY <1>14, <4>4
      <4>6. At(u, "clear")' /\ Spot(u)' = <<g, j>>  BY <1>3, <4>3, <4>5 DEF At, Spot
      <4>7. QED  BY <4>6
    <3>8. data[g][j] # None => tls[data[g][j][1]] = g
                               /\ (tlsKey[data[g][j][2]] = j \/ phase[data[g][j][2]] = "gone")
      BY <3>1 DEF ContentOK
    <3>9. QED  BY <1>3, <3>4, <3>5, <3>6, <3>7, <3>8 DEF ContentOK, At
  <2>2. QED  BY <2>1 DEF ContentsOK
<1>16. LiveOK'
  <2>1. ASSUME NEW c \in Heads \X Keys PROVE stat'[c[1]][c[2]] = "used" <=> stat[c[1]][c[2]] = "used"
    <3>1. c[1] \in Heads /\ c[2] \in Keys  OBVIOUS
    <3>2. QED  BY <1>6, <1>12, <3>1
  <2>2. InUse' = InUse  BY <2>1 DEF InUse
  <2>3. QED  BY <1>3, <2>2 DEF Inv, LiveOK
<1>17. WalksOK'
  <2> DEFINE S == {c \in Heads \X Keys : stat'[c[1]][c[2]] # "uninitialized"}
  <2>1. ASSUME NEW g \in Heads, NEW j \in Keys, <<g, j>> \in S PROVE Filled(g, j) /\ <<g, j>> # Spot(t)
    <3>1. stat'[g][j] # "uninitialized"  BY <2>1
    <3>2. g # h \/ j # k  BY <1>12, <3>1
    <3>3. Filled(g, j)  BY <1>12, <3>1, <3>2 DEF Filled
    <3>4. QED  BY <1>4, <3>2, <3>3
  <2>2. \A g \in Heads, j \in Keys : stat'[g][j] # "uninitialized" => <<g, j>> \in S  OBVIOUS
  <2> HIDE DEF S
  <2>3. loc[t].pc \in {"destruct", "clear"}  BY <1>2
  <2>4. /\ Walks(loc'[t]) => \A g \in Heads : <<g, loc[t].key>> \in S => In(g, loc'[t].todo)
        /\ Exiting(loc'[t]) => \A j \in Keys : <<tls[t], j>> \in S =>
             /\ loc'[t].todo # <<>>
             /\ \/ ArrayOf(j) = Head(loc'[t].todo) /\ Head(loc'[t].todo) * ArraySize + loc'[t].idx <= j
                \/ In(ArrayOf(j), Tail(loc'[t].todo))
    <3>1. \A g \in Heads, j \in Keys : <<g, j>> \in S => Filled(g, j) /\ <<g, j>> # Spot(t)  BY <2>1
    <3>2. QED  BY <1>8, <2>3, <3>1, OnwardFinds, Zenon
  <2>5. ASSUME NEW u \in Threads PROVE WalkOK(u)'
    <3>1. CASE u = t
      <4>1. ASSUME Walks(loc'[t]), NEW g \in Heads, stat'[g][loc'[t].key] # "uninitialized"
            PROVE  In(g, loc'[t].todo)
        <5>1. Spot(t) = <<Head(loc[t].todo), loc[t].key>> /\ Spot(t)[2] \in Keys
          BY <1>9, <2>3, <4>1, SpotIs DEF Walks
        <5>2. loc[t].key \in Keys  BY <5>1
        <5>3. stat'[g][loc[t].key] # "uninitialized"  BY <1>9, <4>1, Zenon
        <5>4. <<g, loc[t].key>> \in S  BY <2>2, <5>2, <5>3
        <5>5. QED  BY <2>4, <4>1, <5>4
      <4>2. ASSUME Exiting(loc'[t]), NEW j \in Keys, stat'[tls'[t]][j] # "uninitialized"
            PROVE  /\ loc'[t].todo # <<>>
                   /\ \/ ArrayOf(j) = Head(loc'[t].todo) /\ Head(loc'[t].todo) * ArraySize + loc'[t].idx <= j
                      \/ In(ArrayOf(j), Tail(loc'[t].todo))
        <5>1. Exiting(loc[t])  BY <1>2, <1>9, <4>2 DEF Exiting
        <5>2. tls'[t] = tls[t] /\ tls[t] \in Heads  BY <1>1, <1>3, <5>1 DEF HeadOK, Inv, Types
        <5>3. <<tls[t], j>> \in S  BY <2>2, <4>2, <5>2
        <5>4. QED  BY <2>4, <4>2, <5>3
      <4>3. loc'[t].pc \notin {"unused", "clear"}  BY <1>9
      <4>4. QED  BY <3>1, <4>1, <4>2, <4>3 DEF WalkOK, Walks, Exiting, Filled
    <3>2. CASE u # t
      <4>1. loc'[u] = loc[u]  BY <1>14, <3>2
      <4>2. loc[u].pc \notin Afoot  BY <1>2, <3>2, AfootHolds, OneHolder
      <4>3. ~Exiting(loc[u])
        <5>1. Depth(loc[t]) # 0  BY <1>2, AfootHolds
        <5>2. Exiting(loc[u]) => Depth(loc[u]) # 0  BY DEF Depth, Frees
        <5>3. QED  BY <3>2, <5>1, <5>2, OneHolder
      <4>4. QED  BY <4>1, <4>2, <4>3 DEF WalkOK, Walks, Exiting, Afoot, Walking
    <3>3. QED  BY <3>1, <3>2
  <2>6. QED  BY <2>5 DEF WalksOK
<1>18. CountsOK'
  <2>1. loc[t].pc \notin {"count", "unused"} /\ loc'[t].pc \notin {"count", "unused"}  BY <1>2, <1>9
  <2>2. QED  BY <1>3, <1>8, <2>1, CountsStay, Zenon
<1>19. QED  BY <1>11, <1>13, <1>15, <1>16, <1>17, <1>18 DEF Inv

-----------------------------------------------------------------------------
(* The end of a release                                                    *)

LEMMA CountFreeKeeps ==
  ASSUME Inv, NEW t \in Threads, CountFree(t)
  PROVE  Inv'
<1> DEFINE k == loc[t].key
<1>1. LocalOK(loc[t]) /\ IsLocal(loc[t]) /\ DOMAIN loc = Threads /\ KeyOK(loc[t])  BY LocalIs
<1>2. loc[t].pc = "walk" /\ loc[t].todo = <<>>  BY DEF CountFree, At
<1>3. /\ loc[t].op # "exit" /\ loc[t].pc \in Afoot /\ k \in Keys
      /\ \A h \in Heads : Filled(h, k) => In(h, loc[t].todo)
  BY <1>2, WalkIs
<1>4. /\ UNCHANGED <<keyStat, param, hint, keyChain, nextBase, heads, made, own, arrays, stat, data, tls,
                     mutex, tlsKey, phase, live, answer, script>>
      /\ numFree' = [numFree EXCEPT ![ArrayOf(k)] = @ + 1]
  BY DEF CountFree, headVars, contentVars, histVars
<1>5. Alone(t) /\ loc'[t] = [loc[t] EXCEPT !.pc = "unused"]  BY GotoIs DEF CountFree
<1>6. /\ IsLocal(loc'[t]) /\ loc'[t].pc = "unused" /\ loc'[t].key = k /\ loc'[t].op = loc[t].op
      /\ loc'[t].var = loc[t].var /\ loc'[t].back = loc[t].back
  BY <1>1, <1>5 DEF IsLocal, Fields, Points, Releasing
<1>7. loc'[t].pc \in Afoot  BY <1>6 DEF Afoot
<1>8. LocalOK(loc'[t])  BY <1>1, <1>2, <1>3, <1>6, <1>7, WalkingLocal
<1>9. Frees(loc[t]) /\ keyStat[k] = "releasing"  BY <1>1, <1>2, <1>3 DEF Frees, Releasing, Walking, KeyOK
<1>10. /\ LocalsOK' /\ MutexOK' /\ VarsOK' /\ KeysOK' /\ HeadsOK' /\ MadeOK' /\ OwnData'
       /\ \A v, j : Owns(v, j)' <=> Owns(v, j)
  <2>1. UNCHANGED <<keyStat, param, nextBase, heads, made, own, arrays, tls, mutex, tlsKey, phase, answer>>  BY <1>4
  <2>2. ~Walks(loc'[t])  BY <1>6 DEF Walks, Walking
  <2>3. QED  BY <1>3, <1>5, <1>6, <1>7, <1>8, <2>1, <2>2, WalkParts, Zenon
<1>11. Types'  BY <1>4 DEF Inv, Types
<1>12. ContentsOK' /\ LiveOK'
  <2>1. (loc'[t].pc = "gone" <=> At(t, "gone")) /\ ~At(t, "clear")  BY <1>2, <1>6 DEF At
  <2>2. UNCHANGED <<arrays, stat, data, tls, tlsKey>> /\ live' = live  BY <1>4
  <2>3. \A v \in Vars : phase'[v] = "gone" <=> phase[v] = "gone"  BY <1>4
  <2>4. QED  BY <1>5, <1>10, <2>1, <2>2, <2>3, ContentsStay, Zenon
<1>13. WalksOK'
  <2>1. \A h \in Heads : stat[h][k] = "uninitialized"  BY <1>2, <1>3, EmptyHasNone DEF Filled
  <2>2. WalkOK(t)'  BY <1>3, <1>4, <1>6, <2>1 DEF WalkOK, Walks, Walking, Exiting, Filled
  <2>3. QED  BY <1>4, <1>5, <2>2, WalksStay
<1>14. CountsOK'
  <2>1. ASSUME NEW u \in Threads, loc[u].pc \in {"count", "unused"}, loc[u].key = k
        PROVE  FALSE
    <3>1. Frees(loc[u]) \/ Unpublished(loc[u])
      BY <2>1, LocalIs DEF LocalOK, Frees, Unpublished, Releasing, Claiming
    <3>2. u = t  BY <1>9, <2>1, <3>1, OneUser
    <3>3. QED  BY <1>2, <2>1, <3>2
  <2>2. k \notin FreeIn(ArrayOf(k)) /\ ArrayOf(k) \in Arrays  BY <1>3, <1>9, <2>1, ArrayAt DEF FreeIn
  <2>3. \A j : (\E u \in Threads : loc'[u].pc \in {"count", "unused"} /\ loc'[u].key = j)
                 <=> j = k \/ \E u \in Threads : loc[u].pc \in {"count", "unused"} /\ loc[u].key = j
    <3>1. \A u \in Threads : u # t => loc'[u] = loc[u]  BY <1>5 DEF Alone
    <3>2. loc[t].pc \notin {"count", "unused"} /\ loc'[t].pc = "unused" /\ loc'[t].key = k  BY <1>2, <1>6
    <3>3. QED  BY <3>1, <3>2
  <2> HIDE DEF k
  <2>4. ASSUME NEW a \in Arrays PROVE numFree'[a] = Cardinality(FreeIn(a)')
    <3>1. numFree[a] = Cardinality(FreeIn(a)) /\ numFree \in [Arrays -> Int]  BY DEF Inv, CountsOK
    <3>2. CASE a = ArrayOf(k)
      <4>1. FreeIn(a)' = FreeIn(a) \cup {k}  BY <1>3, <1>4, <2>3, <3>2 DEF FreeIn
      <4>2. IsFiniteSet(FreeIn(a)) /\ k \notin FreeIn(a)  BY <2>2, <3>2, FreeIsFinite
      <4>3. Cardinality(FreeIn(a) \cup {k}) = Cardinality(FreeIn(a)) + 1  BY <4>2, FS_AddElement, Zenon
      <4>4. numFree'[a] = numFree[a] + 1  BY <1>4, <3>1, <3>2
      <4>5. QED  BY <3>1, <4>1, <4>3, <4>4
    <3>3. CASE a # ArrayOf(k)
      <4>1. FreeIn(a)' = FreeIn(a)  BY <1>4, <2>3, <3>3 DEF FreeIn
      <4>2. numFree'[a] = numFree[a]  BY <1>4, <3>1, <3>3
      <4>3. QED  BY <3>1, <4>1, <4>2
    <3>4. QED  BY <3>2, <3>3
  <2>5. numFree' \in [Arrays -> Int]
    <3>1. numFree \in [Arrays -> Int] /\ ArrayOf(k) \in Arrays  BY <2>2 DEF Inv, CountsOK
    <3>2. numFree' = [numFree EXCEPT ![ArrayOf(k)] = numFree[ArrayOf(k)] + 1]  BY <1>4
    <3>3. QED  BY <3>1, <3>2
  <2>6. QED  BY <2>4, <2>5 DEF CountsOK
<1>15. QED  BY <1>10, <1>11, <1>12, <1>13, <1>14 DEF Inv

LEMMA FreeKeyKeeps ==
  ASSUME Inv, NEW t \in Threads, FreeKey(t)
  PROVE  Inv'
<1> DEFINE k == loc[t].key
           v == loc[t].var
<1>1. LocalOK(loc[t]) /\ IsLocal(loc[t]) /\ DOMAIN loc = Threads /\ KeyOK(loc[t]) /\ HeadOK(t) /\ WalkOK(t)
  BY LocalIs
<1>2. loc[t].pc = "unused" /\ loc[t].op \in Ops  BY <1>1 DEF FreeKey, At, LocalOK, IsLocal
<1>3. UNCHANGED <<param, numFree, hint, keyChain, nextBase, heads, made, own, arrays, stat, data, tls, tlsKey,
                  phase, live, answer, script>>
  BY DEF FreeKey, headVars, contentVars, histVars
<1>4. keyStat' = [keyStat EXCEPT ![k] = "notUsed"] /\ Unlock /\ Goto(t, loc[t].back)  BY DEF FreeKey
<1>5. Alone(t) /\ loc'[t] = [loc[t] EXCEPT !.pc = loc[t].back]  BY <1>4, GotoIs
<1>6. /\ Frees(loc[t]) /\ keyStat[k] = "releasing" /\ (Destroying(loc[t]) <=> HasKey(loc[t]))
      /\ loc[t].back = IF Destroying(loc[t]) THEN "null" ELSE "reload"
      /\ ~Destroying(loc[t]) <=> Unpublished(loc[t])
      /\ ~Destroying(loc[t]) <=> Calling(loc[t])
      /\ ~Exiting(loc[t])
  <2>1. loc[t].pc \in Releasing /\ loc[t].pc \notin Keyed \cup Claiming \cup {"idle", "gone"} /\ loc[t].op # "exit"
    BY <1>2 DEF Releasing, Keyed, Claiming, Ops
  <2>2. Frees(loc[t])  BY <2>1 DEF Frees
  <2>3. QED  BY <1>1, <1>2, <2>1, <2>2 DEF Destroying, HasKey, Unpublished, Calling, Exiting, KeyOK, LocalOK, Ops
<1>7. k \in Keys /\ v \in Vars  BY <1>1, <1>6 DEF LocalOK
<1>8. /\ IsLocal(loc'[t]) /\ loc'[t].pc = loc[t].back /\ loc'[t].pc \in {"null", "reload"}
      /\ loc'[t].key = k /\ loc'[t].op = loc[t].op /\ loc'[t].var = v
      /\ loc'[t].pc = "null" <=> Destroying(loc[t])
  BY <1>1, <1>5, <1>6 DEF IsLocal, Fields, Points, Seeking
<1>9. /\ ~Unpublished(loc'[t]) /\ ~Frees(loc'[t]) /\ ~Exiting(loc'[t]) /\ ~Walks(loc'[t])
      /\ HasKey(loc'[t]) <=> Destroying(loc[t])
      /\ Destroying(loc'[t]) <=> Destroying(loc[t])
      /\ Calling(loc'[t]) <=> Calling(loc[t])
  BY <1>2, <1>6, <1>8 DEF Unpublished, Frees, Exiting, Walks, HasKey, Destroying, Calling, Claiming, Releasing,
                          Walking, Keyed, Ops
<1>10. LocalOK(loc'[t])
  BY <1>2, <1>6, <1>7, <1>8, <1>9 DEF LocalOK, Destroying, Seeking, Claiming, Keyed, Walking, Releasing, Ops
<1>11. \A z \in Threads : z # t => loc'[z] = loc[z]  BY <1>5 DEF Alone
<1> HIDE DEF k, v
<1>12. ASSUME NEW w, NEW j PROVE Owns(w, j)' <=> Owns(w, j) /\ ~(Destroying(loc[t]) /\ w = v)
  <2>1. Past(w)' <=> Past(w) \/ (Destroying(loc[t]) /\ w = v)
    <3>1. Past(w)' <=> \E z \in Threads : loc'[z].pc = "null" /\ loc'[z].var = w  BY DEF Past, At
    <3>2. Past(w) <=> \E z \in Threads : loc[z].pc = "null" /\ loc[z].var = w  BY DEF Past, At
    <3>3. loc[t].pc # "null" /\ (loc'[t].pc = "null" <=> Destroying(loc[t])) /\ loc'[t].var = v  BY <1>2, <1>8
    <3>4. QED  BY <1>11, <3>1, <3>2, <3>3
  <2>2. QED  BY <1>3, <2>1 DEF Owns
<1>13. ASSUME NEW w \in Vars, NEW j \in Keys, j = k PROVE ~Owns(w, j)'
  <2>1. CASE Destroying(loc[t])
    <3>1. loc[t].pc \in Releasing \cup {"release"}  BY <1>2 DEF Releasing
    <3>2. Owns(v, j)  BY <1>13, <2>1, <3>1, Destroyed DEF v, k
    <3>3. Owns(w, j) => w = v  BY <1>7, <3>2 DEF Inv, KeysOK
    <3>4. QED  BY <1>12, <2>1, <3>3
  <2>2. CASE ~Destroying(loc[t])
    <3>1. ~Owns(w, j)  BY <1>1, <1>6, <1>13, <2>2 DEF KeyOK, k
    <3>2. QED  BY <1>12, <3>1
  <2>3. QED  BY <2>1, <2>2
<1>14. /\ keyStat' \in [Keys -> {"notUsed", "releasing", "used"}] /\ keyStat'[k] = "notUsed"
       /\ \A j \in Keys : j # k => keyStat'[j] = keyStat[j]
  BY <1>4, <1>7 DEF Inv, Types
<1>15. Types' /\ OwnData'  BY <1>3, <1>14 DEF Inv, Types, OwnData
<1>16. LocalsOK'
  <2>1. nextBase <= nextBase' /\ nextBase' \in 0 .. MaxArrays  BY <1>3, TlsAssumption DEF Inv, Types
  <2>2. nextBase <= nextBase' /\ (loc'[t].pc = "push" => loc'[t].idx < nextBase')  BY <1>8, <2>1
  <2>3. QED  BY <1>5, <1>10, <2>1, <2>2, LocalsStay, Zenon
<1>17. MutexOK'
  <2>1. Depth(loc[t]) = (IF Destroying(loc[t]) THEN 1 ELSE 0) + 1  BY <1>6 DEF Depth
  <2>2. Depth(loc'[t]) = IF Destroying(loc[t]) THEN 1 ELSE 0  BY <1>9 DEF Depth
  <2>3. mutex.owner = t /\ mutex.depth = Depth(loc[t])
    <3>1. Depth(loc[t]) # 0  BY <2>1
    <3>2. QED  BY <3>1 DEF Inv, MutexOK
  <2>4. mutex \in [owner : Threads \cup {None}, depth : Nat] /\ None \notin Threads  BY TlsAssumption DEF Inv, MutexOK
  <2>5. /\ mutex' \in [owner : Threads \cup {None}, depth : Nat]
        /\ mutex'.owner = IF Destroying(loc[t]) THEN t ELSE None
        /\ mutex'.depth = IF Destroying(loc[t]) THEN 1 ELSE 0
    <3>1. CASE Destroying(loc[t])
      <4>1. mutex' = [mutex EXCEPT !.depth = mutex.depth - 1] /\ mutex.depth = 2  BY <1>4, <2>1, <2>3, <3>1 DEF Unlock
      <4>2. QED  BY <2>3, <2>4, <3>1, <4>1
    <3>2. CASE ~Destroying(loc[t])
      <4>1. mutex' = [owner |-> None, depth |-> 0]  BY <1>4, <2>1, <2>3, <3>2 DEF Unlock
      <4>2. QED  BY <3>2, <4>1
    <3>3. QED  BY <3>1, <3>2
  <2>6. ASSUME NEW u \in Threads PROVE Depth(loc'[u]) = IF mutex'.owner = u THEN mutex'.depth ELSE 0
    <3>1. CASE u = t  BY <2>2, <2>4, <2>5, <3>1
    <3>2. CASE u # t
      <4>1. Depth(loc[u]) = 0  BY <2>3, <3>2 DEF Inv, MutexOK
      <4>2. loc'[u] = loc[u] /\ mutex'.owner # u  BY <1>11, <2>4, <2>5, <3>2
      <4>3. QED  BY <4>1, <4>2
    <3>3. QED  BY <3>1, <3>2
  <2>7. mutex'.owner = None <=> mutex'.depth = 0  BY <2>4, <2>5
  <2>8. \A u \in Threads : Depth(loc[u])' = Depth(loc'[u])  BY DEF Depth, Exiting, HasKey, Destroying, Frees
  <2>9. QED  BY <2>5, <2>6, <2>7, <2>8 DEF MutexOK
<1>18. VarsOK'
  <2>1. SameObject(t)  BY <1>8, <1>9 DEF SameObject, v
  <2>2. QED  BY <1>3, <1>5, <2>1, VarsStay
<1>19. KeysOK'
  <2>1. ASSUME NEW u \in Threads, u # t, Unpublished(loc[u]) \/ Frees(loc[u]) PROVE loc[u].key # k /\ loc[u].key \in Keys
    <3>1. loc[u].key # k  BY <1>6, <2>1, OneUser DEF k
    <3>2. LocalOK(loc[u]) /\ IsLocal(loc[u])  BY LocalIs
    <3>3. Frees(loc[u]) => Unpublished(loc[u]) \/ HasKey(loc[u])  BY <3>2 DEF IsLocal, Ops, Unpublished, HasKey, Frees
    <3>4. QED  BY <2>1, <3>1, <3>2, <3>3 DEF LocalOK
  <2>2. ASSUME NEW u \in Threads PROVE KeyOK(loc[u])'
    <3>1. CASE u = t
      <4>1. HasKey(loc'[t]) => tlsKey'[loc'[t].var] = loc'[t].key
        BY <1>1, <1>3, <1>6, <1>8, <1>9 DEF KeyOK, k, v
      <4>2. QED  BY <1>8, <1>9, <3>1, <4>1 DEF KeyOK, Unpublished, HasKey, Frees
    <3>2. CASE u # t
      <4>1. loc'[u] = loc[u] /\ KeyOK(loc[u])  BY <1>11, <3>2, LocalIs
      <4>2. Unpublished(loc[u]) => keyStat'[loc[u].key] # "notUsed"
        BY <1>14, <2>1, <3>2, <4>1 DEF KeyOK
      <4>3. Unpublished(loc[u]) => \A w \in Vars : ~(tlsKey'[w] = loc'[u].key /\ ~Past(w)')
        <5>1. ASSUME NEW j, j = loc[u].key, Unpublished(loc[u]), NEW w \in Vars PROVE ~Owns(w, j)'
          BY <1>12, <4>1, <5>1 DEF KeyOK
        <5>2. ASSUME Unpublished(loc[u]), NEW w \in Vars PROVE ~(tlsKey'[w] = loc[u].key /\ ~Past(w)')
          BY <5>1, <5>2 DEF Owns
        <5>3. QED  BY <4>1, <5>2
      <4>4. Frees(loc[u]) => keyStat'[loc[u].key] = "releasing"  BY <1>14, <2>1, <3>2, <4>1 DEF KeyOK
      <4>5. QED  BY <1>3, <4>1, <4>2, <4>3, <4>4 DEF KeyOK, Unpublished, HasKey, Frees, Owns
    <3>3. QED  BY <3>1, <3>2
  <2>3. ASSUME NEW u \in Threads, NEW w \in Threads, Unpublished(loc'[u]), Unpublished(loc'[w]),
               loc'[u].key = loc'[w].key
        PROVE  u = w
    <3>1. u # t /\ w # t  BY <1>9, <2>3
    <3>2. loc'[u] = loc[u] /\ loc'[w] = loc[w]  BY <1>11, <3>1
    <3>3. QED  BY <2>3, <3>2 DEF Inv, KeysOK
  <2>4. ASSUME NEW j \in Keys, keyStat'[j] = "releasing"
        PROVE  \E u \in Threads : Frees(loc'[u]) /\ loc'[u].key = j
    <3>1. j # k /\ keyStat[j] = "releasing"  BY <1>14, <2>4
    <3>2. PICK u \in Threads : Frees(loc[u]) /\ loc[u].key = j  BY <3>1 DEF Inv, KeysOK
    <3>3. u # t  BY <3>1, <3>2 DEF k
    <3>4. QED  BY <1>11, <3>2, <3>3
  <2>5. \A x, w \in Vars : \A j \in Keys : Owns(x, j)' /\ Owns(w, j)' => x = w  BY <1>12 DEF Inv, KeysOK
  <2>6. ASSUME NEW x \in Vars, NEW j \in Keys, Owns(x, j)' PROVE keyStat'[j] # "notUsed" /\ param'[j] = x
    <3>1. Owns(x, j) /\ j # k  BY <1>12, <1>13, <2>6
    <3>2. QED  BY <1>3, <1>14, <3>1 DEF Inv, KeysOK
  <2>7. QED  BY <2>2, <2>3, <2>4, <2>5, <2>6 DEF KeysOK, Unpublished, Frees
<1>20. HeadsOK' /\ MadeOK'
  <2>1. HeadOK(t)'  BY <1>1, <1>2, <1>3, <1>8, <1>9 DEF HeadOK, At
  <2>2. ~At(t, "gone") /\ ~At(t, "link") /\ loc'[t].pc # "link"  BY <1>2, <1>8 DEF At
  <2>3. heads' = heads /\ made' = made /\ own' = own /\ tls' = tls /\ arrays' = arrays  BY <1>3
  <2>4. /\ ~At(t, "gone") \/ loc'[t].pc = "gone"
        /\ loc'[t].pc = "link" => At(t, "link") /\ loc'[t].idx = loc[t].idx
        /\ loc'[t].pc = "link" <=> At(t, "link")
    BY <2>2
  <2>5. HeadsOK'  BY <1>5, <2>1, <2>3, <2>4, HeadsStay, Zenon
  <2>6. MadeOK'  BY <1>5, <2>3, <2>4, MadeStays, Zenon
  <2>7. QED  BY <2>5, <2>6
<1>21. ContentsOK'
  <2>1. ASSUME NEW g \in Heads, NEW j \in Keys PROVE ContentOK(g, j)'
    <3>1. ContentOK(g, j) /\ data[g][j] \in Data \cup {None}  BY DEF Inv, ContentsOK, Types
    <3>2. data[g][j] # None => data[g][j][1] \in Threads /\ data[g][j][2] \in Vars  BY <3>1 DEF Data
    <3>3. \A z \in Threads : loc'[z].pc = "gone" <=> loc[z].pc = "gone"  BY <1>2, <1>8, <1>11
    <3>4. Filled(g, j)' <=> Filled(g, j)  BY <1>3 DEF Filled
    <3>5. Filled(g, j) => data[g][j] # None /\ loc'[data[g][j][1]].pc # "gone" /\ In(ArrayOf(j), arrays[g])
      BY <3>1, <3>2, <3>3 DEF ContentOK, At
    <3>6. ASSUME Filled(g, j) PROVE Owns(data[g][j][2], j)'
      <4>1. Owns(data[g][j][2], j)  BY <3>1, <3>6 DEF ContentOK
      <4>2. ASSUME Destroying(loc[t]), data[g][j][2] = v PROVE FALSE
        <5>1. loc[t].pc \in Releasing \cup {"release"}  BY <1>2 DEF Releasing
        <5>2. Owns(v, k)  BY <4>2, <5>1, Destroyed DEF v, k
        <5>3. j = k  BY <4>1, <4>2, <5>2 DEF Owns
        <5>4. QED  BY <1>1, <1>2, <3>6, <5>3 DEF WalkOK, k
      <4>3. PICK w : w = data[g][j][2]  OBVIOUS
      <4>4. Owns(w, j)'  BY <1>12, <4>1, <4>2, <4>3
      <4>5. data'[g][j][2] = w  BY <1>3, <4>3
      <4>6. QED  BY <4>4, <4>5 DEF Owns, Past
    <3>7. ASSUME stat[g][j] = "destructing" PROVE \E u \in Threads : At(u, "clear")' /\ Spot(u)' = <<g, j>>
      <4>1. PICK u \in Threads : At(u, "clear") /\ Spot(u) = <<g, j>>  BY <3>1, <3>7 DEF ContentOK
      <4>2. loc'[u] = loc[u]  BY <1>2, <1>11, <4>1 DEF At
      <4>3. At(u, "clear")' /\ Spot(u)' = <<g, j>>  BY <1>3, <4>1, <4>2 DEF At, Spot
      <4>4. QED  BY <4>3
    <3>8. data[g][j] # None => tls[data[g][j][1]] = g
                               /\ (tlsKey[data[g][j][2]] = j \/ phase[data[g][j][2]] = "gone")
      BY <3>1 DEF ContentOK
    <3>9. QED  BY <1>3, <3>4, <3>5, <3>6, <3>7, <3>8 DEF ContentOK, At
  <2>2. QED  BY <2>1 DEF ContentsOK
<1>22. LiveOK'
  <2>1. InUse' = InUse  BY <1>3 DEF InUse
  <2>2. QED  BY <1>3, <2>1 DEF Inv, LiveOK
<1>23. WalksOK'
  <2>1. WalkOK(t)'  BY <1>8, <1>9 DEF WalkOK, Walks, Exiting
  <2>2. QED  BY <1>3, <1>5, <2>1, WalksStay
<1>24. CountsOK'
  <2>1. ASSUME NEW a \in Arrays PROVE FreeIn(a)' = FreeIn(a)
    <3>1. ASSUME NEW j \in Keys
          PROVE  (keyStat'[j] = "notUsed" \/ \E u \in Threads : loc'[u].pc \in {"count", "unused"} /\ loc'[u].key = j)
                   <=> (keyStat[j] = "notUsed" \/ \E u \in Threads : loc[u].pc \in {"count", "unused"} /\ loc[u].key = j)
      <4>1. CASE j = k
        <5>1. loc[t].pc \in {"count", "unused"} /\ loc[t].key = j  BY <1>2, <4>1 DEF k
        <5>2. QED  BY <1>14, <4>1, <5>1
      <4>2. CASE j # k
        <5>1. keyStat'[j] = keyStat[j]  BY <1>14, <4>2
        <5>2. loc[t].key # j /\ loc'[t].key # j  BY <1>8, <4>2 DEF k
        <5>3. QED  BY <1>11, <5>1, <5>2
      <4>3. QED  BY <4>1, <4>2
    <3>2. QED  BY <3>1 DEF FreeIn
  <2>2. QED  BY <1>3, <2>1 DEF Inv, CountsOK
<1>25. QED  BY <1>15, <1>16, <1>17, <1>18, <1>19, <1>20, <1>21, <1>22, <1>23, <1>24 DEF Inv

-----------------------------------------------------------------------------
(* The mutex is taken                                                      *)

\* The key to release is in use: nobody else releases it.
LEMMA ReleasedIsUsed ==
  ASSUME Inv, NEW t \in Threads, loc[t].pc = "release"
  PROVE  loc[t].op \in Ops /\ loc[t].var \in Vars /\ loc[t].key \in Keys /\ keyStat[loc[t].key] = "used"
<1>1. LocalOK(loc[t]) /\ IsLocal(loc[t]) /\ KeyOK(loc[t])  BY LocalIs
<1>2. loc[t].op \in Ops  BY <1>1 DEF LocalOK, IsLocal
<1>3. Unpublished(loc[t]) \/ (Destroying(loc[t]) /\ HasKey(loc[t]))
  BY <1>2 DEF Unpublished, Destroying, HasKey, Ops
<1>4. Calling(loc[t]) \/ Destroying(loc[t])  BY <1>2 DEF Calling, Destroying, Ops
<1>5. loc[t].var \in Vars /\ loc[t].key \in Keys  BY <1>1, <1>3, <1>4 DEF LocalOK
<1>6. Destroying(loc[t]) => Owns(loc[t].var, loc[t].key)  BY Destroyed
<1>7. keyStat[loc[t].key] # "notUsed"  BY <1>1, <1>3, <1>5, <1>6 DEF KeyOK, Inv, KeysOK
<1>8. keyStat[loc[t].key] # "releasing"
  <2>1. SUFFICES ASSUME keyStat[loc[t].key] = "releasing" PROVE FALSE  OBVIOUS
  <2>2. PICK u \in Threads : Frees(loc[u]) /\ loc[u].key = loc[t].key  BY <1>5, <2>1 DEF Inv, KeysOK
  <2>3. u # t  BY <2>2 DEF Frees, Releasing, Walking
  <2>4. CASE Unpublished(loc[t])  BY <2>2, <2>3, <2>4, OneUser
  <2>5. CASE Destroying(loc[t])
    <3>1. Owns(loc[t].var, loc[t].key)  BY <1>6, <2>5
    <3>2. ~Unpublished(loc[u])  BY <1>5, <2>2, <3>1, LocalIs DEF KeyOK
    <3>3. Destroying(loc[u]) /\ loc[u].pc \in Releasing \cup {"release"}
      BY <2>2, <3>2, LocalIs DEF Frees, Unpublished, Destroying, IsLocal, Ops
    <3>4. Owns(loc[u].var, loc[t].key) /\ loc[u].var \in Vars  BY <2>2, <3>3, Destroyed
    <3>5. loc[u].var = loc[t].var  BY <1>5, <3>1, <3>4 DEF Inv, KeysOK
    <3>6. QED  BY <2>3, <2>5, <3>3, <3>5 DEF Inv, VarsOK
  <2>6. QED  BY <1>3, <2>4, <2>5
<1>9. keyStat[loc[t].key] \in {"notUsed", "releasing", "used"}  BY <1>5 DEF Inv, Types
<1>10. QED  BY <1>2, <1>5, <1>7, <1>8, <1>9

\* A thread takes the mutex once more.
LEMMA MutexTaken ==
  ASSUME Inv, NEW t \in Threads, Alone(t), Lockable(t), Lock(t), Depth(loc'[t]) = Depth(loc[t]) + 1
  PROVE  MutexOK'
<1>1. /\ mutex \in [owner : Threads \cup {None}, depth : Nat] /\ None \notin Threads
      /\ mutex.owner = None <=> mutex.depth = 0
      /\ \A u \in Threads : Depth(loc[u]) = IF mutex.owner = u THEN mutex.depth ELSE 0
  BY TlsAssumption DEF Inv, MutexOK
<1>2. mutex' = [owner |-> t, depth |-> mutex.depth + 1] /\ (mutex.owner = None \/ mutex.owner = t)
  BY DEF Lockable, Lock
<1>3. mutex' \in [owner : Threads \cup {None}, depth : Nat] /\ mutex'.owner = t /\ mutex'.depth = mutex.depth + 1
      /\ mutex.depth \in Nat
  BY <1>1, <1>2
<1>4. mutex'.owner = None <=> mutex'.depth = 0  BY <1>1, <1>3
<1>5. ASSUME NEW u \in Threads PROVE Depth(loc'[u]) = IF mutex'.owner = u THEN mutex'.depth ELSE 0
  <2>1. CASE u = t
    <3>1. Depth(loc[t]) = mutex.depth  BY <1>1, <1>2
    <3>2. QED  BY <1>3, <2>1, <3>1
  <2>2. CASE u # t
    <3>1. Depth(loc[u]) = 0  BY <1>1, <1>2, <2>2
    <3>2. loc'[u] = loc[u]  BY <2>2 DEF Alone
    <3>3. QED  BY <1>3, <2>2, <3>1, <3>2
  <2>3. QED  BY <2>1, <2>2
<1>6. \A u \in Threads : Depth(loc[u])' = Depth(loc'[u])  BY DEF Depth, Exiting, HasKey, Destroying, Frees
<1>7. QED  BY <1>3, <1>4, <1>5, <1>6 DEF MutexOK

LEMMA ReleaseKeyKeeps ==
  ASSUME Inv, NEW t \in Threads, ReleaseKey(t)
  PROVE  Inv'
<1> DEFINE k == loc[t].key
<1>1. LocalOK(loc[t]) /\ IsLocal(loc[t]) /\ DOMAIN loc = Threads /\ KeyOK(loc[t]) /\ HeadOK(t)  BY LocalIs
<1>2. loc[t].pc = "release" /\ Lockable(t)  BY DEF ReleaseKey, At
<1>3. loc[t].op \in Ops /\ loc[t].var \in Vars /\ k \in Keys /\ keyStat[k] = "used"  BY <1>2, ReleasedIsUsed
<1>4. UNCHANGED <<param, numFree, hint, keyChain, nextBase, heads, made, own, arrays, stat, data, tls, tlsKey,
                  phase, live, answer, script>>
  BY DEF ReleaseKey, headVars, contentVars, histVars
<1>5. keyStat' = [keyStat EXCEPT ![k] = "releasing"] /\ Lock(t) /\ Goto(t, "heads")  BY <1>3 DEF ReleaseKey
<1>6. Alone(t) /\ loc'[t] = [loc[t] EXCEPT !.pc = "heads"]  BY <1>5, GotoIs
<1>7. /\ IsLocal(loc'[t]) /\ loc'[t].pc = "heads" /\ loc'[t].key = k /\ loc'[t].op = loc[t].op
      /\ loc'[t].var = loc[t].var /\ loc'[t].back = loc[t].back
  BY <1>1, <1>6 DEF IsLocal, Fields, Points, Releasing
<1>8. /\ ~Frees(loc[t]) /\ Frees(loc'[t]) /\ ~Exiting(loc[t]) /\ ~Exiting(loc'[t]) /\ ~Walks(loc'[t])
      /\ Unpublished(loc'[t]) <=> Unpublished(loc[t])
      /\ HasKey(loc'[t]) <=> HasKey(loc[t])
      /\ Destroying(loc'[t]) <=> Destroying(loc[t])
      /\ Calling(loc'[t]) <=> Calling(loc[t])
  BY <1>2, <1>3, <1>7 DEF Unpublished, Frees, Exiting, Walks, HasKey, Destroying, Calling, Claiming, Releasing,
                          Walking, Keyed, Ops
<1>9. LocalOK(loc'[t])
  <2>1. loc'[t].back = IF Destroying(loc'[t]) THEN "null" ELSE "reload"  BY <1>1, <1>2, <1>7, <1>8 DEF LocalOK
  <2>2. QED
    BY <1>3, <1>7, <1>8, <2>1 DEF LocalOK, Seeking, Claiming, Keyed, Walking, Ops
<1>10. \A z \in Threads : z # t => loc'[z] = loc[z]  BY <1>6 DEF Alone
<1> HIDE DEF k
<1>11. /\ keyStat' \in [Keys -> {"notUsed", "releasing", "used"}] /\ keyStat'[k] = "releasing"
       /\ \A j \in Keys : j # k => keyStat'[j] = keyStat[j]
       /\ \A j \in Keys : keyStat'[j] = "notUsed" <=> keyStat[j] = "notUsed"
  BY <1>3, <1>5 DEF Inv, Types
<1>12. \A v, j : Owns(v, j)' <=> Owns(v, j)
  <2>1. ~At(t, "null") /\ loc'[t].pc # "null"  BY <1>2, <1>7 DEF At
  <2>2. \A v : Past(v)' <=> Past(v)  BY <1>6, <2>1, PastStays, Zenon
  <2>3. QED  BY <1>4, <2>2 DEF Owns
<1>13. Types' /\ OwnData'  BY <1>4, <1>11 DEF Inv, Types, OwnData
<1>14. LocalsOK'
  <2>1. nextBase <= nextBase' /\ nextBase' \in 0 .. MaxArrays  BY <1>4, TlsAssumption DEF Inv, Types
  <2>2. loc'[t].pc = "push" => loc'[t].idx < nextBase'  BY <1>7
  <2>3. QED  BY <1>6, <1>9, <2>1, <2>2, LocalsStay, Zenon
<1>15. MutexOK'
  <2>1. Depth(loc'[t]) = Depth(loc[t]) + 1  BY <1>8 DEF Depth
  <2>2. QED  BY <1>2, <1>5, <1>6, <2>1, MutexTaken
<1>16. VarsOK'
  <2>1. SameObject(t)  BY <1>7, <1>8 DEF SameObject
  <2>2. QED  BY <1>4, <1>6, <2>1, VarsStay
<1>17. KeysOK'
  <2>1. ASSUME NEW u \in Threads, Unpublished(loc[u]) \/ Frees(loc[u]) PROVE loc[u].key \in Keys
    <3>1. LocalOK(loc[u]) /\ IsLocal(loc[u])  BY LocalIs
    <3>2. Frees(loc[u]) => Unpublished(loc[u]) \/ HasKey(loc[u])  BY <3>1 DEF IsLocal, Ops, Unpublished, HasKey, Frees
    <3>3. QED  BY <2>1, <3>1, <3>2 DEF LocalOK
  <2>2. ASSUME NEW u \in Threads
        PROVE  /\ Unpublished(loc'[u]) => Unpublished(loc[u])
               /\ HasKey(loc'[u]) => HasKey(loc[u])
               /\ loc'[u].key = loc[u].key /\ loc'[u].var = loc[u].var /\ (loc'[u].pc = "publish" => loc[u].pc = "publish")
    BY <1>7, <1>8, <1>10 DEF k
  <2>3. ASSUME NEW u \in Threads PROVE KeyOK(loc[u])'
    <3>1. KeyOK(loc[u])  BY LocalIs
    <3>2. Unpublished(loc'[u]) => keyStat'[loc'[u].key] # "notUsed"  BY <1>11, <2>1, <2>2, <3>1 DEF KeyOK
    <3>3. ASSUME Unpublished(loc'[u]), NEW w \in Vars PROVE ~(tlsKey'[w] = loc'[u].key /\ ~Past(w)')
      <4>1. ~Owns(w, loc[u].key)  BY <2>2, <3>1, <3>3 DEF KeyOK
      <4>2. ASSUME NEW j, j = loc[u].key PROVE ~Owns(w, j)'  BY <1>12, <4>1, <4>2
      <4>3. ~(tlsKey'[w] = loc[u].key /\ ~Past(w)')  BY <4>2 DEF Owns
      <4>4. QED  BY <2>2, <4>3
    <3>4. HasKey(loc'[u]) => tlsKey'[loc'[u].var] = loc'[u].key  BY <1>4, <2>2, <3>1 DEF KeyOK
    <3>5. Frees(loc'[u]) => keyStat'[loc'[u].key] = "releasing"
      <4>1. CASE u = t  BY <1>7, <1>11, <4>1
      <4>2. CASE u # t
        <5>1. loc'[u] = loc[u]  BY <1>10, <4>2
        <5>2. Frees(loc[u]) => keyStat[loc[u].key] = "releasing" /\ loc[u].key \in Keys  BY <2>1, <3>1 DEF KeyOK
        <5>3. QED  BY <1>3, <1>11, <5>1, <5>2
      <4>3. QED  BY <4>1, <4>2
    <3>6. loc'[u].pc = "publish" => param'[loc'[u].key] = loc'[u].var  BY <1>4, <2>2, <3>1 DEF KeyOK
    <3>7. QED  BY <3>2, <3>3, <3>4, <3>5, <3>6 DEF KeyOK, Unpublished, HasKey, Frees, Owns
  <2>4. ASSUME NEW u \in Threads, NEW w \in Threads, Unpublished(loc'[u]), Unpublished(loc'[w]),
               loc'[u].key = loc'[w].key
        PROVE  u = w
    <3>1. Unpublished(loc[u]) /\ Unpublished(loc[w]) /\ loc[u].key = loc[w].key  BY <2>2, <2>4
    <3>2. QED  BY <3>1 DEF Inv, KeysOK
  <2>5. ASSUME NEW j \in Keys, keyStat'[j] = "releasing"
        PROVE  \E u \in Threads : Frees(loc'[u]) /\ loc'[u].key = j
    <3>1. CASE j = k  BY <1>7, <1>8, <3>1
    <3>2. CASE j # k
      <4>1. keyStat[j] = "releasing"  BY <1>11, <2>5, <3>2
      <4>2. PICK u \in Threads : Frees(loc[u]) /\ loc[u].key = j  BY <4>1 DEF Inv, KeysOK
      <4>3. u # t  BY <1>8, <4>2
      <4>4. QED  BY <1>10, <4>2, <4>3
    <3>3. QED  BY <3>1, <3>2
  <2>6. \A x, w \in Vars : \A j \in Keys : Owns(x, j)' /\ Owns(w, j)' => x = w  BY <1>12 DEF Inv, KeysOK
  <2>7. \A x \in Vars : \A j \in Keys : Owns(x, j)' => keyStat'[j] # "notUsed" /\ param'[j] = x
    BY <1>4, <1>11, <1>12 DEF Inv, KeysOK
  <2>8. QED  BY <2>3, <2>4, <2>5, <2>6, <2>7 DEF KeysOK, Unpublished, Frees
<1>18. HeadsOK' /\ MadeOK'
  <2>1. HeadOK(t)'  BY <1>1, <1>2, <1>4, <1>7, <1>8 DEF HeadOK, At
  <2>2. heads' = heads /\ made' = made /\ own' = own /\ tls' = tls /\ arrays' = arrays  BY <1>4
  <2>3. /\ ~At(t, "gone") \/ loc'[t].pc = "gone"
        /\ loc'[t].pc = "link" => At(t, "link") /\ loc'[t].idx = loc[t].idx
        /\ loc'[t].pc = "link" <=> At(t, "link")
    BY <1>2, <1>7 DEF At
  <2>4. HeadsOK'  BY <1>6, <2>1, <2>2, <2>3, HeadsStay, Zenon
  <2>5. MadeOK'  BY <1>6, <2>2, <2>3, MadeStays, Zenon
  <2>6. QED  BY <2>4, <2>5
<1>19. ContentsOK' /\ LiveOK'
  <2>1. (loc'[t].pc = "gone" <=> At(t, "gone")) /\ ~At(t, "clear")  BY <1>2, <1>7 DEF At
  <2>2. UNCHANGED <<arrays, stat, data, tls, tlsKey>> /\ live' = live  BY <1>4
  <2>3. \A v \in Vars : phase'[v] = "gone" <=> phase[v] = "gone"  BY <1>4
  <2>4. QED  BY <1>6, <1>12, <2>1, <2>2, <2>3, ContentsStay, Zenon
<1>20. WalksOK'
  <2>1. WalkOK(t)'  BY <1>7, <1>8 DEF WalkOK, Walks, Exiting
  <2>2. QED  BY <1>4, <1>6, <2>1, WalksStay
<1>21. CountsOK'
  <2>1. \A j : (\E u \in Threads : loc'[u].pc \in {"count", "unused"} /\ loc'[u].key = j)
                 <=> \E u \in Threads : loc[u].pc \in {"count", "unused"} /\ loc[u].key = j
    <3>1. loc[t].pc \notin {"count", "unused"} /\ loc'[t].pc \notin {"count", "unused"}  BY <1>2, <1>7
    <3>2. QED  BY <1>10, <3>1
  <2>2. \A a : FreeIn(a)' = FreeIn(a)  BY <1>11, <2>1 DEF FreeIn
  <2>3. QED  BY <1>4, <2>2 DEF Inv, CountsOK
<1>22. QED  BY <1>13, <1>14, <1>15, <1>16, <1>17, <1>18, <1>19, <1>20, <1>21 DEF Inv

-----------------------------------------------------------------------------
(* An object is destroyed                                                  *)

\* A thread gives the mutex back.
LEMMA MutexFreed ==
  ASSUME Inv, NEW t \in Threads, Alone(t), Unlock, Depth(loc[t]) = 1, Depth(loc'[t]) = 0
  PROVE  MutexOK'
<1>1. mutex.owner = t /\ mutex.depth = 1  BY DEF Inv, MutexOK
<1>2. mutex' = [owner |-> None, depth |-> 0] /\ None \notin Threads  BY <1>1, TlsAssumption DEF Unlock
<1>3. ASSUME NEW u \in Threads PROVE Depth(loc'[u]) = 0
  <2>1. CASE u = t  BY <2>1
  <2>2. CASE u # t
    <3>1. Depth(loc[u]) = 0  BY <1>1, <2>2 DEF Inv, MutexOK
    <3>2. QED  BY <2>2, <3>1 DEF Alone
  <2>3. QED  BY <2>1, <2>2
<1>4. \A u \in Threads : Depth(loc[u])' = Depth(loc'[u])  BY DEF Depth, Exiting, HasKey, Destroying, Frees
<1>5. mutex' \in [owner : Threads \cup {None}, depth : Nat] /\ mutex'.owner = None /\ mutex'.depth = 0  BY <1>2
<1>6. \A u \in Threads : Depth(loc[u])' = IF mutex'.owner = u THEN mutex'.depth ELSE 0
  BY <1>2, <1>3, <1>4, <1>5
<1>7. QED  BY <1>5, <1>6 DEF MutexOK

\* An object without a key is gone.
LEMMA ObjectGone ==
  ASSUME Inv, NEW t \in Threads, Return(t), loc[t].pc \in {"destroy", "null"}, MutexOK',
         tlsKey[loc[t].var] = None \/ loc[t].pc = "null",
         tlsKey' = [tlsKey EXCEPT ![loc[t].var] = None],
         phase' = [phase EXCEPT ![loc[t].var] = "gone"],
         UNCHANGED <<keyStat, param, numFree, hint, keyChain, nextBase, heads, made, own, arrays, stat, data,
                     tls, live, answer, script>>
  PROVE  Inv'
<1> DEFINE v == loc[t].var
<1>1. LocalOK(loc[t]) /\ KeyOK(loc[t]) /\ HeadOK(t) /\ Destroying(loc[t])
  BY LocalIs DEF LocalOK, Destroying
<1>2. v \in Vars /\ phase[v] = "dying"  BY <1>1 DEF LocalOK, Inv, VarsOK
<1>3. Alone(t) /\ loc'[t] = Idle /\ LocalOK(loc'[t]) /\ loc'[t].pc = "idle" /\ loc'[t].op = "get"
  BY ReturnIs, IdleIs
<1>4. \A z \in Threads : z # t => loc'[z] = loc[z]  BY <1>3 DEF Alone
<1>5. /\ ~Unpublished(loc'[t]) /\ ~Frees(loc'[t]) /\ ~Exiting(loc'[t]) /\ ~Walks(loc'[t]) /\ ~HasKey(loc'[t])
      /\ ~Destroying(loc'[t]) /\ ~Calling(loc'[t]) /\ ~Frees(loc[t]) /\ ~Unpublished(loc[t])
  BY <1>1, <1>3 DEF Unpublished, Frees, Exiting, Walks, HasKey, Destroying, Calling, Claiming, Releasing,
                    Walking, Keyed
<1>6. ASSUME NEW u \in Threads, u # t, Calling(loc[u]) \/ Destroying(loc[u]) PROVE loc[u].var \in Vars /\ loc[u].var # v
  <2>1. loc[u].var \in Vars  BY <1>6, LocalIs DEF LocalOK
  <2>2. Calling(loc[u]) => phase[loc[u].var] = "alive"  BY DEF Inv, VarsOK
  <2>3. Destroying(loc[u]) => loc[u].var # v  BY <1>1, <1>6 DEF Inv, VarsOK
  <2>4. QED  BY <1>2, <1>6, <2>1, <2>2, <2>3
<1> HIDE DEF v
<1>7. /\ tlsKey' \in [Vars -> Keys \cup {None}] /\ tlsKey'[v] = None
      /\ \A w \in Vars : w # v => tlsKey'[w] = tlsKey[w]
      /\ phase' \in [Vars -> {"alive", "dying", "gone"}] /\ phase'[v] = "gone"
      /\ \A w \in Vars : w # v => phase'[w] = phase[w]
      /\ None \notin Keys
  <2>1. tlsKey \in [Vars -> Keys \cup {None}] /\ phase \in [Vars -> {"alive", "dying", "gone"}]  BY DEF Inv, Types
  <2>2. tlsKey' = [tlsKey EXCEPT ![v] = None] /\ phase' = [phase EXCEPT ![v] = "gone"]  BY DEF v
  <2>3. None \notin Keys  BY TlsAssumption DEF Keys
  <2>4. QED  BY <1>2, <2>1, <2>2, <2>3
<1>8. ASSUME NEW w \in Vars, NEW j \in Keys PROVE Owns(w, j)' <=> Owns(w, j)
  <2>1. CASE w = v
    <3>1. ~Owns(w, j)  BY <1>7, <2>1 DEF Owns, Past, At, v
    <3>2. ~Owns(w, j)'  BY <1>7, <2>1 DEF Owns
    <3>3. QED  BY <3>1, <3>2
  <2>2. CASE w # v
    <3>1. Past(w)' <=> \E z \in Threads : loc'[z].pc = "null" /\ loc'[z].var = w  BY DEF Past, At
    <3>2. Past(w) <=> \E z \in Threads : loc[z].pc = "null" /\ loc[z].var = w  BY DEF Past, At
    <3>3. loc[t].var # w /\ loc'[t].pc # "null"  BY <1>3, <2>2 DEF v
    <3>4. Past(w)' <=> Past(w)  BY <1>4, <3>1, <3>2, <3>3
    <3>5. QED  BY <1>7, <2>2, <3>4 DEF Owns
  <2>3. QED  BY <2>1, <2>2
<1>9. Types' /\ OwnData'  BY <1>7 DEF Inv, Types, OwnData
<1>10. LocalsOK'
  <2>1. nextBase <= nextBase' /\ nextBase' \in 0 .. MaxArrays  BY TlsAssumption DEF Inv, Types
  <2>2. loc'[t].pc = "push" => loc'[t].idx < nextBase'  BY <1>3
  <2>3. QED  BY <1>3, <2>1, <2>2, LocalsStay, Zenon
<1>11. VarsOK'
  <2>1. ASSUME NEW u \in Threads
        PROVE  /\ Calling(loc'[u]) => phase'[loc'[u].var] = "alive"
               /\ Destroying(loc'[u]) => phase'[loc'[u].var] = "dying"
    <3>1. CASE u = t  BY <1>5, <3>1
    <3>2. CASE u # t
      <4>1. loc'[u] = loc[u]  BY <1>4, <3>2
      <4>2. /\ Calling(loc[u]) => phase[loc[u].var] = "alive"
            /\ Destroying(loc[u]) => phase[loc[u].var] = "dying"
        BY DEF Inv, VarsOK
      <4>3. QED  BY <1>6, <1>7, <3>2, <4>1, <4>2
    <3>3. QED  BY <3>1, <3>2
  <2>2. ASSUME NEW u \in Threads, NEW w \in Threads, Destroying(loc'[u]), Destroying(loc'[w]), loc'[u].var = loc'[w].var
        PROVE  u = w
    <3>1. u # t /\ w # t  BY <1>5, <2>2
    <3>2. loc'[u] = loc[u] /\ loc'[w] = loc[w]  BY <1>4, <3>1
    <3>3. QED  BY <2>2, <3>2 DEF Inv, VarsOK
  <2>3. \A w \in Vars : tlsKey'[w] # None => phase'[w] # "gone"  BY <1>7 DEF Inv, VarsOK
  <2>4. QED  BY <2>1, <2>2, <2>3 DEF VarsOK, Calling, Destroying
<1>12. KeysOK'
  <2>1. ASSUME NEW u \in Threads PROVE KeyOK(loc[u])'
    <3>1. CASE u = t  BY <1>3, <1>5, <3>1 DEF KeyOK, Unpublished, HasKey, Frees
    <3>2. CASE u # t
      <4>1. loc'[u] = loc[u] /\ KeyOK(loc[u]) /\ LocalOK(loc[u])  BY <1>4, <3>2, LocalIs
      <4>2. HasKey(loc[u]) => Calling(loc[u]) \/ Destroying(loc[u])
        BY <4>1 DEF HasKey, Calling, Destroying, LocalOK, Keyed
      <4>3. HasKey(loc[u]) => tlsKey'[loc[u].var] = loc[u].key  BY <1>6, <1>7, <3>2, <4>1, <4>2 DEF KeyOK
      <4>4. ASSUME Unpublished(loc[u]), NEW w \in Vars PROVE ~(tlsKey'[w] = loc[u].key /\ ~Past(w)')
        <5>1. loc[u].key \in Keys /\ ~Owns(w, loc[u].key)  BY <4>1, <4>4 DEF LocalOK, KeyOK
        <5>2. ASSUME NEW j \in Keys, j = loc[u].key PROVE ~Owns(w, j)'  BY <1>8, <5>1, <5>2
        <5>3. QED  BY <5>1, <5>2 DEF Owns
      <4>5. QED  BY <4>1, <4>3, <4>4 DEF KeyOK, Unpublished, HasKey, Frees, Owns
    <3>3. QED  BY <3>1, <3>2
  <2>2. ASSUME NEW u \in Threads, NEW w \in Threads, Unpublished(loc'[u]), Unpublished(loc'[w]),
               loc'[u].key = loc'[w].key
        PROVE  u = w
    <3>1. u # t /\ w # t  BY <1>5, <2>2
    <3>2. loc'[u] = loc[u] /\ loc'[w] = loc[w]  BY <1>4, <3>1
    <3>3. QED  BY <2>2, <3>2 DEF Inv, KeysOK
  <2>3. ASSUME NEW j \in Keys, keyStat[j] = "releasing"
        PROVE  \E u \in Threads : Frees(loc'[u]) /\ loc'[u].key = j
    <3>1. PICK u \in Threads : Frees(loc[u]) /\ loc[u].key = j  BY <2>3 DEF Inv, KeysOK
    <3>2. QED  BY <1>4, <1>5, <3>1
  <2>4. \A x, w \in Vars : \A j \in Keys : Owns(x, j)' /\ Owns(w, j)' => x = w  BY <1>8 DEF Inv, KeysOK
  <2>5. \A x \in Vars : \A j \in Keys : Owns(x, j)' => keyStat[j] # "notUsed" /\ param[j] = x
    BY <1>8 DEF Inv, KeysOK
  <2>6. QED  BY <2>1, <2>2, <2>3, <2>4, <2>5 DEF KeysOK, Unpublished, Frees
<1>13. HeadsOK' /\ MadeOK'
  <2>1. HeadOK(t)'  BY <1>1, <1>3, <1>5 DEF HeadOK, At
  <2>2. /\ ~At(t, "gone") \/ loc'[t].pc = "gone"
        /\ loc'[t].pc = "link" => At(t, "link") /\ loc'[t].idx = loc[t].idx
        /\ loc'[t].pc = "link" <=> At(t, "link")
    BY <1>3 DEF At
  <2>3. heads' = heads /\ made' = made /\ own' = own /\ tls' = tls /\ arrays' = arrays  OBVIOUS
  <2>4. HeadsOK'  BY <1>3, <2>1, <2>2, <2>3, HeadsStay, Zenon
  <2>5. MadeOK'  BY <1>3, <2>2, <2>3, MadeStays, Zenon
  <2>6. QED  BY <2>4, <2>5
<1>14. ContentsOK'
  <2>1. ASSUME NEW g \in Heads, NEW j \in Keys PROVE ContentOK(g, j)'
    <3>1. ContentOK(g, j) /\ data[g][j] \in Data \cup {None}  BY DEF Inv, ContentsOK, Types
    <3>2. data[g][j] # None => data[g][j][1] \in Threads /\ data[g][j][2] \in Vars  BY <3>1 DEF Data
    <3>3. \A z \in Threads : loc'[z].pc = "gone" <=> loc[z].pc = "gone"  BY <1>3, <1>4
    <3>4. Filled(g, j)' <=> Filled(g, j)  BY DEF Filled
    <3>5. Filled(g, j) => data[g][j] # None /\ loc'[data[g][j][1]].pc # "gone" /\ In(ArrayOf(j), arrays[g])
      BY <3>1, <3>2, <3>3 DEF ContentOK, At
    <3>6. ASSUME Filled(g, j) PROVE Owns(data[g][j][2], j)'
      <4>1. PICK w \in Vars : w = data[g][j][2]  BY <3>1, <3>2, <3>6 DEF ContentOK
      <4>2. Owns(w, j)  BY <3>1, <3>6, <4>1 DEF ContentOK
      <4>3. Owns(w, j)'  BY <1>8, <4>2
      <4>4. data'[g][j][2] = w  BY <4>1
      <4>5. QED  BY <4>3, <4>4 DEF Owns, Past
    <3>7. ASSUME stat[g][j] = "destructing" PROVE \E u \in Threads : At(u, "clear")' /\ Spot(u)' = <<g, j>>
      <4>1. PICK u \in Threads : At(u, "clear") /\ Spot(u) = <<g, j>>  BY <3>1, <3>7 DEF ContentOK
      <4>2. loc'[u] = loc[u]  BY <1>4, <4>1 DEF At
      <4>3. At(u, "clear")' /\ Spot(u)' = <<g, j>>  BY <4>1, <4>2 DEF At, Spot
      <4>4. QED  BY <4>3
    <3>8. data[g][j] # None => tls[data[g][j][1]] = g
                               /\ (tlsKey'[data[g][j][2]] = j \/ phase'[data[g][j][2]] = "gone")
      BY <1>7, <3>1, <3>2 DEF ContentOK
    <3>9. QED  BY <3>4, <3>5, <3>6, <3>7, <3>8 DEF ContentOK, At
  <2>2. QED  BY <2>1 DEF ContentsOK
<1>15. LiveOK'
  <2>1. InUse' = InUse  BY DEF InUse
  <2>2. QED  BY <2>1 DEF Inv, LiveOK
<1>16. WalksOK'
  <2>1. WalkOK(t)'  BY <1>3, <1>5 DEF WalkOK, Walks, Exiting
  <2>2. QED  BY <1>3, <2>1, WalksStay
<1>17. CountsOK'
  <2>1. loc[t].pc \notin {"count", "unused"} /\ loc'[t].pc \notin {"count", "unused"}  BY <1>3
  <2>2. keyStat' = keyStat /\ numFree' = numFree  OBVIOUS
  <2>3. QED  BY <1>3, <2>1, <2>2, CountsStay, Zenon
<1>18. QED  BY <1>9, <1>10, <1>11, <1>12, <1>13, <1>14, <1>15, <1>16, <1>17 DEF Inv

LEMMA DestroyKeeps ==
  ASSUME Inv, NEW t \in Threads, Destroy(t)
  PROVE  Inv'
<1> DEFINE v == loc[t].var
<1>1. LocalOK(loc[t]) /\ IsLocal(loc[t]) /\ DOMAIN loc = Threads /\ HeadOK(t)  BY LocalIs
<1>2. loc[t].pc = "destroy" /\ Lockable(t) /\ Destroying(loc[t]) /\ loc[t].op = "destroy"
  BY <1>1 DEF Destroy, At, LocalOK, Destroying
<1>3. v \in Vars /\ tlsKey[v] \in Keys \cup {None}  BY <1>1, <1>2 DEF LocalOK, Inv, Types
<1>4. /\ UNCHANGED <<keyStat, param, numFree, hint, keyChain, nextBase, heads, made, own, arrays, stat, data, tls,
                     live, answer, script>>
      /\ tlsKey' = tlsKey
  BY DEF Destroy, keyVars, headVars, contentVars
<1>5. /\ ~Unpublished(loc[t]) /\ ~Frees(loc[t]) /\ ~Exiting(loc[t]) /\ ~HasKey(loc[t])
  BY <1>2 DEF Unpublished, Frees, Exiting, HasKey, Claiming, Releasing, Walking, Keyed
<1>6. CASE tlsKey[v] = None
  <2>1. phase' = [phase EXCEPT ![v] = "gone"] /\ Return(t) /\ mutex' = mutex  BY <1>6 DEF Destroy
  <2>2. MutexOK'
    <3>1. Alone(t) /\ loc'[t].pc = "idle" /\ loc'[t].op = "get"  BY <2>1, ReturnIs, IdleIs
    <3>2. Depth(loc'[t]) = Depth(loc[t])
      BY <1>5, <3>1 DEF Depth, Frees, Exiting, HasKey, Destroying, Claiming, Releasing, Walking, Keyed
    <3>3. QED  BY <2>1, <3>1, <3>2, MutexStays
  <2>3. tlsKey' = [tlsKey EXCEPT ![v] = None]
    <3>1. tlsKey \in [Vars -> Keys \cup {None}]  BY DEF Inv, Types
    <3>2. [tlsKey EXCEPT ![v] = None] = tlsKey  BY <1>3, <1>6, <3>1
    <3>3. QED  BY <1>4, <3>2
  <2>4. loc[t].pc \in {"destroy", "null"} /\ (tlsKey[loc[t].var] = None \/ loc[t].pc = "null")  BY <1>2, <1>6
  <2>5. QED  BY <1>4, <2>1, <2>2, <2>3, <2>4, ObjectGone, Zenon
<1>7. CASE tlsKey[v] # None
  <2>1. /\ loc' = [loc EXCEPT ![t].pc = "release", ![t].key = tlsKey[v], ![t].back = "null"]
        /\ Lock(t) /\ phase' = phase
    BY <1>7 DEF Destroy
  <2>2. Alone(t) /\ loc'[t] = [loc[t] EXCEPT !.pc = "release", !.key = tlsKey[v], !.back = "null"]
    BY <1>1, <2>1 DEF Alone
  <2>3. /\ IsLocal(loc'[t]) /\ loc'[t].pc = "release" /\ loc'[t].key = tlsKey[v] /\ loc'[t].op = "destroy"
        /\ loc'[t].var = v /\ loc'[t].back = "null"
    BY <1>1, <1>2, <1>3, <2>2 DEF IsLocal, Fields, Points
  <2>4. /\ ~Unpublished(loc'[t]) /\ ~Frees(loc'[t]) /\ ~Exiting(loc'[t]) /\ ~Walks(loc'[t]) /\ HasKey(loc'[t])
        /\ Destroying(loc'[t]) /\ ~Calling(loc'[t])
    BY <2>3 DEF Unpublished, Frees, Exiting, Walks, HasKey, Destroying, Calling, Claiming, Releasing, Walking, Keyed
  <2>5. LocalOK(loc'[t])
    BY <1>3, <1>7, <2>3, <2>4 DEF LocalOK, Seeking, Claiming, Keyed, Walking, Releasing
  <2>6. Types' /\ OwnData'
    <3>1. script' \in [Threads -> Seq(Ops \X Vars)]  BY <1>4 DEF Inv, Types
    <3>2. QED  BY <1>4, <2>1, <3>1, TypesStay
  <2>7. LocalsOK'
    <3>1. nextBase <= nextBase' /\ nextBase' \in 0 .. MaxArrays  BY <1>4, TlsAssumption DEF Inv, Types
    <3>2. loc'[t].pc = "push" => loc'[t].idx < nextBase'  BY <2>3
    <3>3. QED  BY <2>2, <2>5, <3>1, <3>2, LocalsStay, Zenon
  <2>8. MutexOK'
    <3>1. Depth(loc'[t]) = Depth(loc[t]) + 1  BY <1>5, <2>4 DEF Depth
    <3>2. QED  BY <1>2, <2>1, <2>2, <3>1, MutexTaken, Zenon
  <2>9. VarsOK'
    <3>1. SameObject(t)  BY <1>2, <2>3, <2>4 DEF SameObject
    <3>2. QED  BY <1>4, <2>1, <2>2, <3>1, VarsStay
  <2>10. KeysOK' /\ \A w, j : Owns(w, j)' <=> Owns(w, j)
    <3>1. SameKey(t)  BY <1>2, <1>5, <2>3, <2>4 DEF SameKey, At
    <3>2. KeyOK(loc'[t])  BY <2>3, <2>4 DEF KeyOK
    <3>3. keyStat' = keyStat /\ param' = param  BY <1>4
    <3>4. QED  BY <1>4, <2>2, <3>1, <3>2, <3>3, KeysStay, Zenon
  <2>11. HeadsOK' /\ MadeOK'
    <3>1. HeadOK(t)'  BY <1>1, <1>2, <1>4, <2>3, <2>4 DEF HeadOK, At
    <3>2. /\ ~At(t, "gone") \/ loc'[t].pc = "gone"
          /\ loc'[t].pc = "link" => At(t, "link") /\ loc'[t].idx = loc[t].idx
          /\ loc'[t].pc = "link" <=> At(t, "link")
      BY <1>2, <2>3 DEF At
    <3>3. heads' = heads /\ made' = made /\ own' = own /\ tls' = tls /\ arrays' = arrays  BY <1>4
    <3>4. HeadsOK'  BY <2>2, <3>1, <3>2, <3>3, HeadsStay, Zenon
    <3>5. MadeOK'  BY <2>2, <3>2, <3>3, MadeStays, Zenon
    <3>6. QED  BY <3>4, <3>5
  <2>12. ContentsOK' /\ LiveOK'
    <3>1. (loc'[t].pc = "gone" <=> At(t, "gone")) /\ ~At(t, "clear")  BY <1>2, <2>3 DEF At
    <3>2. UNCHANGED <<arrays, stat, data, tls, tlsKey>> /\ live' = live  BY <1>4
    <3>3. \A w \in Vars : phase'[w] = "gone" <=> phase[w] = "gone"  BY <2>1
    <3>4. QED  BY <2>2, <2>10, <3>1, <3>2, <3>3, ContentsStay, Zenon
  <2>13. WalksOK'
    <3>1. WalkOK(t)'  BY <2>3, <2>4 DEF WalkOK, Walks, Exiting
    <3>2. QED  BY <1>4, <2>2, <3>1, WalksStay
  <2>14. CountsOK'
    <3>1. loc[t].pc \notin {"count", "unused"} /\ loc'[t].pc \notin {"count", "unused"}  BY <1>2, <2>3
    <3>2. keyStat' = keyStat /\ numFree' = numFree  BY <1>4
    <3>3. QED  BY <2>2, <3>1, <3>2, CountsStay, Zenon
  <2>15. QED  BY <2>6, <2>7, <2>8, <2>9, <2>10, <2>11, <2>12, <2>13, <2>14 DEF Inv
<1>8. QED  BY <1>6, <1>7

LEMMA EndDestroyKeeps ==
  ASSUME Inv, NEW t \in Threads, EndDestroy(t)
  PROVE  Inv'
<1>1. LocalOK(loc[t])  BY LocalIs
<1>2. loc[t].pc = "null" /\ loc[t].op = "destroy"  BY <1>1 DEF EndDestroy, At, LocalOK
<1>3. /\ UNCHANGED <<keyStat, param, numFree, hint, keyChain, nextBase, heads, made, own, arrays, stat, data, tls,
                     live, answer, script>>
      /\ tlsKey' = [tlsKey EXCEPT ![loc[t].var] = None] /\ phase' = [phase EXCEPT ![loc[t].var] = "gone"]
      /\ Unlock /\ Return(t)
  BY DEF EndDestroy, keyVars, headVars, contentVars
<1>4. MutexOK'
  <2>1. Alone(t) /\ loc'[t].pc = "idle" /\ loc'[t].op = "get"  BY <1>3, ReturnIs, IdleIs
  <2>2. Depth(loc'[t]) = 0
    BY <2>1 DEF Depth, Frees, Exiting, HasKey, Destroying, Claiming, Releasing, Walking, Keyed
  <2>3. Depth(loc[t]) = 1
    BY <1>2 DEF Depth, Frees, Exiting, HasKey, Destroying, Claiming, Releasing, Walking, Keyed
  <2>4. QED  BY <1>3, <2>1, <2>2, <2>3, MutexFreed
<1>5. loc[t].pc \in {"destroy", "null"} /\ (tlsKey[loc[t].var] = None \/ loc[t].pc = "null")  BY <1>2
<1>6. QED  BY <1>3, <1>4, <1>5, ObjectGone, Zenon

-----------------------------------------------------------------------------
(* A thread ends                                                           *)

LEMMA BeginExitKeeps ==
  ASSUME Inv, NEW t \in Threads, BeginExit(t)
  PROVE  Inv'
<1>1. LocalOK(loc[t]) /\ IsLocal(loc[t]) /\ DOMAIN loc = Threads /\ HeadOK(t)  BY LocalIs
<1>2. loc[t].pc = "idle" /\ loc[t].op \in {"get", "set"}  BY <1>1 DEF BeginExit, At, LocalOK
<1>3. UNCHANGED <<keyStat, param, numFree, hint, keyChain, nextBase, heads, made, own, arrays, stat, data, tls,
                  tlsKey, phase, live, answer, script>>
  BY DEF BeginExit, keyVars, headVars, contentVars, histVars
<1>4. /\ ~Unpublished(loc[t]) /\ ~Frees(loc[t]) /\ ~Exiting(loc[t]) /\ ~HasKey(loc[t]) /\ ~Destroying(loc[t])
  BY <1>2 DEF Unpublished, Frees, Exiting, HasKey, Destroying, Claiming, Releasing, Walking, Keyed
<1>5. /\ Alone(t) /\ LocalOK(loc'[t]) /\ MutexOK' /\ loc'[t].pc \in {"gone", "each"}
      /\ loc'[t].pc = "gone" => tls[t] = None /\ loc'[t].op \in {"get", "set"}
      /\ loc'[t].pc = "each" => /\ tls[t] \in Heads /\ tls[t] # None /\ loc'[t].op = "exit"
                                /\ loc'[t].todo = arrays[tls[t]] /\ loc'[t].idx = 0
  <2>1. CASE tls[t] = None
    <3>1. Goto(t, "gone") /\ mutex' = mutex  BY <2>1 DEF BeginExit
    <3>2. Alone(t) /\ loc'[t] = [loc[t] EXCEPT !.pc = "gone"]  BY <3>1, GotoIs
    <3>3. IsLocal(loc'[t]) /\ loc'[t].pc = "gone" /\ loc'[t].op = loc[t].op
      BY <1>1, <3>2 DEF IsLocal, Fields, Points
    <3>4. /\ ~Unpublished(loc'[t]) /\ ~Frees(loc'[t]) /\ ~Exiting(loc'[t]) /\ ~HasKey(loc'[t]) /\ ~Destroying(loc'[t])
          /\ ~Calling(loc'[t])
      BY <1>2, <3>3 DEF Unpublished, Frees, Exiting, HasKey, Destroying, Calling, Claiming, Releasing, Walking, Keyed
    <3>5. LocalOK(loc'[t])
      BY <1>2, <3>3, <3>4 DEF LocalOK, Seeking, Claiming, Keyed, Walking, Releasing
    <3>6. Depth(loc'[t]) = Depth(loc[t])  BY <1>4, <3>4 DEF Depth
    <3>7. MutexOK'  BY <3>1, <3>2, <3>6, MutexStays
    <3>8. QED  BY <1>2, <2>1, <3>2, <3>3, <3>5, <3>7
  <2>2. CASE tls[t] # None
    <3>1. /\ Lockable(t) /\ Lock(t)
          /\ loc' = [loc EXCEPT ![t] = [Idle EXCEPT !.pc = "each", !.op = "exit", !.todo = arrays[tls[t]]]]
      BY <2>2 DEF BeginExit
    <3>2. Alone(t) /\ loc'[t] = [Idle EXCEPT !.pc = "each", !.op = "exit", !.todo = arrays[tls[t]]]
      BY <1>1, <3>1 DEF Alone
    <3>3. tls[t] \in Heads /\ arrays[tls[t]] \in Seq(Arrays)  BY <2>2 DEF Inv, Types
    <3>4. arrays[tls[t]] \in Seq(Nat)
      <4>1. Arrays \subseteq Nat  BY TlsAssumption DEF Arrays
      <4>2. QED  BY <3>3, <4>1, SeqOfMore, Zenon
    <3>5. /\ IsLocal(loc'[t]) /\ loc'[t].pc = "each" /\ loc'[t].op = "exit" /\ loc'[t].todo = arrays[tls[t]]
          /\ loc'[t].idx = 0
      BY <3>2, <3>4, IdleIs DEF IsLocal, Fields, Points
    <3>6. /\ ~Unpublished(loc'[t]) /\ ~Frees(loc'[t]) /\ Exiting(loc'[t]) /\ ~HasKey(loc'[t]) /\ ~Destroying(loc'[t])
          /\ ~Calling(loc'[t])
      BY <3>5 DEF Unpublished, Frees, Exiting, HasKey, Destroying, Calling, Claiming, Releasing, Walking, Keyed
    <3>7. LocalOK(loc'[t])
      BY <3>3, <3>5, <3>6, TlsAssumption DEF LocalOK, Seeking, Claiming, Keyed, Walking, Releasing
    <3>8. Depth(loc'[t]) = Depth(loc[t]) + 1  BY <1>4, <3>6 DEF Depth
    <3>9. MutexOK'  BY <3>1, <3>2, <3>8, MutexTaken
    <3>10. QED  BY <2>2, <3>2, <3>3, <3>5, <3>7, <3>9
  <2>3. QED  BY <2>1, <2>2
<1>6. /\ ~Unpublished(loc'[t]) /\ ~Frees(loc'[t]) /\ ~HasKey(loc'[t]) /\ ~Destroying(loc'[t]) /\ ~Calling(loc'[t])
      /\ ~Walks(loc'[t]) /\ (Exiting(loc'[t]) => loc'[t].pc = "each")
  BY <1>5 DEF Unpublished, Frees, Exiting, HasKey, Destroying, Calling, Walks, Claiming, Releasing, Walking, Keyed
<1>7. Types' /\ OwnData'
  <2>1. script' \in [Threads -> Seq(Ops \X Vars)]  BY <1>3 DEF Inv, Types
  <2>2. QED  BY <1>3, <2>1, TypesStay
<1>8. LocalsOK'
  <2>1. nextBase <= nextBase' /\ nextBase' \in 0 .. MaxArrays  BY <1>3, TlsAssumption DEF Inv, Types
  <2>2. loc'[t].pc = "push" => loc'[t].idx < nextBase'  BY <1>5
  <2>3. QED  BY <1>5, <2>1, <2>2, LocalsStay, Zenon
<1>9. VarsOK'
  <2>1. SameObject(t)  BY <1>6 DEF SameObject
  <2>2. QED  BY <1>3, <1>5, <2>1, VarsStay
<1>10. KeysOK' /\ \A w, j : Owns(w, j)' <=> Owns(w, j)
  <2>1. SameKey(t)  BY <1>2, <1>4, <1>5, <1>6 DEF SameKey, At
  <2>2. KeyOK(loc'[t])  BY <1>5, <1>6 DEF KeyOK
  <2>3. keyStat' = keyStat /\ param' = param /\ tlsKey' = tlsKey  BY <1>3
  <2>4. QED  BY <1>5, <2>1, <2>2, <2>3, KeysStay, Zenon
<1>11. HeadsOK' /\ MadeOK'
  <2>1. HeadOK(t)'  BY <1>1, <1>2, <1>3, <1>5, <1>6 DEF HeadOK, At
  <2>2. /\ ~At(t, "gone") \/ loc'[t].pc = "gone"
        /\ loc'[t].pc = "link" => At(t, "link") /\ loc'[t].idx = loc[t].idx
        /\ loc'[t].pc = "link" <=> At(t, "link")
    BY <1>2, <1>5 DEF At
  <2>3. heads' = heads /\ made' = made /\ own' = own /\ tls' = tls /\ arrays' = arrays  BY <1>3
  <2>4. HeadsOK'  BY <1>5, <2>1, <2>2, <2>3, HeadsStay, Zenon
  <2>5. MadeOK'  BY <1>5, <2>2, <2>3, MadeStays, Zenon
  <2>6. QED  BY <2>4, <2>5
<1>12. ContentsOK' /\ LiveOK'
  <2>1. ~At(t, "clear")  BY <1>2 DEF At
  <2>2. \/ loc'[t].pc = "gone" => At(t, "gone")
        \/ \A h \in Heads, k \in Keys : tls[t] = h => ~Filled(h, k)
    BY <1>5, HeadIs
  <2>3. UNCHANGED <<arrays, stat, data, tls, tlsKey>> /\ live' = live  BY <1>3
  <2>4. \A w \in Vars : phase[w] = "gone" => phase'[w] = "gone"  BY <1>3
  <2>5. QED  BY <1>5, <1>10, <2>1, <2>2, <2>3, <2>4, ContentsGoOn, Zenon
<1>13. WalksOK'
  <2>1. ASSUME loc'[t].pc = "each", NEW k \in Keys, Filled(tls[t], k)
        PROVE  /\ loc'[t].todo # <<>>
               /\ \/ ArrayOf(k) = Head(loc'[t].todo) /\ Head(loc'[t].todo) * ArraySize + loc'[t].idx <= k
                  \/ In(ArrayOf(k), Tail(loc'[t].todo))
    <3>1. tls[t] \in Heads /\ loc'[t].todo = arrays[tls[t]] /\ loc'[t].idx = 0  BY <1>5, <2>1
    <3>2. In(ArrayOf(k), arrays[tls[t]]) /\ arrays[tls[t]] \in Seq(Arrays)  BY <2>1, <3>1, FilledIs DEF Inv, Types
    <3>3. arrays[tls[t]] # <<>>  BY <3>2, EmptyHasNone
    <3>4. ArrayOf(k) = Head(arrays[tls[t]]) \/ In(ArrayOf(k), Tail(arrays[tls[t]]))  BY <3>2, <3>3, HeadAndTail
    <3>5. ArrayOf(k) * ArraySize \in Nat /\ ArrayOf(k) * ArraySize <= k  BY ArrayAt
    <3>6. ArrayOf(k) * ArraySize + 0 <= k  BY <3>5
    <3>7. QED  BY <3>1, <3>3, <3>4, <3>6
  <2>2. loc'[t].pc \notin {"unused", "clear"}  BY <1>5
  <2>3. stat' = stat /\ tls' = tls  BY <1>3
  <2>4. WalkOK(t)'  BY <1>6, <2>1, <2>2, <2>3 DEF WalkOK, Walks, Exiting, Filled
  <2>5. QED  BY <1>5, <2>3, <2>4, WalksStay
<1>14. CountsOK'
  <2>1. loc[t].pc \notin {"count", "unused"} /\ loc'[t].pc \notin {"count", "unused"}  BY <1>2, <1>5
  <2>2. keyStat' = keyStat /\ numFree' = numFree  BY <1>3
  <2>3. QED  BY <1>5, <2>1, <2>2, CountsStay, Zenon
<1>15. QED  BY <1>5, <1>7, <1>8, <1>9, <1>10, <1>11, <1>12, <1>13, <1>14 DEF Inv

LEMMA EndExitKeeps ==
  ASSUME Inv, NEW t \in Threads, EndExit(t)
  PROVE  Inv'
<1> DEFINE h == tls[t]
<1>1. LocalOK(loc[t]) /\ IsLocal(loc[t]) /\ DOMAIN loc = Threads /\ HeadOK(t) /\ WalkOK(t)  BY LocalIs
<1>2. loc[t].pc = "each" /\ loc[t].todo = <<>> /\ loc[t].op = "exit" /\ Exiting(loc[t])
  BY <1>1 DEF EndExit, At, LocalOK, Exiting
<1>3. /\ UNCHANGED <<keyStat, param, numFree, hint, keyChain, nextBase, heads, made, arrays, stat, data, tls,
                     tlsKey, phase, live, answer, script>>
      /\ own' = [own EXCEPT ![h] = "notUsed"] /\ Unlock /\ Goto(t, "gone")
  BY DEF EndExit, keyVars, contentVars, histVars
<1>4. h \in Heads /\ h # None /\ In(h, heads)  BY <1>1, <1>2 DEF HeadOK, Inv, Types
<1>5. Alone(t) /\ loc'[t] = [loc[t] EXCEPT !.pc = "gone"]  BY <1>3, GotoIs
<1>6. IsLocal(loc'[t]) /\ loc'[t].pc = "gone" /\ loc'[t].op = "exit"
  <2>1. IsLocal(loc[t]) /\ loc[t].op = "exit" /\ loc'[t] = [loc[t] EXCEPT !.pc = "gone"]  BY <1>1, <1>2, <1>5
  <2>2. QED  BY <2>1 DEF IsLocal, Fields, Points
<1>7. /\ ~Unpublished(loc[t]) /\ ~Frees(loc[t]) /\ ~HasKey(loc[t]) /\ ~Destroying(loc[t])
      /\ ~Unpublished(loc'[t]) /\ ~Frees(loc'[t]) /\ ~Exiting(loc'[t]) /\ ~HasKey(loc'[t]) /\ ~Destroying(loc'[t])
      /\ ~Calling(loc'[t]) /\ ~Walks(loc'[t])
  BY <1>2, <1>6 DEF Unpublished, Frees, Exiting, HasKey, Destroying, Calling, Walks, Claiming, Releasing, Walking, Keyed
<1>8. LocalOK(loc'[t])
  BY <1>6, <1>7 DEF LocalOK, Seeking, Claiming, Keyed, Walking, Releasing
<1>9. \A z \in Threads : z # t => loc'[z] = loc[z]  BY <1>5 DEF Alone
<1> HIDE DEF h
<1>10. /\ own' \in [Heads -> {"used", "notUsed"}] /\ own'[h] = "notUsed"
       /\ \A g \in Heads : g # h => own'[g] = own[g]
  BY <1>3, <1>4 DEF Inv, Types
<1>11. Types' /\ OwnData'  BY <1>3, <1>10 DEF Inv, Types, OwnData
<1>12. LocalsOK'
  <2>1. nextBase <= nextBase' /\ nextBase' \in 0 .. MaxArrays  BY <1>3, TlsAssumption DEF Inv, Types
  <2>2. loc'[t].pc = "push" => loc'[t].idx < nextBase'  BY <1>6
  <2>3. QED  BY <1>5, <1>8, <2>1, <2>2, LocalsStay, Zenon
<1>13. MutexOK'
  <2>1. Depth(loc[t]) = 1  BY <1>2, <1>7 DEF Depth
  <2>2. Depth(loc'[t]) = 0  BY <1>7 DEF Depth
  <2>3. QED  BY <1>3, <1>5, <2>1, <2>2, MutexFreed, Zenon
<1>14. VarsOK'
  <2>1. SameObject(t)  BY <1>7 DEF SameObject
  <2>2. QED  BY <1>3, <1>5, <2>1, VarsStay
<1>15. KeysOK' /\ \A w, j : Owns(w, j)' <=> Owns(w, j)
  <2>1. SameKey(t)  BY <1>2, <1>6, <1>7 DEF SameKey, At
  <2>2. KeyOK(loc'[t])  BY <1>6, <1>7 DEF KeyOK
  <2>3. keyStat' = keyStat /\ param' = param /\ tlsKey' = tlsKey  BY <1>3
  <2>4. QED  BY <1>5, <2>1, <2>2, <2>3, KeysStay, Zenon
<1>16. HeadsOK'
  <2>1. ASSUME NEW u \in Threads PROVE HeadOK(u)'
    <3>1. CASE u = t  BY <1>1, <1>3, <1>6, <1>7, <3>1 DEF HeadOK, At
    <3>2. CASE u # t
      <4>1. loc'[u] = loc[u] /\ HeadOK(u)  BY <1>9, <3>2, LocalIs
      <4>2. tls[u] # None /\ ~At(u, "gone") => tls[u] # h
        <5>1. ~At(t, "gone")  BY <1>2 DEF At
        <5>2. QED  BY <1>4, <3>2, <5>1 DEF Inv, HeadsOK, h
      <4>3. tls[u] # None => tls[u] \in Heads  BY DEF Inv, Types
      <4>4. tls[u] # None => In(tls[u], heads) /\ (~At(u, "gone") => own'[tls[u]] = "used")
        BY <1>10, <4>1, <4>2, <4>3 DEF HeadOK
      <4>5. QED  BY <1>3, <4>1, <4>4 DEF HeadOK, At, Exiting, Walks
    <3>3. QED  BY <3>1, <3>2
  <2>2. \A u \in Threads : At(u, "gone") => loc'[u].pc = "gone"  BY <1>6, <1>9 DEF At
  <2>3. \A u \in Threads : loc'[u].pc = "link" => At(u, "link") /\ loc'[u].idx = loc[u].idx  BY <1>6, <1>9 DEF At
  <2>4. \A u, w \in Threads :
          tls'[u] # None /\ tls'[u] = tls'[w] /\ ~At(u, "gone")' /\ ~At(w, "gone")' => u = w
    BY <1>3, <2>2 DEF Inv, HeadsOK, At
  <2>5. \A u, w \in Threads : At(u, "link")' /\ At(w, "link")' /\ loc'[u].idx = loc'[w].idx => u = w
    BY <2>3 DEF Inv, HeadsOK, At
  <2>6. \A g \in Heads : own'[g] = "notUsed" => In(g, heads')  BY <1>3, <1>4, <1>10 DEF Inv, HeadsOK
  <2>7. QED  BY <2>1, <2>4, <2>5, <2>6 DEF HeadsOK
<1>17. MadeOK'
  <2>1. made' = made /\ tls' = tls  BY <1>3
  <2>2. loc'[t].pc = "link" <=> At(t, "link")  BY <1>2, <1>6 DEF At
  <2>3. QED  BY <1>5, <2>1, <2>2, MadeStays, Zenon
<1>18. ContentsOK' /\ LiveOK'
  <2>1. ~At(t, "clear")  BY <1>2 DEF At
  <2>2. \A k \in Keys : ~Filled(h, k)  BY <1>1, <1>2 DEF WalkOK, h
  <2>3. \/ loc'[t].pc = "gone" => At(t, "gone")
        \/ \A g \in Heads, k \in Keys : tls[t] = g => ~Filled(g, k)
    BY <2>2 DEF h
  <2>4. UNCHANGED <<arrays, stat, data, tls, tlsKey>> /\ live' = live  BY <1>3
  <2>5. \A w \in Vars : phase[w] = "gone" => phase'[w] = "gone"  BY <1>3
  <2>6. QED  BY <1>5, <1>15, <2>1, <2>3, <2>4, <2>5, ContentsGoOn, Zenon
<1>19. WalksOK'
  <2>1. WalkOK(t)'  BY <1>6, <1>7 DEF WalkOK, Walks, Exiting
  <2>2. stat' = stat /\ tls' = tls  BY <1>3
  <2>3. QED  BY <1>5, <2>1, <2>2, WalksStay
<1>20. CountsOK'
  <2>1. loc[t].pc \notin {"count", "unused"} /\ loc'[t].pc \notin {"count", "unused"}  BY <1>2, <1>6
  <2>2. keyStat' = keyStat /\ numFree' = numFree  BY <1>3
  <2>3. QED  BY <1>5, <2>1, <2>2, CountsStay, Zenon
<1>21. QED  BY <1>11, <1>12, <1>13, <1>14, <1>15, <1>16, <1>17, <1>18, <1>19, <1>20 DEF Inv

-----------------------------------------------------------------------------
(* The invariant                                                           *)

\* All keys of an array: as many as the array holds.
LEMMA KeysOfArray ==
  ASSUME NEW a \in Arrays
  PROVE  LET S == {k \in Keys : ArrayOf(k) = a} IN IsFiniteSet(S) /\ Cardinality(S) = ArraySize
<1> DEFINE S == {k \in Keys : ArrayOf(k) = a}
           m == a * ArraySize
<1>1. ArraySize \in Nat \ {0} /\ MaxArrays \in Nat \ {0} /\ a \in Nat  BY TlsAssumption DEF Arrays
<1>2. m \in Nat  BY <1>1
<1> HIDE DEF m
<1>3. \A k \in Keys : ArrayOf(k) = a => k \in m .. (m + ArraySize - 1)
  <2>1. ASSUME NEW k \in Keys, ArrayOf(k) = a PROVE k \in m .. (m + ArraySize - 1)
    <3>1. k \in Nat /\ ArrayOf(k) * ArraySize <= k /\ k < ArrayOf(k) * ArraySize + ArraySize  BY ArrayAt
    <3>2. m <= k /\ k < m + ArraySize  BY <2>1, <3>1 DEF m
    <3>3. QED  BY <1>1, <1>2, <3>1, <3>2
  <2>2. QED  BY <2>1
<1>4. ASSUME NEW k \in m .. (m + ArraySize - 1) PROVE k \in Keys /\ ArrayOf(k) = a
  <2>1. k - m \in Nat /\ k - m < ArraySize /\ k = m + (k - m)  BY <1>1, <1>2
  <2>2. PICK i \in Nat : i < ArraySize /\ k = m + i  BY <2>1
  <2>3. m + i \in Keys /\ ArrayOf(m + i) = a  BY <2>2, KeyAt DEF m
  <2>4. QED  BY <2>2, <2>3
<1>5. S = m .. (m + ArraySize - 1)
  <2>1. ASSUME NEW x PROVE x \in S <=> x \in m .. (m + ArraySize - 1)
    <3>1. x \in S <=> x \in Keys /\ ArrayOf(x) = a  OBVIOUS
    <3>2. QED  BY <1>3, <1>4, <3>1
  <2>2. QED  BY <2>1
<1>6. IsFiniteSet(m .. (m + ArraySize - 1)) /\ Cardinality(m .. (m + ArraySize - 1)) = ArraySize
  <2>1. m \in Int /\ m + ArraySize - 1 \in Int  BY <1>1, <1>2
  <2>2. /\ IsFiniteSet(m .. (m + ArraySize - 1))
        /\ Cardinality(m .. (m + ArraySize - 1))
             = IF m > m + ArraySize - 1 THEN 0 ELSE (m + ArraySize - 1) - m + 1
    BY <2>1, FS_Interval, Zenon
  <2>3. QED  BY <1>1, <1>2, <2>2
<1>7. IsFiniteSet(S) /\ Cardinality(S) = ArraySize  BY <1>5, <1>6, Zenon
<1>8. QED  BY <1>7

LEMMA InitHolds ==
  ASSUME Init
  PROVE  Inv
<1>1. /\ \A t \in Threads : loc[t] = Idle
      /\ DOMAIN loc = Threads
  BY DEF Init
<1>2. /\ LocalOK(Idle) /\ Idle.pc = "idle" /\ Idle.op = "get"
      /\ ~Unpublished(Idle) /\ ~Frees(Idle) /\ ~Exiting(Idle) /\ ~HasKey(Idle) /\ ~Destroying(Idle)
      /\ ~Calling(Idle) /\ ~Walks(Idle)
  BY IdleIs DEF Unpublished, Frees, Exiting, HasKey, Destroying, Calling, Walks, Claiming, Releasing, Walking, Keyed
<1>3. Types
  <2>1. ArraySize \in Nat \ {0} /\ MaxArrays \in Nat \ {0} /\ 0 \in 0 .. ArraySize - 1 /\ 0 \in 0 .. MaxArrays
    BY TlsAssumption
  <2>2. script \in [Threads -> Seq(Ops \X Vars)]  BY TlsAssumption DEF Init
  <2>3. nextBase \in 0 .. MaxArrays /\ keyChain \in Seq(0 .. nextBase - 1) /\ made \in Nat /\ heads \in Seq(1 .. made)
    BY <2>1 DEF Init
  <2>4. hint \in [Arrays -> 0 .. ArraySize - 1]  BY <2>1 DEF Init
  <2>5. arrays \in [Heads -> Seq(Arrays)]  BY DEF Init
  <2>6. QED  BY <2>2, <2>3, <2>4, <2>5 DEF Init, Types
<1>4. LocalsOK  BY <1>1, <1>2 DEF LocalsOK, At
<1>5. MutexOK
  <2>1. \A t \in Threads : Depth(loc[t]) = 0  BY <1>1, <1>2 DEF Depth
  <2>2. mutex = [owner |-> None, depth |-> 0] /\ None \notin Threads  BY TlsAssumption DEF Init
  <2>3. QED  BY <2>1, <2>2 DEF MutexOK
<1>6. VarsOK  BY <1>1, <1>2 DEF Init, VarsOK
<1>7. KeysOK
  <2>1. None \notin Keys  BY TlsAssumption DEF Keys
  <2>2. \A v \in Vars : \A k \in Keys : ~Owns(v, k)  BY <2>1 DEF Init, Owns
  <2>3. \A t \in Threads : KeyOK(loc[t])  BY <1>1, <1>2 DEF KeyOK
  <2>4. \A k \in Keys : keyStat[k] = "notUsed"  BY DEF Init
  <2>5. QED  BY <1>1, <1>2, <2>2, <2>3, <2>4 DEF KeysOK
<1>8. HeadsOK
  <2>1. \A t \in Threads : HeadOK(t)  BY <1>1, <1>2 DEF Init, HeadOK, At
  <2>2. QED  BY <1>1, <1>2, <2>1 DEF Init, HeadsOK, At
<1>9. MadeOK
  <2>1. Makers \subseteq Threads  BY DEF Makers
  <2>2. IsFiniteSet(Makers)  BY <2>1, FS_Subset, TlsAssumption
  <2>3. Cardinality(Makers) \in Nat  BY <2>2, FS_CardinalityType
  <2>4. QED  BY <2>3 DEF Init, MadeOK
<1>10. ContentsOK  BY DEF Init, ContentsOK, ContentOK, Filled
<1>11. WalksOK
  <2>1. \A t \in Threads : WalkOK(t)  BY <1>1, <1>2 DEF WalkOK
  <2>2. QED  BY <2>1 DEF WalksOK
<1>12. CountsOK
  <2>1. ASSUME NEW a \in Arrays PROVE numFree[a] = Cardinality(FreeIn(a))
    <3>1. FreeIn(a) = {k \in Keys : ArrayOf(k) = a}  BY DEF Init, FreeIn
    <3>2. Cardinality({k \in Keys : ArrayOf(k) = a}) = ArraySize  BY KeysOfArray
    <3>3. QED  BY <3>1, <3>2 DEF Init
  <2>2. numFree = [a \in Arrays |-> ArraySize] /\ ArraySize \in Int  BY TlsAssumption DEF Init
  <2>3. numFree \in [Arrays -> Int]  BY <2>2
  <2>4. QED  BY <2>1, <2>3 DEF CountsOK
<1>13. LiveOK  BY DEF Init, LiveOK, InUse
<1>14. OwnData  BY DEF Init, OwnData
<1>15. QED
  BY <1>3, <1>4, <1>5, <1>6, <1>7, <1>8, <1>9, <1>10, <1>11, <1>12, <1>13, <1>14 DEF Inv

LEMMA StepKeeps ==
  ASSUME NothingAsked, Inv, [Next]_vars
  PROVE  Inv'
<1>1. CASE UNCHANGED vars
  <2>1. /\ UNCHANGED <<keyStat, param, numFree, hint, keyChain, nextBase, heads, made, own, arrays, stat, data,
                       tls, mutex, tlsKey, phase, live, answer, script>>
        /\ loc' = loc
    BY <1>1 DEF vars, keyVars, headVars, contentVars, histVars
  <2>2. Types' /\ OwnData'
    <3>1. script' \in [Threads -> Seq(Ops \X Vars)]  BY <2>1 DEF Inv, Types
    <3>2. QED  BY <2>1, <3>1, TypesStay
  <2>3. LocalsOK' /\ MutexOK' /\ VarsOK'
    BY <2>1 DEF Inv, LocalsOK, LocalOK, IsLocal, MutexOK, VarsOK, At, Calling, Destroying, Unpublished, HasKey,
                Frees, Exiting, Depth
  <2>4. \A v, k : Owns(v, k)' <=> Owns(v, k)  BY <2>1 DEF Owns, Past, At
  <2>5. KeysOK'
    <3>1. \A t \in Threads : KeyOK(loc[t])'
      <4>1. ASSUME NEW t \in Threads PROVE KeyOK(loc[t])'
        BY <2>1, LocalIs DEF Inv, KeysOK, KeyOK, Owns, Past, At, Unpublished, HasKey, Frees
      <4>2. QED  BY <4>1
    <3>2. QED  BY <2>1, <2>4, <3>1 DEF Inv, KeysOK, Unpublished, Frees
  <2>6. HeadsOK'  BY <2>1 DEF Inv, HeadsOK, HeadOK, At, Exiting, Walks
  <2>7. MadeOK'
    <3>1. Makers' = Makers  BY <2>1 DEF Makers, At
    <3>2. QED  BY <2>1, <3>1 DEF Inv, MadeOK
  <2>8. ContentsOK'  BY <2>1 DEF Inv, ContentsOK, ContentOK, Filled, Owns, Past, At, Spot
  <2>9. WalksOK'  BY <2>1 DEF Inv, WalksOK, WalkOK, Filled, Walks, Exiting, Spot
  <2>10. CountsOK'
    <3>1. \A a : FreeIn(a)' = FreeIn(a)  BY <2>1 DEF FreeIn
    <3>2. QED  BY <2>1, <3>1 DEF Inv, CountsOK
  <2>11. LiveOK'  BY <2>1 DEF Inv, LiveOK, InUse
  <2>12. QED  BY <2>2, <2>3, <2>5, <2>6, <2>7, <2>8, <2>9, <2>10, <2>11 DEF Inv
<1>2. ASSUME NEW t \in Threads, Begin(t) \/ Skip(t) \/ Work(t)
      PROVE  Inv'
  <2>1. CASE Begin(t)  BY <2>1, BeginKeeps
  <2>2. CASE Skip(t)  BY <2>2, SkipKeeps
  <2>3. CASE FindKey(t)
    <3>1. CASE LoadKey(t)  BY <3>1, LoadKeyKeeps
    <3>2. CASE ScanArrays(t)  BY <3>2, ScanArraysKeeps
    <3>3. CASE TryArray(t)  BY <3>3, TryArrayKeeps
    <3>4. CASE ClaimKey(t)  BY <3>4, ClaimKeyKeeps
    <3>5. CASE CountKey(t)  BY <3>5, CountKeyKeeps
    <3>6. CASE FillKey(t)  BY <3>6, FillKeyKeeps
    <3>7. CASE NewArray(t)  BY <3>7, NewArrayKeeps
    <3>8. CASE PushArray(t)  BY <3>8, PushArrayKeeps
    <3>9. CASE PublishKey(t)  BY <3>9, PublishKeyKeeps
    <3>10. QED  BY <2>3, <3>1, <3>2, <3>3, <3>4, <3>5, <3>6, <3>7, <3>8, <3>9 DEF FindKey
  <2>4. CASE FindHead(t)
    <3>1. CASE CheckKey(t)  BY <3>1, CheckKeyKeeps
    <3>2. CASE TryHead(t)  BY <3>2, TryHeadKeeps
    <3>3. CASE NewHead(t)  BY <3>3, NewHeadKeeps
    <3>4. CASE PushHead(t)  BY <3>4, PushHeadKeeps
    <3>5. QED  BY <2>4, <3>1, <3>2, <3>3, <3>4 DEF FindHead
  <2>5. CASE Content(t)
    <3>1. CASE FindContent(t)  BY <3>1, FindContentKeeps
    <3>2. CASE GetContent(t)  BY <3>2, GetContentKeeps
    <3>3. CASE SetContent(t)  BY <3>3, SetContentKeeps
    <3>4. CASE Destruct(t)  BY <3>4, DestructKeeps
    <3>5. CASE Clear(t)  BY <3>5, ClearKeeps
    <3>6. QED  BY <2>5, <3>1, <3>2, <3>3, <3>4, <3>5 DEF Content
  <2>6. CASE Release(t)
    <3>1. CASE Destroy(t)  BY <3>1, DestroyKeeps
    <3>2. CASE ReleaseKey(t)  BY <3>2, ReleaseKeyKeeps
    <3>3. CASE LoadHeads(t)  BY <3>3, LoadHeadsKeeps
    <3>4. CASE WalkHeads(t)  BY <3>4, WalkHeadsKeeps
    <3>5. CASE WalkArrays(t)  BY <3>5, WalkArraysKeeps
    <3>6. CASE CountFree(t)  BY <3>6, CountFreeKeeps
    <3>7. CASE FreeKey(t)  BY <3>7, FreeKeyKeeps
    <3>8. CASE EndDestroy(t)  BY <3>8, EndDestroyKeeps
    <3>9. QED  BY <2>6, <3>1, <3>2, <3>3, <3>4, <3>5, <3>6, <3>7, <3>8 DEF Release
  <2>7. CASE Exit(t)
    <3>1. CASE BeginExit(t)  BY <3>1, BeginExitKeeps
    <3>2. CASE EachKey(t)  BY <3>2, EachKeyKeeps
    <3>3. CASE EndExit(t)  BY <3>3, EndExitKeeps
    <3>4. QED  BY <2>7, <3>1, <3>2, <3>3 DEF Exit
  <2>8. QED  BY <1>2, <2>1, <2>2, <2>3, <2>4, <2>5, <2>6, <2>7 DEF Work
<1>3. QED  BY <1>1, <1>2 DEF Next

\* The inductive invariant: who holds the mutex and how often, which object or
\* thread has each key, which thread has each head, what is in each content, and
\* what a walk has yet to find.
THEOREM InvHolds ==
  ASSUME NothingAsked
  PROVE  Spec => []Inv
<1>1. Init => Inv  BY InitHolds
<1>2. Inv /\ [Next]_vars => Inv'  BY StepKeeps
<1>3. QED  BY <1>1, <1>2, PTL DEF Spec

-----------------------------------------------------------------------------
(* What follows                                                            *)

\* get_tls_instance returns what the calling thread has made for the object.
THEOREM EachGetsItsOwn ==
  ASSUME NothingAsked
  PROVE  Spec => []OwnData
<1>1. Inv => OwnData  BY DEF Inv
<1>2. QED  BY <1>1, InvHolds, PTL

\* The data allocated and not deallocated is in the contents in use, of threads
\* and objects that are there: neither end leaves any behind or takes it twice,
\* also when both happen at once, which the documentation leaves undefined.
THEOREM AllIsDeallocated ==
  ASSUME NothingAsked
  PROVE  Spec => []NothingLeftBehind
<1>1. ASSUME Inv PROVE NothingLeftBehind
  <2>1. live = {data[c[1]][c[2]] : c \in InUse}  BY <1>1 DEF Inv, LiveOK
  <2>2. ASSUME NEW c \in InUse
        PROVE  /\ tls[data[c[1]][c[2]][1]] = c[1] /\ loc[data[c[1]][c[2]][1]].pc # "gone"
               /\ param[c[2]] = data[c[1]][c[2]][2] /\ keyStat[c[2]] # "notUsed"
               /\ phase[data[c[1]][c[2]][2]] # "gone"
    <3>1. c[1] \in Heads /\ c[2] \in Keys /\ Filled(c[1], c[2])  BY DEF InUse, Filled
    <3>2. QED  BY <1>1, <3>1, FilledIs DEF At
  <2>3. QED  BY <2>1, <2>2 DEF NothingLeftBehind
<1>2. QED  BY <1>1, InvHolds, PTL

\* A deallocator runs while its object is there and its key is in use.
THEOREM DeallocatorIsSafe ==
  ASSUME NothingAsked
  PROVE  Spec => []DeallocatorHasObject
<1>1. ASSUME Inv PROVE DeallocatorHasObject
  <2>1. ASSUME NEW h \in Heads, NEW k \in Keys, stat[h][k] = "destructing"
        PROVE  phase[data[h][k][2]] # "gone" /\ keyStat[k] # "notUsed"
    <3>1. Filled(h, k)  BY <2>1 DEF Filled
    <3>2. QED  BY <1>1, <3>1, FilledIs
  <2>2. QED  BY <2>1 DEF DeallocatorHasObject
<1>2. QED  BY <1>1, InvHolds, PTL

\* The variables keep their types, no more heads are made than there are threads,
\* the mutex is not locked more than twice, and the count of each array of keys is
\* never below the number of its unused keys.
THEOREM KeysStaySound ==
  ASSUME NothingAsked
  PROVE  Spec => []KeysAreSound
<1>1. ASSUME Inv PROVE KeysAreSound
  <2>1. ASSUME NEW a \in Arrays
        PROVE  /\ numFree[a] \in 0 .. ArraySize
               /\ Cardinality({k \in Keys : ArrayOf(k) = a /\ keyStat[k] = "notUsed"}) <= numFree[a]
    <3>1. numFree[a] = Cardinality(FreeIn(a)) /\ IsFiniteSet(FreeIn(a))  BY <1>1, FreeIsFinite DEF Inv, CountsOK
    <3>2. {k \in Keys : ArrayOf(k) = a /\ keyStat[k] = "notUsed"} \subseteq FreeIn(a)  BY DEF FreeIn
    <3>3. Cardinality({k \in Keys : ArrayOf(k) = a /\ keyStat[k] = "notUsed"}) <= Cardinality(FreeIn(a))
      BY <3>1, <3>2, FS_Subset, Zenon
    <3>4. FreeIn(a) \subseteq {k \in Keys : ArrayOf(k) = a}  BY DEF FreeIn
    <3>5. /\ IsFiniteSet({k \in Keys : ArrayOf(k) = a}) /\ Cardinality({k \in Keys : ArrayOf(k) = a}) = ArraySize
      BY KeysOfArray
    <3>6. Cardinality(FreeIn(a)) <= Cardinality({k \in Keys : ArrayOf(k) = a})  BY <3>4, <3>5, FS_Subset, Zenon
    <3>7. Cardinality(FreeIn(a)) \in Nat  BY <3>1, FS_CardinalityType, Zenon
    <3>8. numFree[a] \in 0 .. ArraySize  BY <3>1, <3>5, <3>6, <3>7, TlsAssumption
    <3>9. QED  BY <3>1, <3>3, <3>8
  <2>2. numFree \in [Arrays -> 0 .. ArraySize]
    <3>1. CountsOK  BY <1>1 DEF Inv
    <3>2. \A a \in Arrays : numFree[a] \in 0 .. ArraySize  BY <2>1, Zenon
    <3>3. QED  BY <3>1, <3>2 DEF CountsOK
  <2>3. made \in 0 .. Cardinality(Heads)
    <3>1. made \in Nat /\ made <= Cardinality(Heads)  BY <1>1, MadeBound
    <3>2. QED  BY <3>1
  <2>4. mutex.owner \in Threads \cup {None} /\ mutex.depth \in 0 .. 3
    <3>1. /\ mutex.owner \in Threads \cup {None} /\ mutex.depth \in Nat
          /\ mutex.owner = None <=> mutex.depth = 0
      BY <1>1 DEF Inv, MutexOK
    <3>2. mutex.owner \in Threads => mutex.depth = Depth(loc[mutex.owner])  BY <1>1 DEF Inv, MutexOK
    <3>3. \A t \in Threads : Depth(loc[t]) \in 0 .. 2  BY DEF Depth
    <3>4. QED  BY <3>1, <3>2, <3>3
  <2>5. TypeOK
    <3>1. Types  BY <1>1 DEF Inv
    <3>2. QED  BY <2>2, <2>3, <2>4, <3>1 DEF Types, TypeOK
  <2>6. KeyCanBeFound  BY <2>1 DEF KeyCanBeFound
  <2>7. QED  BY <2>5, <2>6 DEF KeysAreSound
<1>2. QED  BY <1>1, InvHolds, PTL

=============================================================================
