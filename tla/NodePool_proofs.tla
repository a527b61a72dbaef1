----------------------------- MODULE NodePool_proofs -----------------------------
(***************************************************************************)
(* Proofs about NodePool, for every number of threads and nodes, all       *)
(* thresholds and calls: a node is in one place, and a node that a reader  *)
(* has is neither given to anyone nor in a list of nodes that are.         *)
(***************************************************************************)
EXTENDS NodePool, FiniteSetTheorems, SequenceTheorems, WellFoundedInduction, TLAPS

-----------------------------------------------------------------------------
(* The inductive invariant.                                                *)

OutPoints == {"outLoad", "outLink", "outCas"}
Points ==
  {"idle", "scan", "pushLock", "popLock", "load", "store", "verify", "next", "cas", "drop",
   "popHeld", "popHeldLock", "none", "got", "clearLock", "clearHeldLock", "readStore",
   "readVerify"} \cup OutPoints
Thens == {"none", "push", "stock", "own", "all", "clear", "clearAll"}

NodeOrNull == Nodes \cup {Null}
Lists == Seq(Nodes)
SlotSets == SUBSET Slots
CallOrNone == {"none"} \cup CallNames
Locals ==
  [pc : Points, node : NodeOrNull, cur : NodeOrNull, nxt : NodeOrNull, tmp : Lists,
   still : Lists, unseen : SlotSets, then : Thens, out : Lists, call : CallOrNone]

TypeOK ==
  /\ head \in NodeOrNull
  /\ link \in [Nodes -> NodeOrNull]
  /\ slot \in [Slots -> NodeOrNull]
  /\ free \in [Threads -> Seq(Nodes)] /\ held \in [Threads -> Seq(Nodes)]
  /\ gfree \in Seq(Nodes) /\ gheld \in Seq(Nodes)
  /\ owner \in [Locks -> Threads \cup {Null}]
  /\ inUse \subseteq Nodes /\ allocated \subseteq Nodes
  /\ calls \in [Threads -> Seq(CallNames)]
  /\ loc \in [Threads -> Locals]

\* Which nodes a call has at each control point.
ScansFor(l, whom) == l.pc = "scan" /\ l.then \in whom
NodesOK(l) ==
  /\ l.pc = "idle" => l = Idle
  /\ l.tmp # <<>> => l.pc \in {"scan", "pushLock"}
  /\ l.still # <<>> => l.pc = "scan"
  /\ l.out # <<>> <=> l.pc \in OutPoints
  /\ l.node # Null => l.pc \in {"drop", "got"} \cup OutPoints \/ ScansFor(l, {"stock"})
  /\ l.pc \in {"drop", "got"} \/ ScansFor(l, {"stock"}) => l.node # Null
  /\ ScansFor(l, {"push"}) => Len(l.tmp) + Len(l.still) = 1
  /\ l.pc = "scan" => l.then # "none"
  /\ l.pc = "pushLock" => l.unseen = {}

\* Which lists and locks a call has to itself: what its scan has emptied is
\* still empty when the scan is over.
ListsOK(t) ==
  /\ ScansFor(loc[t], {"own", "stock", "clear"}) => held[t] = <<>>
  /\ ScansFor(loc[t], {"all", "clearAll"}) => owner["held"] = t /\ gheld = <<>>
  /\ owner["free"] = t <=> loc[t].pc \in OutPoints /\ loc[t].node # Null

\* What a call knows of links and of its hazard pointers.
LinksOK(t) ==
  /\ At(t, "outCas") => link[loc[t].out[1]] = loc[t].nxt
  /\ loc[t].pc \in {"verify", "next", "cas"} => slot[<<t, "pop">>] = loc[t].cur
  /\ loc[t].pc \in {"next", "cas"} => loc[t].cur # Null
  /\ At(t, "cas") => link[loc[t].cur] = loc[t].nxt
  /\ At(t, "readVerify") => slot[<<t, "read">>] = loc[t].cur

LocalsOK == \A t \in Threads : NodesOK(loc[t]) /\ ListsOK(t) /\ LinksOK(t)

\* The lock-free list: its nodes are c.
ChainIs(c) ==
  /\ head = IF c = <<>> THEN Null ELSE c[1]
  /\ \A i \in 1 .. Len(c) : link[c[i]] = IF i = Len(c) THEN Null ELSE c[i + 1]

\* Where the nodes are: p gives each one its place, and list s has those of one
\* place, each once.
IsAt(s, place, p) ==
  /\ s \in Seq(Nodes) /\ IsInjective(s)
  /\ \A n \in Nodes : n \in ToSet(s) <=> p[n] = place
Arranged(c, p) ==
  /\ \A n \in Nodes : n \in allocated <=> p[n] # <<"unused", Null>>
  /\ \A n \in Nodes : n \in inUse <=> p[n] = <<"inUse", Null>>
  /\ IsAt(c, <<"lockFree", Null>>, p)
  /\ IsAt(gfree, <<"gfree", Null>>, p)
  /\ IsAt(gheld, <<"gheld", Null>>, p)
  /\ \A t \in Threads :
       /\ IsAt(free[t], <<"free", t>>, p)
       /\ IsAt(held[t], <<"held", t>>, p)
       /\ IsAt(loc[t].tmp, <<"tmp", t>>, p)
       /\ IsAt(loc[t].still, <<"still", t>>, p)
       /\ IsAt(loc[t].out, <<"out", t>>, p)
       /\ \A n \in Nodes : n = loc[t].node <=> p[n] = <<"node", t>>

\* Node n, in hazard by slot s, is not where the nodes go that are given away or
\* linked, and a scan that has it will see the slot.
Shielded(n, s, p) ==
  /\ p[n] # <<"gfree", Null>>
  /\ \A u \in Threads :
       /\ p[n] # <<"free", u>> /\ p[n] # <<"out", u>>
       /\ p[n] = <<"tmp", u>> => s \in loc[u].unseen
\* A node of a data structure, moreover, nobody has popped or deleted.
Kept(n, p) ==
  /\ p[n] # <<"unused", Null>> /\ p[n] # <<"lockFree", Null>>
  /\ \A u \in Threads : p[n] = <<"node", u>> => At(u, "scan")
HazardsOK(p) ==
  \A t \in Threads :
    /\ loc[t].pc \in {"next", "cas"} => Shielded(loc[t].cur, <<t, "pop">>, p)
    /\ Reading(t) # Null => Shielded(Reading(t), <<t, "read">>, p) /\ Kept(Reading(t), p)

InvOf(c, p) == ChainIs(c) /\ Arranged(c, p) /\ HazardsOK(p)
Inv ==
  /\ TypeOK /\ LocalsOK
  /\ \E c \in Seq(Nodes), p \in [Nodes -> Places] : InvOf(c, p)

-----------------------------------------------------------------------------
(* Lists.                                                                  *)

\* A list of nodes that has none twice.
Good(s) == s \in Seq(Nodes) /\ IsInjective(s)

\* The nodes of a list, by their positions.
LEMMA Elements ==
  ASSUME NEW s \in Seq(Nodes)
  PROVE  /\ Len(s) \in Nat /\ (s = <<>> <=> Len(s) = 0)
         /\ \A i \in 1 .. Len(s) : s[i] \in Nodes /\ s[i] \in ToSet(s)
         /\ \A n : n \in ToSet(s) <=> \E i \in 1 .. Len(s) : s[i] = n
         /\ IsInjective(s) <=> \A i, j \in 1 .. Len(s) : s[i] = s[j] => i = j
<1>1. DOMAIN s = 1 .. Len(s) /\ Len(s) \in Nat  OBVIOUS
<1>2. \A n : n \in ToSet(s) <=> \E i \in 1 .. Len(s) : s[i] = n  BY <1>1, Zenon DEF ToSet
<1>3. IsInjective(s) <=> \A i, j \in 1 .. Len(s) : s[i] = s[j] => i = j
  BY <1>1, Zenon DEF IsInjective
<1>4. QED  BY <1>1, <1>2, <1>3

LEMMA NoNodes ==
  /\ Good(<<>>) /\ \A n : n \notin ToSet(<<>>)
<1> DEFINE s == <<>>
<1>1. s \in Seq(Nodes) /\ Len(s) = 0  OBVIOUS
<1> HIDE DEF s
<1>2. /\ \A n : n \in ToSet(s) <=> \E i \in 1 .. Len(s) : s[i] = n
      /\ IsInjective(s) <=> \A i, j \in 1 .. Len(s) : s[i] = s[j] => i = j
  BY <1>1, Elements, Zenon
<1>3. \A i : i \notin 1 .. Len(s)  BY <1>1
<1>4. Good(s) /\ \A n : n \notin ToSet(s)  BY <1>1, <1>2, <1>3, Zenon DEF Good
<1>5. QED  BY <1>4, Zenon DEF s

LEMMA OneNode ==
  ASSUME NEW m \in Nodes
  PROVE  Good(<<m>>) /\ Len(<<m>>) = 1 /\ <<m>> # <<>> /\ <<m>>[1] = m
         /\ \A n : n \in ToSet(<<m>>) <=> n = m
<1>1. <<m>> \in Seq(Nodes) /\ Len(<<m>>) = 1 /\ <<m>>[1] = m  OBVIOUS
<1> DEFINE s == <<m>>
<1> HIDE DEF s
<1>2. s \in Seq(Nodes) /\ Len(s) = 1 /\ s[1] = m  BY <1>1 DEF s
<1>3. Good(s) /\ s # <<>> /\ \A n : n \in ToSet(s) <=> n = m  BY <1>2, Elements DEF Good
<1>4. QED  BY <1>2, <1>3 DEF s

LEMMA Concat ==
  ASSUME NEW a, NEW b, Good(a), Good(b), \A n \in Nodes : ~ (n \in ToSet(a) /\ n \in ToSet(b))
  PROVE  Good(a \o b) /\ \A n : n \in ToSet(a \o b) <=> n \in ToSet(a) \/ n \in ToSet(b)
<1> DEFINE s == a \o b
<1>1. a \in Seq(Nodes) /\ b \in Seq(Nodes) /\ Len(a) \in Nat /\ Len(b) \in Nat  BY DEF Good
<1>2. /\ s \in Seq(Nodes) /\ Len(s) = Len(a) + Len(b)
      /\ \A i \in 1 .. Len(a) : s[i] = a[i]
      /\ \A i \in 1 .. Len(s) : i > Len(a) => s[i] = b[i - Len(a)]
  BY <1>1
<1>3. \A i \in 1 .. Len(b) : s[i + Len(a)] = b[i]
  <2>1. TAKE i \in 1 .. Len(b)
  <2>2. i + Len(a) \in 1 .. Len(s) /\ i + Len(a) > Len(a) /\ (i + Len(a)) - Len(a) = i
    BY <1>1, <1>2
  <2>3. QED  BY <1>2, <2>2
<1> HIDE DEF s
<1>4. ASSUME NEW n PROVE n \in ToSet(s) <=> n \in ToSet(a) \/ n \in ToSet(b)
  <2>1. ASSUME n \in ToSet(s) PROVE n \in ToSet(a) \/ n \in ToSet(b)
    <3>1. PICK i \in 1 .. Len(s) : s[i] = n  BY <1>2, <2>1, Elements
    <3>2. CASE i <= Len(a)
      <4>1. i \in 1 .. Len(a) /\ a[i] = n  BY <1>1, <1>2, <3>1, <3>2
      <4>2. QED  BY <1>1, <4>1, Elements
    <3>3. CASE i > Len(a)
      <4>1. i - Len(a) \in 1 .. Len(b) /\ b[i - Len(a)] = n  BY <1>1, <1>2, <3>1, <3>3
      <4>2. QED  BY <1>1, <4>1, Elements
    <3>4. QED  BY <1>1, <1>2, <3>2, <3>3
  <2>2. ASSUME n \in ToSet(a) PROVE n \in ToSet(s)
    <3>1. PICK i \in 1 .. Len(a) : a[i] = n  BY <1>1, <2>2, Elements
    <3>2. i \in 1 .. Len(s) /\ s[i] = n  BY <1>1, <1>2, <3>1
    <3>3. QED  BY <1>2, <3>2, Elements
  <2>3. ASSUME n \in ToSet(b) PROVE n \in ToSet(s)
    <3>1. PICK i \in 1 .. Len(b) : b[i] = n  BY <1>1, <2>3, Elements
    <3>2. i + Len(a) \in 1 .. Len(s) /\ s[i + Len(a)] = n  BY <1>1, <1>2, <1>3, <3>1
    <3>3. QED  BY <1>2, <3>2, Elements
  <2>4. QED  BY <2>1, <2>2, <2>3
<1>5. ASSUME NEW i \in 1 .. Len(s), NEW j \in 1 .. Len(s), s[i] = s[j] PROVE i = j
  <2>1. /\ \A k, l \in 1 .. Len(a) : a[k] = a[l] => k = l
        /\ \A k, l \in 1 .. Len(b) : b[k] = b[l] => k = l
    BY <1>1, Elements DEF Good
  <2>2. ASSUME NEW k \in 1 .. Len(a), NEW l \in 1 .. Len(b) PROVE a[k] # b[l]
    <3>1. a[k] \in Nodes /\ a[k] \in ToSet(a) /\ b[l] \in ToSet(b)  BY <1>1, Elements
    <3>2. QED  BY <3>1
  <2> DEFINE k == i - Len(a)
             l == j - Len(a)
  <2>3. /\ i \in 1 .. Len(a) \/ (k \in 1 .. Len(b) /\ s[i] = b[k])
        /\ j \in 1 .. Len(a) \/ (l \in 1 .. Len(b) /\ s[j] = b[l])
    BY <1>1, <1>2
  <2>4. k = l => i = j  BY <1>1, <1>2
  <2> HIDE DEF k, l
  <2>5. QED  BY <1>2, <1>5, <2>1, <2>2, <2>3, <2>4
<1>6. Good(s)  BY <1>2, <1>5, Elements DEF Good
<1>7. QED  BY <1>4, <1>6 DEF s

\* A part of a list.
LEMMA Part ==
  ASSUME NEW s, Good(s), NEW i \in Nat \ {0}, NEW j \in Nat, j <= Len(s)
  PROVE  /\ Good(SubSeq(s, i, j))
         /\ \A n : n \in ToSet(SubSeq(s, i, j)) <=> \E k \in i .. j : s[k] = n
         /\ SubSeq(s, i, j) = <<>> <=> i > j
<1> DEFINE r == SubSeq(s, i, j)
<1>1. s \in Seq(Nodes) /\ Len(s) \in Nat  BY DEF Good
<1>2. /\ r \in Seq(Nodes) /\ Len(r) = (IF i <= j THEN j - i + 1 ELSE 0)
      /\ \A k \in 1 .. Len(r) : r[k] = s[i + k - 1]
  BY <1>1, SubSeqProperties
<1> HIDE DEF r
<1>3. ASSUME NEW n PROVE n \in ToSet(r) <=> \E k \in i .. j : s[k] = n
  <2>1. n \in ToSet(r) <=> \E k \in 1 .. Len(r) : r[k] = n  BY <1>2, Elements
  <2>2. ASSUME NEW k \in 1 .. Len(r) PROVE i + k - 1 \in i .. j /\ r[k] = s[i + k - 1]
    BY <1>2
  <2>3. ASSUME NEW k \in i .. j PROVE k - i + 1 \in 1 .. Len(r) /\ r[k - i + 1] = s[k]
    <3>1. k - i + 1 \in 1 .. Len(r) /\ i + (k - i + 1) - 1 = k  BY <1>2
    <3>2. QED  BY <1>2, <3>1
  <2>4. ASSUME n \in ToSet(r) PROVE \E k \in i .. j : s[k] = n
    <3>1. PICK k \in 1 .. Len(r) : r[k] = n  BY <2>1, <2>4
    <3>2. i + k - 1 \in i .. j /\ s[i + k - 1] = n  BY <2>2, <3>1
    <3>3. QED  BY <3>2, Zenon
  <2>5. ASSUME NEW k \in i .. j, s[k] = n PROVE n \in ToSet(r)
    <3>1. k - i + 1 \in 1 .. Len(r) /\ r[k - i + 1] = n  BY <2>3, <2>5
    <3>2. QED  BY <2>1, <3>1, Zenon
  <2>6. QED  BY <2>4, <2>5
<1>4. ASSUME NEW k \in 1 .. Len(r), NEW l \in 1 .. Len(r), r[k] = r[l] PROVE k = l
  <2>1. /\ i + k - 1 \in 1 .. Len(s) /\ i + l - 1 \in 1 .. Len(s)
        /\ s[i + k - 1] = s[i + l - 1]
    BY <1>1, <1>2, <1>4
  <2>2. i + k - 1 = i + l - 1  BY <1>1, <2>1, Elements DEF Good
  <2>3. QED  BY <2>2
<1>5. Good(r)  BY <1>2, <1>4, Elements DEF Good
<1>6. r = <<>> <=> i > j  BY <1>2, Elements
<1>7. QED  BY <1>3, <1>5, <1>6 DEF r

LEMMA Rest ==
  ASSUME NEW s, Good(s), s # <<>>
  PROVE  /\ s[1] \in Nodes /\ s[1] \in ToSet(s) /\ Good(Tail(s))
         /\ \A n : n \in ToSet(Tail(s)) <=> n \in ToSet(s) /\ n # s[1]
<1>1. s \in Seq(Nodes) /\ Len(s) \in Nat /\ Len(s) # 0 /\ 1 \in 1 .. Len(s)
  BY Elements DEF Good
<1>2. Tail(s) = SubSeq(s, 2, Len(s))  BY <1>1 DEF Tail
<1>3. /\ Good(SubSeq(s, 2, Len(s)))
      /\ \A n : n \in ToSet(SubSeq(s, 2, Len(s))) <=> \E k \in 2 .. Len(s) : s[k] = n
  BY <1>1, Part
<1>4. Good(Tail(s)) /\ \A n : n \in ToSet(Tail(s)) <=> \E k \in 2 .. Len(s) : s[k] = n
  BY <1>2, <1>3, Zenon
<1>5. \A n : n \in ToSet(s) <=> \E k \in 1 .. Len(s) : s[k] = n  BY <1>1, Elements
<1>6. \A i, j \in 1 .. Len(s) : s[i] = s[j] => i = j  BY <1>1, Elements DEF Good
<1>7. \A k \in 1 .. Len(s) : k = 1 \/ k \in 2 .. Len(s)  BY <1>1
<1>8. \A k \in 2 .. Len(s) : k \in 1 .. Len(s) /\ s[k] # s[1]  BY <1>1, <1>6
<1>9. \A n : n \in ToSet(Tail(s)) <=> n \in ToSet(s) /\ n # s[1]  BY <1>4, <1>5, <1>7, <1>8
<1>10. QED  BY <1>1, <1>4, <1>9, Elements

LEMMA RestLen ==
  ASSUME NEW s, Good(s), s # <<>>
  PROVE  Len(s) \in Nat \ {0} /\ Len(Tail(s)) = Len(s) - 1 /\ (Tail(s) = <<>> <=> Len(s) = 1)
<1>1. s \in Seq(Nodes)  BY DEF Good
<1>2. /\ Len(s) \in Nat \ {0} /\ Len(Tail(s)) = Len(s) - 1 /\ Tail(s) \in Seq(Nodes)
  BY <1>1
<1>3. Tail(s) = <<>> <=> Len(Tail(s)) = 0  BY <1>2, Elements, Zenon
<1>4. QED  BY <1>2, <1>3

LEMMA Appended ==
  ASSUME NEW s, Good(s), NEW m \in Nodes, m \notin ToSet(s)
  PROVE  Good(Append(s, m)) /\ \A n : n \in ToSet(Append(s, m)) <=> n \in ToSet(s) \/ n = m
<1>1. Append(s, m) = s \o <<m>>  BY DEF Good
<1>2. Good(<<m>>) /\ \A n : n \in ToSet(<<m>>) <=> n = m  BY OneNode
<1>3. Good(s \o <<m>>) /\ \A n : n \in ToSet(s \o <<m>>) <=> n \in ToSet(s) \/ n \in ToSet(<<m>>)
  BY <1>2, Concat
<1>4. QED  BY <1>1, <1>2, <1>3

LEMMA Removed ==
  ASSUME NEW s, Good(s), NEW i \in 1 .. Len(s)
  PROVE  /\ Good(RemoveAt(s, i)) /\ Len(RemoveAt(s, i)) = Len(s) - 1
         /\ \A n : n \in ToSet(RemoveAt(s, i)) <=> n \in ToSet(s) /\ n # s[i]
<1> DEFINE a == SubSeq(s, 1, i - 1)
           b == SubSeq(s, i + 1, Len(s))
<1>1. s \in Seq(Nodes) /\ Len(s) \in Nat /\ i \in Nat /\ i - 1 \in Nat  BY DEF Good
<1>2. Good(a) /\ \A n : n \in ToSet(a) <=> \E k \in 1 .. i - 1 : s[k] = n
  BY <1>1, Part
<1>3. Good(b) /\ \A n : n \in ToSet(b) <=> \E k \in i + 1 .. Len(s) : s[k] = n
  BY <1>1, Part
<1>4. Len(a) = i - 1 /\ Len(b) = Len(s) - i  BY <1>1, SubSeqProperties
<1>5. RemoveAt(s, i) = a \o b  BY DEF RemoveAt
<1> HIDE DEF a, b
<1>6. \A j, k \in 1 .. Len(s) : s[j] = s[k] => j = k  BY <1>1, Elements DEF Good
<1>7. \A n \in Nodes : ~ (n \in ToSet(a) /\ n \in ToSet(b))
  <2>1. \A j \in 1 .. i - 1, k \in i + 1 .. Len(s) : s[j] # s[k]  BY <1>1, <1>6
  <2>2. QED  BY <1>2, <1>3, <2>1
<1>8. Good(a \o b) /\ \A n : n \in ToSet(a \o b) <=> n \in ToSet(a) \/ n \in ToSet(b)
  BY <1>2, <1>3, <1>7, Concat
<1>9. \A n : n \in ToSet(s) <=> \E k \in 1 .. Len(s) : s[k] = n  BY <1>1, Elements
<1>10. \A k \in 1 .. Len(s) : k = i \/ k \in 1 .. i - 1 \/ k \in i + 1 .. Len(s)  BY <1>1
<1>11. \A k : k \in 1 .. i - 1 \/ k \in i + 1 .. Len(s) => k \in 1 .. Len(s) /\ s[k] # s[i]
  BY <1>1, <1>6
<1>12. \A n : n \in ToSet(a \o b) <=> n \in ToSet(s) /\ n # s[i]
  BY <1>2, <1>3, <1>8, <1>9, <1>10, <1>11
<1>13. Len(a \o b) = Len(s) - 1
  <2>1. a \in Seq(Nodes) /\ b \in Seq(Nodes)  BY <1>2, <1>3 DEF Good
  <2>2. Len(a \o b) = Len(a) + Len(b)  BY <2>1
  <2>3. QED  BY <1>1, <1>4, <2>2
<1>14. QED  BY <1>5, <1>8, <1>12, <1>13, Zenon

\* The first node, the next k and the others.
LEMMA Cut ==
  ASSUME NEW s, Good(s), NEW k \in Nat \ {0}, Len(s) - 1 >= k
  PROVE  /\ s # <<>> /\ SubSeq(s, 2, 1 + k) # <<>>
         /\ Good(SubSeq(s, 2, 1 + k)) /\ Good(SubSeq(s, 2 + k, Len(s)))
         /\ \A n : n \in ToSet(s) <=> \/ n = s[1] \/ n \in ToSet(SubSeq(s, 2, 1 + k))
                                      \/ n \in ToSet(SubSeq(s, 2 + k, Len(s)))
         /\ \A n : /\ n = s[1] => n \notin ToSet(SubSeq(s, 2, 1 + k))
                   /\ n = s[1] => n \notin ToSet(SubSeq(s, 2 + k, Len(s)))
                   /\ n \in ToSet(SubSeq(s, 2, 1 + k)) => n \notin ToSet(SubSeq(s, 2 + k, Len(s)))
<1> DEFINE a == SubSeq(s, 2, 1 + k)
           b == SubSeq(s, 2 + k, Len(s))
<1>1. s \in Seq(Nodes) /\ Len(s) \in Nat /\ 1 + k <= Len(s)  BY DEF Good
<1>2. Good(a) /\ a # <<>> /\ \A n : n \in ToSet(a) <=> \E i \in 2 .. 1 + k : s[i] = n
  <2>1. 2 \in Nat \ {0} /\ 1 + k \in Nat /\ 1 + k <= Len(s) /\ ~ (2 > 1 + k)  BY <1>1
  <2>2. QED  BY <2>1, Part, Zenon
<1>3. Good(b) /\ \A n : n \in ToSet(b) <=> \E i \in 2 + k .. Len(s) : s[i] = n
  BY <1>1, Part
<1> HIDE DEF a, b
<1>4. /\ \A n : n \in ToSet(s) <=> \E i \in 1 .. Len(s) : s[i] = n
      /\ \A i, j \in 1 .. Len(s) : s[i] = s[j] => i = j
      /\ s # <<>>
  BY <1>1, Elements DEF Good
<1>5. 1 \in 1 .. Len(s) /\ \A i \in 1 .. Len(s) : i = 1 \/ i \in 2 .. 1 + k \/ i \in 2 + k .. Len(s)
  BY <1>1
<1>6. /\ \A i \in 2 .. 1 + k : i \in 1 .. Len(s) /\ i # 1
      /\ \A i \in 2 + k .. Len(s) : i \in 1 .. Len(s) /\ i # 1
      /\ \A i \in 2 .. 1 + k, j \in 2 + k .. Len(s) : i # j
  BY <1>1
<1>7. \A n : n \in ToSet(s) <=> n = s[1] \/ n \in ToSet(a) \/ n \in ToSet(b)
  BY <1>2, <1>3, <1>4, <1>5, <1>6
<1>8. \A n : /\ n = s[1] => n \notin ToSet(a)
             /\ n = s[1] => n \notin ToSet(b)
             /\ n \in ToSet(a) => n \notin ToSet(b)
  <2>1. \A i \in 2 .. 1 + k : s[i] # s[1]  BY <1>4, <1>5, <1>6
  <2>2. \A i \in 2 + k .. Len(s) : s[i] # s[1]  BY <1>4, <1>5, <1>6
  <2>3. \A i \in 2 .. 1 + k, j \in 2 + k .. Len(s) : s[i] # s[j]  BY <1>4, <1>6
  <2>4. QED  BY <1>2, <1>3, <2>1, <2>2, <2>3
<1>9. QED  BY <1>2, <1>3, <1>4, <1>7, <1>8 DEF a, b

-----------------------------------------------------------------------------
(* Types, and what a step leaves alone.                                    *)

\* Where the nodes are, as the invariant says it.
LEMMA InvFacts ==
  ASSUME Inv
  PROVE  /\ TypeOK /\ LocalsOK
         /\ \E c \in Seq(Nodes), p \in [Nodes -> Places] : InvOf(c, p)
         /\ Good(gfree) /\ Good(gheld)
         /\ \A t \in Threads :
              /\ Good(free[t]) /\ Good(held[t])
              /\ Good(loc[t].tmp) /\ Good(loc[t].still) /\ Good(loc[t].out)
<1>1. PICK c \in Seq(Nodes), p \in [Nodes -> Places] : InvOf(c, p)  BY DEF Inv
<1>2. /\ IsAt(gfree, <<"gfree", Null>>, p) /\ IsAt(gheld, <<"gheld", Null>>, p)
      /\ \A t \in Threads :
           /\ IsAt(free[t], <<"free", t>>, p) /\ IsAt(held[t], <<"held", t>>, p)
           /\ IsAt(loc[t].tmp, <<"tmp", t>>, p) /\ IsAt(loc[t].still, <<"still", t>>, p)
           /\ IsAt(loc[t].out, <<"out", t>>, p)
  BY <1>1, Zenon DEF InvOf, Arranged
<1>3. \A s, place : IsAt(s, place, p) => Good(s)  BY DEF IsAt, Good
<1>4. QED  BY <1>1, <1>2, <1>3, Zenon DEF Inv

\* What the types say of a thread's locals.
LEMMA LocalTypes ==
  ASSUME TypeOK, NEW t \in Threads
  PROVE  /\ loc[t] \in Locals
         /\ loc[t].pc \in Points /\ loc[t].then \in Thens
         /\ loc[t].node \in NodeOrNull /\ loc[t].cur \in NodeOrNull /\ loc[t].nxt \in NodeOrNull
         /\ loc[t].tmp \in Lists /\ loc[t].still \in Lists /\ loc[t].out \in Lists
         /\ loc[t].unseen \in SlotSets /\ loc[t].unseen \in SUBSET Slots
         /\ loc[t].call \in CallOrNone /\ Lists = Seq(Nodes)
         /\ free[t] \in Seq(Nodes) /\ held[t] \in Seq(Nodes)
         /\ Null \notin Nodes /\ Null \notin Threads
<1>1. loc[t] \in Locals /\ free[t] \in Seq(Nodes) /\ held[t] \in Seq(Nodes)  BY DEF TypeOK
<1>2. /\ loc[t].pc \in Points /\ loc[t].then \in Thens
      /\ loc[t].node \in NodeOrNull /\ loc[t].cur \in NodeOrNull /\ loc[t].nxt \in NodeOrNull
      /\ loc[t].tmp \in Lists /\ loc[t].still \in Lists /\ loc[t].out \in Lists
      /\ loc[t].unseen \in SlotSets /\ loc[t].call \in CallOrNone
  BY <1>1 DEF Locals
<1>3. QED  BY <1>1, <1>2, PoolAssumption DEF Lists, SlotSets, CallOrNone

\* The names of the control points are control points, and so on.
LEMMA Names ==
  /\ "idle" \in Points /\ "scan" \in Points /\ "pushLock" \in Points /\ "popLock" \in Points
  /\ "load" \in Points /\ "store" \in Points /\ "verify" \in Points /\ "next" \in Points
  /\ "cas" \in Points /\ "drop" \in Points /\ "popHeld" \in Points /\ "popHeldLock" \in Points
  /\ "none" \in Points /\ "got" \in Points /\ "clearLock" \in Points /\ "clearHeldLock" \in Points
  /\ "readStore" \in Points /\ "readVerify" \in Points /\ "outLoad" \in Points /\ "outLink" \in Points
  /\ "outCas" \in Points
  /\ "push" \in Thens /\ "stock" \in Thens /\ "own" \in Thens /\ "all" \in Thens
  /\ "clear" \in Thens /\ "clearAll" \in Thens
  /\ "none" \in CallOrNone /\ "pop" \in CallOrNone /\ "delete" \in CallOrNone
  /\ Null \in NodeOrNull /\ \A n \in Nodes : n \in NodeOrNull
  /\ <<>> \in Lists /\ Slots \in SlotSets
  BY DEF Points, OutPoints, Thens, CallOrNone, CallNames, NodeOrNull, Lists, SlotSets

LEMMA IdleType == Idle \in Locals
<1>1. {} \in SlotSets /\ "none" \in Thens  BY DEF SlotSets, Thens
<1>2. QED  BY <1>1, Names DEF Locals, Idle

\* The fields of the locals at the beginning of a scan
LEMMA ScanningType ==
  ASSUME TypeOK, NEW t \in Threads, NEW nodes \in Lists, NEW then \in Thens
  PROVE  /\ Scanning(t, nodes, then) \in Locals
         /\ \A n \in NodeOrNull : [Scanning(t, nodes, then) EXCEPT !.node = n] \in Locals
  BY LocalTypes, Names, Zenon DEF Scanning, Locals

\* A step sets the locals of its thread and those of no other.
LEMMA LocStep ==
  ASSUME Inv, NEW t \in Threads, Step(t)
  PROVE  \E q \in Locals : loc' = [loc EXCEPT ![t] = q]
<1>0. /\ TypeOK /\ LocalsOK /\ loc[t] \in Locals
      /\ loc[t].pc \in Points /\ loc[t].then \in Thens
      /\ loc[t].node \in NodeOrNull /\ loc[t].cur \in NodeOrNull /\ loc[t].nxt \in NodeOrNull
      /\ loc[t].tmp \in Lists /\ loc[t].still \in Lists /\ loc[t].out \in Lists
      /\ loc[t].unseen \in SlotSets /\ loc[t].call \in CallOrNone
      /\ free[t] \in Lists /\ held[t] \in Lists /\ gfree \in Lists /\ gheld \in Lists
      /\ head \in NodeOrNull
  BY InvFacts, LocalTypes DEF TypeOK
<1>1. ASSUME NEW r \in Locals, Become(t, r) PROVE \E q \in Locals : loc' = [loc EXCEPT ![t] = q]
  BY <1>1, Zenon DEF Become
<1>2. ASSUME NEW p \in Points, Goto(t, p) PROVE \E q \in Locals : loc' = [loc EXCEPT ![t] = q]
  <2>1. [loc[t] EXCEPT !.pc = p] \in Locals  BY <1>0, LocalTypes, Names, IdleType, Zenon DEF Locals
  <2>2. QED  BY <1>1, <1>2, <2>1, Zenon DEF Goto
<1>3. ASSUME Return(t) PROVE \E q \in Locals : loc' = [loc EXCEPT ![t] = q]  BY <1>1, <1>3, IdleType, Zenon DEF Return
<1>4. ASSUME UNCHANGED loc PROVE \E q \in Locals : loc' = [loc EXCEPT ![t] = q]
  <2>1. loc = [loc EXCEPT ![t] = loc[t]]  BY <1>0 DEF TypeOK
  <2>2. QED  BY <1>0, <1>4, <2>1, LocalTypes, Zenon
<1>5. CASE Scan(t)
  <2>1. PICK s \in loc[t].unseen :
       IF slot[s] \in ToSet(loc[t].tmp)
       THEN \E i \in 1 .. Len(loc[t].tmp) :
              /\ loc[t].tmp[i] = slot[s]
              /\ Become(t, [loc[t] EXCEPT !.unseen = @ \ {s}, !.still = Append(@, slot[s]),
                                          !.tmp = RemoveAt(@, i)])
       ELSE Become(t, [loc[t] EXCEPT !.unseen = @ \ {s}])
    BY <1>5, Zenon DEF Scan
  <2>2. CASE slot[s] \in ToSet(loc[t].tmp)
    <3>1. PICK i \in 1 .. Len(loc[t].tmp) :
            /\ loc[t].tmp[i] = slot[s]
            /\ Become(t, [loc[t] EXCEPT !.unseen = @ \ {s}, !.still = Append(@, slot[s]),
                                   !.tmp = RemoveAt(@, i)])
      BY <2>1, <2>2, Zenon
    <3>2. RemoveAt(loc[t].tmp, i) \in Lists  BY InvFacts, Removed DEF Good, Lists
    <3>3. slot[s] \in Nodes  BY <1>0, <3>1 DEF Lists
    <3>4. Append(loc[t].still, slot[s]) \in Lists  BY <1>0, <3>3 DEF Lists
    <3>5. loc[t].unseen \ {s} \in SlotSets  BY <1>0 DEF SlotSets
    <3>7. [loc[t] EXCEPT !.unseen = @ \ {s}, !.still = Append(@, slot[s]), !.tmp = RemoveAt(@, i)]
            \in Locals
      BY <1>0, <3>2, <3>4, <3>5, Zenon DEF Locals
    <3>6. QED  BY <1>1, <3>1, <3>7, Zenon
  <2>3. CASE slot[s] \notin ToSet(loc[t].tmp)
    <3>1. loc[t].unseen \ {s} \in SlotSets  BY <1>0 DEF SlotSets
    <3>3. [loc[t] EXCEPT !.unseen = @ \ {s}] \in Locals  BY <1>0, <3>1, Zenon DEF Locals
    <3>2. QED  BY <1>1, <2>1, <2>3, <3>3, Zenon
  <2>4. QED  BY <2>2, <2>3
<1>6. CASE CallPush(t)
  <2>1. PICK n \in inUse : Become(t, Scanning(t, <<n>>, "push"))  BY <1>6, Zenon DEF CallPush
  <2>2. <<n>> \in Lists  BY <1>0 DEF TypeOK, Lists
  <2>3. QED  BY <1>0, <1>1, <2>1, <2>2, ScanningType, Names
<1>7. CASE PushHeld(t)
  <2>1. CASE Len(held[t]) >= ScanThreshold
    <3>1. Become(t, [Scanning(t, held[t], "stock") EXCEPT !.node = loc[t].still[1]])
      BY <1>7, <2>1, Zenon DEF PushHeld
    <3>2. loc[t].still[1] \in Nodes
      <4>1. ScansFor(loc[t], {"push"}) /\ loc[t].tmp = <<>>  BY <1>7 DEF PushHeld, Scanned, At, ScansFor
      <4>2. Len(loc[t].tmp) + Len(loc[t].still) = 1  BY <1>0, <4>1, Zenon DEF LocalsOK, NodesOK
      <4>3. Len(loc[t].still) = 1  BY <1>0, <4>1, <4>2 DEF Lists
      <4>4. QED  BY <1>0, <4>3 DEF Lists
    <3>3. [Scanning(t, held[t], "stock") EXCEPT !.node = loc[t].still[1]] \in Locals
      BY <1>0, <3>2, ScanningType, Names, Zenon
    <3>4. QED  BY <1>1, <3>1, <3>3, Zenon
  <2>2. CASE ~(Len(held[t]) >= ScanThreshold)  BY <1>3, <1>7, <2>2, Zenon DEF PushHeld
  <2>3. QED  BY <2>1, <2>2
<1>8. CASE PushFree(t)
  <2>1. Return(t) \/ Goto(t, "pushLock")  BY <1>8, Zenon DEF PushFree
  <2>2. QED  BY <2>1, <1>2, <1>3, Names, Zenon
<1>9. CASE PushUnlocked(t)
  <2>1. CASE Len(free[t]) >= AggThreshold
    <3>1. Become(t, [loc[t] EXCEPT !.pc = "outLoad", !.tmp = <<>>, !.out = loc[t].tmp \o <<free[t][1]>>])
      BY <1>9, <2>1, Zenon DEF PushUnlocked
    <3>2. free[t][1] \in Nodes  BY <1>0, <2>1, PoolAssumption DEF Lists
    <3>3. loc[t].tmp \o <<free[t][1]>> \in Lists  BY <1>0, <3>2 DEF Lists
    <3>4. [loc[t] EXCEPT !.pc = "outLoad", !.tmp = <<>>, !.out = loc[t].tmp \o <<free[t][1]>>] \in Locals
      BY <1>0, <3>3, Names, IdleType, Zenon DEF Locals
    <3>5. QED  BY <1>1, <3>1, <3>4, Zenon
  <2>2. CASE ~(Len(free[t]) >= AggThreshold)  BY <1>3, <1>9, <2>2, Zenon DEF PushUnlocked
  <2>3. QED  BY <2>1, <2>2
<1>10. CASE OutLoad(t) \/ OutFails(t)
  <2>1. [loc[t] EXCEPT !.pc = "outLink", !.nxt = head] \in Locals  BY <1>0, Names, IdleType, Zenon DEF Locals
  <2>2. QED  BY <1>1, <1>10, <2>1, Zenon DEF OutLoad, OutFails
<1>11. CASE OutCas(t)
  <2>1. CASE Become(t, [loc[t] EXCEPT !.pc = "outLoad", !.out = Tail(@), !.nxt = Null])
             /\ Len(loc[t].out) > 1
    <3>1. Tail(loc[t].out) \in Lists  BY <1>0, <2>1 DEF Lists
    <3>2. [loc[t] EXCEPT !.pc = "outLoad", !.out = Tail(@), !.nxt = Null] \in Locals
      BY <1>0, <3>1, Names, IdleType, Zenon DEF Locals
    <3>3. QED  BY <1>1, <2>1, <3>2, Zenon
  <2>2. CASE Become(t, [loc[t] EXCEPT !.pc = "got", !.out = <<>>, !.nxt = Null])
    <3>1. [loc[t] EXCEPT !.pc = "got", !.out = <<>>, !.nxt = Null] \in Locals
      BY <1>0, Names, IdleType, Zenon DEF Locals
    <3>2. QED  BY <1>1, <2>2, <3>1, Zenon
  <2>3. \/ Become(t, [loc[t] EXCEPT !.pc = "outLoad", !.out = Tail(@), !.nxt = Null]) /\ Len(loc[t].out) > 1
        \/ Become(t, [loc[t] EXCEPT !.pc = "got", !.out = <<>>, !.nxt = Null])
        \/ Return(t)
    BY <1>11, Zenon DEF OutCas
  <2>4. QED  BY <1>3, <2>1, <2>2, <2>3
<1>12. ASSUME NEW call \in {"pop", "delete"}, CallPop(t, call) PROVE \E q \in Locals : loc' = [loc EXCEPT ![t] = q]
  <2>1. CASE free[t] # <<>>
    <3>1. Become(t, [Idle EXCEPT !.pc = "got", !.node = free[t][1], !.call = call])
      BY <1>12, <2>1 DEF CallPop
    <3>2. free[t][1] \in Nodes  BY <1>0, <2>1 DEF Lists
    <3>3. [Idle EXCEPT !.pc = "got", !.node = free[t][1], !.call = call] \in Locals
      BY <3>2, Names, IdleType, Zenon DEF Locals
    <3>4. QED  BY <1>1, <3>1, <3>3, Zenon
  <2>2. CASE free[t] = <<>>
    <3>1. Become(t, [Idle EXCEPT !.pc = "popLock", !.call = call])  BY <1>12, <2>2 DEF CallPop
    <3>2. [Idle EXCEPT !.pc = "popLock", !.call = call] \in Locals
      BY Names, IdleType, Zenon DEF Locals
    <3>3. QED  BY <1>1, <3>1, <3>2, Zenon
  <2>3. QED  BY <2>1, <2>2
<1>13. CASE PopLocked(t)
  <2>0. gfree \in Lists /\ gfree # <<>>  BY <1>0, <1>13 DEF TypeOK, PopLocked
  <2>1. gfree[1] \in Nodes  BY <2>0 DEF Lists
  <2>2. CASE Len(gfree) - 1 >= AggThreshold
    <3>1. Become(t, [loc[t] EXCEPT !.pc = "outLoad", !.node = gfree[1],
                              !.out = SubSeq(gfree, 2, 1 + AggThreshold)])
      BY <1>13, <2>2 DEF PopLocked
    <3>2. SubSeq(gfree, 2, 1 + AggThreshold) \in Lists
      BY <2>2, InvFacts, Cut, PoolAssumption DEF Good, Lists
    <3>3. [loc[t] EXCEPT !.pc = "outLoad", !.node = gfree[1],
                    !.out = SubSeq(gfree, 2, 1 + AggThreshold)] \in Locals
      BY <1>0, <2>1, <3>2, Names, IdleType, Zenon DEF Locals
    <3>4. QED  BY <1>1, <3>1, <3>3, Zenon
  <2>3. CASE ~(Len(gfree) - 1 >= AggThreshold)
    <3>1. Become(t, [loc[t] EXCEPT !.pc = "got", !.node = gfree[1]])  BY <1>13, <2>3 DEF PopLocked
    <3>2. [loc[t] EXCEPT !.pc = "got", !.node = gfree[1]] \in Locals
      BY <1>0, <2>1, Names, IdleType, Zenon DEF Locals
    <3>3. QED  BY <1>1, <3>1, <3>2, Zenon
  <2>4. QED  BY <2>2, <2>3
<1>14. CASE Load(t)
  <2>1. [loc[t] EXCEPT !.pc = "store", !.cur = head] \in Locals  BY <1>0, Names, IdleType, Zenon DEF Locals
  <2>2. QED  BY <1>1, <1>14, <2>1, Zenon DEF Load
<1>15. CASE Verify(t)
  <2>1. [loc[t] EXCEPT !.pc = "store", !.cur = head] \in Locals  BY <1>0, Names, IdleType, Zenon DEF Locals
  <2>2. CASE Goto(t, IF head = Null THEN "popHeld" ELSE "next")
    <3>1. (IF head = Null THEN "popHeld" ELSE "next") \in Points  BY Names
    <3>2. QED  BY <1>2, <2>2, <3>1, Zenon
  <2>3. QED  BY <1>1, <1>15, <2>1, <2>2, Zenon DEF Verify
<1>16. CASE ReadNext(t)
  <2>1. loc[t].cur \in Nodes
    <3>1. loc[t].pc = "next"  BY <1>16, Zenon DEF ReadNext, At
    <3>2. LinksOK(t)  BY <1>0, Zenon DEF LocalsOK
    <3>3. QED  BY <1>0, <3>1, <3>2 DEF LinksOK, NodeOrNull
  <2>4. link[loc[t].cur] \in NodeOrNull  BY <1>0, <2>1 DEF TypeOK
  <2>2. [loc[t] EXCEPT !.pc = "cas", !.nxt = link[loc[t].cur]] \in Locals
    BY <1>0, <2>4, Names, Zenon DEF Locals
  <2>3. QED  BY <1>1, <1>16, <2>2, Zenon DEF ReadNext
<1>17. CASE Cas(t)
  <2>1. /\ [loc[t] EXCEPT !.pc = "drop", !.node = loc[t].cur, !.cur = Null, !.nxt = Null] \in Locals
        /\ [loc[t] EXCEPT !.pc = "store", !.cur = head, !.nxt = Null] \in Locals
    BY <1>0, Names, IdleType, Zenon DEF Locals
  <2>2. QED  BY <1>1, <1>17, <2>1, Zenon DEF Cas
<1>18. ASSUME NEW p \in Points, GiveFirst(t, p) PROVE \E q \in Locals : loc' = [loc EXCEPT ![t] = q]
  <2> DEFINE r == [Idle EXCEPT !.call = loc[t].call, !.pc = IF loc[t].tmp = <<>> THEN p ELSE "got",
                               !.node = IF loc[t].tmp = <<>> THEN Null ELSE loc[t].tmp[1]]
  <2>1. loc[t].tmp # <<>> => loc[t].tmp[1] \in Nodes  BY <1>0 DEF Lists
  <2>2. r \in Locals  BY <1>0, <2>1, Names, IdleType, Zenon DEF Locals
  <2>3. loc' = [loc EXCEPT ![t] = r]  BY <1>18 DEF GiveFirst
  <2> HIDE DEF r
  <2>4. QED  BY <2>2, <2>3, Zenon
<1>19. CASE PopHeld(t)
  <2>1. Goto(t, "popHeldLock") \/ Become(t, Scanning(t, held[t], "own"))
    BY <1>19, Zenon DEF PopHeld
  <2>2. QED  BY <1>0, <1>1, <1>2, <2>1, ScanningType, Names
<1>20. CASE PopOwn(t) \/ PopAll(t)
  <2>1. GiveFirst(t, "popHeldLock") \/ GiveFirst(t, "none")  BY <1>20, Zenon DEF PopOwn, PopAll
  <2>2. QED  BY <1>18, <2>1, Names, Zenon
<1>21. CASE PopHeldLocked(t) \/ ClearHeldLocked(t)
  <2>1. Become(t, Scanning(t, gheld, "all")) \/ Become(t, Scanning(t, gheld, "clearAll"))
    BY <1>21, Zenon DEF PopHeldLocked, ClearHeldLocked
  <2>2. QED  BY <1>0, <1>1, <2>1, ScanningType, Names
<1>22. CASE New(t)
  <2>1. PICK n \in Nodes : Become(t, [loc[t] EXCEPT !.pc = "got", !.node = n])  BY <1>22, Zenon DEF New
  <2>2. [loc[t] EXCEPT !.pc = "got", !.node = n] \in Locals  BY <1>0, Names, IdleType, Zenon DEF Locals
  <2>3. QED  BY <1>1, <2>1, <2>2, Zenon
<1>23. CASE ClearFree(t)
  BY <1>0, <1>1, <1>23, ScanningType DEF ClearFree, Thens
<1>24. CASE ClearHeld(t)
  <2>1. [Idle EXCEPT !.pc = "clearLock"] \in Locals  BY Names, IdleType, Zenon DEF Locals
  <2>2. QED  BY <1>1, <1>24, <2>1, Zenon DEF ClearHeld
<1>25. CASE Find(t)
  <2>1. PICK n \in inUse : Become(t, [Idle EXCEPT !.pc = "readStore", !.cur = n])
    BY <1>25, Zenon DEF Find
  <2>2. [Idle EXCEPT !.pc = "readStore", !.cur = n] \in Locals
    <3>1. n \in NodeOrNull  BY <1>0 DEF TypeOK, NodeOrNull
    <3>2. QED  BY <3>1, Names, IdleType, Zenon DEF Locals
  <2>3. QED  BY <1>1, <2>1, <2>2, Zenon
<1>26. CASE Stocktake(t) \/ PushLocked(t) \/ NoNew(t) \/ Use(t) \/ Delete(t) \/ ClearAll(t)
            \/ ClearHeldUnlocked(t) \/ ReadVerify(t)
  BY <1>3, <1>26, Zenon
  DEF Stocktake, PushLocked, NoNew, Use, Delete, ClearAll, ClearHeldUnlocked, ReadVerify
<1>27. CASE OutLink(t) \/ PopUnlocked(t) \/ Store(t) \/ Drop(t) \/ PopNothing(t) \/ ClearLocked(t)
            \/ ClearUnlocked(t) \/ Protect(t)
  <2>1. \E p \in Points : Goto(t, p)
    BY <1>27, Names, Zenon DEF OutLink, PopUnlocked, Store, Drop, PopNothing, ClearLocked, ClearUnlocked, Protect
  <2>2. QED  BY <1>2, <2>1
<1>28. CASE EndFree(t) \/ EndHeld(t) \/ Leave(t) \/ Skip(t)
  BY <1>4, <1>28, Zenon DEF EndFree, EndHeld, Leave, Skip
<1>29. CASE CallPop(t, "pop") \/ CallPop(t, "delete")  BY <1>12, <1>29
<1>30. QED
  BY <1>5, <1>6, <1>7, <1>8, <1>9, <1>10, <1>11, <1>13, <1>14, <1>15, <1>16, <1>17, <1>19, <1>20,
     <1>21, <1>22, <1>23, <1>24, <1>25, <1>26, <1>27, <1>28, <1>29, Zenon DEF Step

\* The lists of the thread change, and those of no other.
LEMMA FreeStep ==
  ASSUME Inv, NEW t \in Threads, Step(t)
  PROVE  \E f \in Lists : free' = [free EXCEPT ![t] = f]
<1>0. /\ TypeOK /\ loc[t].tmp \in Lists /\ free[t] \in Lists /\ free = [free EXCEPT ![t] = free[t]]
      /\ \A s \in Lists : s # <<>> => Tail(s) \in Lists /\ s[1] \in Nodes
      /\ \A r, s \in Lists : r \o s \in Lists
      /\ \A s \in Lists, n \in Nodes : Append(s, n) \in Lists
      /\ <<>> \in Lists
  BY InvFacts, LocalTypes DEF TypeOK, Lists
<1>1. ASSUME NEW p, GiveFirst(t, p) PROVE \E f \in Lists : free' = [free EXCEPT ![t] = f]
  <2>1. free' = [free EXCEPT ![t] = @ \o (IF loc[t].tmp = <<>> THEN <<>> ELSE Tail(loc[t].tmp))]
    BY <1>1 DEF GiveFirst
  <2>2. (IF loc[t].tmp = <<>> THEN <<>> ELSE Tail(loc[t].tmp)) \in Lists  BY <1>0, Zenon
  <2>3. QED  BY <1>0, <2>1, <2>2, Zenon
<1>2. CASE PopOwn(t) \/ PopAll(t)
  BY <1>1, <1>2, Zenon DEF PopOwn, PopAll
<1>3. CASE Stocktake(t)
  <2>1. free' = [free EXCEPT ![t] =
                   @ \o (IF loc[t].tmp = <<>> THEN <<>> ELSE Append(Tail(loc[t].tmp), loc[t].tmp[1]))]
    BY <1>3, Zenon DEF Stocktake
  <2>2. (IF loc[t].tmp = <<>> THEN <<>> ELSE Append(Tail(loc[t].tmp), loc[t].tmp[1])) \in Lists
    BY <1>0, Zenon
  <2>3. QED  BY <1>0, <2>1, <2>2, Zenon
<1>4. CASE PushFree(t)  BY <1>0, <1>4, Zenon DEF PushFree
<1>5. CASE PushUnlocked(t)
  <2>1. CASE Len(free[t]) >= AggThreshold
    <3>1. free[t] # <<>>  BY <1>0, <2>1, PoolAssumption DEF Lists
    <3>2. free' = [free EXCEPT ![t] = Tail(@)]  BY <1>5, <2>1, Zenon DEF PushUnlocked
    <3>3. QED  BY <1>0, <3>1, <3>2, Zenon
  <2>2. CASE ~(Len(free[t]) >= AggThreshold)  BY <1>0, <1>5, <2>2, Zenon DEF PushUnlocked
  <2>3. QED  BY <2>1, <2>2
<1>6. CASE CallPop(t, "pop") \/ CallPop(t, "delete")  BY <1>0, <1>6, Zenon DEF CallPop
<1>7. CASE ClearFree(t) \/ EndFree(t)  BY <1>0, <1>7, Zenon DEF ClearFree, EndFree
<1>8. ASSUME UNCHANGED free PROVE \E f \in Lists : free' = [free EXCEPT ![t] = f]
  BY <1>0, <1>8, Zenon
<1>9. CASE \/ Scan(t) \/ CallPush(t) \/ PushHeld(t) \/ PushLocked(t)
           \/ OutLoad(t) \/ OutLink(t) \/ OutCas(t) \/ OutFails(t) \/ PopLocked(t) \/ PopUnlocked(t)
           \/ Load(t) \/ Store(t) \/ Verify(t) \/ ReadNext(t) \/ Cas(t) \/ Drop(t)
  BY <1>8, <1>9, Zenon
  DEF lists, Scan, CallPush, PushHeld, PushLocked, OutLoad, OutLink, OutCas, OutFails, PopLocked,
      PopUnlocked, Load, Store, Verify, ReadNext, Cas, Drop
<1>10. CASE \/ PopHeld(t) \/ PopHeldLocked(t) \/ PopNothing(t) \/ New(t) \/ NoNew(t) \/ Use(t)
            \/ Delete(t) \/ ClearHeld(t) \/ ClearLocked(t) \/ ClearUnlocked(t)
            \/ ClearHeldLocked(t) \/ ClearAll(t) \/ ClearHeldUnlocked(t) \/ EndHeld(t) \/ Find(t)
            \/ Protect(t) \/ ReadVerify(t) \/ Leave(t) \/ Skip(t)
  BY <1>8, <1>10, Zenon
  DEF lists, PopHeld, PopHeldLocked, PopNothing, New, NoNew, Use, Delete, ClearHeld, ClearLocked,
      ClearUnlocked, ClearHeldLocked, ClearAll, ClearHeldUnlocked, EndHeld, Find, Protect,
      ReadVerify, Leave, Skip
<1>11. QED  BY <1>2, <1>3, <1>4, <1>5, <1>6, <1>7, <1>9, <1>10, Zenon DEF Step

LEMMA HeldStep ==
  ASSUME Inv, NEW t \in Threads, Step(t)
  PROVE  \E h \in Lists : held' = [held EXCEPT ![t] = h]
<1>0. /\ TypeOK /\ loc[t].still \in Lists /\ held[t] \in Lists /\ held = [held EXCEPT ![t] = held[t]]
      /\ loc[t].node \in NodeOrNull
      /\ \A r, s \in Lists : r \o s \in Lists
      /\ \A s \in Lists, n \in Nodes : Append(s, n) \in Lists
      /\ <<>> \in Lists
  BY InvFacts, LocalTypes DEF TypeOK, Lists
<1>1. CASE PushHeld(t)  BY <1>0, <1>1, Zenon DEF PushHeld
<1>2. CASE Stocktake(t)
  <2>1. ScansFor(loc[t], {"stock"}) /\ held' = [held EXCEPT ![t] = Append(loc[t].still, loc[t].node)]
    BY <1>2 DEF Stocktake, Scanned, At, ScansFor
  <2>2. loc[t].node # Null  BY <2>1, InvFacts, Zenon DEF LocalsOK, NodesOK
  <2>3. loc[t].node \in Nodes  BY <1>0, <2>2 DEF NodeOrNull
  <2>4. QED  BY <1>0, <2>1, <2>3, Zenon
<1>3. CASE PopHeld(t) \/ PopOwn(t) \/ ClearFree(t) \/ ClearHeld(t) \/ EndHeld(t)
  BY <1>0, <1>3, Zenon DEF PopHeld, PopOwn, ClearFree, ClearHeld, EndHeld
<1>8. ASSUME UNCHANGED held PROVE \E h \in Lists : held' = [held EXCEPT ![t] = h]
  BY <1>0, <1>8, Zenon
<1>9. CASE \/ Scan(t) \/ CallPush(t) \/ PushFree(t) \/ PushLocked(t) \/ PushUnlocked(t)
           \/ OutLoad(t) \/ OutLink(t) \/ OutCas(t) \/ OutFails(t) \/ CallPop(t, "pop")
           \/ CallPop(t, "delete") \/ PopLocked(t) \/ PopUnlocked(t)
           \/ Load(t) \/ Store(t) \/ Verify(t) \/ ReadNext(t) \/ Cas(t) \/ Drop(t)
  BY <1>8, <1>9, Zenon
  DEF lists, Scan, CallPush, PushFree, PushLocked, PushUnlocked, OutLoad, OutLink, OutCas, OutFails,
      CallPop, PopLocked, PopUnlocked, Load, Store, Verify, ReadNext, Cas, Drop
<1>10. CASE \/ PopHeldLocked(t) \/ PopAll(t) \/ PopNothing(t) \/ New(t) \/ NoNew(t) \/ Use(t)
            \/ Delete(t) \/ ClearLocked(t) \/ ClearUnlocked(t)
            \/ ClearHeldLocked(t) \/ ClearAll(t) \/ ClearHeldUnlocked(t) \/ EndFree(t) \/ Find(t)
            \/ Protect(t) \/ ReadVerify(t) \/ Leave(t) \/ Skip(t)
  BY <1>8, <1>10, Zenon
  DEF lists, PopHeldLocked, PopAll, PopNothing, New, NoNew, Use, Delete, ClearLocked,
      ClearUnlocked, ClearHeldLocked, ClearAll, ClearHeldUnlocked, EndFree, Find, Protect,
      ReadVerify, Leave, Skip
<1>11. QED  BY <1>1, <1>2, <1>3, <1>9, <1>10, Zenon DEF Step

\* Only a thread that has a lock, or finds it free, changes what it guards.
LEMMA SharedStep ==
  ASSUME Inv, NEW t \in Threads, Step(t)
  PROVE  /\ gfree' \in Lists /\ gheld' \in Lists
         /\ UNCHANGED gheld \/ owner["held"] \in {Null, t}
         /\ owner' \in [Locks -> Threads \cup {Null}]
         /\ \A k \in Locks : \A u \in Threads \ {t} : owner'[k] = u <=> owner[k] = u
<1>0. /\ TypeOK /\ loc[t].still \in Lists /\ loc[t].tmp \in Lists /\ free[t] \in Lists
      /\ held[t] \in Lists /\ gfree \in Lists /\ gheld \in Lists
      /\ \A s \in Lists : s # <<>> => Tail(s) \in Lists
      /\ \A r, s \in Lists : r \o s \in Lists
      /\ <<>> \in Lists
      /\ Null \notin Threads
  BY InvFacts, LocalTypes DEF TypeOK, Lists
<1>1. CASE PushLocked(t) \/ ClearLocked(t) \/ EndFree(t)
  <2>1. (gfree' = gfree \o loc[t].tmp \/ gfree' = <<>> \/ gfree' = gfree \o free[t])
        /\ UNCHANGED <<gheld, owner>>
    BY <1>1, Zenon DEF PushLocked, ClearLocked, EndFree
  <2>2. gfree' \in Lists  BY <1>0, <2>1, Zenon
  <2>3. QED  BY <1>0, <2>1, <2>2 DEF TypeOK
<1>2. ASSUME NEW k \in Locks, NEW v \in {Null, t}, owner[k] \in {Null, t},
             owner' = [owner EXCEPT ![k] = v]
      PROVE  /\ owner' \in [Locks -> Threads \cup {Null}]
             /\ \A j \in Locks : \A u \in Threads \ {t} : owner'[j] = u <=> owner[j] = u
  BY <1>0, <1>2 DEF TypeOK
<1>3. "free" \in Locks /\ "held" \in Locks  BY DEF Locks
<1>13. Null \in {Null, t} /\ t \in {Null, t}  OBVIOUS
<1>4. CASE PopLocked(t)
  <2>1. CASE Len(gfree) - 1 >= AggThreshold
    <3>1. /\ gfree' = SubSeq(gfree, 2 + AggThreshold, Len(gfree)) /\ owner["free"] = Null
          /\ owner' = [owner EXCEPT !["free"] = t] /\ UNCHANGED gheld
      BY <1>4, <2>1, Zenon DEF PopLocked, Unlocked
    <3>2. SubSeq(gfree, 2 + AggThreshold, Len(gfree)) \in Lists
      BY <2>1, InvFacts, Cut, PoolAssumption DEF Good, Lists
    <3>3. QED  BY <1>0, <1>2, <1>3, <1>13, <3>1, <3>2, Zenon
  <2>2. CASE ~(Len(gfree) - 1 >= AggThreshold)
    BY <1>0, <1>4, <2>2, Zenon DEF PopLocked, TypeOK
  <2>3. QED  BY <2>1, <2>2
<1>5. CASE OutCas(t)
  <2>1. UNCHANGED <<gfree, gheld>>  BY <1>5, Zenon DEF OutCas, lists
  <2>2. UNCHANGED owner \/ (owner["free"] = t /\ owner' = [owner EXCEPT !["free"] = Null])
    BY <1>5, Zenon DEF OutCas
  <2>3. CASE UNCHANGED owner  BY <1>0, <2>1, <2>3, Zenon DEF TypeOK
  <2>4. CASE owner["free"] = t /\ owner' = [owner EXCEPT !["free"] = Null]
    BY <1>0, <1>2, <1>3, <1>13, <2>1, <2>4, Zenon
  <2>5. QED  BY <2>2, <2>3, <2>4
<1>6. CASE PopHeldLocked(t) \/ ClearHeldLocked(t)
  <2>1. /\ gheld' = <<>> /\ owner["held"] = Null /\ owner' = [owner EXCEPT !["held"] = t]
        /\ UNCHANGED gfree
    BY <1>6, Zenon DEF PopHeldLocked, ClearHeldLocked, Unlocked
  <2>2. QED  BY <1>0, <1>2, <1>3, <1>13, <2>1, Zenon
<1>7. CASE PopAll(t) \/ ClearAll(t)
  <2>1. ScansFor(loc[t], {"all", "clearAll"})
    BY <1>7 DEF PopAll, ClearAll, Scanned, At, ScansFor
  <2>2. owner["held"] = t  BY <2>1, InvFacts, Zenon DEF LocalsOK, ListsOK
  <2>3. gheld' = loc[t].still /\ owner' = [owner EXCEPT !["held"] = Null] /\ UNCHANGED gfree
    BY <1>7, Zenon DEF PopAll, ClearAll
  <2>4. QED  BY <1>0, <1>2, <1>3, <1>13, <2>2, <2>3, Zenon
<1>8. CASE EndHeld(t)
  <2>1. gheld' = gheld \o held[t] /\ owner["held"] = Null /\ UNCHANGED <<gfree, owner>>
    BY <1>8, Zenon DEF EndHeld, Unlocked
  <2>2. QED  BY <1>0, <2>1 DEF TypeOK
<1>9. ASSUME UNCHANGED <<gfree, gheld, owner>>
      PROVE  /\ gfree' \in Lists /\ gheld' \in Lists /\ UNCHANGED gheld
             /\ owner' \in [Locks -> Threads \cup {Null}]
             /\ \A k \in Locks : \A u \in Threads \ {t} : owner'[k] = u <=> owner[k] = u
  BY <1>0, <1>9 DEF TypeOK
<1>10. CASE \/ Scan(t) \/ CallPush(t) \/ PushHeld(t) \/ Stocktake(t) \/ PushFree(t) \/ PushUnlocked(t)
           \/ OutLoad(t) \/ OutLink(t) \/ OutFails(t) \/ CallPop(t, "pop")
           \/ CallPop(t, "delete") \/ PopUnlocked(t)
           \/ Load(t) \/ Store(t) \/ Verify(t) \/ ReadNext(t) \/ Cas(t) \/ Drop(t)
  <2>1. UNCHANGED <<gfree, gheld, owner>>
    BY <1>10, Zenon
    DEF lists, Scan, CallPush, PushHeld, Stocktake, PushFree, PushUnlocked, OutLoad, OutLink, OutFails,
      CallPop, PopUnlocked, Load, Store, Verify, ReadNext, Cas, Drop
  <2>2. QED  BY <1>9, <2>1, Zenon
<1>11. CASE \/ PopHeld(t) \/ PopOwn(t) \/ PopNothing(t) \/ New(t) \/ NoNew(t) \/ Use(t)
            \/ Delete(t) \/ ClearFree(t) \/ ClearHeld(t) \/ ClearUnlocked(t)
            \/ ClearHeldUnlocked(t) \/ Find(t)
            \/ Protect(t) \/ ReadVerify(t) \/ Leave(t) \/ Skip(t)
  <2>1. UNCHANGED <<gfree, gheld, owner>>
    BY <1>11, Zenon
    DEF lists, PopHeld, PopOwn, PopNothing, New, NoNew, Use, Delete, ClearFree, ClearHeld,
      ClearUnlocked, ClearHeldUnlocked, Find, Protect, ReadVerify, Leave, Skip
  <2>2. QED  BY <1>9, <2>1, Zenon
<1>12. QED  BY <1>1, <1>4, <1>5, <1>6, <1>7, <1>8, <1>10, <1>11, Zenon DEF Step

\* A thread writes to its own slots, and to the link of the node that it is about
\* to put on the lock-free list.
LEMMA SlotStep ==
  ASSUME Inv, NEW t \in Threads, Step(t)
  PROVE  UNCHANGED slot \/ \E k \in {"read", "pop"}, v \in NodeOrNull :
                             slot' = [slot EXCEPT ![<<t, k>>] = v]
<1>0. /\ loc[t].cur \in NodeOrNull /\ Null \in NodeOrNull /\ "read" \in {"read", "pop"}
      /\ "pop" \in {"read", "pop"} /\ slot[<<t, "read">>] \in NodeOrNull
  BY InvFacts, LocalTypes, Names DEF TypeOK, Slots
<1>1. CASE Store(t) \/ Drop(t) \/ Protect(t) \/ Leave(t)
  BY <1>0, <1>1, Zenon DEF Store, Drop, Protect, Leave
<1>2. CASE ReadVerify(t)
  <2>1. slot' = [slot EXCEPT ![<<t, "read">>] = IF loc[t].cur \in inUse THEN @ ELSE Null]
    BY <1>2 DEF ReadVerify
  <2>2. (IF loc[t].cur \in inUse THEN slot[<<t, "read">>] ELSE Null) \in NodeOrNull  BY <1>0, Zenon
  <2>3. QED  BY <1>0, <2>1, <2>2, Zenon
<1>3. CASE \/ Scan(t) \/ CallPush(t) \/ PushHeld(t) \/ Stocktake(t) \/ PushFree(t)
           \/ PushLocked(t) \/ PushUnlocked(t)
           \/ OutLoad(t) \/ OutLink(t) \/ OutCas(t) \/ OutFails(t) \/ CallPop(t, "pop")
           \/ CallPop(t, "delete") \/ PopLocked(t) \/ PopUnlocked(t)
           \/ Load(t) \/ Verify(t) \/ ReadNext(t) \/ Cas(t)
  BY <1>3, Zenon
  DEF Scan, CallPush, PushHeld, Stocktake, PushFree, PushLocked, PushUnlocked, OutLoad, OutLink,
      OutCas, OutFails, CallPop, PopLocked, PopUnlocked, Load, Verify, ReadNext, Cas
<1>4. CASE \/ PopHeld(t) \/ PopOwn(t) \/ PopHeldLocked(t) \/ PopAll(t) \/ PopNothing(t) \/ New(t)
           \/ NoNew(t) \/ Use(t) \/ Delete(t) \/ ClearFree(t) \/ ClearHeld(t) \/ ClearLocked(t)
           \/ ClearUnlocked(t) \/ ClearHeldLocked(t) \/ ClearAll(t) \/ ClearHeldUnlocked(t)
           \/ EndFree(t) \/ EndHeld(t) \/ Find(t) \/ Skip(t)
  BY <1>4, Zenon
  DEF PopHeld, PopOwn, PopHeldLocked, PopAll, PopNothing, New, NoNew, Use, Delete, ClearFree,
      ClearHeld, ClearLocked, ClearUnlocked, ClearHeldLocked, ClearAll, ClearHeldUnlocked, EndFree,
      EndHeld, Find, Skip
<1>5. QED  BY <1>1, <1>2, <1>3, <1>4, Zenon DEF Step

LEMMA LinkStep ==
  ASSUME NEW t \in Threads, Step(t)
  PROVE  UNCHANGED link \/ (At(t, "outLink") /\ link' = [link EXCEPT ![loc[t].out[1]] = loc[t].nxt])
<1>1. CASE OutLink(t)  BY <1>1, Zenon DEF OutLink
<1>2. CASE \/ Scan(t) \/ CallPush(t) \/ PushHeld(t) \/ Stocktake(t) \/ PushFree(t)
           \/ PushLocked(t) \/ PushUnlocked(t)
           \/ OutLoad(t) \/ OutCas(t) \/ OutFails(t) \/ CallPop(t, "pop")
           \/ CallPop(t, "delete") \/ PopLocked(t) \/ PopUnlocked(t)
           \/ Load(t) \/ Store(t) \/ Verify(t) \/ ReadNext(t) \/ Cas(t) \/ Drop(t)
  BY <1>2, Zenon
  DEF Scan, CallPush, PushHeld, Stocktake, PushFree, PushLocked, PushUnlocked, OutLoad,
      OutCas, OutFails, CallPop, PopLocked, PopUnlocked, Load, Store, Verify, ReadNext, Cas, Drop
<1>3. CASE \/ PopHeld(t) \/ PopOwn(t) \/ PopHeldLocked(t) \/ PopAll(t) \/ PopNothing(t) \/ New(t)
           \/ NoNew(t) \/ Use(t) \/ Delete(t) \/ ClearFree(t) \/ ClearHeld(t) \/ ClearLocked(t)
           \/ ClearUnlocked(t) \/ ClearHeldLocked(t) \/ ClearAll(t) \/ ClearHeldUnlocked(t)
           \/ EndFree(t) \/ EndHeld(t) \/ Find(t) \/ Protect(t) \/ ReadVerify(t) \/ Leave(t)
           \/ Skip(t)
  BY <1>3, Zenon
  DEF PopHeld, PopOwn, PopHeldLocked, PopAll, PopNothing, New, NoNew, Use, Delete, ClearFree,
      ClearHeld, ClearLocked, ClearUnlocked, ClearHeldLocked, ClearAll, ClearHeldUnlocked, EndFree,
      EndHeld, Find, Protect, ReadVerify, Leave, Skip
<1>4. QED  BY <1>1, <1>2, <1>3, Zenon DEF Step

\* Sets of nodes stay sets of nodes, and calls that are left stay calls.
LEMMA SetsStep ==
  ASSUME Inv, NEW t \in Threads, Step(t)
  PROVE  /\ inUse' \subseteq Nodes /\ allocated' \subseteq Nodes
         /\ calls' \in [Threads -> Seq(CallNames)]
<1>0. /\ inUse \subseteq Nodes /\ allocated \subseteq Nodes /\ calls \in [Threads -> Seq(CallNames)]
      /\ loc[t].node \in NodeOrNull
  BY InvFacts, LocalTypes DEF TypeOK
<1>1. ASSUME NEW call, Begin(t, call) PROVE calls' \in [Threads -> Seq(CallNames)]
  <2>1. calls[t] \in Seq(CallNames) /\ calls[t] # <<>>  BY <1>0, <1>1 DEF Begin
  <2>2. Tail(calls[t]) \in Seq(CallNames)  BY <2>1
  <2>3. calls' = [calls EXCEPT ![t] = Tail(calls[t])]  BY <1>1, Zenon DEF Begin
  <2>4. QED  BY <1>0, <2>2, <2>3
<1>2. CASE CallPush(t) \/ Find(t)
  BY <1>0, <1>1, <1>2, Zenon DEF CallPush, Find
<1>3. CASE CallPop(t, "pop") \/ CallPop(t, "delete")
  BY <1>0, <1>1, <1>3, Zenon DEF CallPop
<1>4. CASE ClearFree(t) \/ EndFree(t) \/ EndHeld(t) \/ Leave(t)
  BY <1>0, <1>1, <1>4, Zenon DEF ClearFree, EndFree, EndHeld, Leave
<1>5. CASE Skip(t)
  BY <1>0, <1>1, <1>5, Zenon DEF Skip
<1>6. CASE New(t)  BY <1>0, <1>6 DEF New
<1>7. CASE Use(t)
  <2>1. loc[t].pc = "got" /\ inUse' = inUse \cup {loc[t].node} /\ UNCHANGED <<allocated, calls>>
    BY <1>7, Zenon DEF Use, At
  <2>2. loc[t].node # Null  BY <2>1, InvFacts, Zenon DEF LocalsOK, NodesOK
  <2>3. QED  BY <1>0, <2>1, <2>2 DEF NodeOrNull
<1>8. CASE Delete(t) \/ ClearHeld(t) \/ ClearLocked(t) \/ ClearAll(t)
  BY <1>0, <1>8, Zenon DEF Delete, ClearHeld, ClearLocked, ClearAll
<1>9. CASE \/ Scan(t) \/ PushHeld(t) \/ Stocktake(t) \/ PushFree(t)
           \/ PushLocked(t) \/ PushUnlocked(t)
           \/ OutLoad(t) \/ OutLink(t) \/ OutCas(t) \/ OutFails(t) \/ PopLocked(t) \/ PopUnlocked(t)
           \/ Load(t) \/ Store(t) \/ Verify(t) \/ ReadNext(t) \/ Cas(t) \/ Drop(t)
  BY <1>0, <1>9, Zenon
  DEF Scan, PushHeld, Stocktake, PushFree, PushLocked, PushUnlocked, OutLoad, OutLink,
      OutCas, OutFails, PopLocked, PopUnlocked, Load, Store, Verify, ReadNext, Cas, Drop
<1>10. CASE \/ PopHeld(t) \/ PopOwn(t) \/ PopHeldLocked(t) \/ PopAll(t) \/ PopNothing(t)
            \/ NoNew(t) \/ ClearUnlocked(t) \/ ClearHeldLocked(t) \/ ClearHeldUnlocked(t)
            \/ Protect(t) \/ ReadVerify(t)
  BY <1>0, <1>10, Zenon
  DEF PopHeld, PopOwn, PopHeldLocked, PopAll, PopNothing, NoNew, ClearUnlocked, ClearHeldLocked,
      ClearHeldUnlocked, Protect, ReadVerify
<1>11. QED
  BY <1>2, <1>3, <1>4, <1>5, <1>6, <1>7, <1>8, <1>9, <1>10, Zenon DEF Step

-----------------------------------------------------------------------------
(* What a step of one thread leaves to the others.                         *)

\* What a thread knows stays true when another one takes a step.
LEMMA OthersStep ==
  ASSUME Inv, NEW t \in Threads, Step(t), NEW u \in Threads \ {t}
  PROVE  NodesOK(loc[u])' /\ ListsOK(u)' /\ LinksOK(u)'
<1>0. /\ TypeOK /\ u \in Threads /\ u # t
      /\ NodesOK(loc[u]) /\ ListsOK(u) /\ LinksOK(u)
      /\ NodesOK(loc[t])
  BY InvFacts DEF LocalsOK
<1>1. loc'[u] = loc[u]
  <2>1. PICK q \in Locals : loc' = [loc EXCEPT ![t] = q]  BY LocStep
  <2>2. QED  BY <1>0, <2>1 DEF TypeOK
<1>2. held'[u] = held[u]
  <2>1. PICK h \in Lists : held' = [held EXCEPT ![t] = h]  BY HeldStep
  <2>2. QED  BY <1>0, <2>1 DEF TypeOK
<1>3. slot'[<<u, "pop">>] = slot[<<u, "pop">>] /\ slot'[<<u, "read">>] = slot[<<u, "read">>]
  <2>1. CASE UNCHANGED slot  BY <2>1
  <2>2. ASSUME NEW k \in {"read", "pop"}, NEW v \in NodeOrNull, slot' = [slot EXCEPT ![<<t, k>>] = v]
        PROVE  slot'[<<u, "pop">>] = slot[<<u, "pop">>] /\ slot'[<<u, "read">>] = slot[<<u, "read">>]
    <3>1. /\ <<u, "pop">> # <<t, k>> /\ <<u, "read">> # <<t, k>>
          /\ <<u, "pop">> \in Slots /\ <<u, "read">> \in Slots
      BY <1>0 DEF Slots
    <3>2. QED  BY <1>0, <2>2, <3>1 DEF TypeOK
  <2>3. QED  BY <2>1, <2>2, SlotStep, Zenon
<1>4. /\ UNCHANGED gheld \/ owner["held"] \in {Null, t}
      /\ owner'["free"] = u <=> owner["free"] = u
      /\ owner'["held"] = u <=> owner["held"] = u
  BY <1>0, SharedStep DEF Locks
<1>5. u # Null  BY <1>0, PoolAssumption
<1>6. NodesOK(loc[u])'  BY <1>0, <1>1, Zenon DEF NodesOK, ScansFor
<1>7. ListsOK(u)'
  <2>1. ScansFor(loc[u], {"all", "clearAll"}) => owner'["held"] = u /\ gheld' = <<>>
    BY <1>0, <1>4, <1>5 DEF ListsOK
  <2>2. QED  BY <1>0, <1>1, <1>2, <1>4, <2>1, Zenon DEF ListsOK, ScansFor
<1>8. LinksOK(u)'
  <2>1. ASSUME NEW n \in Nodes, At(t, "outLink") => n # loc[t].out[1] PROVE link'[n] = link[n]
    BY <1>0, <2>1, LinkStep DEF TypeOK
  <2>2. PICK c \in Seq(Nodes), p \in [Nodes -> Places] : InvOf(c, p)  BY InvFacts
  <2>3. ASSUME At(t, "outLink") PROVE loc[t].out[1] \in Nodes /\ p[loc[t].out[1]] = <<"out", t>>
    <3>1. loc[t].out # <<>>  BY <1>0, <2>3 DEF NodesOK, At, OutPoints
    <3>2. loc[t].out[1] \in Nodes /\ loc[t].out[1] \in ToSet(loc[t].out)  BY <3>1, InvFacts, Rest
    <3>3. IsAt(loc[t].out, <<"out", t>>, p)  BY <2>2, Zenon DEF InvOf, Arranged
    <3>4. QED  BY <3>2, <3>3, Zenon DEF IsAt
  <2>4. At(u, "outCas") => link'[loc[u].out[1]] = loc[u].nxt
    <3>1. SUFFICES ASSUME At(u, "outCas") PROVE link'[loc[u].out[1]] = loc[u].nxt  OBVIOUS
    <3>2. loc[u].out # <<>>  BY <1>0, <3>1 DEF NodesOK, At, OutPoints
    <3>3. loc[u].out[1] \in Nodes /\ loc[u].out[1] \in ToSet(loc[u].out)  BY <1>0, <3>2, InvFacts, Rest
    <3>4. IsAt(loc[u].out, <<"out", u>>, p)  BY <1>0, <2>2, Zenon DEF InvOf, Arranged
    <3>5. p[loc[u].out[1]] = <<"out", u>>  BY <3>3, <3>4, Zenon DEF IsAt
    <3>6. <<"out", u>> # <<"out", t>>  BY <1>0
    <3>7. link'[loc[u].out[1]] = link[loc[u].out[1]]  BY <2>1, <2>3, <3>3, <3>5, <3>6, Zenon
    <3>8. QED  BY <1>0, <3>1, <3>7 DEF LinksOK
  <2>5. At(u, "cas") => link'[loc[u].cur] = loc[u].nxt
    <3>1. SUFFICES ASSUME At(u, "cas") PROVE link'[loc[u].cur] = loc[u].nxt  OBVIOUS
    <3>2. loc[u].pc \in {"next", "cas"}  BY <3>1 DEF At
    <3>3. loc[u].cur \in Nodes  BY <1>0, <3>2, LocalTypes DEF LinksOK, NodeOrNull
    <3>4. Shielded(loc[u].cur, <<u, "pop">>, p)  BY <1>0, <2>2, <3>2, Zenon DEF InvOf, HazardsOK
    <3>5. p[loc[u].cur] # <<"out", t>>  BY <3>4, Zenon DEF Shielded
    <3>6. link'[loc[u].cur] = link[loc[u].cur]  BY <2>1, <2>3, <3>3, <3>5, Zenon
    <3>7. QED  BY <1>0, <3>1, <3>6 DEF LinksOK
  <2>6. QED  BY <1>0, <1>1, <1>3, <2>4, <2>5, Zenon DEF LinksOK, At
<1>9. QED  BY <1>6, <1>7, <1>8

\* The places where a step of thread t may put nodes: only those in K change, and
\* nodes go only from one of them to another.
PlacesFor(t) == (Shared \X {Null}) \cup (Own \X {t})
Moved(t, K, p, q) ==
  /\ q \in [Nodes -> Places] /\ K \subseteq PlacesFor(t)
  /\ \A n \in Nodes : q[n] = p[n] \/ (q[n] \in K /\ p[n] \in K)
Follows(r, s, place, K, q) == IF place \in K THEN IsAt(s, place, q) ELSE s = r
Follow(t, K, c, d, q) ==
  /\ IF <<"unused", Null>> \in K
     THEN \A n \in Nodes : n \in allocated' <=> q[n] # <<"unused", Null>>
     ELSE allocated' = allocated
  /\ IF <<"inUse", Null>> \in K
     THEN \A n \in Nodes : n \in inUse' <=> q[n] = <<"inUse", Null>>
     ELSE inUse' = inUse
  /\ Follows(c, d, <<"lockFree", Null>>, K, q)
  /\ Follows(gfree, gfree', <<"gfree", Null>>, K, q)
  /\ Follows(gheld, gheld', <<"gheld", Null>>, K, q)
  /\ Follows(free[t], free'[t], <<"free", t>>, K, q)
  /\ Follows(held[t], held'[t], <<"held", t>>, K, q)
  /\ Follows(loc[t].tmp, loc'[t].tmp, <<"tmp", t>>, K, q)
  /\ Follows(loc[t].still, loc'[t].still, <<"still", t>>, K, q)
  /\ Follows(loc[t].out, loc'[t].out, <<"out", t>>, K, q)
  /\ IF <<"node", t>> \in K
     THEN \A n \in Nodes : n = loc'[t].node <=> q[n] = <<"node", t>>
     ELSE loc'[t].node = loc[t].node

LEMMA PlaceFacts ==
  ASSUME NEW t \in Threads, NEW u \in Threads \ {t}, NEW K \in SUBSET PlacesFor(t)
  PROVE  /\ <<"free", u>> \notin K /\ <<"held", u>> \notin K /\ <<"tmp", u>> \notin K
         /\ <<"still", u>> \notin K /\ <<"out", u>> \notin K /\ <<"node", u>> \notin K
<1>1. u # t /\ u # Null  BY PoolAssumption
<1>2. QED  BY <1>1 DEF PlacesFor

LEMMA Arrange ==
  ASSUME Inv, NEW t \in Threads, Step(t), NEW c, NEW d, NEW p, NEW q, NEW K,
         Arranged(c, p), Moved(t, K, p, q), Follow(t, K, c, d, q)
  PROVE  Arranged(d, q)'
<1>1. ASSUME NEW r, NEW s, NEW place, IsAt(r, place, p), Follows(r, s, place, K, q)
      PROVE  IsAt(s, place, q)
  <2>1. CASE place \in K  BY <1>1, <2>1, Zenon DEF Follows
  <2>2. CASE place \notin K
    <3>1. s = r  BY <1>1, <2>2, Zenon DEF Follows
    <3>2. \A n \in Nodes : q[n] = place <=> p[n] = place  BY <2>2, Zenon DEF Moved
    <3>3. QED  BY <1>1, <3>1, <3>2, Zenon DEF IsAt
  <2>3. QED  BY <2>1, <2>2
<1>2. \A n \in Nodes : n \in allocated' <=> q[n] # <<"unused", Null>>
  <2>1. CASE <<"unused", Null>> \in K  BY <2>1, Zenon DEF Follow
  <2>2. CASE <<"unused", Null>> \notin K
    <3>1. allocated' = allocated  BY <2>2, Zenon DEF Follow
    <3>2. \A n \in Nodes : q[n] = <<"unused", Null>> <=> p[n] = <<"unused", Null>>
      BY <2>2, Zenon DEF Moved
    <3>3. QED  BY <3>1, <3>2, Zenon DEF Arranged
  <2>3. QED  BY <2>1, <2>2
<1>3. \A n \in Nodes : n \in inUse' <=> q[n] = <<"inUse", Null>>
  <2>1. CASE <<"inUse", Null>> \in K  BY <2>1, Zenon DEF Follow
  <2>2. CASE <<"inUse", Null>> \notin K
    <3>1. inUse' = inUse  BY <2>2, Zenon DEF Follow
    <3>2. \A n \in Nodes : q[n] = <<"inUse", Null>> <=> p[n] = <<"inUse", Null>>
      BY <2>2, Zenon DEF Moved
    <3>3. QED  BY <3>1, <3>2, Zenon DEF Arranged
  <2>3. QED  BY <2>1, <2>2
<1>4. IsAt(d, <<"lockFree", Null>>, q)  BY <1>1, Zenon DEF Arranged, Follow
<1>5. IsAt(gfree', <<"gfree", Null>>, q) /\ IsAt(gheld', <<"gheld", Null>>, q)
  BY <1>1, Zenon DEF Arranged, Follow
<1>6. /\ IsAt(free'[t], <<"free", t>>, q) /\ IsAt(held'[t], <<"held", t>>, q)
      /\ IsAt(loc'[t].tmp, <<"tmp", t>>, q) /\ IsAt(loc'[t].still, <<"still", t>>, q)
      /\ IsAt(loc'[t].out, <<"out", t>>, q)
  BY <1>1, Zenon DEF Arranged, Follow
<1>7. \A n \in Nodes : n = loc'[t].node <=> q[n] = <<"node", t>>
  <2>1. CASE <<"node", t>> \in K  BY <2>1, Zenon DEF Follow
  <2>2. CASE <<"node", t>> \notin K
    <3>1. loc'[t].node = loc[t].node  BY <2>2, Zenon DEF Follow
    <3>2. \A n \in Nodes : q[n] = <<"node", t>> <=> p[n] = <<"node", t>>
      BY <2>2, Zenon DEF Moved
    <3>3. QED  BY <3>1, <3>2, Zenon DEF Arranged
  <2>3. QED  BY <2>1, <2>2
<1>8. ASSUME NEW u \in Threads \ {t}
      PROVE  /\ IsAt(free'[u], <<"free", u>>, q) /\ IsAt(held'[u], <<"held", u>>, q)
             /\ IsAt(loc'[u].tmp, <<"tmp", u>>, q) /\ IsAt(loc'[u].still, <<"still", u>>, q)
             /\ IsAt(loc'[u].out, <<"out", u>>, q)
             /\ \A n \in Nodes : n = loc'[u].node <=> q[n] = <<"node", u>>
  <2>1. /\ <<"free", u>> \notin K /\ <<"held", u>> \notin K /\ <<"tmp", u>> \notin K
        /\ <<"still", u>> \notin K /\ <<"out", u>> \notin K /\ <<"node", u>> \notin K
    <3>1. K \in SUBSET PlacesFor(t)  BY Zenon DEF Moved
    <3>2. QED  BY <3>1, PlaceFacts
  <2>2. free'[u] = free[u] /\ held'[u] = held[u] /\ loc'[u] = loc[u]
    <3>1. PICK f \in Lists : free' = [free EXCEPT ![t] = f]  BY FreeStep
    <3>2. PICK h \in Lists : held' = [held EXCEPT ![t] = h]  BY HeldStep
    <3>3. PICK l \in Locals : loc' = [loc EXCEPT ![t] = l]  BY LocStep
    <3>4. u # t  OBVIOUS
    <3>5. QED  BY <3>1, <3>2, <3>3, <3>4, InvFacts, Zenon DEF TypeOK
  <2>3. \A r, place : IsAt(r, place, p) /\ place \notin K => IsAt(r, place, q)
    BY <1>1, Zenon DEF Follows
  <2>4. /\ IsAt(free[u], <<"free", u>>, p) /\ IsAt(held[u], <<"held", u>>, p)
        /\ IsAt(loc[u].tmp, <<"tmp", u>>, p) /\ IsAt(loc[u].still, <<"still", u>>, p)
        /\ IsAt(loc[u].out, <<"out", u>>, p)
        /\ \A n \in Nodes : n = loc[u].node <=> p[n] = <<"node", u>>
    BY Zenon DEF Arranged
  <2>5. \A n \in Nodes : q[n] = <<"node", u>> <=> p[n] = <<"node", u>>
    BY <2>1, Zenon DEF Moved
  <2>6. QED  BY <2>1, <2>2, <2>3, <2>4, <2>5, Zenon
<1>9. QED  BY <1>2, <1>3, <1>4, <1>5, <1>6, <1>7, <1>8, Zenon DEF Arranged

\* What is in hazard stays where it is, or goes where it does not matter: what
\* goes to an open place, or is given to thread t or deleted, came from there or
\* was found not to be in hazard; and a scan of a list begins with all slots.
Open(t) == {<<"gfree", Null>>, <<"free", t>>, <<"out", t>>}
Clear(n, t, p) == p[n] \in Open(t) \/ (p[n] = <<"tmp", t>> /\ loc[t].unseen = {})
Popped(n, t, p) ==
  \/ Clear(n, t, p) \/ p[n] \in {<<"unused", Null>>, <<"lockFree", Null>>}
  \/ p[n] = <<"node", t>> /\ ~ At(t, "scan")
Safe(t, p, q) ==
  /\ \A n \in Nodes : q[n] \in Open(t) => Clear(n, t, p)
  /\ \A n \in Nodes :
       q[n] = <<"tmp", t>> =>
         \/ loc'[t].unseen = Slots
         \/ /\ p[n] = <<"tmp", t>>
            /\ \A s \in loc[t].unseen : slot[s] = n => s \in loc'[t].unseen
  /\ \A n \in Nodes : q[n] \in {<<"unused", Null>>, <<"lockFree", Null>>} => Popped(n, t, p)
  /\ \A n \in Nodes : q[n] = <<"node", t>> /\ loc'[t].pc # "scan" => Popped(n, t, p)
NewHazards(t, q) ==
  /\ loc'[t].pc \in {"next", "cas"} =>
       \/ loc[t].pc \in {"next", "cas"} /\ loc'[t].cur = loc[t].cur
       \/ Shielded(loc[t].cur, <<t, "pop">>, q)' /\ loc'[t].cur = loc[t].cur
  /\ Reading(t)' # Null =>
       \/ Reading(t)' = Reading(t)
       \/ Shielded(Reading(t), <<t, "read">>, q)' /\ Kept(Reading(t), q)'

LEMMA Hazards ==
  ASSUME Inv, NEW t \in Threads, Step(t), NEW p, NEW q, NEW K,
         HazardsOK(p), Moved(t, K, p, q), Safe(t, p, q), NewHazards(t, q)
  PROVE  HazardsOK(q)'
<1>0. /\ TypeOK /\ Null \notin Nodes
      /\ \A u \in Threads \ {t} : loc'[u] = loc[u]
  <2>1. PICK l \in Locals : loc' = [loc EXCEPT ![t] = l]  BY LocStep
  <2>2. QED  BY <2>1, InvFacts, PoolAssumption DEF TypeOK
<1>1. ASSUME NEW n \in Nodes, NEW u \in Threads \ {t}
      PROVE  /\ q[n] = <<"free", u>> <=> p[n] = <<"free", u>>
             /\ q[n] = <<"out", u>> <=> p[n] = <<"out", u>>
             /\ q[n] = <<"tmp", u>> <=> p[n] = <<"tmp", u>>
             /\ q[n] = <<"node", u>> <=> p[n] = <<"node", u>>
  <2>1. K \in SUBSET PlacesFor(t)  BY Zenon DEF Moved
  <2>2. QED  BY <2>1, PlaceFacts, Zenon DEF Moved
<1>2. ASSUME NEW n \in Nodes, NEW s \in Slots, slot[s] = n, Shielded(n, s, p)
      PROVE  ~ Clear(n, t, p) /\ Shielded(n, s, q)'
  <2>1. ~ Clear(n, t, p)  BY <1>2, Zenon DEF Clear, Open, Shielded
  <2>2. q[n] \notin Open(t)  BY <2>1, Zenon DEF Safe
  <2>3. q[n] # <<"gfree", Null>> /\ q[n] # <<"free", t>> /\ q[n] # <<"out", t>>
    BY <2>2, Zenon DEF Open
  <2>4. q[n] = <<"tmp", t>> => s \in loc'[t].unseen  BY <1>2, Zenon DEF Safe, Shielded
  <2>5. \A u \in Threads \ {t} :
          /\ q[n] # <<"free", u>> /\ q[n] # <<"out", u>>
          /\ q[n] = <<"tmp", u>> => s \in loc'[u].unseen
    BY <1>0, <1>1, <1>2, Zenon DEF Shielded
  <2>6. QED  BY <2>1, <2>3, <2>4, <2>5, Zenon DEF Shielded
<1>3. ASSUME NEW n \in Nodes, ~ Clear(n, t, p), Kept(n, p) PROVE Kept(n, q)'
  <2>1. ~ Popped(n, t, p)  BY <1>3, Zenon DEF Popped, Kept
  <2>2. q[n] \notin {<<"unused", Null>>, <<"lockFree", Null>>}  BY <2>1, Zenon DEF Safe
  <2>3. q[n] = <<"node", t>> => loc'[t].pc = "scan"  BY <2>1, Zenon DEF Safe
  <2>4. \A u \in Threads \ {t} : q[n] = <<"node", u>> => loc'[u].pc = "scan"
    BY <1>0, <1>1, <1>3, Zenon DEF Kept, At
  <2>5. QED  BY <2>2, <2>3, <2>4, Zenon DEF Kept, At
<1>4. ASSUME NEW u \in Threads, loc[u].pc \in {"next", "cas"}
      PROVE  Shielded(loc[u].cur, <<u, "pop">>, q)'
             \/ loc'[u].cur # loc[u].cur
  <2>1. loc[u].cur \in Nodes /\ slot[<<u, "pop">>] = loc[u].cur
    <3>1. LinksOK(u)  BY InvFacts, Zenon DEF LocalsOK
    <3>2. loc[u].cur \in NodeOrNull  BY <1>0, LocalTypes
    <3>3. QED  BY <1>4, <3>1, <3>2 DEF LinksOK, NodeOrNull
  <2>2. <<u, "pop">> \in Slots  BY DEF Slots
  <2>3. Shielded(loc[u].cur, <<u, "pop">>, p)  BY <1>4, Zenon DEF HazardsOK
  <2>4. QED  BY <1>2, <2>1, <2>2, <2>3, Zenon DEF Shielded
<1>5. ASSUME NEW u \in Threads, Reading(u) # Null, Reading(u)' = Reading(u)
      PROVE  Shielded(Reading(u), <<u, "read">>, q)' /\ Kept(Reading(u), q)'
  <2>1. <<u, "read">> \in Slots  BY DEF Slots
  <2>2. Reading(u) \in Nodes /\ slot[<<u, "read">>] = Reading(u)
    BY <1>0, <1>5, <2>1 DEF Reading, TypeOK, NodeOrNull
  <2>3. Shielded(Reading(u), <<u, "read">>, p) /\ Kept(Reading(u), p)
    BY <1>5, Zenon DEF HazardsOK
  <2>4. Shielded(Reading(u), <<u, "read">>, q)' /\ Kept(Reading(u), q)'
    BY <1>2, <1>3, <1>5, <2>1, <2>2, <2>3, Zenon DEF Shielded, Kept
  <2>5. QED  BY <2>4
<1>6. ASSUME NEW u \in Threads \ {t} PROVE Reading(u)' = Reading(u)
  <2>1. slot'[<<u, "read">>] = slot[<<u, "read">>]
    <3>1. CASE UNCHANGED slot  BY <3>1
    <3>2. ASSUME NEW k \in {"read", "pop"}, NEW v \in NodeOrNull, slot' = [slot EXCEPT ![<<t, k>>] = v]
          PROVE  slot'[<<u, "read">>] = slot[<<u, "read">>]
      <4>1. <<u, "read">> # <<t, k>> /\ <<u, "read">> \in Slots  BY DEF Slots
      <4>2. QED  BY <1>0, <3>2, <4>1 DEF TypeOK
    <3>3. QED  BY <3>1, <3>2, SlotStep, Zenon
  <2>2. QED  BY <1>0, <2>1, Zenon DEF Reading, At
<1>7. ASSUME NEW u \in Threads
      PROVE  /\ loc'[u].pc \in {"next", "cas"} => Shielded(loc[u].cur, <<u, "pop">>, q)'
             /\ Reading(u)' # Null =>
                  Shielded(Reading(u), <<u, "read">>, q)' /\ Kept(Reading(u), q)'
  <2>1. CASE u = t
    <3>1. loc'[t].pc \in {"next", "cas"} => Shielded(loc[t].cur, <<t, "pop">>, q)'
      BY <1>4, Zenon DEF NewHazards
    <3>2. Reading(t)' # Null => Shielded(Reading(t), <<t, "read">>, q)' /\ Kept(Reading(t), q)'
      BY <1>5, Zenon DEF NewHazards
    <3>3. QED  BY <2>1, <3>1, <3>2
  <2>2. CASE u # t
    <3>1. loc'[u] = loc[u] /\ Reading(u)' = Reading(u)  BY <1>0, <1>6, <2>2
    <3>2. loc'[u].pc \in {"next", "cas"} => Shielded(loc[u].cur, <<u, "pop">>, q)'
      BY <1>4, <3>1, Zenon
    <3>3. QED  BY <1>5, <3>1, <3>2, Zenon
  <2>3. QED  BY <2>1, <2>2
<1>8. QED  BY <1>7, Zenon DEF HazardsOK

LEMMA Changed ==
  ASSUME NEW A, NEW B, NEW f \in [A -> B], NEW x, NEW v \in B
  PROVE  [f EXCEPT ![x] = v] \in [A -> B]
  BY Zenon

\* A step that keeps what it should keeps the invariant.
LEMMA Kept_Inv ==
  ASSUME Inv, NEW t \in Threads, Step(t), NEW d \in Seq(Nodes), NEW q \in [Nodes -> Places],
         InvOf(d, q)', NodesOK(loc[t])', ListsOK(t)', LinksOK(t)'
  PROVE  Inv'
<1>1. TypeOK  BY InvFacts
<1>2. TypeOK'
  <2>1. loc' \in [Threads -> Locals]
    <3>1. PICK l \in Locals : loc' = [loc EXCEPT ![t] = l]  BY LocStep
    <3>2. QED  BY <1>1, <3>1 DEF TypeOK
  <2>2. free' \in [Threads -> Seq(Nodes)]
    <3>1. PICK f \in Lists : free' = [free EXCEPT ![t] = f]  BY FreeStep
    <3>2. QED  BY <1>1, <3>1 DEF TypeOK, Lists
  <2>3. held' \in [Threads -> Seq(Nodes)]
    <3>1. PICK h \in Lists : held' = [held EXCEPT ![t] = h]  BY HeldStep
    <3>2. QED  BY <1>1, <3>1 DEF TypeOK, Lists
  <2>4. gfree' \in Seq(Nodes) /\ gheld' \in Seq(Nodes) /\ owner' \in [Locks -> Threads \cup {Null}]
    BY SharedStep DEF Lists
  <2>5. slot' \in [Slots -> NodeOrNull]
    <3>1. CASE UNCHANGED slot  BY <1>1, <3>1 DEF TypeOK
    <3>2. ASSUME NEW k \in {"read", "pop"}, NEW v \in NodeOrNull, slot' = [slot EXCEPT ![<<t, k>>] = v]
          PROVE  slot' \in [Slots -> NodeOrNull]
      <4>1. slot \in [Slots -> NodeOrNull]  BY <1>1 DEF TypeOK
      <4>2. QED  BY <3>2, <4>1, Changed, Zenon
    <3>3. QED  BY <3>1, <3>2, SlotStep, Zenon
  <2>6. link' \in [Nodes -> NodeOrNull]
    <3>1. loc[t].nxt \in NodeOrNull  BY <1>1, LocalTypes
    <3>2. link \in [Nodes -> NodeOrNull]  BY <1>1 DEF TypeOK
    <3>3. QED  BY <3>1, <3>2, Changed, LinkStep, Zenon
  <2>7. inUse' \subseteq Nodes /\ allocated' \subseteq Nodes /\ calls' \in [Threads -> Seq(CallNames)]
    BY SetsStep
  <2>8. head' \in NodeOrNull
    <3>1. head' = IF d = <<>> THEN Null ELSE d[1]  BY Zenon DEF InvOf, ChainIs
    <3>2. QED  BY <3>1 DEF NodeOrNull
  <2>9. QED  BY <2>1, <2>2, <2>3, <2>4, <2>5, <2>6, <2>7, <2>8, Zenon DEF TypeOK
<1>3. LocalsOK'
  <2>1. ASSUME NEW u \in Threads PROVE NodesOK(loc[u])' /\ ListsOK(u)' /\ LinksOK(u)'
    <3>1. CASE u = t  BY <3>1
    <3>2. CASE u # t  BY <3>2, OthersStep
    <3>3. QED  BY <3>1, <3>2
  <2>2. QED  BY <2>1, Zenon DEF LocalsOK
<1>4. QED  BY <1>2, <1>3, Zenon DEF Inv

LEMMA Finish ==
  ASSUME Inv, NEW t \in Threads, Step(t), NEW c, NEW d \in Seq(Nodes), NEW p, NEW q, NEW K,
         InvOf(c, p), Moved(t, K, p, q), Follow(t, K, c, d, q), Safe(t, p, q), NewHazards(t, q),
         ChainIs(d)', NodesOK(loc[t])', ListsOK(t)', LinksOK(t)'
  PROVE  Inv'
<1>1. q \in [Nodes -> Places] /\ Arranged(c, p) /\ HazardsOK(p)  BY Zenon DEF Moved, InvOf
<1>2. Arranged(d, q)'  BY <1>1, Arrange, Zenon
<1>3. HazardsOK(q)'  BY <1>1, Hazards, Zenon
<1>4. InvOf(d, q)'  BY <1>2, <1>3, Zenon DEF InvOf
<1>5. QED  BY <1>1, <1>4, Kept_Inv, Zenon

\* Of these, there is less to show when hazard pointers and the lock-free list
\* stay as they are, ...
LEMMA Settle ==
  ASSUME Inv, NEW t \in Threads, Step(t), NEW c \in Seq(Nodes), NEW p, NEW q, NEW K,
         InvOf(c, p), Moved(t, K, p, q), Follow(t, K, c, c, q), Safe(t, p, q),
         UNCHANGED <<head, link, slot>>, loc[t].pc # "readVerify",
         loc'[t].pc \notin {"outCas", "verify", "next", "cas", "readVerify"},
         NodesOK(loc[t])', ListsOK(t)'
  PROVE  Inv'
<1>1. ChainIs(c)'  BY Zenon DEF ChainIs, InvOf
<1>2. LinksOK(t)'  BY DEF LinksOK, At
<1>3. Reading(t)' = Reading(t)  BY DEF Reading, At
<1>4. NewHazards(t, q)
  <2>1. loc'[t].pc \notin {"next", "cas"}  OBVIOUS
  <2>2. QED  BY <1>3, <2>1, Zenon DEF NewHazards
<1>5. QED  BY <1>1, <1>2, <1>4, Finish, Zenon

\* ... or when all nodes stay where they are.
LEMMA Quiet ==
  ASSUME Inv, NEW t \in Threads, Step(t),
         UNCHANGED <<free, held, gfree, gheld, inUse, allocated>>,
         loc'[t].tmp = loc[t].tmp, loc'[t].still = loc[t].still, loc'[t].out = loc[t].out,
         loc'[t].node = loc[t].node,
         \A s \in loc[t].unseen : slot[s] \in ToSet(loc[t].tmp) => s \in loc'[t].unseen,
         At(t, "scan") => loc'[t].pc = "scan" \/ loc[t].node = Null,
         \A c \in Seq(Nodes), p \in [Nodes -> Places] :
           InvOf(c, p) => ChainIs(c)' /\ NewHazards(t, p),
         NodesOK(loc[t])', ListsOK(t)', LinksOK(t)'
  PROVE  Inv'
<1>1. PICK c \in Seq(Nodes), p \in [Nodes -> Places] : InvOf(c, p)  BY InvFacts
<1>2. Moved(t, {}, p, p)  BY Zenon DEF Moved
<1>3. Follow(t, {}, c, c, p)  BY Zenon DEF Follow, Follows
<1>4. /\ IsAt(loc[t].tmp, <<"tmp", t>>, p)
      /\ \A n \in Nodes : n = loc[t].node <=> p[n] = <<"node", t>>
  BY <1>1, Zenon DEF InvOf, Arranged
<1>5. Safe(t, p, p)
  <2>1. \A n \in Nodes : p[n] \in Open(t) => Clear(n, t, p)  BY Zenon DEF Clear
  <2>2. ASSUME NEW n \in Nodes, p[n] = <<"tmp", t>>, NEW s \in loc[t].unseen, slot[s] = n
        PROVE  s \in loc'[t].unseen
    BY <1>4, <2>2, Zenon DEF IsAt
  <2>3. ASSUME NEW n \in Nodes, p[n] = <<"node", t>>, loc'[t].pc # "scan" PROVE Popped(n, t, p)
    <3>1. n = loc[t].node /\ n # Null  BY <1>4, <2>3, PoolAssumption, Zenon
    <3>2. QED  BY <2>3, <3>1, Zenon DEF Popped
  <2>4. QED  BY <2>1, <2>2, <2>3, Zenon DEF Safe, Popped
<1>6. ChainIs(c)' /\ NewHazards(t, p)  BY <1>1
<1>7. QED  BY <1>1, <1>2, <1>3, <1>5, <1>6, Finish, Zenon

\* A thread that has given up the lock, or has not had it, may be idle.
LEMMA Idles ==
  ASSUME NEW t \in Threads, loc'[t] = Idle, owner'["free"] # t
  PROVE  NodesOK(loc[t])' /\ ListsOK(t)' /\ LinksOK(t)'
  BY DEF NodesOK, ListsOK, LinksOK, ScansFor, Idle, At, OutPoints

LEMMA Quieter ==
  ASSUME Inv, NEW t \in Threads, Step(t),
         UNCHANGED <<head, link, slot, lists, inUse, allocated>>,
         loc'[t].tmp = loc[t].tmp, loc'[t].still = loc[t].still, loc'[t].out = loc[t].out,
         loc'[t].node = loc[t].node,
         \A s \in loc[t].unseen : slot[s] \in ToSet(loc[t].tmp) => s \in loc'[t].unseen,
         At(t, "scan") => loc'[t].pc = "scan" \/ loc[t].node = Null,
         loc[t].pc # "readVerify",
         loc'[t].pc \notin {"outCas", "verify", "next", "cas", "readVerify"},
         NodesOK(loc[t])', ListsOK(t)'
  PROVE  Inv'
<1>1. LinksOK(t)'  BY DEF LinksOK, At
<1>2. Reading(t)' = Reading(t)  BY DEF Reading, At
<1>3. loc'[t].pc \notin {"next", "cas"}  OBVIOUS
<1>4. ASSUME NEW c \in Seq(Nodes), NEW p \in [Nodes -> Places], InvOf(c, p)
      PROVE  ChainIs(c)' /\ NewHazards(t, p)
  BY <1>2, <1>3, <1>4, Zenon DEF ChainIs, InvOf, NewHazards
<1>5. UNCHANGED <<free, held, gfree, gheld, inUse, allocated>>  BY DEF lists
<1>6. QED  BY <1>1, <1>4, <1>5, Quiet, Zenon

\* The locals after a step to a control point, and after the end of a call
LEMMA GotoFields ==
  ASSUME TypeOK, NEW t \in Threads, NEW x, Goto(t, x)
  PROVE  /\ loc'[t].pc = x
         /\ loc'[t].node = loc[t].node /\ loc'[t].cur = loc[t].cur /\ loc'[t].nxt = loc[t].nxt
         /\ loc'[t].tmp = loc[t].tmp /\ loc'[t].still = loc[t].still /\ loc'[t].out = loc[t].out
         /\ loc'[t].unseen = loc[t].unseen /\ loc'[t].then = loc[t].then
         /\ loc'[t].call = loc[t].call
<1>1. loc[t] \in Locals  BY LocalTypes
<1>2. loc' = [loc EXCEPT ![t] = [loc[t] EXCEPT !.pc = x]]  BY Zenon DEF Goto, Become
<1>3. loc'[t] = [loc[t] EXCEPT !.pc = x]  BY <1>2 DEF TypeOK
<1>4. QED  BY <1>1, <1>3 DEF Locals

LEMMA BecomeFields ==
  ASSUME TypeOK, NEW t \in Threads, NEW r, Become(t, r)
  PROVE  loc'[t] = r
<1>1. loc' = [loc EXCEPT ![t] = r]  BY Zenon DEF Become
<1>2. QED  BY <1>1 DEF TypeOK

\* What the invariant says of a thread's own locals.
LEMMA OwnFacts ==
  ASSUME Inv, NEW t \in Threads
  PROVE  /\ TypeOK /\ NodesOK(loc[t]) /\ ListsOK(t) /\ LinksOK(t) /\ loc[t] \in Locals
         /\ Null \notin Nodes /\ Null \notin Threads /\ t # Null
  BY InvFacts, LocalTypes, Zenon DEF LocalsOK

\* Where a call has no nodes.
Bare ==
  {"popLock", "load", "store", "verify", "next", "cas", "popHeld", "popHeldLock", "none",
   "clearLock", "clearHeldLock", "readStore", "readVerify"}

LEMMA BareFacts ==
  ASSUME NEW l, NodesOK(l), l.pc \in Bare \cup {"idle"}
  PROVE  l.tmp = <<>> /\ l.still = <<>> /\ l.out = <<>> /\ l.node = Null
<1>1. CASE l.pc \in Bare
  <2>1. l.pc \notin {"scan", "pushLock", "drop", "got"} \cup OutPoints  BY <1>1 DEF Bare, OutPoints
  <2>2. ~ ScansFor(l, {"stock"})  BY <2>1 DEF ScansFor
  <2>3. QED  BY <2>1, <2>2 DEF NodesOK
<1>2. CASE l.pc = "idle"  BY <1>2 DEF NodesOK, Idle
<1>3. QED  BY <1>1, <1>2

LEMMA BareOK ==
  ASSUME NEW l, l.pc \in Bare, l.tmp = <<>>, l.still = <<>>, l.out = <<>>, l.node = Null
  PROVE  NodesOK(l)
<1>1. l.pc \notin {"idle", "scan", "pushLock", "drop", "got"} \cup OutPoints  BY DEF Bare, OutPoints
<1>2. \A whom : ~ ScansFor(l, whom)  BY <1>1 DEF ScansFor
<1>3. QED  BY <1>1, <1>2 DEF NodesOK

LEMMA HasOK ==
  ASSUME NEW l, l.pc \in {"drop", "got"}, l.tmp = <<>>, l.still = <<>>, l.out = <<>>, l.node # Null
  PROVE  NodesOK(l)
<1>1. l.pc \notin {"idle", "scan", "pushLock"} \cup OutPoints  BY DEF OutPoints
<1>2. \A whom : ~ ScansFor(l, whom)  BY <1>1 DEF ScansFor
<1>3. QED  BY <1>1, <1>2 DEF NodesOK

LEMMA OutOK ==
  ASSUME NEW l, l.pc \in OutPoints, l.tmp = <<>>, l.still = <<>>, l.out # <<>>
  PROVE  NodesOK(l)
<1>1. l.pc \notin {"idle", "scan", "pushLock", "drop", "got"}  BY DEF OutPoints
<1>2. \A whom : ~ ScansFor(l, whom)  BY <1>1 DEF ScansFor
<1>3. QED  BY <1>1, <1>2 DEF NodesOK

\* Where a thread puts nodes on the lock-free list
LEMMA OutFacts ==
  ASSUME Inv, NEW t \in Threads, loc[t].pc \in OutPoints
  PROVE  /\ loc[t].tmp = <<>> /\ loc[t].still = <<>> /\ loc[t].out # <<>>
         /\ owner["free"] = t <=> loc[t].node # Null
         /\ loc[t].out[1] \in Nodes /\ loc[t].out[1] \in ToSet(loc[t].out)
         /\ loc[t].pc # "scan" /\ loc[t].pc # "readVerify"
<1>1. NodesOK(loc[t]) /\ ListsOK(t)  BY OwnFacts
<1>2. loc[t].pc \notin {"scan", "pushLock", "readVerify"}  BY DEF OutPoints
<1>3. loc[t].tmp = <<>> /\ loc[t].still = <<>> /\ loc[t].out # <<>>  BY <1>1, <1>2 DEF NodesOK
<1>4. Good(loc[t].out)  BY InvFacts
<1>5. QED  BY <1>1, <1>2, <1>3, <1>4, Rest DEF ListsOK

LEMMA BareStep ==
  ASSUME Inv, NEW t \in Threads, loc[t].pc \in Bare \cup {"idle"}, loc'[t].pc \in Bare,
         loc'[t].tmp = loc[t].tmp, loc'[t].still = loc[t].still, loc'[t].out = loc[t].out,
         loc'[t].node = loc[t].node, UNCHANGED owner
  PROVE  /\ NodesOK(loc[t])' /\ ListsOK(t)'
         /\ loc[t].tmp = <<>> /\ loc[t].still = <<>> /\ loc[t].out = <<>> /\ loc[t].node = Null
         /\ ~ At(t, "scan") /\ \A n : n \notin ToSet(loc[t].tmp)
<1>1. loc[t].tmp = <<>> /\ loc[t].still = <<>> /\ loc[t].out = <<>> /\ loc[t].node = Null
  BY OwnFacts, BareFacts
<1>2. NodesOK(loc'[t])  BY <1>1, BareOK
<1>3. NodesOK(loc[t])'  BY <1>2, Zenon DEF NodesOK, ScansFor
<1>4. loc'[t].pc \notin {"scan"} \cup OutPoints /\ loc[t].pc \notin {"scan"} \cup OutPoints
  BY DEF Bare, OutPoints
<1>5. ListsOK(t)'
  <2>1. ListsOK(t)  BY OwnFacts
  <2>2. QED  BY <1>4, <2>1 DEF ListsOK, ScansFor
<1>6. QED  BY <1>1, <1>3, <1>4, <1>5, NoNodes DEF At

-----------------------------------------------------------------------------
(* The steps of the calls, one by one: those that move no node first.      *)

LEMMA GotoSteps ==
  ASSUME Inv, NEW t \in Threads,
         PopUnlocked(t) \/ PopNothing(t) \/ ClearUnlocked(t)
  PROVE  Inv'
<1>0. Step(t)  BY Zenon DEF Step
<1>1. \E x \in {"load", "none", "clearHeldLock"} :
        Goto(t, x) /\ loc[t].pc \in {"popLock", "popHeldLock", "clearLock"}
        /\ UNCHANGED <<head, link, slot, lists, owner, inUse, allocated, calls>>
  <2>1. CASE PopUnlocked(t)  BY <2>1 DEF PopUnlocked, At
  <2>2. CASE PopNothing(t)  BY <2>2 DEF PopNothing, At
  <2>3. CASE ClearUnlocked(t)  BY <2>3 DEF ClearUnlocked, At
  <2>4. QED  BY <2>1, <2>2, <2>3
<1>2. PICK x \in {"load", "none", "clearHeldLock"} :
        Goto(t, x) /\ loc[t].pc \in {"popLock", "popHeldLock", "clearLock"}
        /\ UNCHANGED <<head, link, slot, lists, owner, inUse, allocated, calls>>
  BY <1>1
<1>3. /\ loc'[t].pc = x
      /\ loc'[t].node = loc[t].node /\ loc'[t].cur = loc[t].cur /\ loc'[t].nxt = loc[t].nxt
      /\ loc'[t].tmp = loc[t].tmp /\ loc'[t].still = loc[t].still /\ loc'[t].out = loc[t].out
      /\ loc'[t].unseen = loc[t].unseen /\ loc'[t].then = loc[t].then
  BY <1>2, GotoFields, OwnFacts
<1>4. loc[t].pc \in Bare /\ loc'[t].pc \in Bare  BY <1>2, <1>3 DEF Bare
<1>5. NodesOK(loc[t])' /\ ListsOK(t)' /\ ~ At(t, "scan") /\ \A n : n \notin ToSet(loc[t].tmp)
  BY <1>2, <1>3, <1>4, BareStep, Zenon
<1>6. /\ loc[t].pc # "readVerify"
      /\ loc'[t].pc \notin {"outCas", "verify", "next", "cas", "readVerify"}
  BY <1>2, <1>3
<1>7. QED  BY <1>0, <1>2, <1>3, <1>5, <1>6, Quieter, Zenon

LEMMA LoadStep == ASSUME Inv, NEW t \in Threads, Load(t) PROVE Inv'
<1>0. Step(t)  BY Zenon DEF Step
<1>1. /\ loc[t].pc = "load" /\ Become(t, [loc[t] EXCEPT !.pc = "store", !.cur = head])
      /\ UNCHANGED <<head, link, slot, lists, owner, inUse, allocated, calls>>
  BY Zenon DEF Load, At
<1>2. loc'[t] = [loc[t] EXCEPT !.pc = "store", !.cur = head]  BY <1>1, BecomeFields, OwnFacts
<1>3. /\ loc'[t].pc = "store" /\ loc'[t].node = loc[t].node /\ loc'[t].unseen = loc[t].unseen
      /\ loc'[t].tmp = loc[t].tmp /\ loc'[t].still = loc[t].still /\ loc'[t].out = loc[t].out
  BY <1>2, OwnFacts DEF Locals
<1>4. loc[t].pc \in Bare /\ loc'[t].pc \in Bare  BY <1>1, <1>3 DEF Bare
<1>5. NodesOK(loc[t])' /\ ListsOK(t)' /\ ~ At(t, "scan") /\ \A n : n \notin ToSet(loc[t].tmp)
  BY <1>1, <1>3, <1>4, BareStep, Zenon
<1>6. /\ loc[t].pc # "readVerify"
      /\ loc'[t].pc \notin {"outCas", "verify", "next", "cas", "readVerify"}
  BY <1>1, <1>3
<1>7. QED  BY <1>0, <1>1, <1>3, <1>5, <1>6, Quieter, Zenon

\* The call is over, and the thread has had no node in it.
LEMMA ReturnSteps ==
  ASSUME Inv, NEW t \in Threads, NoNew(t) \/ ClearHeldUnlocked(t)
  PROVE  Inv'
<1>0. Step(t)  BY Zenon DEF Step
<1>1. /\ loc[t].pc = "none" \/ loc[t].pc = "clearHeldLock"
      /\ UNCHANGED <<head, link, slot, lists, owner, inUse, allocated, calls>>
      /\ Become(t, Idle)
  BY Zenon DEF NoNew, ClearHeldUnlocked, At, Return
<1>2. loc'[t] = Idle  BY <1>1, BecomeFields, OwnFacts
<1>3. loc[t].pc \in Bare  BY <1>1 DEF Bare
<1>4. loc[t].tmp = <<>> /\ loc[t].still = <<>> /\ loc[t].out = <<>> /\ loc[t].node = Null
  BY <1>3, BareFacts, OwnFacts
<1>5. /\ loc'[t].tmp = loc[t].tmp /\ loc'[t].still = loc[t].still /\ loc'[t].out = loc[t].out
      /\ loc'[t].node = loc[t].node /\ loc'[t].pc = "idle"
  BY <1>2, <1>4 DEF Idle
<1>6. owner'["free"] # t
  <2>1. owner["free"] # t  BY <1>1, OwnFacts DEF ListsOK, OutPoints
  <2>2. QED  BY <1>1, <2>1
<1>7. NodesOK(loc[t])' /\ ListsOK(t)'  BY <1>2, <1>6, Idles
<1>8. /\ loc[t].pc # "readVerify" /\ loc[t].pc # "scan"
      /\ loc'[t].pc \notin {"outCas", "verify", "next", "cas", "readVerify"}
  BY <1>1, <1>5
<1>9. QED  BY <1>0, <1>1, <1>4, <1>5, <1>7, <1>8, NoNodes, Quieter, Zenon DEF At

LEMMA SkipStep == ASSUME Inv, NEW t \in Threads, Skip(t) PROVE Inv'
<1>0. Step(t)  BY Zenon DEF Step
<1>1. loc[t].pc = "idle" /\ UNCHANGED <<head, link, slot, lists, owner, inUse, allocated, loc>>
  BY Zenon DEF Skip, Begin, At
<1>2. NodesOK(loc[t])' /\ ListsOK(t)'
  BY <1>1, OwnFacts, Zenon DEF NodesOK, ListsOK, ScansFor, lists
<1>3. loc'[t] = loc[t]  BY <1>1
<1>4. /\ loc[t].pc # "readVerify" /\ loc[t].pc # "scan"
      /\ loc'[t].pc \notin {"outCas", "verify", "next", "cas", "readVerify"}
  BY <1>1
<1>5. loc[t].tmp = <<>>  BY <1>1, BareFacts, OwnFacts
<1>6. QED  BY <1>0, <1>1, <1>2, <1>3, <1>4, <1>5, NoNodes, Quieter, Zenon DEF At

LEMMA FindStep == ASSUME Inv, NEW t \in Threads, Find(t) PROVE Inv'
<1>0. Step(t)  BY Zenon DEF Step
<1>1. PICK n \in inUse : Become(t, [Idle EXCEPT !.pc = "readStore", !.cur = n])
  BY Zenon DEF Find
<1>2. /\ loc[t].pc = "idle" /\ UNCHANGED <<head, link, slot, lists, owner, inUse, allocated>>
  BY Zenon DEF Find, Begin, At
<1>3. loc'[t] = [Idle EXCEPT !.pc = "readStore", !.cur = n]  BY <1>1, BecomeFields, OwnFacts
<1>4. loc[t].tmp = <<>> /\ loc[t].still = <<>> /\ loc[t].out = <<>> /\ loc[t].node = Null
  BY <1>2, BareFacts, OwnFacts
<1>5. /\ loc'[t].pc = "readStore" /\ loc'[t].node = loc[t].node
      /\ loc'[t].tmp = loc[t].tmp /\ loc'[t].still = loc[t].still /\ loc'[t].out = loc[t].out
  BY <1>3, <1>4 DEF Idle
<1>6. loc[t].pc \in Bare \cup {"idle"} /\ loc'[t].pc \in Bare  BY <1>2, <1>5 DEF Bare
<1>7. NodesOK(loc[t])' /\ ListsOK(t)' /\ ~ At(t, "scan") /\ \A m : m \notin ToSet(loc[t].tmp)
  BY <1>2, <1>5, <1>6, BareStep, Zenon
<1>8. /\ loc[t].pc # "readVerify"
      /\ loc'[t].pc \notin {"outCas", "verify", "next", "cas", "readVerify"}
  BY <1>2, <1>5
<1>9. QED  BY <1>0, <1>2, <1>5, <1>7, <1>8, Quieter, Zenon

\* Slots change without a node's changing its place.
LEMMA SlotFields ==
  ASSUME TypeOK, NEW t \in Threads, NEW v
  PROVE  /\ slot' = [slot EXCEPT ![<<t, "pop">>] = v] =>
              slot'[<<t, "pop">>] = v /\ slot'[<<t, "read">>] = slot[<<t, "read">>]
         /\ slot' = [slot EXCEPT ![<<t, "read">>] = v] =>
              slot'[<<t, "read">>] = v /\ slot'[<<t, "pop">>] = slot[<<t, "pop">>]
<1>1. <<t, "pop">> \in Slots /\ <<t, "read">> \in Slots /\ <<t, "pop">> # <<t, "read">>
  BY DEF Slots
<1>2. QED  BY <1>1 DEF TypeOK

LEMMA StoreStep == ASSUME Inv, NEW t \in Threads, Store(t) PROVE Inv'
<1>0. Step(t)  BY Zenon DEF Step
<1>1. /\ loc[t].pc = "store" /\ Goto(t, "verify")
      /\ slot' = [slot EXCEPT ![<<t, "pop">>] = loc[t].cur]
      /\ UNCHANGED <<head, link, lists, owner, inUse, allocated>>
  BY Zenon DEF Store, At
<1>2. /\ loc'[t].pc = "verify"
      /\ loc'[t].node = loc[t].node /\ loc'[t].cur = loc[t].cur
      /\ loc'[t].tmp = loc[t].tmp /\ loc'[t].still = loc[t].still /\ loc'[t].out = loc[t].out
  BY <1>1, GotoFields, OwnFacts
<1>3. slot'[<<t, "pop">>] = loc[t].cur /\ slot'[<<t, "read">>] = slot[<<t, "read">>]
  BY <1>1, SlotFields, OwnFacts, Zenon
<1>4. loc[t].pc \in Bare /\ loc'[t].pc \in Bare  BY <1>1, <1>2 DEF Bare
<1>5. NodesOK(loc[t])' /\ ListsOK(t)' /\ ~ At(t, "scan") /\ \A n : n \notin ToSet(loc[t].tmp)
  BY <1>1, <1>2, <1>4, BareStep, Zenon
<1>6. LinksOK(t)'  BY <1>2, <1>3 DEF LinksOK, At
<1>7. Reading(t)' = Reading(t)  BY <1>1, <1>2, <1>3 DEF Reading, At
<1>8. loc'[t].pc \notin {"next", "cas"}  BY <1>2
<1>9. ASSUME NEW c \in Seq(Nodes), NEW p \in [Nodes -> Places], InvOf(c, p)
      PROVE  ChainIs(c)' /\ NewHazards(t, p)
  BY <1>1, <1>7, <1>8, <1>9, Zenon DEF ChainIs, InvOf, NewHazards
<1>10. UNCHANGED <<free, held, gfree, gheld, inUse, allocated>>  BY <1>1 DEF lists
<1>11. QED  BY <1>0, <1>2, <1>5, <1>6, <1>9, <1>10, Quiet, Zenon

LEMMA ProtectStep == ASSUME Inv, NEW t \in Threads, Protect(t) PROVE Inv'
<1>0. Step(t)  BY Zenon DEF Step
<1>1. /\ loc[t].pc = "readStore" /\ Goto(t, "readVerify")
      /\ slot' = [slot EXCEPT ![<<t, "read">>] = loc[t].cur]
      /\ UNCHANGED <<head, link, lists, owner, inUse, allocated>>
  BY Zenon DEF Protect, At
<1>2. /\ loc'[t].pc = "readVerify"
      /\ loc'[t].node = loc[t].node /\ loc'[t].cur = loc[t].cur
      /\ loc'[t].tmp = loc[t].tmp /\ loc'[t].still = loc[t].still /\ loc'[t].out = loc[t].out
  BY <1>1, GotoFields, OwnFacts
<1>3. slot'[<<t, "read">>] = loc[t].cur /\ slot'[<<t, "pop">>] = slot[<<t, "pop">>]
  BY <1>1, SlotFields, OwnFacts, Zenon
<1>4. loc[t].pc \in Bare /\ loc'[t].pc \in Bare  BY <1>1, <1>2 DEF Bare
<1>5. NodesOK(loc[t])' /\ ListsOK(t)' /\ ~ At(t, "scan") /\ \A n : n \notin ToSet(loc[t].tmp)
  BY <1>1, <1>2, <1>4, BareStep, Zenon
<1>6. LinksOK(t)'  BY <1>2, <1>3 DEF LinksOK, At
<1>7. Reading(t)' = Null  BY <1>2 DEF Reading, At
<1>8. loc'[t].pc \notin {"next", "cas"}  BY <1>2
<1>9. ASSUME NEW c \in Seq(Nodes), NEW p \in [Nodes -> Places], InvOf(c, p)
      PROVE  ChainIs(c)' /\ NewHazards(t, p)
  BY <1>1, <1>7, <1>8, <1>9, Zenon DEF ChainIs, InvOf, NewHazards
<1>10. UNCHANGED <<free, held, gfree, gheld, inUse, allocated>>  BY <1>1 DEF lists
<1>11. QED  BY <1>0, <1>2, <1>5, <1>6, <1>9, <1>10, Quiet, Zenon

\* A node that is in use once its hazard pointer is stored is in no list, and
\* every scan that has it later sees the slot.
LEMMA ReadVerifyStep == ASSUME Inv, NEW t \in Threads, ReadVerify(t) PROVE Inv'
<1>0. Step(t)  BY Zenon DEF Step
<1>1. /\ loc[t].pc = "readVerify" /\ Become(t, Idle)
      /\ slot' = [slot EXCEPT ![<<t, "read">>] = IF loc[t].cur \in inUse THEN @ ELSE Null]
      /\ UNCHANGED <<head, link, lists, owner, inUse, allocated>>
  BY Zenon DEF ReadVerify, At, Return
<1>2. loc'[t] = Idle  BY <1>1, BecomeFields, OwnFacts
<1>3. slot'[<<t, "read">>] = IF loc[t].cur \in inUse THEN loc[t].cur ELSE Null
  <2>1. slot[<<t, "read">>] = loc[t].cur
    <3>1. LinksOK(t)  BY OwnFacts
    <3>2. QED  BY <1>1, <3>1, Zenon DEF LinksOK, At
  <2>2. PICK v : /\ v = IF loc[t].cur \in inUse THEN loc[t].cur ELSE Null
                 /\ slot' = [slot EXCEPT ![<<t, "read">>] = v]
    <3>1. slot' = [slot EXCEPT ![<<t, "read">>] =
                     IF loc[t].cur \in inUse THEN slot[<<t, "read">>] ELSE Null]
      BY <1>1
    <3>2. QED  BY <2>1, <3>1, Zenon
  <2>3. slot'[<<t, "read">>] = v
    <3>1. TypeOK /\ slot' = [slot EXCEPT ![<<t, "read">>] = v]  BY <2>2, OwnFacts
    <3>2. QED  BY <3>1, SlotFields, Zenon
  <2>4. QED  BY <2>2, <2>3
<1>4. loc[t].tmp = <<>> /\ loc[t].still = <<>> /\ loc[t].out = <<>> /\ loc[t].node = Null
  <2>1. loc[t].pc \in Bare  BY <1>1 DEF Bare
  <2>2. QED  BY <2>1, BareFacts, OwnFacts
<1>5. /\ loc'[t].tmp = loc[t].tmp /\ loc'[t].still = loc[t].still /\ loc'[t].out = loc[t].out
      /\ loc'[t].node = loc[t].node /\ loc'[t].pc = "idle"
  BY <1>2, <1>4 DEF Idle
<1>6. owner'["free"] # t
  <2>1. owner["free"] # t  BY <1>1, OwnFacts DEF ListsOK, OutPoints
  <2>2. QED  BY <1>1, <2>1
<1>7. NodesOK(loc[t])' /\ ListsOK(t)' /\ LinksOK(t)'  BY <1>2, <1>6, Idles
<1>8. ASSUME NEW c \in Seq(Nodes), NEW p \in [Nodes -> Places], InvOf(c, p)
      PROVE  ChainIs(c)' /\ NewHazards(t, p)
  <2>1. ChainIs(c)'  BY <1>1, <1>8, Zenon DEF ChainIs, InvOf
  <2>2. loc'[t].pc \notin {"next", "cas"}  BY <1>5
  <2>3. Reading(t)' = IF loc[t].cur \in inUse THEN loc[t].cur ELSE Null
    BY <1>3, <1>5 DEF Reading, At
  <2>4. ASSUME NEW n \in inUse
        PROVE  Shielded(n, <<t, "read">>, p)' /\ Kept(n, p)'
    <3>1. n \in Nodes  BY <2>4, OwnFacts DEF TypeOK
    <3>2. p[n] = <<"inUse", Null>>  BY <1>8, <3>1, Zenon DEF InvOf, Arranged
    <3>3. /\ p[n] # <<"gfree", Null>> /\ p[n] # <<"unused", Null>> /\ p[n] # <<"lockFree", Null>>
          /\ \A u : /\ p[n] # <<"free", u>> /\ p[n] # <<"out", u>> /\ p[n] # <<"tmp", u>>
                    /\ p[n] # <<"node", u>>
      BY <3>2
    <3>4. QED  BY <3>3, Zenon DEF Shielded, Kept
  <2>5. Reading(t)' # Null => Shielded(Reading(t), <<t, "read">>, p)' /\ Kept(Reading(t), p)'
    <3>1. SUFFICES ASSUME Reading(t)' # Null
                   PROVE  Shielded(Reading(t), <<t, "read">>, p)' /\ Kept(Reading(t), p)'
      OBVIOUS
    <3>2. Reading(t)' \in inUse  BY <2>3, <3>1, Zenon
    <3>3. PICK n \in inUse : Reading(t)' = n  BY <3>2, Zenon
    <3>4. Shielded(n, <<t, "read">>, p)' /\ Kept(n, p)'  BY <2>4
    <3>5. QED  BY <3>3, <3>4, Zenon DEF Shielded, Kept
  <2>6. QED  BY <2>1, <2>2, <2>5, Zenon DEF NewHazards
<1>9. loc[t].pc # "scan"  BY <1>1
<1>10. UNCHANGED <<free, held, gfree, gheld, inUse, allocated>>  BY <1>1 DEF lists
<1>11. QED  BY <1>0, <1>4, <1>5, <1>7, <1>8, <1>9, <1>10, NoNodes, Quiet, Zenon DEF At

LEMMA LeaveStep == ASSUME Inv, NEW t \in Threads, Leave(t) PROVE Inv'
<1>0. Step(t)  BY Zenon DEF Step
<1>1. /\ loc[t].pc = "idle" /\ slot' = [slot EXCEPT ![<<t, "read">>] = Null]
      /\ UNCHANGED <<head, link, lists, owner, inUse, allocated, loc>>
  BY Zenon DEF Leave, Begin, At
<1>2. slot'[<<t, "read">>] = Null  BY <1>1, SlotFields, OwnFacts, Zenon
<1>3. loc[t].tmp = <<>>  BY <1>1, BareFacts, OwnFacts
<1>4. loc'[t] = loc[t]  BY <1>1
<1>5. NodesOK(loc[t])' /\ ListsOK(t)'
  BY <1>1, OwnFacts, Zenon DEF NodesOK, ListsOK, ScansFor, lists
<1>6. LinksOK(t)'  BY <1>1 DEF LinksOK, At
<1>7. Reading(t)' = Null  BY <1>2, Zenon DEF Reading
<1>8. loc'[t].pc \notin {"next", "cas"}  BY <1>1
<1>9. ASSUME NEW c \in Seq(Nodes), NEW p \in [Nodes -> Places], InvOf(c, p)
      PROVE  ChainIs(c)' /\ NewHazards(t, p)
  BY <1>1, <1>7, <1>8, <1>9, Zenon DEF ChainIs, InvOf, NewHazards
<1>10. UNCHANGED <<free, held, gfree, gheld, inUse, allocated>>  BY <1>1 DEF lists
<1>11. loc[t].pc # "scan"  BY <1>1
<1>12. QED  BY <1>0, <1>3, <1>4, <1>5, <1>6, <1>9, <1>10, <1>11, NoNodes, Quiet, Zenon DEF At

LEMMA DropStep == ASSUME Inv, NEW t \in Threads, Drop(t) PROVE Inv'
<1>0. Step(t)  BY Zenon DEF Step
<1>1. /\ loc[t].pc = "drop" /\ Goto(t, "got") /\ slot' = [slot EXCEPT ![<<t, "pop">>] = Null]
      /\ UNCHANGED <<head, link, lists, owner, inUse, allocated>>
  BY Zenon DEF Drop, At
<1>2. /\ loc'[t].pc = "got"
      /\ loc'[t].node = loc[t].node /\ loc'[t].cur = loc[t].cur
      /\ loc'[t].tmp = loc[t].tmp /\ loc'[t].still = loc[t].still /\ loc'[t].out = loc[t].out
  BY <1>1, GotoFields, OwnFacts
<1>3. slot'[<<t, "read">>] = slot[<<t, "read">>]  BY <1>1, SlotFields, OwnFacts, Zenon
<1>4. /\ loc[t].tmp = <<>> /\ loc[t].still = <<>> /\ loc[t].out = <<>> /\ loc[t].node # Null
      /\ owner["free"] # t
  <2>1. NodesOK(loc[t]) /\ ListsOK(t)  BY OwnFacts
  <2>2. loc[t].pc = "drop"  BY <1>1
  <2>3. QED  BY <2>1, <2>2 DEF NodesOK, ListsOK, ScansFor, OutPoints
<1>5. NodesOK(loc[t])'  BY <1>2, <1>4 DEF NodesOK, ScansFor, OutPoints
<1>6. ListsOK(t)'  BY <1>1, <1>2, <1>4 DEF ListsOK, ScansFor, OutPoints
<1>7. LinksOK(t)'  BY <1>2 DEF LinksOK, At
<1>8. Reading(t)' = Reading(t)  BY <1>1, <1>2, <1>3 DEF Reading, At
<1>9. loc'[t].pc \notin {"next", "cas"}  BY <1>2
<1>10. ASSUME NEW c \in Seq(Nodes), NEW p \in [Nodes -> Places], InvOf(c, p)
      PROVE  ChainIs(c)' /\ NewHazards(t, p)
  BY <1>1, <1>8, <1>9, <1>10, Zenon DEF ChainIs, InvOf, NewHazards
<1>11. UNCHANGED <<free, held, gfree, gheld, inUse, allocated>>  BY <1>1 DEF lists
<1>12. loc[t].pc # "scan"  BY <1>1
<1>13. QED
  BY <1>0, <1>2, <1>4, <1>5, <1>6, <1>7, <1>10, <1>11, <1>12, NoNodes, Quiet, Zenon DEF At

\* The head that the hazard pointer refers to is in the lock-free list when
\* verify_exchange finds it there again.
LEMMA VerifyStep == ASSUME Inv, NEW t \in Threads, Verify(t) PROVE Inv'
<1>0. Step(t)  BY Zenon DEF Step
<1>1. /\ loc[t].pc = "verify"
      /\ UNCHANGED <<head, link, slot, lists, owner, inUse, allocated>>
  BY Zenon DEF Verify, At
<1>2. \/ /\ head # loc[t].cur /\ Become(t, [loc[t] EXCEPT !.pc = "store", !.cur = head])
      \/ /\ head = loc[t].cur /\ head = Null /\ Goto(t, "popHeld")
      \/ /\ head = loc[t].cur /\ head # Null /\ Goto(t, "next")
  <2>1. CASE head # loc[t].cur  BY <2>1, Zenon DEF Verify
  <2>2. CASE head = loc[t].cur /\ head = Null
    <3>1. Goto(t, IF head = Null THEN "popHeld" ELSE "next")  BY <2>2, Zenon DEF Verify
    <3>2. (IF head = Null THEN "popHeld" ELSE "next") = "popHeld"  BY <2>2
    <3>3. QED  BY <2>2, <3>1, <3>2, Zenon
  <2>3. CASE head = loc[t].cur /\ head # Null
    <3>1. Goto(t, IF head = Null THEN "popHeld" ELSE "next")  BY <2>3, Zenon DEF Verify
    <3>2. (IF head = Null THEN "popHeld" ELSE "next") = "next"  BY <2>3
    <3>3. QED  BY <2>3, <3>1, <3>2, Zenon
  <2>4. QED  BY <2>1, <2>2, <2>3
<1>3. /\ loc'[t].pc \in {"store", "popHeld", "next"}
      /\ loc'[t].pc = "next" => loc'[t].cur = loc[t].cur /\ head = loc[t].cur /\ head # Null
      /\ loc'[t].node = loc[t].node
      /\ loc'[t].tmp = loc[t].tmp /\ loc'[t].still = loc[t].still /\ loc'[t].out = loc[t].out
  <2>1. CASE Become(t, [loc[t] EXCEPT !.pc = "store", !.cur = head])
    <3>1. loc'[t] = [loc[t] EXCEPT !.pc = "store", !.cur = head]
      BY <2>1, BecomeFields, OwnFacts, Zenon
    <3>2. QED  BY <3>1, OwnFacts DEF Locals
  <2>2. CASE Goto(t, "popHeld")  BY <2>2, GotoFields, OwnFacts
  <2>3. CASE head = loc[t].cur /\ head # Null /\ Goto(t, "next")  BY <2>3, GotoFields, OwnFacts
  <2>4. QED  BY <1>2, <2>1, <2>2, <2>3
<1>4. loc[t].pc \in Bare /\ loc'[t].pc \in Bare  BY <1>1, <1>3 DEF Bare
<1>5. NodesOK(loc[t])' /\ ListsOK(t)' /\ ~ At(t, "scan") /\ \A n : n \notin ToSet(loc[t].tmp)
  BY <1>1, <1>3, <1>4, BareStep, Zenon
<1>6. slot[<<t, "pop">>] = loc[t].cur
  <2>1. LinksOK(t) /\ loc[t].pc \in {"verify", "next", "cas"}  BY <1>1, OwnFacts
  <2>2. QED  BY <2>1, Zenon DEF LinksOK
<1>7. LinksOK(t)'  BY <1>1, <1>3, <1>6 DEF LinksOK, At
<1>8. Reading(t)' = Reading(t)  BY <1>1, <1>3 DEF Reading, At
<1>9. ASSUME NEW c \in Seq(Nodes), NEW p \in [Nodes -> Places], InvOf(c, p)
      PROVE  ChainIs(c)' /\ NewHazards(t, p)
  <2>1. ChainIs(c)'  BY <1>1, <1>9, Zenon DEF ChainIs, InvOf
  <2>2. ASSUME loc'[t].pc \in {"next", "cas"}
        PROVE  Shielded(loc[t].cur, <<t, "pop">>, p)' /\ loc'[t].cur = loc[t].cur
    <3>1. loc'[t].cur = loc[t].cur /\ head = loc[t].cur /\ head # Null  BY <1>3, <2>2
    <3>2. head = IF c = <<>> THEN Null ELSE c[1]  BY <1>9, Zenon DEF InvOf, ChainIs
    <3>3. c # <<>> /\ head = c[1]  BY <3>1, <3>2
    <3>4. IsAt(c, <<"lockFree", Null>>, p)  BY <1>9, Zenon DEF InvOf, Arranged
    <3>5. head \in Nodes /\ head \in ToSet(c)  BY <3>3, <3>4, Rest DEF IsAt, Good
    <3>6. p[loc[t].cur] = <<"lockFree", Null>>  BY <3>1, <3>4, <3>5, Zenon DEF IsAt
    <3>7. p[loc[t].cur] # <<"gfree", Null>>
          /\ \A u : /\ p[loc[t].cur] # <<"free", u>> /\ p[loc[t].cur] # <<"out", u>>
                    /\ p[loc[t].cur] # <<"tmp", u>>
      BY <3>6
    <3>8. QED  BY <3>1, <3>7, Zenon DEF Shielded
  <2>3. QED  BY <1>8, <2>1, <2>2, Zenon DEF NewHazards
<1>10. UNCHANGED <<free, held, gfree, gheld, inUse, allocated>>  BY <1>1 DEF lists
<1>11. QED  BY <1>0, <1>3, <1>5, <1>7, <1>9, <1>10, Quiet, Zenon

LEMMA ReadNextStep == ASSUME Inv, NEW t \in Threads, ReadNext(t) PROVE Inv'
<1>0. Step(t)  BY Zenon DEF Step
<1>1. /\ loc[t].pc = "next" /\ Become(t, [loc[t] EXCEPT !.pc = "cas", !.nxt = link[loc[t].cur]])
      /\ UNCHANGED <<head, link, slot, lists, owner, inUse, allocated>>
  BY Zenon DEF ReadNext, At
<1>2. loc'[t] = [loc[t] EXCEPT !.pc = "cas", !.nxt = link[loc[t].cur]]
  BY <1>1, BecomeFields, OwnFacts, Zenon
<1>3. /\ loc'[t].pc = "cas" /\ loc'[t].node = loc[t].node /\ loc'[t].cur = loc[t].cur
      /\ loc'[t].nxt = link[loc[t].cur]
      /\ loc'[t].tmp = loc[t].tmp /\ loc'[t].still = loc[t].still /\ loc'[t].out = loc[t].out
  BY <1>2, OwnFacts DEF Locals
<1>4. loc[t].pc \in Bare /\ loc'[t].pc \in Bare  BY <1>1, <1>3 DEF Bare
<1>5. NodesOK(loc[t])' /\ ListsOK(t)' /\ ~ At(t, "scan") /\ \A n : n \notin ToSet(loc[t].tmp)
  BY <1>1, <1>3, <1>4, BareStep, Zenon
<1>6. slot[<<t, "pop">>] = loc[t].cur /\ loc[t].cur # Null
  <2>1. LinksOK(t) /\ loc[t].pc \in {"verify", "next", "cas"} /\ loc[t].pc \in {"next", "cas"}
    BY <1>1, OwnFacts
  <2>2. QED  BY <2>1, Zenon DEF LinksOK
<1>7. LinksOK(t)'  BY <1>1, <1>3, <1>6 DEF LinksOK, At
<1>8. Reading(t)' = Reading(t)  BY <1>1, <1>3 DEF Reading, At
<1>9. loc[t].pc \in {"next", "cas"}  BY <1>1
<1>10. ASSUME NEW c \in Seq(Nodes), NEW p \in [Nodes -> Places], InvOf(c, p)
      PROVE  ChainIs(c)' /\ NewHazards(t, p)
  BY <1>1, <1>3, <1>8, <1>9, <1>10, Zenon DEF ChainIs, InvOf, NewHazards
<1>11. UNCHANGED <<free, held, gfree, gheld, inUse, allocated>>  BY <1>1 DEF lists
<1>12. QED  BY <1>0, <1>3, <1>5, <1>7, <1>10, <1>11, Quiet, Zenon

-----------------------------------------------------------------------------
(* Steps that move nodes.                                                  *)

\* Node m, or all nodes of a list s, go from place a to place b.
Put(t, m, a, b, p, q) ==
  Moved(t, {a, b}, p, q) /\ \A n \in Nodes : q[n] = IF n = m THEN b ELSE p[n]
Poured(t, s, a, b, p, q) ==
  Moved(t, {a, b}, p, q) /\ \A n \in Nodes : q[n] = IF n \in ToSet(s) THEN b ELSE p[n]

LEMMA PutOne ==
  ASSUME NEW t \in Threads, NEW p \in [Nodes -> Places], NEW m,
         NEW a \in PlacesFor(t), NEW b \in PlacesFor(t), p[m] = a
  PROVE  \E q : Put(t, m, a, b, p, q)
<1> DEFINE q == [n \in Nodes |-> IF n = m THEN b ELSE p[n]]
<1>1. PlacesFor(t) \subseteq Places  BY DEF PlacesFor, Places
<1>2. q \in [Nodes -> Places]  BY <1>1
<1>3. \A n \in Nodes : q[n] = IF n = m THEN b ELSE p[n]  OBVIOUS
<1> HIDE DEF q
<1>4. \A n \in Nodes : q[n] = p[n] \/ (q[n] \in {a, b} /\ p[n] \in {a, b})  BY <1>3
<1>5. Moved(t, {a, b}, p, q)  BY <1>2, <1>4 DEF Moved
<1>6. QED  BY <1>3, <1>5, Zenon DEF Put

LEMMA PourSome ==
  ASSUME NEW t \in Threads, NEW p \in [Nodes -> Places], NEW s,
         NEW a \in PlacesFor(t), NEW b \in PlacesFor(t), \A n \in Nodes : n \in ToSet(s) => p[n] = a
  PROVE  \E q : Poured(t, s, a, b, p, q)
<1> DEFINE q == [n \in Nodes |-> IF n \in ToSet(s) THEN b ELSE p[n]]
<1>1. PlacesFor(t) \subseteq Places  BY DEF PlacesFor, Places
<1>2. q \in [Nodes -> Places]  BY <1>1
<1>3. \A n \in Nodes : q[n] = IF n \in ToSet(s) THEN b ELSE p[n]  OBVIOUS
<1> HIDE DEF q
<1>4. \A n \in Nodes : q[n] = p[n] \/ (q[n] \in {a, b} /\ p[n] \in {a, b})  BY <1>3
<1>5. Moved(t, {a, b}, p, q)  BY <1>2, <1>4 DEF Moved
<1>6. QED  BY <1>3, <1>5, Zenon DEF Poured

LEMMA Pour ==
  ASSUME NEW t \in Threads, NEW p \in [Nodes -> Places], NEW s,
         NEW a \in PlacesFor(t), NEW b \in PlacesFor(t), IsAt(s, a, p)
  PROVE  \E q : Poured(t, s, a, b, p, q)
<1>1. \A n \in Nodes : n \in ToSet(s) => p[n] = a  BY Zenon DEF IsAt
<1>2. QED  BY <1>1, PourSome, Zenon

\* A list that has the nodes of one place
LEMMA NewAt ==
  ASSUME NEW s, Good(s), NEW place, NEW q, \A n \in Nodes : n \in ToSet(s) <=> q[n] = place
  PROVE  IsAt(s, place, q)
  BY Zenon DEF IsAt, Good

\* The list that they leave, the one that they come to, and any other
LEMMA Left ==
  ASSUME NEW t, NEW s, NEW a, NEW b, NEW p, NEW q, Poured(t, s, a, b, p, q), a # b, IsAt(s, a, p)
  PROVE  IsAt(<<>>, a, q)
<1>1. \A n \in Nodes : n \in ToSet(s) <=> p[n] = a  BY Zenon DEF IsAt
<1>2. \A n \in Nodes : q[n] # a  BY <1>1 DEF Poured
<1>3. QED  BY <1>2, NoNodes, NewAt, Zenon

LEMMA Received ==
  ASSUME NEW t, NEW s, NEW a, NEW b, NEW p, NEW q, Poured(t, s, a, b, p, q), a # b, IsAt(s, a, p),
         NEW r, IsAt(r, b, p)
  PROVE  IsAt(r \o s, b, q) /\ (r = <<>> => IsAt(s, b, q))
<1>1. /\ \A n \in Nodes : n \in ToSet(s) <=> p[n] = a
      /\ \A n \in Nodes : n \in ToSet(r) <=> p[n] = b
      /\ Good(s) /\ Good(r)
  BY Zenon DEF IsAt, Good
<1>2. \A n \in Nodes : q[n] = b <=> n \in ToSet(r) \/ n \in ToSet(s)  BY <1>1 DEF Poured
<1>3. \A n \in Nodes : ~ (n \in ToSet(r) /\ n \in ToSet(s))  BY <1>1
<1>4. Good(r \o s) /\ \A n : n \in ToSet(r \o s) <=> n \in ToSet(r) \/ n \in ToSet(s)
  BY <1>1, <1>3, Concat, Zenon
<1>5. \A n \in Nodes : n \in ToSet(r \o s) <=> q[n] = b  BY <1>2, <1>4
<1>6. IsAt(r \o s, b, q)  BY <1>4, <1>5, NewAt, Zenon
<1>7. ASSUME r = <<>> PROVE IsAt(s, b, q)
  <2>1. \A n \in Nodes : n \in ToSet(s) <=> q[n] = b  BY <1>2, <1>7, NoNodes
  <2>2. QED  BY <1>1, <2>1, NewAt, Zenon
<1>8. QED  BY <1>6, <1>7

LEMMA Stays ==
  ASSUME NEW t, NEW K, NEW p, NEW q, Moved(t, K, p, q), NEW r, NEW e, e \notin K, IsAt(r, e, p)
  PROVE  IsAt(r, e, q)
<1>1. \A n \in Nodes : q[n] = e <=> p[n] = e  BY Zenon DEF Moved
<1>2. QED  BY <1>1, Zenon DEF IsAt

\* The same when the first node of a list leaves it, or one comes to a list
LEMMA LeftFirst ==
  ASSUME NEW t, NEW s, s # <<>>, NEW a, NEW b, NEW p, NEW q, Put(t, s[1], a, b, p, q), a # b,
         IsAt(s, a, p)
  PROVE  IsAt(Tail(s), a, q)
<1>1. \A n \in Nodes : n \in ToSet(s) <=> p[n] = a  BY Zenon DEF IsAt
<1>2. Good(s)  BY Zenon DEF IsAt, Good
<1>3. Good(Tail(s)) /\ \A n : n \in ToSet(Tail(s)) <=> n \in ToSet(s) /\ n # s[1]  BY <1>2, Rest
<1>4. PICK m : m = s[1]  OBVIOUS
<1>5. \A n \in Nodes : q[n] = IF n = m THEN b ELSE p[n]  BY <1>4, Zenon DEF Put
<1>6. \A n \in Nodes : n \in ToSet(Tail(s)) <=> n \in ToSet(s) /\ n # m  BY <1>3, <1>4
<1>7. \A n \in Nodes : n \in ToSet(Tail(s)) <=> q[n] = a  BY <1>1, <1>5, <1>6
<1>8. QED  BY <1>3, <1>7, NewAt, Zenon

LEMMA ReceivedOne ==
  ASSUME NEW t, NEW m \in Nodes, NEW a, NEW b, NEW p, NEW q, Put(t, m, a, b, p, q), a # b, p[m] = a,
         NEW r, IsAt(r, b, p)
  PROVE  IsAt(Append(r, m), b, q) /\ (r = <<>> => IsAt(<<m>>, b, q))
<1>1. (\A n \in Nodes : n \in ToSet(r) <=> p[n] = b) /\ Good(r)  BY Zenon DEF IsAt, Good
<1>2. \A n \in Nodes : q[n] = b <=> n \in ToSet(r) \/ n = m  BY <1>1 DEF Put
<1>3. m \notin ToSet(r)  BY <1>1
<1>4. Good(Append(r, m)) /\ \A n : n \in ToSet(Append(r, m)) <=> n \in ToSet(r) \/ n = m
  BY <1>1, <1>3, Appended, Zenon
<1>5. IsAt(Append(r, m), b, q)  BY <1>2, <1>4, NewAt, Zenon
<1>6. ASSUME r = <<>> PROVE IsAt(<<m>>, b, q)
  <2>1. Good(<<m>>) /\ \A n : n \in ToSet(<<m>>) <=> n = m  BY OneNode
  <2>2. \A n \in Nodes : n \in ToSet(<<m>>) <=> q[n] = b  BY <1>2, <1>6, <2>1, NoNodes
  <2>3. QED  BY <2>1, <2>2, NewAt, Zenon
<1>7. QED  BY <1>5, <1>6

\* One move after another
LEMMA MovedTwice ==
  ASSUME NEW t, NEW J, NEW K, NEW p, NEW x, NEW q, Moved(t, J, p, x), Moved(t, K, x, q)
  PROVE  Moved(t, J \cup K, p, q)
<1>1. q \in [Nodes -> Places] /\ J \cup K \subseteq PlacesFor(t)  BY DEF Moved
<1>2. \A n \in Nodes : q[n] = p[n] \/ (q[n] \in J \cup K /\ p[n] \in J \cup K)  BY DEF Moved
<1>3. QED  BY <1>1, <1>2, Zenon DEF Moved

\* The lists of a thread, and those that threads share, as p has them
LEMMA Where ==
  ASSUME NEW c, NEW p, InvOf(c, p), NEW t \in Threads
  PROVE  /\ IsAt(c, <<"lockFree", Null>>, p)
         /\ IsAt(gfree, <<"gfree", Null>>, p) /\ IsAt(gheld, <<"gheld", Null>>, p)
         /\ IsAt(free[t], <<"free", t>>, p) /\ IsAt(held[t], <<"held", t>>, p)
         /\ IsAt(loc[t].tmp, <<"tmp", t>>, p) /\ IsAt(loc[t].still, <<"still", t>>, p)
         /\ IsAt(loc[t].out, <<"out", t>>, p)
  BY Zenon DEF InvOf, Arranged

LEMMA WhereOne ==
  ASSUME NEW c, NEW p, InvOf(c, p), NEW t \in Threads, NEW n \in Nodes
  PROVE  /\ n \in allocated <=> p[n] # <<"unused", Null>>
         /\ n \in inUse <=> p[n] = <<"inUse", Null>>
         /\ n = loc[t].node <=> p[n] = <<"node", t>>
  BY Zenon DEF InvOf, Arranged

LEMMA Empties ==
  ASSUME Inv, NEW c, NEW p, InvOf(c, p), NEW t \in Threads
  PROVE  /\ loc[t].tmp = <<>> => \A n \in Nodes : p[n] # <<"tmp", t>>
         /\ loc[t].still = <<>> => \A n \in Nodes : p[n] # <<"still", t>>
         /\ loc[t].out = <<>> => \A n \in Nodes : p[n] # <<"out", t>>
         /\ loc[t].node = Null => \A n \in Nodes : p[n] # <<"node", t>>
         /\ held[t] = <<>> => \A n \in Nodes : p[n] # <<"held", t>>
         /\ gheld = <<>> => \A n \in Nodes : p[n] # <<"gheld", Null>>
<1>1. /\ IsAt(gheld, <<"gheld", Null>>, p) /\ IsAt(held[t], <<"held", t>>, p)
      /\ IsAt(loc[t].tmp, <<"tmp", t>>, p) /\ IsAt(loc[t].still, <<"still", t>>, p)
      /\ IsAt(loc[t].out, <<"out", t>>, p)
  BY Where, Zenon
<1>2. ASSUME loc[t].node = Null, NEW n \in Nodes PROVE p[n] # <<"node", t>>
  <2>1. n # Null  BY PoolAssumption
  <2>2. QED  BY <1>2, <2>1, WhereOne
<1>3. ASSUME NEW s, NEW place, IsAt(s, place, p), s = <<>> PROVE \A n \in Nodes : p[n] # place
  BY <1>3, NoNodes, Zenon DEF IsAt
<1>4. QED  BY <1>1, <1>2, <1>3, Zenon

\* The places that a thread may move nodes between
LEMMA PlaceNames ==
  ASSUME NEW t \in Threads
  PROVE  /\ <<"unused", Null>> \in PlacesFor(t) /\ <<"inUse", Null>> \in PlacesFor(t)
         /\ <<"lockFree", Null>> \in PlacesFor(t)
         /\ <<"gfree", Null>> \in PlacesFor(t) /\ <<"gheld", Null>> \in PlacesFor(t)
         /\ <<"free", t>> \in PlacesFor(t) /\ <<"held", t>> \in PlacesFor(t)
         /\ <<"tmp", t>> \in PlacesFor(t) /\ <<"still", t>> \in PlacesFor(t)
         /\ <<"out", t>> \in PlacesFor(t) /\ <<"node", t>> \in PlacesFor(t)
  BY DEF PlacesFor, Shared, Own

\* The lock-free list without its first node, and with one more before it
LEMMA ChainTail ==
  ASSUME NEW c \in Seq(Nodes), c # <<>>, ChainIs(c)
  PROVE  /\ link[c[1]] = IF Tail(c) = <<>> THEN Null ELSE Tail(c)[1]
         /\ \A i \in 1 .. Len(Tail(c)) :
              link[Tail(c)[i]] = IF i = Len(Tail(c)) THEN Null ELSE Tail(c)[i + 1]
<1>10. Tail(c) \in Seq(Nodes)  OBVIOUS
<1>1. PICK d \in Seq(Nodes) : d = Tail(c)  BY <1>10, Zenon
<1>2. Len(c) \in Nat \ {0} /\ Len(Tail(c)) = Len(c) - 1  OBVIOUS
<1>3. Len(d) \in Nat /\ Len(c) = Len(d) + 1  BY <1>1, <1>2
<1>4. \A i \in 1 .. Len(d) : d[i] = c[i + 1]  BY <1>1, <1>2
<1>5. \A i \in 1 .. Len(c) : link[c[i]] = IF i = Len(c) THEN Null ELSE c[i + 1]
  BY Zenon DEF ChainIs
<1>6. d = <<>> <=> Len(d) = 0  BY Elements, Zenon
<1>7. link[c[1]] = IF d = <<>> THEN Null ELSE d[1]
  <2>1. 1 \in 1 .. Len(c) /\ (1 = Len(c) <=> d = <<>>)  BY <1>3, <1>6
  <2>2. d # <<>> => d[1] = c[1 + 1]  BY <1>3, <1>4, <1>6
  <2>3. QED  BY <1>5, <2>1, <2>2, Zenon
<1>8. ASSUME NEW i \in 1 .. Len(d)
      PROVE  link[d[i]] = IF i = Len(d) THEN Null ELSE d[i + 1]
  <2>1. i + 1 \in 1 .. Len(c) /\ (i + 1 = Len(c) <=> i = Len(d))  BY <1>3
  <2>2. i # Len(d) => i + 1 \in 1 .. Len(d)  BY <1>3
  <2>3. d[i] = c[i + 1] /\ (i # Len(d) => d[i + 1] = c[(i + 1) + 1])  BY <1>4, <2>2
  <2>4. link[c[i + 1]] = IF i + 1 = Len(c) THEN Null ELSE c[(i + 1) + 1]  BY <1>5, <2>1
  <2>5. QED  BY <2>1, <2>3, <2>4
<1>9. QED  BY <1>1, <1>7, <1>8

LEMMA CasStep == ASSUME Inv, NEW t \in Threads, Cas(t) PROVE Inv'
<1>0. Step(t)  BY Zenon DEF Step
<1>1. /\ loc[t].pc = "cas" /\ UNCHANGED <<link, slot, lists, owner, inUse, allocated, calls>>
  BY Zenon DEF Cas, At
<1>6. UNCHANGED <<free, held, gfree, gheld, inUse, allocated, owner, link>>  BY <1>1 DEF lists
<1>2. /\ slot[<<t, "pop">>] = loc[t].cur /\ loc[t].cur # Null /\ link[loc[t].cur] = loc[t].nxt
  <2>1. /\ LinksOK(t) /\ loc[t].pc \in {"verify", "next", "cas"} /\ loc[t].pc \in {"next", "cas"}
        /\ At(t, "cas")
    BY <1>1, OwnFacts DEF At
  <2>2. QED  BY <2>1, Zenon DEF LinksOK
<1>3. loc[t].pc \in Bare  BY <1>1 DEF Bare
<1>4. CASE head # loc[t].cur
  <2>1. UNCHANGED head /\ Become(t, [loc[t] EXCEPT !.pc = "store", !.cur = head, !.nxt = Null])
    BY <1>4, Zenon DEF Cas
  <2>2. loc'[t] = [loc[t] EXCEPT !.pc = "store", !.cur = head, !.nxt = Null]
    BY <2>1, BecomeFields, OwnFacts, Zenon
  <2>3. /\ loc'[t].pc = "store" /\ loc'[t].node = loc[t].node
        /\ loc'[t].tmp = loc[t].tmp /\ loc'[t].still = loc[t].still /\ loc'[t].out = loc[t].out
    BY <2>2, OwnFacts DEF Locals
  <2>4. loc'[t].pc \in Bare  BY <2>3 DEF Bare
  <2>5. NodesOK(loc[t])' /\ ListsOK(t)' /\ ~ At(t, "scan") /\ \A n : n \notin ToSet(loc[t].tmp)
    BY <1>1, <1>3, <2>3, <2>4, BareStep, Zenon
  <2>6. /\ loc[t].pc # "readVerify"
        /\ loc'[t].pc \notin {"outCas", "verify", "next", "cas", "readVerify"}
    BY <1>1, <2>3
  <2>7. QED  BY <1>0, <1>1, <2>1, <2>3, <2>5, <2>6, Quieter, Zenon
<1>5. CASE head = loc[t].cur
  <2>1. /\ head' = loc[t].nxt
        /\ Become(t, [loc[t] EXCEPT !.pc = "drop", !.node = loc[t].cur, !.cur = Null, !.nxt = Null])
    BY <1>5, Zenon DEF Cas
  <2>2. loc'[t] = [loc[t] EXCEPT !.pc = "drop", !.node = loc[t].cur, !.cur = Null, !.nxt = Null]
    BY <2>1, BecomeFields, OwnFacts, Zenon
  <2>3. /\ loc'[t].pc = "drop" /\ loc'[t].node = head
        /\ loc'[t].tmp = loc[t].tmp /\ loc'[t].still = loc[t].still /\ loc'[t].out = loc[t].out
    BY <1>5, <2>2, OwnFacts DEF Locals
  <2>4. loc[t].tmp = <<>> /\ loc[t].still = <<>> /\ loc[t].out = <<>> /\ loc[t].node = Null
    BY <1>3, BareFacts, OwnFacts
  <2>5. PICK c \in Seq(Nodes), p \in [Nodes -> Places] : InvOf(c, p)  BY InvFacts
  <2>6. c # <<>> /\ head = c[1]
    <3>1. head = IF c = <<>> THEN Null ELSE c[1]  BY <2>5, Zenon DEF InvOf, ChainIs
    <3>2. QED  BY <1>2, <1>5, <3>1
  <2>7. IsAt(c, <<"lockFree", Null>>, p) /\ Good(c)  BY <2>5, Where DEF IsAt, Good
  <2>8. /\ head \in Nodes /\ head \in ToSet(c) /\ Good(Tail(c)) /\ Tail(c) \in Seq(Nodes)
        /\ \A n : n \in ToSet(Tail(c)) <=> n \in ToSet(c) /\ n # head
        /\ p[head] = <<"lockFree", Null>>
    BY <2>6, <2>7, Rest, Zenon DEF IsAt, Good
  <2>9. \A n \in Nodes : p[n] # <<"node", t>> /\ p[n] # <<"tmp", t>>
    BY <2>4, <2>5, Empties, Zenon
  <2>10. PICK q : Put(t, head, <<"lockFree", Null>>, <<"node", t>>, p, q)
    <3>1. <<"lockFree", Null>> \in PlacesFor(t) /\ <<"node", t>> \in PlacesFor(t)
      BY PlaceNames, Zenon
    <3>2. p \in [Nodes -> Places] /\ p[head] = <<"lockFree", Null>>  BY <2>5, <2>8
    <3>3. QED  BY <3>1, <3>2, PutOne, Zenon
  <2>19. /\ Moved(t, {<<"lockFree", Null>>, <<"node", t>>}, p, q)
         /\ \A n \in Nodes : q[n] = IF n = head THEN <<"node", t>> ELSE p[n]
    BY <2>10 DEF Put
  <2>11. Follow(t, {<<"lockFree", Null>>, <<"node", t>>}, c, Tail(c), q)
    <3>1. IsAt(Tail(c), <<"lockFree", Null>>, q)  BY <2>7, <2>8, <2>19 DEF IsAt, Good
    <3>2. \A n \in Nodes : n = loc'[t].node <=> q[n] = <<"node", t>>  BY <2>3, <2>9, <2>19
    <3>3. QED  BY <1>6, <2>3, <3>1, <3>2 DEF Follow, Follows
  <2>12. Safe(t, p, q)  BY <2>8, <2>9, <2>19 DEF Safe, Clear, Popped, Open
  <2>13. ChainIs(Tail(c))'
    <3>1. ChainIs(c)  BY <2>5, Zenon DEF InvOf
    <3>2. /\ head' = IF Tail(c) = <<>> THEN Null ELSE Tail(c)[1]
          /\ \A i \in 1 .. Len(Tail(c)) :
               link[Tail(c)[i]] = IF i = Len(Tail(c)) THEN Null ELSE Tail(c)[i + 1]
      BY <1>2, <1>5, <2>1, <2>5, <2>6, <3>1, ChainTail
    <3>3. QED  BY <1>6, <3>2, Zenon DEF ChainIs
  <2>14. NewHazards(t, q)
    <3>1. Reading(t)' = Reading(t)  BY <1>1, <2>3 DEF Reading, At
    <3>2. loc'[t].pc \notin {"next", "cas"}  BY <2>3
    <3>3. QED  BY <3>1, <3>2, Zenon DEF NewHazards
  <2>15. NodesOK(loc[t])'
    <3>1. NodesOK(loc'[t])
      <4>1. loc'[t].node # Null /\ loc'[t].pc \in {"drop", "got"}  BY <1>2, <1>5, <2>3
      <4>2. loc'[t].tmp = <<>> /\ loc'[t].still = <<>> /\ loc'[t].out = <<>>  BY <2>3, <2>4
      <4>3. QED  BY <4>1, <4>2, HasOK
    <3>2. QED  BY <3>1, Zenon DEF NodesOK, ScansFor
  <2>16. ListsOK(t)'
    <3>1. owner["free"] # t
      <4>1. ListsOK(t) /\ loc[t].pc \notin OutPoints  BY <1>1, OwnFacts DEF OutPoints
      <4>2. QED  BY <4>1, Zenon DEF ListsOK
    <3>2. QED  BY <1>6, <2>3, <3>1 DEF ListsOK, ScansFor, OutPoints
  <2>17. LinksOK(t)'  BY <2>3 DEF LinksOK, At
  <2>18. QED
    BY <1>0, <2>5, <2>8, <2>19, <2>11, <2>12, <2>13, <2>14, <2>15, <2>16, <2>17, Finish, Zenon
<1>7. QED  BY <1>4, <1>5

LEMMA OutLoadStep == ASSUME Inv, NEW t \in Threads, OutLoad(t) \/ OutFails(t) PROVE Inv'
<1>0. Step(t)  BY Zenon DEF Step
<1>1. /\ loc[t].pc \in OutPoints /\ Become(t, [loc[t] EXCEPT !.pc = "outLink", !.nxt = head])
      /\ UNCHANGED <<head, link, slot, lists, owner, inUse, allocated, calls>>
  BY Zenon DEF OutLoad, OutFails, At, OutPoints
<1>2. loc'[t] = [loc[t] EXCEPT !.pc = "outLink", !.nxt = head]  BY <1>1, BecomeFields, OwnFacts, Zenon
<1>3. /\ loc'[t].pc = "outLink" /\ loc'[t].node = loc[t].node /\ loc'[t].unseen = loc[t].unseen
      /\ loc'[t].tmp = loc[t].tmp /\ loc'[t].still = loc[t].still /\ loc'[t].out = loc[t].out
  BY <1>2, OwnFacts DEF Locals
<1>4. /\ loc[t].tmp = <<>> /\ loc[t].still = <<>> /\ loc[t].out # <<>>
      /\ owner["free"] = t <=> loc[t].node # Null
      /\ loc[t].pc # "scan" /\ loc[t].pc # "readVerify"
  BY <1>1, OutFacts
<1>5. NodesOK(loc[t])'
  <2>1. NodesOK(loc'[t])  BY <1>3, <1>4, OutOK DEF OutPoints
  <2>2. QED  BY <2>1, Zenon DEF NodesOK, ScansFor
<1>6. ListsOK(t)'
  <2>1. UNCHANGED owner  BY <1>1
  <2>2. QED  BY <1>3, <1>4, <2>1 DEF ListsOK, ScansFor, OutPoints
<1>7. loc'[t].pc \notin {"outCas", "verify", "next", "cas", "readVerify"}  BY <1>3
<1>8. QED  BY <1>0, <1>1, <1>3, <1>4, <1>5, <1>6, <1>7, Quieter, Zenon DEF At

LEMMA OutLinkStep == ASSUME Inv, NEW t \in Threads, OutLink(t) PROVE Inv'
<1>0. Step(t)  BY Zenon DEF Step
<1>1. /\ loc[t].pc = "outLink" /\ loc[t].pc \in OutPoints /\ Goto(t, "outCas")
      /\ link' = [link EXCEPT ![loc[t].out[1]] = loc[t].nxt]
      /\ UNCHANGED <<head, slot, lists, owner, inUse, allocated, calls>>
  BY Zenon DEF OutLink, At, OutPoints
<1>2. /\ loc'[t].pc = "outCas" /\ loc'[t].node = loc[t].node /\ loc'[t].unseen = loc[t].unseen
      /\ loc'[t].tmp = loc[t].tmp /\ loc'[t].still = loc[t].still /\ loc'[t].out = loc[t].out
      /\ loc'[t].nxt = loc[t].nxt
  BY <1>1, GotoFields, OwnFacts
<1>3. /\ loc[t].tmp = <<>> /\ loc[t].still = <<>> /\ loc[t].out # <<>>
      /\ owner["free"] = t <=> loc[t].node # Null
      /\ loc[t].out[1] \in Nodes /\ loc[t].out[1] \in ToSet(loc[t].out)
      /\ loc[t].pc # "scan" /\ loc[t].pc # "readVerify"
  BY <1>1, OutFacts
<1>4. UNCHANGED <<free, held, gfree, gheld, inUse, allocated>> /\ UNCHANGED <<owner, slot, head>>
  BY <1>1 DEF lists
<1>5. NodesOK(loc[t])'
  <2>1. NodesOK(loc'[t])  BY <1>2, <1>3, OutOK DEF OutPoints
  <2>2. QED  BY <2>1, Zenon DEF NodesOK, ScansFor
<1>6. ListsOK(t)'  BY <1>2, <1>3, <1>4 DEF ListsOK, ScansFor, OutPoints
<1>7. LinksOK(t)'
  <2>1. link \in [Nodes -> NodeOrNull]  BY OwnFacts DEF TypeOK
  <2>2. link'[loc[t].out[1]] = loc[t].nxt  BY <1>1, <1>3, <2>1
  <2>3. QED  BY <1>2, <2>2 DEF LinksOK, At
<1>8. ASSUME NEW c \in Seq(Nodes), NEW p \in [Nodes -> Places], InvOf(c, p)
      PROVE  ChainIs(c)' /\ NewHazards(t, p)
  <2>1. IsAt(c, <<"lockFree", Null>>, p) /\ IsAt(loc[t].out, <<"out", t>>, p)
    BY <1>8, Where, Zenon
  <2>2. <<"lockFree", Null>> # <<"out", t>>  OBVIOUS
  <2>3. loc[t].out[1] \notin ToSet(c)  BY <1>3, <2>1, <2>2, Zenon DEF IsAt
  <2>4. \A i \in 1 .. Len(c) : c[i] # loc[t].out[1] /\ c[i] \in Nodes  BY <2>3, Elements
  <2>5. link \in [Nodes -> NodeOrNull]  BY OwnFacts DEF TypeOK
  <2>6. \A i \in 1 .. Len(c) : link'[c[i]] = link[c[i]]  BY <1>1, <2>4, <2>5
  <2>7. ChainIs(c)'  BY <1>4, <1>8, <2>6, Zenon DEF InvOf, ChainIs
  <2>8. Reading(t)' = Reading(t)  BY <1>1, <1>2, <1>4 DEF Reading, At
  <2>9. loc'[t].pc \notin {"next", "cas"}  BY <1>2
  <2>10. QED  BY <2>7, <2>8, <2>9, Zenon DEF NewHazards
<1>9. QED
  BY <1>0, <1>2, <1>3, <1>4, <1>5, <1>6, <1>7, <1>8, NoNodes, Quiet, Zenon DEF At

LEMMA ChainPushed ==
  ASSUME NEW c \in Seq(Nodes), ChainIs(c), NEW m \in Nodes, link[m] = head
  PROVE  /\ <<m>> \o c \in Seq(Nodes)
         /\ m = IF <<m>> \o c = <<>> THEN Null ELSE (<<m>> \o c)[1]
         /\ \A i \in 1 .. Len(<<m>> \o c) :
              link[(<<m>> \o c)[i]] = IF i = Len(<<m>> \o c) THEN Null ELSE (<<m>> \o c)[i + 1]
<1>1. <<m>> \o c \in Seq(Nodes)  OBVIOUS
<1>2. PICK d \in Seq(Nodes) : d = <<m>> \o c  BY <1>1, Zenon
<1>3. Len(c) \in Nat /\ Len(d) = Len(c) + 1  BY <1>2
<1>4. d[1] = m /\ \A i \in 1 .. Len(c) : d[i + 1] = c[i]
  <2>1. d[1] = m  BY <1>2
  <2>2. ASSUME NEW i \in 1 .. Len(c) PROVE d[i + 1] = c[i]
    <3>1. i + 1 \in 1 .. Len(d) /\ i + 1 > 1 /\ (i + 1) - 1 = i  BY <1>3
    <3>2. Len(<<m>>) = 1 /\ <<m>> \in Seq(Nodes)  OBVIOUS
    <3>3. QED  BY <1>2, <3>1, <3>2
  <2>3. QED  BY <2>1, <2>2
<1>5. /\ head = IF c = <<>> THEN Null ELSE c[1]
      /\ \A i \in 1 .. Len(c) : link[c[i]] = IF i = Len(c) THEN Null ELSE c[i + 1]
  BY Zenon DEF ChainIs
<1>6. d # <<>>  BY <1>3, Elements
<1>7. ASSUME NEW i \in 1 .. Len(d)
      PROVE  link[d[i]] = IF i = Len(d) THEN Null ELSE d[i + 1]
  <2>1. CASE i = 1
    <3>1. c = <<>> <=> Len(c) = 0  BY Elements, Zenon
    <3>2. c = <<>> <=> i = Len(d)  BY <1>3, <2>1, <3>1
    <3>3. c # <<>> => d[i + 1] = c[1]  BY <1>3, <1>4, <2>1, <3>1
    <3>4. QED  BY <1>4, <1>5, <2>1, <3>2, <3>3
  <2>2. CASE i # 1
    <3>1. PICK j \in 1 .. Len(c) : i = j + 1
      <4>1. i - 1 \in 1 .. Len(c) /\ i = (i - 1) + 1  BY <1>3, <2>2
      <4>2. QED  BY <4>1, Zenon
    <3>2. d[i] = c[j] /\ (j = Len(c) <=> i = Len(d))  BY <1>3, <1>4, <3>1
    <3>3. j # Len(c) => j + 1 \in 1 .. Len(c)  BY <1>3
    <3>4. j # Len(c) => d[i + 1] = c[j + 1]  BY <1>4, <3>1, <3>3
    <3>5. link[c[j]] = IF j = Len(c) THEN Null ELSE c[j + 1]  BY <1>5
    <3>6. QED  BY <3>2, <3>4, <3>5
  <2>3. QED  BY <2>1, <2>2
<1>8. QED  BY <1>1, <1>2, <1>4, <1>6, <1>7

LEMMA OutCasStep == ASSUME Inv, NEW t \in Threads, OutCas(t) PROVE Inv'
<1> DEFINE m == loc[t].out[1]
<1>0. Step(t)  BY Zenon DEF Step
<1>1. /\ loc[t].pc = "outCas" /\ loc[t].pc \in OutPoints /\ head = loc[t].nxt /\ head' = m
      /\ UNCHANGED <<link, slot, lists, inUse, allocated, calls>>
  BY Zenon DEF OutCas, At, OutPoints
<1>2. UNCHANGED <<free, held, gfree, gheld, inUse, allocated>> /\ UNCHANGED <<slot, link>>
  BY <1>1 DEF lists
<1>3. /\ loc[t].tmp = <<>> /\ loc[t].still = <<>> /\ loc[t].out # <<>>
      /\ owner["free"] = t <=> loc[t].node # Null
      /\ m \in Nodes /\ m \in ToSet(loc[t].out)
      /\ loc[t].pc # "scan" /\ loc[t].pc # "readVerify"
  BY <1>1, OutFacts
<1>4. link[m] = head
  <2>1. LinksOK(t) /\ At(t, "outCas")  BY <1>1, OwnFacts DEF At
  <2>2. QED  BY <1>1, <2>1 DEF LinksOK
<1>5. Good(loc[t].out)  BY InvFacts
<1>6. Len(loc[t].out) \in Nat \ {0} /\ (Tail(loc[t].out) = <<>> <=> Len(loc[t].out) = 1)
  BY <1>3, <1>5, RestLen
\* What becomes of the locals: more nodes, the popped one, or the end
<1>7. /\ loc'[t].out = Tail(loc[t].out) /\ loc'[t].tmp = loc[t].tmp /\ loc'[t].still = loc[t].still
      /\ loc'[t].node = loc[t].node /\ loc'[t].pc \in {"outLoad", "got", "idle"}
      /\ NodesOK(loc[t])' /\ ListsOK(t)'
  <2>1. CASE Len(loc[t].out) > 1
    <3>1. /\ Become(t, [loc[t] EXCEPT !.pc = "outLoad", !.out = Tail(@), !.nxt = Null])
          /\ UNCHANGED owner
      BY <2>1, Zenon DEF OutCas
    <3>2. loc'[t] = [loc[t] EXCEPT !.pc = "outLoad", !.out = Tail(@), !.nxt = Null]
      BY <3>1, BecomeFields, OwnFacts, Zenon
    <3>3. /\ loc'[t].pc = "outLoad" /\ loc'[t].node = loc[t].node
          /\ loc'[t].tmp = loc[t].tmp /\ loc'[t].still = loc[t].still
          /\ loc'[t].out = Tail(loc[t].out)
      BY <3>2, OwnFacts DEF Locals
    <3>4. Tail(loc[t].out) # <<>>
      <4>1. Len(loc[t].out) # 1  BY <1>6, <2>1
      <4>2. QED  BY <1>6, <4>1, Zenon
    <3>5. NodesOK(loc'[t])
      <4>1. /\ loc'[t].pc \in OutPoints /\ loc'[t].tmp = <<>> /\ loc'[t].still = <<>>
            /\ loc'[t].out # <<>>
        BY <1>3, <3>3, <3>4 DEF OutPoints
      <4>2. QED  BY <4>1, OutOK, Zenon
    <3>6. NodesOK(loc[t])'  BY <3>5, Zenon DEF NodesOK, ScansFor
    <3>7. ListsOK(t)'  BY <1>3, <3>1, <3>3 DEF ListsOK, ScansFor, OutPoints
    <3>8. QED  BY <3>3, <3>6, <3>7
  <2>2. CASE ~(Len(loc[t].out) > 1) /\ owner["free"] = t
    <3>1. /\ Become(t, [loc[t] EXCEPT !.pc = "got", !.out = <<>>, !.nxt = Null])
          /\ owner' = [owner EXCEPT !["free"] = Null]
      BY <2>2, Zenon DEF OutCas
    <3>2. loc'[t] = [loc[t] EXCEPT !.pc = "got", !.out = <<>>, !.nxt = Null]
      BY <3>1, BecomeFields, OwnFacts, Zenon
    <3>3. /\ loc'[t].pc = "got" /\ loc'[t].node = loc[t].node
          /\ loc'[t].tmp = loc[t].tmp /\ loc'[t].still = loc[t].still
          /\ loc'[t].out = <<>>
      BY <3>2, OwnFacts DEF Locals
    <3>4. Tail(loc[t].out) = <<>>
      <4>1. Len(loc[t].out) = 1  BY <1>6, <2>2
      <4>2. QED  BY <1>6, <4>1, Zenon
    <3>5. NodesOK(loc'[t])  BY <1>3, <2>2, <3>3, HasOK
    <3>6. NodesOK(loc[t])'  BY <3>5, Zenon DEF NodesOK, ScansFor
    <3>7. owner'["free"] # t  BY <3>1, OwnFacts DEF TypeOK, Locks
    <3>8. ListsOK(t)'  BY <3>3, <3>7 DEF ListsOK, ScansFor, OutPoints
    <3>9. QED  BY <3>3, <3>4, <3>6, <3>8
  <2>3. CASE ~(Len(loc[t].out) > 1) /\ owner["free"] # t
    <3>1. Become(t, Idle) /\ UNCHANGED owner  BY <2>3, Zenon DEF OutCas, Return
    <3>2. loc'[t] = Idle  BY <3>1, BecomeFields, OwnFacts
    <3>3. Tail(loc[t].out) = <<>>
      <4>1. Len(loc[t].out) = 1  BY <1>6, <2>3
      <4>2. QED  BY <1>6, <4>1, Zenon
    <3>4. owner'["free"] # t  BY <2>3, <3>1
    <3>5. NodesOK(loc[t])' /\ ListsOK(t)'  BY <3>2, <3>4, Idles
    <3>6. QED  BY <1>3, <2>3, <3>2, <3>3, <3>5 DEF Idle
  <2>4. QED  BY <2>1, <2>2, <2>3
<1> HIDE DEF m
<1>8. PICK c \in Seq(Nodes), p \in [Nodes -> Places] : InvOf(c, p)  BY InvFacts
<1>9. IsAt(c, <<"lockFree", Null>>, p) /\ IsAt(loc[t].out, <<"out", t>>, p) /\ ChainIs(c)
  BY <1>8, Where, Zenon DEF InvOf
<1>10. p[m] = <<"out", t>>  BY <1>3, <1>9, Zenon DEF IsAt
<1>11. PICK q : Put(t, m, <<"out", t>>, <<"lockFree", Null>>, p, q)
  <2>1. <<"lockFree", Null>> \in PlacesFor(t) /\ <<"out", t>> \in PlacesFor(t)
    BY PlaceNames, Zenon
  <2>2. QED  BY <1>8, <1>10, <2>1, PutOne, Zenon
<1>12. /\ Moved(t, {<<"out", t>>, <<"lockFree", Null>>}, p, q)
       /\ \A n \in Nodes : q[n] = IF n = m THEN <<"lockFree", Null>> ELSE p[n]
  BY <1>11 DEF Put
<1>13. /\ Good(<<m>> \o c)
       /\ \A n : n \in ToSet(<<m>> \o c) <=> n = m \/ n \in ToSet(c)
  <2>1. Good(<<m>>) /\ \A n : n \in ToSet(<<m>>) <=> n = m  BY <1>3, OneNode
  <2>2. m \notin ToSet(c)  BY <1>3, <1>9, <1>10 DEF IsAt
  <2>3. \A n \in Nodes : ~ (n \in ToSet(<<m>>) /\ n \in ToSet(c))  BY <2>1, <2>2
  <2>4. Good(c)  BY <1>9, Zenon DEF IsAt, Good
  <2>5. Good(<<m>> \o c) /\ \A n : n \in ToSet(<<m>> \o c) <=> n \in ToSet(<<m>>) \/ n \in ToSet(c)
    BY <2>1, <2>3, <2>4, Concat, Zenon
  <2>6. QED  BY <2>1, <2>5
<1>14. PICK d \in Seq(Nodes) : d = <<m>> \o c  BY <1>13, Zenon DEF Good
<1>15. Follow(t, {<<"out", t>>, <<"lockFree", Null>>}, c, d, q)
  <2>1. IsAt(d, <<"lockFree", Null>>, q)
    <3>1. Good(d) /\ \A n : n \in ToSet(d) <=> n = m \/ n \in ToSet(c)  BY <1>13, <1>14, Zenon
    <3>2. QED  BY <1>9, <1>12, <3>1 DEF IsAt, Good
  <2>2. IsAt(Tail(loc[t].out), <<"out", t>>, q)
    <3>1. /\ Good(Tail(loc[t].out))
          /\ \A n : n \in ToSet(Tail(loc[t].out)) <=> n \in ToSet(loc[t].out) /\ n # m
      BY <1>3, <1>5, Rest DEF m
    <3>2. \A n \in Nodes : q[n] = <<"out", t>> <=> p[n] = <<"out", t>> /\ n # m
      BY <1>12
    <3>3. \A n \in Nodes : n \in ToSet(loc[t].out) <=> p[n] = <<"out", t>>
      BY <1>9, Zenon DEF IsAt
    <3>4. \A n \in Nodes : n \in ToSet(Tail(loc[t].out)) <=> q[n] = <<"out", t>>
      BY <3>1, <3>2, <3>3
    <3>5. QED  BY <3>1, <3>4, Zenon DEF IsAt, Good
  <2>3. QED  BY <1>2, <1>7, <2>1, <2>2 DEF Follow, Follows
<1>16. Safe(t, p, q)
  <2>1. \A n \in Nodes : p[n] # <<"tmp", t>>  BY <1>3, <1>8, Empties, Zenon
  <2>2. QED  BY <1>3, <1>10, <1>12, <2>1 DEF Safe, Clear, Popped, Open, At
<1>17. ChainIs(d)'
  <2>1. /\ m = IF d = <<>> THEN Null ELSE d[1]
        /\ \A i \in 1 .. Len(d) : link[d[i]] = IF i = Len(d) THEN Null ELSE d[i + 1]
    BY <1>3, <1>4, <1>9, <1>14, ChainPushed, Zenon
  <2>2. head' = m  BY <1>1 DEF m
  <2>3. QED  BY <1>2, <2>1, <2>2, Zenon DEF ChainIs
<1>18. NewHazards(t, q)
  <2>1. Reading(t)' = Reading(t)  BY <1>1, <1>2, <1>7 DEF Reading, At
  <2>2. loc'[t].pc \notin {"next", "cas"}  BY <1>7
  <2>3. QED  BY <2>1, <2>2, Zenon DEF NewHazards
<1>19. LinksOK(t)'  BY <1>7 DEF LinksOK, At
<1>20. QED
  BY <1>0, <1>7, <1>8, <1>12, <1>15, <1>16, <1>17, <1>18, <1>19, Finish, Zenon

-----------------------------------------------------------------------------
(* Scans.                                                                  *)

LEMMA ScanOK ==
  ASSUME NEW l, l.pc = "scan", l.then \in Thens \ {"none"}, l.out = <<>>,
         l.node # Null <=> l.then = "stock", l.then = "push" => Len(l.tmp) + Len(l.still) = 1
  PROVE  NodesOK(l)
<1>1. l.pc \notin {"idle", "pushLock", "drop", "got"} \cup OutPoints  BY DEF OutPoints
<1>2. ScansFor(l, {"push"}) => Len(l.tmp) + Len(l.still) = 1  BY Zenon DEF ScansFor
<1>3. /\ l.node # Null => ScansFor(l, {"stock"})
      /\ ScansFor(l, {"stock"}) => l.node # Null
  BY DEF ScansFor
<1>4. l.pc \in {"scan", "pushLock"} /\ l.then # "none" /\ l.pc \notin {"drop", "got"}
      /\ l.pc # "pushLock" /\ l.pc # "idle" /\ l.pc \notin OutPoints
  BY <1>1
<1>5. QED  BY <1>2, <1>3, <1>4, Zenon DEF NodesOK

\* What a thread has to itself during a scan
LEMMA ScanFacts ==
  ASSUME Inv, NEW t \in Threads, At(t, "scan")
  PROVE  /\ loc[t].pc = "scan" /\ loc[t].then \in Thens \ {"none"}
         /\ loc[t].out = <<>> /\ (loc[t].node # Null <=> loc[t].then = "stock")
         /\ loc[t].then = "push" => Len(loc[t].tmp) + Len(loc[t].still) = 1
         /\ loc[t].then \in {"own", "stock", "clear"} => held[t] = <<>>
         /\ loc[t].then \in {"all", "clearAll"} => owner["held"] = t /\ gheld = <<>>
         /\ owner["free"] # t
<1>1. NodesOK(loc[t]) /\ ListsOK(t) /\ loc[t] \in Locals /\ loc[t].then \in Thens
  BY OwnFacts, LocalTypes
<1>2. loc[t].pc = "scan"  BY DEF At
<1>3. loc[t].pc \notin {"idle", "pushLock", "drop", "got"} \cup OutPoints  BY <1>2 DEF OutPoints
<1>4. loc[t].then # "none" /\ loc[t].out = <<>> /\ (loc[t].node # Null <=> loc[t].then = "stock")
  BY <1>1, <1>2, <1>3 DEF NodesOK, ScansFor
<1>5. ASSUME loc[t].then = "push" PROVE Len(loc[t].tmp) + Len(loc[t].still) = 1
  <2>1. ScansFor(loc[t], {"push"})  BY <1>2, <1>5 DEF ScansFor
  <2>2. QED  BY <1>1, <2>1, Zenon DEF NodesOK
<1>6. ASSUME loc[t].then \in {"own", "stock", "clear"} PROVE held[t] = <<>>
  <2>1. ScansFor(loc[t], {"own", "stock", "clear"})  BY <1>2, <1>6 DEF ScansFor
  <2>2. QED  BY <1>1, <2>1, Zenon DEF ListsOK
<1>7. ASSUME loc[t].then \in {"all", "clearAll"} PROVE owner["held"] = t /\ gheld = <<>>
  <2>1. ScansFor(loc[t], {"all", "clearAll"})  BY <1>2, <1>7 DEF ScansFor
  <2>2. QED  BY <1>1, <2>1, Zenon DEF ListsOK
<1>8. owner["free"] # t
  <2>1. loc[t].pc \notin OutPoints  BY <1>3
  <2>2. QED  BY <1>1, <2>1, Zenon DEF ListsOK
<1>9. loc[t].then \in Thens \ {"none"}  BY <1>1, <1>4
<1>10. QED  BY <1>2, <1>4, <1>5, <1>6, <1>7, <1>8, <1>9, Zenon

\* The locals at the beginning of a scan
LEMMA ScanningFields ==
  ASSUME Inv, NEW t \in Threads, NEW nodes, NEW then
  PROVE  /\ Scanning(t, nodes, then).pc = "scan" /\ Scanning(t, nodes, then).then = then
         /\ Scanning(t, nodes, then).tmp = nodes /\ Scanning(t, nodes, then).still = <<>>
         /\ Scanning(t, nodes, then).unseen = Slots
         /\ Scanning(t, nodes, then).out = loc[t].out /\ Scanning(t, nodes, then).node = loc[t].node
<1>1. loc[t] \in Locals  BY OwnFacts
<1>2. QED  BY <1>1 DEF Scanning, Locals

LEMMA ScanStep == ASSUME Inv, NEW t \in Threads, Scan(t) PROVE Inv'
<1>0. Step(t)  BY Zenon DEF Step
<1>1. /\ At(t, "scan") /\ UNCHANGED <<head, link, slot, lists, owner, inUse, allocated, calls>>
  BY Zenon DEF Scan
<1>2. PICK s \in loc[t].unseen :
        IF slot[s] \in ToSet(loc[t].tmp)
        THEN \E i \in 1 .. Len(loc[t].tmp) :
               /\ loc[t].tmp[i] = slot[s]
               /\ Become(t, [loc[t] EXCEPT !.unseen = @ \ {s}, !.still = Append(@, slot[s]),
                                           !.tmp = RemoveAt(@, i)])
        ELSE Become(t, [loc[t] EXCEPT !.unseen = @ \ {s}])
  BY Zenon DEF Scan
<1>3. /\ loc[t].pc = "scan" /\ loc[t].then \in Thens \ {"none"}
      /\ loc[t].out = <<>> /\ (loc[t].node # Null <=> loc[t].then = "stock")
      /\ loc[t].then = "push" => Len(loc[t].tmp) + Len(loc[t].still) = 1
      /\ loc[t].then \in {"own", "stock", "clear"} => held[t] = <<>>
      /\ loc[t].then \in {"all", "clearAll"} => owner["held"] = t /\ gheld = <<>>
      /\ owner["free"] # t
  BY <1>1, ScanFacts, Zenon
<1>4. UNCHANGED <<free, held, gfree, gheld, inUse, allocated>> /\ UNCHANGED <<owner, head, link, slot>>
  BY <1>1 DEF lists
<1>5. ASSUME loc'[t].pc = "scan", loc'[t].then = loc[t].then, loc'[t].out = loc[t].out,
             loc'[t].node = loc[t].node,
             loc[t].then = "push" => Len(loc'[t].tmp) + Len(loc'[t].still) = 1
      PROVE  NodesOK(loc[t])' /\ ListsOK(t)'
  <2>1. NodesOK(loc'[t])
    <3>1. /\ loc'[t].pc = "scan" /\ loc'[t].then \in Thens \ {"none"} /\ loc'[t].out = <<>>
          /\ loc'[t].node # Null <=> loc'[t].then = "stock"
      BY <1>3, <1>5, Zenon
    <3>2. loc'[t].then = "push" => Len(loc'[t].tmp) + Len(loc'[t].still) = 1
      BY <1>5, Zenon
    <3>3. QED  BY <3>1, <3>2, ScanOK, Zenon
  <2>2. NodesOK(loc[t])'  BY <2>1, Zenon DEF NodesOK, ScansFor
  <2>3. loc'[t].pc \notin OutPoints  BY <1>5 DEF OutPoints
  <2>4. ListsOK(t)'  BY <1>3, <1>4, <1>5, <2>3 DEF ListsOK, ScansFor
  <2>5. QED  BY <2>2, <2>4
<1>6. CASE slot[s] \notin ToSet(loc[t].tmp)
  <2>1. Become(t, [loc[t] EXCEPT !.unseen = @ \ {s}])  BY <1>2, <1>6, Zenon
  <2>2. loc'[t] = [loc[t] EXCEPT !.unseen = @ \ {s}]  BY <2>1, BecomeFields, OwnFacts, Zenon
  <2>3. /\ loc'[t].pc = "scan" /\ loc'[t].then = loc[t].then /\ loc'[t].out = loc[t].out
        /\ loc'[t].node = loc[t].node /\ loc'[t].tmp = loc[t].tmp /\ loc'[t].still = loc[t].still
        /\ loc'[t].unseen = loc[t].unseen \ {s}
    BY <1>3, <2>2, OwnFacts DEF Locals
  <2>4. NodesOK(loc[t])' /\ ListsOK(t)'
    <3>1. loc[t].then = "push" => Len(loc'[t].tmp) + Len(loc'[t].still) = 1
      BY <1>3, <2>3, Zenon
    <3>2. QED  BY <1>5, <2>3, <3>1, Zenon
  <2>5. \A r \in loc[t].unseen : slot[r] \in ToSet(loc[t].tmp) => r \in loc'[t].unseen
    BY <1>6, <2>3
  <2>6. /\ loc[t].pc # "readVerify"
        /\ loc'[t].pc \notin {"outCas", "verify", "next", "cas", "readVerify"}
    BY <1>3, <2>3
  <2>7. QED  BY <1>0, <1>1, <2>3, <2>4, <2>5, <2>6, Quieter, Zenon
<1>7. CASE slot[s] \in ToSet(loc[t].tmp)
  <2>1. PICK i \in 1 .. Len(loc[t].tmp) :
          /\ loc[t].tmp[i] = slot[s]
          /\ Become(t, [loc[t] EXCEPT !.unseen = @ \ {s}, !.still = Append(@, slot[s]),
                                      !.tmp = RemoveAt(@, i)])
    BY <1>2, <1>7, Zenon
  <2>2. loc'[t] = [loc[t] EXCEPT !.unseen = @ \ {s}, !.still = Append(@, slot[s]),
                                 !.tmp = RemoveAt(@, i)]
    BY <2>1, BecomeFields, OwnFacts, Zenon
  <2>3. /\ loc'[t].pc = "scan" /\ loc'[t].then = loc[t].then /\ loc'[t].out = loc[t].out
        /\ loc'[t].node = loc[t].node /\ loc'[t].tmp = RemoveAt(loc[t].tmp, i)
        /\ loc'[t].still = Append(loc[t].still, slot[s]) /\ loc'[t].unseen = loc[t].unseen \ {s}
    BY <1>3, <2>2, OwnFacts DEF Locals
  <2>4. PICK m : m = slot[s]  OBVIOUS
  <2>5. Good(loc[t].tmp) /\ Good(loc[t].still)  BY InvFacts
  <2>6. /\ Good(RemoveAt(loc[t].tmp, i)) /\ Len(RemoveAt(loc[t].tmp, i)) = Len(loc[t].tmp) - 1
        /\ \A n : n \in ToSet(RemoveAt(loc[t].tmp, i)) <=> n \in ToSet(loc[t].tmp) /\ n # m
    BY <2>1, <2>4, <2>5, Removed
  <2>7. m \in Nodes  BY <1>7, <2>4, <2>5, Elements DEF Good
  <2>8. PICK c \in Seq(Nodes), p \in [Nodes -> Places] : InvOf(c, p)  BY InvFacts
  <2>9. IsAt(loc[t].tmp, <<"tmp", t>>, p) /\ IsAt(loc[t].still, <<"still", t>>, p)
    BY <2>8, Where, Zenon
  <2>10. p[m] = <<"tmp", t>>  BY <1>7, <2>4, <2>7, <2>9, Zenon DEF IsAt
  <2>11. m \notin ToSet(loc[t].still)
    <3>1. <<"tmp", t>> # <<"still", t>>  OBVIOUS
    <3>2. QED  BY <2>7, <2>9, <2>10, <3>1, Zenon DEF IsAt
  <2>12. /\ Good(Append(loc[t].still, m))
         /\ \A n : n \in ToSet(Append(loc[t].still, m)) <=> n \in ToSet(loc[t].still) \/ n = m
    BY <2>5, <2>7, <2>11, Appended
  <2>13. PICK q : Put(t, m, <<"tmp", t>>, <<"still", t>>, p, q)
    <3>1. <<"tmp", t>> \in PlacesFor(t) /\ <<"still", t>> \in PlacesFor(t)  BY PlaceNames, Zenon
    <3>2. QED  BY <2>8, <2>10, <3>1, PutOne, Zenon
  <2>14. /\ Moved(t, {<<"tmp", t>>, <<"still", t>>}, p, q)
         /\ \A n \in Nodes : q[n] = IF n = m THEN <<"still", t>> ELSE p[n]
    BY <2>13 DEF Put
  <2>15. IsAt(loc'[t].tmp, <<"tmp", t>>, q)
    <3>1. \A n \in Nodes : n \in ToSet(loc[t].tmp) <=> p[n] = <<"tmp", t>>  BY <2>9, Zenon DEF IsAt
    <3>2. \A n \in Nodes : n \in ToSet(RemoveAt(loc[t].tmp, i)) <=> q[n] = <<"tmp", t>>
      BY <2>6, <2>14, <3>1
    <3>3. QED  BY <2>3, <2>6, <3>2, NewAt
  <2>16. IsAt(loc'[t].still, <<"still", t>>, q)
    <3>1. \A n \in Nodes : n \in ToSet(loc[t].still) <=> p[n] = <<"still", t>>
      BY <2>9, Zenon DEF IsAt
    <3>2. \A n \in Nodes : n \in ToSet(Append(loc[t].still, m)) <=> q[n] = <<"still", t>>
      BY <2>12, <2>14, <3>1
    <3>3. loc'[t].still = Append(loc[t].still, m)  BY <2>3, <2>4
    <3>4. QED  BY <2>12, <3>2, <3>3, NewAt, Zenon
  <2>17. Follow(t, {<<"tmp", t>>, <<"still", t>>}, c, c, q)
    BY <1>4, <2>3, <2>15, <2>16 DEF Follow, Follows
  <2>18. Safe(t, p, q)
    <3>1. \A n \in Nodes : q[n] \in Open(t) => Clear(n, t, p)  BY <2>14 DEF Open, Clear
    <3>2. ASSUME NEW n \in Nodes, q[n] = <<"tmp", t>>, NEW r \in loc[t].unseen, slot[r] = n
          PROVE  p[n] = <<"tmp", t>> /\ r \in loc'[t].unseen
      BY <2>3, <2>4, <2>14, <3>2
    <3>3. ASSUME NEW n \in Nodes, q[n] = <<"tmp", t>> PROVE p[n] = <<"tmp", t>>
      BY <2>14, <3>3
    <3>4. \A n \in Nodes : q[n] \in {<<"unused", Null>>, <<"lockFree", Null>>} => Popped(n, t, p)
      BY <2>14 DEF Popped
    <3>5. QED  BY <2>3, <3>1, <3>2, <3>3, <3>4, Zenon DEF Safe
  <2>19. NodesOK(loc[t])' /\ ListsOK(t)'
    <3>1. Len(Append(loc[t].still, slot[s])) = Len(loc[t].still) + 1
          /\ Len(loc[t].still) \in Nat /\ Len(loc[t].tmp) \in Nat
      BY <2>5 DEF Good
    <3>2. Len(loc'[t].tmp) + Len(loc'[t].still) = Len(loc[t].tmp) + Len(loc[t].still)
      <4>1. Len(loc'[t].tmp) = Len(loc[t].tmp) - 1  BY <2>3, <2>6, Zenon
      <4>2. Len(loc'[t].still) = Len(loc[t].still) + 1  BY <2>3, <3>1, Zenon
      <4>3. QED
        <5>1. PICK x \in Nat, y \in Nat : x = Len(loc[t].tmp) /\ y = Len(loc[t].still)
          BY <3>1, Zenon
        <5>2. Len(loc'[t].tmp) = x - 1 /\ Len(loc'[t].still) = y + 1  BY <4>1, <4>2, <5>1, Zenon
        <5>3. (x - 1) + (y + 1) = x + y  OBVIOUS
        <5>4. QED  BY <5>1, <5>2, <5>3, Zenon
    <3>3. loc[t].then = "push" => Len(loc'[t].tmp) + Len(loc'[t].still) = 1
      BY <1>3, <3>2, Zenon
    <3>4. QED  BY <1>5, <2>3, <3>3, Zenon
  <2>20. /\ loc[t].pc # "readVerify"
         /\ loc'[t].pc \notin {"outCas", "verify", "next", "cas", "readVerify"}
    BY <1>3, <2>3
  <2>21. UNCHANGED <<head, link, slot>>  BY <1>4
  <2>22. QED
    BY <1>0, <2>8, <2>14, <2>17, <2>18, <2>19, <2>20, <2>21, Settle, Zenon
<1>8. QED  BY <1>6, <1>7

\* Scans that begin: nodes of the list s, which was at place a, are looked at.
LEMMA BeginsOK ==
  ASSUME Inv, NEW t \in Threads, NEW s, NEW w \in Thens \ {"none", "stock"},
         loc'[t] = Scanning(t, s, w), loc[t].out = <<>>, loc[t].node = Null,
         w = "push" => Len(s) = 1, owner'["free"] # t,
         w \in {"own", "clear"} => held'[t] = <<>>,
         w \in {"all", "clearAll"} => owner'["held"] = t /\ gheld' = <<>>
  PROVE  /\ loc'[t].pc = "scan" /\ loc'[t].tmp = s /\ loc'[t].still = <<>>
         /\ loc'[t].unseen = Slots /\ loc'[t].out = <<>> /\ loc'[t].node = Null
         /\ NodesOK(loc[t])' /\ ListsOK(t)'
<1>1. /\ loc'[t].pc = "scan" /\ loc'[t].then = w /\ loc'[t].tmp = s /\ loc'[t].still = <<>>
      /\ loc'[t].unseen = Slots /\ loc'[t].out = <<>> /\ loc'[t].node = Null
  BY ScanningFields
<1>2. NodesOK(loc'[t])
  <2>1. /\ loc'[t].then \in Thens \ {"none"}
        /\ loc'[t].node # Null <=> loc'[t].then = "stock"
    BY <1>1
  <2>2. ASSUME loc'[t].then = "push" PROVE Len(loc'[t].tmp) + Len(loc'[t].still) = 1
    <3>1. Len(loc'[t].tmp) = 1  BY <1>1, <2>2, Zenon
    <3>2. Len(<<>>) = 0 /\ 1 + 0 = 1  OBVIOUS
    <3>3. QED  BY <1>1, <3>1, <3>2, Zenon
  <2>3. QED  BY <1>1, <2>1, <2>2, ScanOK, Zenon
<1>3. NodesOK(loc[t])'  BY <1>2, Zenon DEF NodesOK, ScansFor
<1>4. loc'[t].pc \notin OutPoints  BY <1>1 DEF OutPoints
<1>5. ListsOK(t)'
  <2>1. ASSUME w \in {"own", "stock", "clear"} PROVE held'[t] = <<>>  BY <2>1
  <2>2. QED  BY <1>1, <1>4, <2>1, Zenon DEF ListsOK, ScansFor
<1>6. QED  BY <1>1, <1>3, <1>5

\* A whole list at place a goes to the scan.
LEMMA ListScanned ==
  ASSUME Inv, NEW t \in Threads, Step(t), NEW s, NEW w \in {"own", "all", "clearAll"},
         loc'[t] = Scanning(t, s, w), loc[t].pc \in Bare, loc[t].pc # "readVerify",
         UNCHANGED <<head, link, slot, free, gfree, inUse, allocated>>,
         owner'["free"] = owner["free"],
         \/ w = "own" /\ s = held[t] /\ held'[t] = <<>> /\ UNCHANGED gheld
         \/ /\ w # "own" /\ s = gheld /\ gheld' = <<>> /\ owner'["held"] = t
            /\ held'[t] = held[t]
  PROVE  Inv'
<1> DEFINE a == IF w = "own" THEN <<"held", t>> ELSE <<"gheld", Null>>
<1>1. loc[t].tmp = <<>> /\ loc[t].still = <<>> /\ loc[t].out = <<>> /\ loc[t].node = Null
  BY BareFacts, OwnFacts
<1>2. owner'["free"] # t
  <2>1. ListsOK(t) /\ loc[t].pc \notin OutPoints  BY OwnFacts DEF Bare, OutPoints
  <2>2. QED  BY <2>1 DEF ListsOK
<1>3. /\ loc'[t].pc = "scan" /\ loc'[t].tmp = s /\ loc'[t].still = <<>>
      /\ loc'[t].unseen = Slots /\ loc'[t].out = <<>> /\ loc'[t].node = Null
      /\ NodesOK(loc[t])' /\ ListsOK(t)'
  <2>1. w \in Thens \ {"none", "stock"} /\ w # "push" /\ w # "clear"  BY DEF Thens
  <2>2. /\ w \in {"own", "clear"} => held'[t] = <<>>
        /\ w \in {"all", "clearAll"} => owner'["held"] = t /\ gheld' = <<>>
    OBVIOUS
  <2>3. QED  BY <1>1, <1>2, <2>1, <2>2, BeginsOK, Zenon
<1>4. PICK c \in Seq(Nodes), p \in [Nodes -> Places] : InvOf(c, p)  BY InvFacts
<1>5. IsAt(s, a, p) /\ a \in PlacesFor(t)
  <2>1. /\ IsAt(gheld, <<"gheld", Null>>, p) /\ IsAt(held[t], <<"held", t>>, p)
        /\ <<"gheld", Null>> \in PlacesFor(t) /\ <<"held", t>> \in PlacesFor(t)
    BY <1>4, Where, PlaceNames, Zenon
  <2>2. QED  BY <2>1
<1>6. a # <<"tmp", t>> /\ a \notin Open(t) /\ a \notin {<<"unused", Null>>, <<"lockFree", Null>>}
  BY DEF Open
<1>7. PICK q : Poured(t, s, a, <<"tmp", t>>, p, q)
  <2>1. <<"tmp", t>> \in PlacesFor(t)  BY PlaceNames, Zenon
  <2>2. QED  BY <1>4, <1>5, <2>1, Pour, Zenon
<1>8. /\ Moved(t, {a, <<"tmp", t>>}, p, q)
      /\ \A n \in Nodes : q[n] = IF n \in ToSet(s) THEN <<"tmp", t>> ELSE p[n]
  BY <1>7, Zenon DEF Poured
<1>9. IsAt(<<>>, a, q) /\ IsAt(s, <<"tmp", t>>, q)
  <2>1. IsAt(loc[t].tmp, <<"tmp", t>>, p)  BY <1>4, Where, Zenon
  <2>2. QED  BY <1>1, <1>5, <1>6, <1>7, <2>1, Left, Received, Zenon
<1>10. Follow(t, {a, <<"tmp", t>>}, c, c, q)
  <2>1. CASE w = "own"
    <3>1. a = <<"held", t>>  BY <2>1
    <3>2. QED  BY <1>1, <1>3, <1>9, <2>1, <3>1 DEF Follow, Follows
  <2>2. CASE w # "own"
    <3>1. a = <<"gheld", Null>>  BY <2>2
    <3>2. QED  BY <1>1, <1>3, <1>9, <2>2, <3>1 DEF Follow, Follows
  <2>3. QED  BY <2>1, <2>2
<1> HIDE DEF a
<1>11. Safe(t, p, q)
  <2>1. \A n \in Nodes : q[n] \in Open(t) => Clear(n, t, p)  BY <1>8 DEF Clear, Open
  <2>2. \A n \in Nodes : q[n] \in {<<"unused", Null>>, <<"lockFree", Null>>} => Popped(n, t, p)
    BY <1>8 DEF Popped
  <2>3. QED  BY <1>3, <2>1, <2>2, Zenon DEF Safe
<1>12. loc'[t].pc \notin {"outCas", "verify", "next", "cas", "readVerify"}  BY <1>3
<1>13. QED  BY <1>3, <1>4, <1>8, <1>10, <1>11, <1>12, Settle, Zenon

LEMMA PopHeldStep == ASSUME Inv, NEW t \in Threads, PopHeld(t) PROVE Inv'
<1>0. Step(t)  BY Zenon DEF Step
<1>1. /\ loc[t].pc = "popHeld" /\ held' = [held EXCEPT ![t] = <<>>]
      /\ UNCHANGED <<head, link, slot, free, gfree, gheld, owner, inUse, allocated, calls>>
  BY Zenon DEF PopHeld, At
<1>2. TypeOK /\ held'[t] = <<>>
  <2>1. TypeOK  BY OwnFacts
  <2>2. QED  BY <1>1, <2>1 DEF TypeOK
<1>3. loc[t].pc \in Bare /\ loc[t].pc # "readVerify"  BY <1>1 DEF Bare
<1>4. CASE held[t] = <<>>
  <2>1. Goto(t, "popHeldLock")  BY <1>4, Zenon DEF PopHeld
  <2>2. held' = held  BY <1>1, <1>2, <1>4 DEF TypeOK
  <2>3. /\ loc'[t].pc = "popHeldLock" /\ loc'[t].node = loc[t].node
        /\ loc'[t].tmp = loc[t].tmp /\ loc'[t].still = loc[t].still /\ loc'[t].out = loc[t].out
    BY <1>2, <2>1, GotoFields
  <2>4. loc'[t].pc \in Bare  BY <2>3 DEF Bare
  <2>5. NodesOK(loc[t])' /\ ListsOK(t)' /\ ~ At(t, "scan") /\ \A n : n \notin ToSet(loc[t].tmp)
    BY <1>1, <1>3, <2>3, <2>4, BareStep, Zenon
  <2>6. loc'[t].pc \notin {"outCas", "verify", "next", "cas", "readVerify"}  BY <2>3
  <2>7. UNCHANGED <<head, link, slot, lists, inUse, allocated>>  BY <1>1, <2>2 DEF lists
  <2>8. QED  BY <1>0, <1>3, <2>3, <2>5, <2>6, <2>7, Quieter, Zenon
<1>5. CASE held[t] # <<>>
  <2>1. Become(t, Scanning(t, held[t], "own"))  BY <1>5, Zenon DEF PopHeld
  <2>2. loc'[t] = Scanning(t, held[t], "own")  BY <1>2, <2>1, BecomeFields, Zenon
  <2>3. /\ UNCHANGED <<head, link, slot, free, gfree, inUse, allocated>>
        /\ owner'["free"] = owner["free"] /\ UNCHANGED gheld
    BY <1>1
  <2>4. QED  BY <1>0, <1>2, <1>3, <2>2, <2>3, ListScanned
<1>6. QED  BY <1>4, <1>5

LEMMA HeldLockedSteps ==
  ASSUME Inv, NEW t \in Threads, PopHeldLocked(t) \/ ClearHeldLocked(t) PROVE Inv'
<1>0. Step(t)  BY Zenon DEF Step
<1>1. PICK w \in {"all", "clearAll"} :
        /\ loc[t].pc \in {"popHeldLock", "clearHeldLock"}
        /\ Become(t, Scanning(t, gheld, w)) /\ gheld' = <<>>
        /\ owner' = [owner EXCEPT !["held"] = t]
        /\ UNCHANGED <<head, link, slot, free, held, gfree, inUse, allocated, calls>>
  <2>1. CASE PopHeldLocked(t)  BY <2>1 DEF PopHeldLocked, At
  <2>2. CASE ClearHeldLocked(t)  BY <2>2 DEF ClearHeldLocked, At
  <2>3. QED  BY <2>1, <2>2
<1>2. TypeOK  BY OwnFacts
<1>3. owner'["held"] = t /\ owner'["free"] = owner["free"]  BY <1>1, <1>2 DEF TypeOK, Locks
<1>4. loc'[t] = Scanning(t, gheld, w)  BY <1>1, <1>2, BecomeFields, Zenon
<1>5. loc[t].pc \in Bare /\ loc[t].pc # "readVerify"  BY <1>1 DEF Bare
<1>6. UNCHANGED <<head, link, slot, free, gfree, inUse, allocated>> /\ held'[t] = held[t]  BY <1>1
<1>7. w \in {"own", "all", "clearAll"} /\ w # "own"  OBVIOUS
<1>8. QED  BY <1>0, <1>1, <1>3, <1>4, <1>5, <1>6, <1>7, ListScanned, Zenon

LEMMA CallPushStep == ASSUME Inv, NEW t \in Threads, CallPush(t) PROVE Inv'
<1>0. Step(t)  BY Zenon DEF Step
<1>1. /\ loc[t].pc = "idle"
      /\ UNCHANGED <<head, link, slot, lists, owner, allocated>>
  BY Zenon DEF CallPush, Begin, At
<1>2. PICK m \in inUse : inUse' = inUse \ {m} /\ Become(t, Scanning(t, <<m>>, "push"))
  BY Zenon DEF CallPush
<1>3. UNCHANGED <<free, held, gfree, gheld, allocated>> /\ UNCHANGED <<head, link, slot, owner>>
  BY <1>1 DEF lists
<1>4. loc[t].tmp = <<>> /\ loc[t].still = <<>> /\ loc[t].out = <<>> /\ loc[t].node = Null
  <2>1. NodesOK(loc[t]) /\ loc[t].pc \in Bare \cup {"idle"}  BY <1>1, OwnFacts
  <2>2. QED  BY <2>1, BareFacts
<1>5. m \in Nodes  BY OwnFacts DEF TypeOK
<1>6. owner'["free"] # t
  <2>1. ListsOK(t) /\ loc[t].pc \notin OutPoints  BY <1>1, OwnFacts DEF OutPoints
  <2>2. QED  BY <1>3, <2>1 DEF ListsOK
<1>7. /\ loc'[t].pc = "scan" /\ loc'[t].tmp = <<m>> /\ loc'[t].still = <<>>
      /\ loc'[t].unseen = Slots /\ loc'[t].out = <<>> /\ loc'[t].node = Null
      /\ NodesOK(loc[t])' /\ ListsOK(t)'
  <2>1. loc'[t] = Scanning(t, <<m>>, "push")  BY <1>2, BecomeFields, OwnFacts, Zenon
  <2>2. "push" \in Thens \ {"none", "stock"} /\ "push" \notin {"own", "clear"}
        /\ "push" \notin {"all", "clearAll"}
    BY DEF Thens
  <2>3. Len(<<m>>) = 1  OBVIOUS
  <2>4. QED  BY <1>4, <1>6, <2>1, <2>2, <2>3, BeginsOK, Zenon
<1>8. PICK c \in Seq(Nodes), p \in [Nodes -> Places] : InvOf(c, p)  BY InvFacts
<1>9. p[m] = <<"inUse", Null>> /\ IsAt(loc[t].tmp, <<"tmp", t>>, p)
      /\ \A n \in Nodes : n \in inUse <=> p[n] = <<"inUse", Null>>
  <2>1. IsAt(loc[t].tmp, <<"tmp", t>>, p)  BY <1>8, Where, Zenon
  <2>2. \A n \in Nodes : n \in inUse <=> p[n] = <<"inUse", Null>>  BY <1>8, WhereOne, Zenon
  <2>3. QED  BY <1>5, <2>1, <2>2
<1>10. \A n \in Nodes : p[n] # <<"node", t>>  BY <1>4, <1>8, Empties, Zenon
<1>11. PICK q : Put(t, m, <<"inUse", Null>>, <<"tmp", t>>, p, q)
  <2>1. <<"inUse", Null>> \in PlacesFor(t) /\ <<"tmp", t>> \in PlacesFor(t)  BY PlaceNames, Zenon
  <2>2. QED  BY <1>8, <1>9, <2>1, PutOne, Zenon
<1>12. /\ Moved(t, {<<"inUse", Null>>, <<"tmp", t>>}, p, q)
       /\ \A n \in Nodes : q[n] = IF n = m THEN <<"tmp", t>> ELSE p[n]
  BY <1>11 DEF Put
<1>13. Follow(t, {<<"inUse", Null>>, <<"tmp", t>>}, c, c, q)
  <2>1. IsAt(<<m>>, <<"tmp", t>>, q)
    <3>1. <<"inUse", Null>> # <<"tmp", t>>  OBVIOUS
    <3>2. QED  BY <1>4, <1>5, <1>9, <1>11, <3>1, ReceivedOne, Zenon
  <2>2. \A n \in Nodes : n \in inUse' <=> q[n] = <<"inUse", Null>>  BY <1>2, <1>9, <1>12
  <2>3. QED  BY <1>3, <1>4, <1>7, <2>1, <2>2 DEF Follow, Follows
<1>14. Safe(t, p, q)
  <2>1. \A n \in Nodes : q[n] \in Open(t) => Clear(n, t, p)  BY <1>12 DEF Clear, Open
  <2>2. \A n \in Nodes : q[n] \in {<<"unused", Null>>, <<"lockFree", Null>>} => Popped(n, t, p)
    BY <1>12 DEF Popped
  <2>3. QED  BY <1>7, <2>1, <2>2, Zenon DEF Safe
<1>15. /\ loc[t].pc # "readVerify" /\ UNCHANGED <<head, link, slot>>
       /\ loc'[t].pc \notin {"outCas", "verify", "next", "cas", "readVerify"}
  BY <1>1, <1>3, <1>7
<1>16. QED  BY <1>0, <1>7, <1>8, <1>12, <1>13, <1>14, <1>15, Settle, Zenon

\* A scan is over: what it has not found is not in hazard.
LEMMA ScannedFacts ==
  ASSUME Inv, NEW t \in Threads, NEW w, Scanned(t, w), NEW c, NEW p, InvOf(c, p)
  PROVE  /\ At(t, "scan") /\ loc[t].pc = "scan" /\ loc[t].then = w
         /\ loc[t].tmp # <<>> => loc[t].unseen = {}
         /\ \A n \in Nodes : p[n] = <<"tmp", t>> => Clear(n, t, p)
<1>1. /\ At(t, "scan") /\ loc[t].then = w /\ (loc[t].tmp = <<>> \/ loc[t].unseen = {})
  BY Zenon DEF Scanned
<1>2. loc[t].tmp = <<>> => \A n \in Nodes : p[n] # <<"tmp", t>>  BY Empties, Zenon
<1>3. QED  BY <1>1, <1>2, Zenon DEF At, Clear

\* The nodes that a scan has found free go to a list, and the call is over.
LEMMA TmpGiven ==
  ASSUME Inv, NEW t \in Threads, Step(t), loc[t].pc \in {"scan", "pushLock"}, loc[t].unseen = {},
         loc[t].still = <<>>, loc[t].out = <<>>, loc[t].node = Null, loc'[t] = Idle,
         owner["free"] # t, UNCHANGED <<head, link, slot, owner, held, gheld, inUse, allocated>>,
         \/ free'[t] = free[t] \o loc[t].tmp /\ UNCHANGED gfree
         \/ gfree' = gfree \o loc[t].tmp /\ free'[t] = free[t]
  PROVE  Inv'
<1>1. /\ loc'[t].tmp = <<>> /\ loc'[t].still = <<>> /\ loc'[t].out = <<>> /\ loc'[t].node = Null
      /\ loc'[t].pc = "idle" /\ NodesOK(loc[t])' /\ ListsOK(t)'
  <2>1. owner'["free"] # t  OBVIOUS
  <2>2. NodesOK(loc[t])' /\ ListsOK(t)'  BY <2>1, Idles
  <2>3. QED  BY <2>2 DEF Idle
<1>2. PICK c \in Seq(Nodes), p \in [Nodes -> Places] : InvOf(c, p)  BY InvFacts
<1>3. /\ IsAt(loc[t].tmp, <<"tmp", t>>, p) /\ IsAt(free[t], <<"free", t>>, p)
      /\ IsAt(gfree, <<"gfree", Null>>, p)
  BY <1>2, Where, Zenon
<1>4. ASSUME NEW r, NEW b \in {<<"free", t>>, <<"gfree", Null>>}, IsAt(r, b, p),
             \A q : IsAt(r \o loc[t].tmp, b, q) /\ IsAt(<<>>, <<"tmp", t>>, q)
                    => Follow(t, {<<"tmp", t>>, b}, c, c, q)
      PROVE  Inv'
  <2>1. <<"tmp", t>> # b /\ b \in Open(t) /\ b \notin {<<"unused", Null>>, <<"lockFree", Null>>}
    BY DEF Open
  <2>2. PICK q : Poured(t, loc[t].tmp, <<"tmp", t>>, b, p, q)
    <3>1. <<"tmp", t>> \in PlacesFor(t) /\ b \in PlacesFor(t)
      BY PlaceNames, Zenon
    <3>2. QED  BY <1>2, <1>3, <3>1, Pour, Zenon
  <2>3. IsAt(r \o loc[t].tmp, b, q) /\ IsAt(<<>>, <<"tmp", t>>, q)
    BY <1>3, <1>4, <2>1, <2>2, Left, Received, Zenon
  <2>4. Follow(t, {<<"tmp", t>>, b}, c, c, q)  BY <1>4, <2>3, Zenon
  <2>5. /\ Moved(t, {<<"tmp", t>>, b}, p, q)
        /\ \A n \in Nodes : q[n] = IF n \in ToSet(loc[t].tmp) THEN b ELSE p[n]
    BY <2>2, Zenon DEF Poured
  <2>6. Safe(t, p, q)
    <3>1. \A n \in Nodes : n \in ToSet(loc[t].tmp) <=> p[n] = <<"tmp", t>>
      BY <1>3, Zenon DEF IsAt
    <3>2. \A n \in Nodes : q[n] \in Open(t) => Clear(n, t, p)  BY <2>5, <3>1, Zenon DEF Clear
    <3>3. \A n \in Nodes : q[n] # <<"tmp", t>>  BY <2>1, <2>5, <3>1
    <3>4. \A n \in Nodes : q[n] \in {<<"unused", Null>>, <<"lockFree", Null>>} => Popped(n, t, p)
      BY <2>1, <2>5 DEF Popped
    <3>5. \A n \in Nodes : q[n] # <<"node", t>>
      <4>1. \A n \in Nodes : p[n] # <<"node", t>>  BY <1>2, Empties, Zenon
      <4>2. <<"node", t>> # b  OBVIOUS
      <4>3. QED  BY <2>5, <4>1, <4>2
    <3>6. QED  BY <3>2, <3>3, <3>4, <3>5, Zenon DEF Safe
  <2>7. /\ loc[t].pc # "readVerify" /\ UNCHANGED <<head, link, slot>>
        /\ loc'[t].pc \notin {"outCas", "verify", "next", "cas", "readVerify"}
    BY <1>1
  <2>8. QED  BY <1>1, <1>2, <2>4, <2>5, <2>6, <2>7, Settle, Zenon
<1>5. CASE free'[t] = free[t] \o loc[t].tmp /\ UNCHANGED gfree
  <2>1. ASSUME NEW q, IsAt(free[t] \o loc[t].tmp, <<"free", t>>, q), IsAt(<<>>, <<"tmp", t>>, q)
        PROVE  Follow(t, {<<"tmp", t>>, <<"free", t>>}, c, c, q)
    BY <1>1, <1>5, <2>1 DEF Follow, Follows
  <2>2. QED  BY <1>3, <1>4, <2>1, Zenon
<1>6. CASE gfree' = gfree \o loc[t].tmp /\ free'[t] = free[t]
  <2>1. ASSUME NEW q, IsAt(gfree \o loc[t].tmp, <<"gfree", Null>>, q), IsAt(<<>>, <<"tmp", t>>, q)
        PROVE  Follow(t, {<<"tmp", t>>, <<"gfree", Null>>}, c, c, q)
    BY <1>1, <1>6, <2>1 DEF Follow, Follows
  <2>2. QED  BY <1>3, <1>4, <2>1, Zenon
<1>7. QED  BY <1>5, <1>6, Zenon

LEMMA PushFreeStep == ASSUME Inv, NEW t \in Threads, PushFree(t) PROVE Inv'
<1>0. Step(t)  BY Zenon DEF Step
<1>1. /\ Scanned(t, "push") /\ loc[t].tmp # <<>>
      /\ UNCHANGED <<head, link, slot, held, gfree, gheld, owner, inUse, allocated, calls>>
  BY Zenon DEF PushFree
<1>2. PICK c \in Seq(Nodes), p \in [Nodes -> Places] : InvOf(c, p)  BY InvFacts
<1>3. At(t, "scan") /\ loc[t].pc = "scan" /\ loc[t].then = "push" /\ loc[t].unseen = {}
  BY <1>1, <1>2, ScannedFacts, Zenon
<1>4. /\ loc[t].out = <<>> /\ loc[t].node = Null /\ owner["free"] # t
      /\ Len(loc[t].tmp) + Len(loc[t].still) = 1
  <2>1. "push" # "stock"  OBVIOUS
  <2>2. QED  BY <1>3, <2>1, ScanFacts, Zenon
<1>5. loc[t].still = <<>>
  <2>1. Good(loc[t].tmp) /\ Good(loc[t].still)  BY InvFacts
  <2>2. Len(loc[t].tmp) \in Nat \ {0} /\ Len(loc[t].still) \in Nat
        /\ (Len(loc[t].still) = 0 <=> loc[t].still = <<>>)
    BY <1>1, <2>1, Elements DEF Good
  <2>3. \A x \in Nat \ {0}, y \in Nat : x + y = 1 => y = 0  OBVIOUS
  <2>4. QED  BY <1>4, <2>2, <2>3, Zenon
<1>6. TypeOK  BY OwnFacts
<1>7. CASE Len(free[t]) <= 1
  <2>1. free' = [free EXCEPT ![t] = @ \o loc[t].tmp] /\ Become(t, Idle)
    BY <1>7, Zenon DEF PushFree, Return
  <2>2. free'[t] = free[t] \o loc[t].tmp  BY <1>6, <2>1 DEF TypeOK
  <2>3. loc'[t] = Idle  BY <1>6, <2>1, BecomeFields
  <2>4. UNCHANGED <<head, link, slot, owner, held, gheld, inUse, allocated>> /\ UNCHANGED gfree
    BY <1>1
  <2>5. loc[t].pc \in {"scan", "pushLock"}  BY <1>3
  <2>6. QED  BY <1>0, <1>3, <1>4, <1>5, <2>2, <2>3, <2>4, <2>5, TmpGiven, Zenon
<1>8. CASE ~(Len(free[t]) <= 1)
  <2>1. UNCHANGED free /\ Goto(t, "pushLock")  BY <1>8, Zenon DEF PushFree
  <2>2. /\ loc'[t].pc = "pushLock" /\ loc'[t].node = loc[t].node /\ loc'[t].unseen = loc[t].unseen
        /\ loc'[t].tmp = loc[t].tmp /\ loc'[t].still = loc[t].still /\ loc'[t].out = loc[t].out
    BY <1>6, <2>1, GotoFields
  <2>3. NodesOK(loc'[t])
    <3>1. loc'[t].pc \notin {"idle", "scan", "drop", "got"} \cup OutPoints  BY <2>2 DEF OutPoints
    <3>2. \A whom : ~ ScansFor(loc'[t], whom)  BY <3>1 DEF ScansFor
    <3>3. /\ loc'[t].still = <<>> /\ loc'[t].out = <<>> /\ loc'[t].node = Null
          /\ loc'[t].unseen = {}
      BY <1>3, <1>4, <1>5, <2>2
    <3>4. QED  BY <2>2, <3>1, <3>2, <3>3 DEF NodesOK
  <2>4. NodesOK(loc[t])'  BY <2>3, Zenon DEF NodesOK, ScansFor
  <2>5. ListsOK(t)'  BY <1>1, <1>4, <2>2 DEF ListsOK, ScansFor, OutPoints
  <2>6. /\ loc[t].pc # "readVerify"
        /\ loc'[t].pc \notin {"outCas", "verify", "next", "cas", "readVerify"}
    BY <1>3, <2>2
  <2>7. UNCHANGED <<head, link, slot, lists, inUse, allocated>>  BY <1>1, <2>1 DEF lists
  <2>8. QED  BY <1>0, <1>4, <2>2, <2>4, <2>5, <2>6, <2>7, Quieter, Zenon
<1>9. QED  BY <1>7, <1>8

LEMMA PushLockFacts ==
  ASSUME Inv, NEW t \in Threads, loc[t].pc = "pushLock"
  PROVE  /\ loc[t].still = <<>> /\ loc[t].out = <<>> /\ loc[t].node = Null /\ loc[t].unseen = {}
         /\ owner["free"] # t
<1>1. NodesOK(loc[t]) /\ ListsOK(t)  BY OwnFacts
<1>2. loc[t].pc \notin {"idle", "scan", "drop", "got"} \cup OutPoints  BY DEF OutPoints
<1>3. ~ ScansFor(loc[t], {"stock"})  BY DEF ScansFor
<1>4. loc[t].still = <<>> /\ loc[t].out = <<>> /\ loc[t].node = Null /\ loc[t].unseen = {}
  BY <1>1, <1>2, <1>3 DEF NodesOK
<1>5. QED  BY <1>1, <1>2, <1>4 DEF ListsOK

LEMMA PushLockedStep == ASSUME Inv, NEW t \in Threads, PushLocked(t) PROVE Inv'
<1>0. Step(t)  BY Zenon DEF Step
<1>1. /\ loc[t].pc = "pushLock" /\ gfree' = gfree \o loc[t].tmp /\ Become(t, Idle)
      /\ UNCHANGED <<head, link, slot, free, held, gheld, owner, inUse, allocated, calls>>
  BY Zenon DEF PushLocked, At, Return
<1>2. /\ loc[t].still = <<>> /\ loc[t].out = <<>> /\ loc[t].node = Null /\ loc[t].unseen = {}
      /\ owner["free"] # t
  BY <1>1, PushLockFacts
<1>3. loc'[t] = Idle  BY <1>1, BecomeFields, OwnFacts
<1>4. UNCHANGED <<head, link, slot, owner, held, gheld, inUse, allocated>> /\ free'[t] = free[t]
  BY <1>1
<1>5. loc[t].pc \in {"scan", "pushLock"}  BY <1>1
<1>6. QED  BY <1>0, <1>1, <1>2, <1>3, <1>4, <1>5, TmpGiven, Zenon

LEMMA PushUnlockedStep == ASSUME Inv, NEW t \in Threads, PushUnlocked(t) PROVE Inv'
<1>0. Step(t)  BY Zenon DEF Step
<1>1. /\ loc[t].pc = "pushLock"
      /\ UNCHANGED <<head, link, slot, held, gfree, gheld, owner, inUse, allocated, calls>>
  BY Zenon DEF PushUnlocked, At
<1>2. /\ loc[t].still = <<>> /\ loc[t].out = <<>> /\ loc[t].node = Null /\ loc[t].unseen = {}
      /\ owner["free"] # t
  BY <1>1, PushLockFacts
<1>3. TypeOK  BY OwnFacts
<1>4. CASE ~(Len(free[t]) >= AggThreshold)
  <2>1. free' = [free EXCEPT ![t] = @ \o loc[t].tmp] /\ Become(t, Idle)
    BY <1>4, Zenon DEF PushUnlocked, Return
  <2>2. free'[t] = free[t] \o loc[t].tmp  BY <1>3, <2>1 DEF TypeOK
  <2>3. loc'[t] = Idle  BY <1>3, <2>1, BecomeFields
  <2>4. UNCHANGED <<head, link, slot, owner, held, gheld, inUse, allocated>> /\ UNCHANGED gfree
    BY <1>1
  <2>5. loc[t].pc \in {"scan", "pushLock"}  BY <1>1
  <2>6. QED  BY <1>0, <1>2, <2>2, <2>3, <2>4, <2>5, TmpGiven, Zenon
<1>5. CASE Len(free[t]) >= AggThreshold
  <2>1. /\ free' = [free EXCEPT ![t] = Tail(@)]
        /\ Become(t, [loc[t] EXCEPT !.pc = "outLoad", !.tmp = <<>>,
                                    !.out = loc[t].tmp \o <<free[t][1]>>])
    BY <1>5, Zenon DEF PushUnlocked
  <2>2. loc'[t] = [loc[t] EXCEPT !.pc = "outLoad", !.tmp = <<>>,
                                 !.out = loc[t].tmp \o <<free[t][1]>>]
    BY <1>3, <2>1, BecomeFields, Zenon
  <2>3. Good(loc[t].tmp) /\ Good(free[t]) /\ free[t] # <<>> /\ free[t][1] \in Nodes
    <3>1. Good(loc[t].tmp) /\ Good(free[t])  BY InvFacts
    <3>2. free[t] # <<>>
      <4>1. Len(free[t]) # 0  BY <1>5, <3>1, PoolAssumption DEF Good
      <4>2. QED  BY <3>1, <4>1, Elements DEF Good
    <3>3. QED  BY <3>1, <3>2, Rest
  <2>4. PICK m \in Nodes : m = free[t][1]  BY <2>3
  <2>5. loc[t].tmp \o <<free[t][1]>> = Append(loc[t].tmp, m)  BY <2>3, <2>4 DEF Good
  <2>6. /\ loc'[t].pc = "outLoad" /\ loc'[t].tmp = <<>> /\ loc'[t].still = <<>>
        /\ loc'[t].out = Append(loc[t].tmp, m) /\ loc'[t].node = Null
    BY <1>2, <2>2, <2>5, OwnFacts DEF Locals
  <2>7. free'[t] = Tail(free[t])  BY <1>3, <2>1 DEF TypeOK
  <2>8. PICK c \in Seq(Nodes), p \in [Nodes -> Places] : InvOf(c, p)  BY InvFacts
  <2>9. /\ IsAt(loc[t].tmp, <<"tmp", t>>, p) /\ IsAt(free[t], <<"free", t>>, p)
        /\ IsAt(loc[t].out, <<"out", t>>, p)
    BY <2>8, Where, Zenon
  <2>10. /\ <<"tmp", t>> \in PlacesFor(t) /\ <<"free", t>> \in PlacesFor(t)
         /\ <<"out", t>> \in PlacesFor(t)
    BY PlaceNames, Zenon
  <2>11. PICK x : Poured(t, loc[t].tmp, <<"tmp", t>>, <<"out", t>>, p, x)
    BY <2>8, <2>9, <2>10, Pour, Zenon
  <2>12. /\ Moved(t, {<<"tmp", t>>, <<"out", t>>}, p, x) /\ x \in [Nodes -> Places]
         /\ \A n \in Nodes : x[n] = IF n \in ToSet(loc[t].tmp) THEN <<"out", t>> ELSE p[n]
    BY <2>11, Zenon DEF Poured, Moved
  <2>13. IsAt(<<>>, <<"tmp", t>>, x) /\ IsAt(loc[t].tmp, <<"out", t>>, x)
    <3>1. <<"tmp", t>> # <<"out", t>>  OBVIOUS
    <3>2. QED  BY <1>2, <2>9, <2>11, <3>1, Left, Received, Zenon
  <2>14. IsAt(free[t], <<"free", t>>, x)
    <3>1. <<"free", t>> \notin {<<"tmp", t>>, <<"out", t>>}  OBVIOUS
    <3>2. QED  BY <2>9, <2>12, <3>1, Stays, Zenon
  <2>15. p[m] = <<"free", t>> /\ x[m] = <<"free", t>>
    <3>1. m \in ToSet(free[t])  BY <2>3, <2>4, Rest
    <3>2. QED  BY <2>9, <2>14, <3>1, Zenon DEF IsAt
  <2>16. PICK q : Put(t, m, <<"free", t>>, <<"out", t>>, x, q)
    BY <2>10, <2>12, <2>15, PutOne, Zenon
  <2>17. /\ Moved(t, {<<"free", t>>, <<"out", t>>}, x, q)
         /\ \A n \in Nodes : q[n] = IF n = m THEN <<"out", t>> ELSE x[n]
    BY <2>16, Zenon DEF Put
  <2>18. /\ IsAt(Tail(free[t]), <<"free", t>>, q)
         /\ IsAt(Append(loc[t].tmp, m), <<"out", t>>, q) /\ IsAt(<<>>, <<"tmp", t>>, q)
    <3>1. <<"free", t>> # <<"out", t>> /\ <<"tmp", t>> \notin {<<"free", t>>, <<"out", t>>}
      OBVIOUS
    <3>2. IsAt(Tail(free[t]), <<"free", t>>, q)
      <4>1. Put(t, free[t][1], <<"free", t>>, <<"out", t>>, x, q)  BY <2>4, <2>16
      <4>2. QED  BY <2>3, <2>14, <3>1, <4>1, LeftFirst, Zenon
    <3>3. IsAt(Append(loc[t].tmp, m), <<"out", t>>, q)
      BY <2>13, <2>15, <2>16, <3>1, ReceivedOne, Zenon
    <3>4. IsAt(<<>>, <<"tmp", t>>, q)  BY <2>13, <2>17, <3>1, Stays, Zenon
    <3>5. QED  BY <3>2, <3>3, <3>4
  <2> DEFINE K == {<<"tmp", t>>, <<"out", t>>} \cup {<<"free", t>>, <<"out", t>>}
  <2>19. Moved(t, K, p, q)  BY <2>12, <2>17, MovedTwice, Zenon
  <2>20. Follow(t, K, c, c, q)
    BY <1>1, <1>2, <2>6, <2>7, <2>18 DEF Follow, Follows
  <2> HIDE DEF K
  <2>21. Safe(t, p, q)
    <3>1. \A n \in Nodes : n \in ToSet(loc[t].tmp) <=> p[n] = <<"tmp", t>>
      BY <2>9, Zenon DEF IsAt
    <3>2. \A n \in Nodes : q[n] \in Open(t) => Clear(n, t, p)
      BY <1>2, <2>12, <2>15, <2>17, <3>1 DEF Open, Clear
    <3>3. \A n \in Nodes : q[n] # <<"tmp", t>>  BY <2>12, <2>17, <3>1
    <3>4. \A n \in Nodes : q[n] \in {<<"unused", Null>>, <<"lockFree", Null>>} => Popped(n, t, p)
      BY <2>12, <2>17 DEF Popped
    <3>5. \A n \in Nodes : q[n] # <<"node", t>>
      <4>1. \A n \in Nodes : p[n] # <<"node", t>>  BY <1>2, <2>8, Empties, Zenon
      <4>2. QED  BY <2>12, <2>17, <4>1
    <3>6. QED  BY <3>2, <3>3, <3>4, <3>5, Zenon DEF Safe
  <2>22. NodesOK(loc[t])'
    <3>1. Append(loc[t].tmp, m) # <<>>
      <4>1. m \in ToSet(Append(loc[t].tmp, m))
        <5>1. <<"out", t>> = q[m]  BY <2>17
        <5>2. QED  BY <2>18, <5>1, Zenon DEF IsAt
      <4>2. QED  BY <4>1, NoNodes, Zenon
    <3>2. NodesOK(loc'[t])
      <4>1. /\ loc'[t].pc \in OutPoints /\ loc'[t].tmp = <<>> /\ loc'[t].still = <<>>
            /\ loc'[t].out # <<>>
        BY <2>6, <3>1 DEF OutPoints
      <4>2. QED  BY <4>1, OutOK, Zenon
    <3>3. QED  BY <3>2, Zenon DEF NodesOK, ScansFor
  <2>23. ListsOK(t)'  BY <1>1, <1>2, <2>6 DEF ListsOK, ScansFor, OutPoints
  <2>24. /\ loc[t].pc # "readVerify" /\ UNCHANGED <<head, link, slot>>
         /\ loc'[t].pc \notin {"outCas", "verify", "next", "cas", "readVerify"}
    BY <1>1, <2>6
  <2>25. QED  BY <1>0, <2>8, <2>19, <2>20, <2>21, <2>22, <2>23, <2>24, Settle, Zenon
<1>6. QED  BY <1>4, <1>5

LEMMA PushHeldStep == ASSUME Inv, NEW t \in Threads, PushHeld(t) PROVE Inv'
<1>0. Step(t)  BY Zenon DEF Step
<1>1. /\ Scanned(t, "push") /\ loc[t].tmp = <<>>
      /\ UNCHANGED <<head, link, slot, free, gfree, gheld, owner, inUse, allocated, calls>>
  BY Zenon DEF PushHeld
<1>2. PICK c \in Seq(Nodes), p \in [Nodes -> Places] : InvOf(c, p)  BY InvFacts
<1>3. At(t, "scan") /\ loc[t].pc = "scan" /\ loc[t].then = "push"
  BY <1>1, <1>2, ScannedFacts, Zenon
<1>4. /\ loc[t].out = <<>> /\ loc[t].node = Null /\ owner["free"] # t
      /\ Len(loc[t].tmp) + Len(loc[t].still) = 1
  <2>1. "push" # "stock"  OBVIOUS
  <2>2. QED  BY <1>3, <2>1, ScanFacts, Zenon
<1>5. TypeOK  BY OwnFacts
<1>6. /\ IsAt(loc[t].tmp, <<"tmp", t>>, p) /\ IsAt(loc[t].still, <<"still", t>>, p)
      /\ IsAt(held[t], <<"held", t>>, p)
  BY <1>2, Where, Zenon
<1>7. /\ \A n \in Nodes : p[n] # <<"node", t>> /\ p[n] # <<"tmp", t>>
  BY <1>1, <1>2, <1>4, Empties, Zenon
<1>8. /\ <<"tmp", t>> \in PlacesFor(t) /\ <<"still", t>> \in PlacesFor(t)
      /\ <<"held", t>> \in PlacesFor(t) /\ <<"node", t>> \in PlacesFor(t)
  BY PlaceNames, Zenon
<1>9. CASE ~(Len(held[t]) >= ScanThreshold)
  <2>1. held' = [held EXCEPT ![t] = @ \o loc[t].still] /\ Become(t, Idle)
    BY <1>9, Zenon DEF PushHeld, Return
  <2>2. held'[t] = held[t] \o loc[t].still  BY <1>5, <2>1 DEF TypeOK
  <2>3. loc'[t] = Idle  BY <1>5, <2>1, BecomeFields
  <2>4. /\ loc'[t].tmp = <<>> /\ loc'[t].still = <<>> /\ loc'[t].out = <<>> /\ loc'[t].node = Null
        /\ loc'[t].pc = "idle" /\ NodesOK(loc[t])' /\ ListsOK(t)'
    <3>1. owner'["free"] # t  BY <1>1, <1>4
    <3>2. NodesOK(loc[t])' /\ ListsOK(t)'  BY <2>3, <3>1, Idles
    <3>3. QED  BY <2>3, <3>2 DEF Idle
  <2>5. PICK q : Poured(t, loc[t].still, <<"still", t>>, <<"held", t>>, p, q)
    BY <1>2, <1>6, <1>8, Pour, Zenon
  <2>6. /\ Moved(t, {<<"still", t>>, <<"held", t>>}, p, q)
        /\ \A n \in Nodes : q[n] = IF n \in ToSet(loc[t].still) THEN <<"held", t>> ELSE p[n]
    BY <2>5, Zenon DEF Poured
  <2>7. IsAt(<<>>, <<"still", t>>, q) /\ IsAt(held[t] \o loc[t].still, <<"held", t>>, q)
    <3>1. <<"still", t>> # <<"held", t>>  OBVIOUS
    <3>2. QED  BY <1>6, <2>5, <3>1, Left, Received, Zenon
  <2>8. Follow(t, {<<"still", t>>, <<"held", t>>}, c, c, q)
    BY <1>1, <1>4, <2>2, <2>4, <2>7 DEF Follow, Follows
  <2>9. Safe(t, p, q)
    <3>1. \A n \in Nodes : q[n] \in Open(t) => Clear(n, t, p)  BY <2>6 DEF Open, Clear
    <3>2. \A n \in Nodes : q[n] # <<"tmp", t>> /\ q[n] # <<"node", t>>  BY <1>7, <2>6
    <3>3. \A n \in Nodes : q[n] \in {<<"unused", Null>>, <<"lockFree", Null>>} => Popped(n, t, p)
      BY <2>6 DEF Popped
    <3>4. QED  BY <3>1, <3>2, <3>3, Zenon DEF Safe
  <2>10. /\ loc[t].pc # "readVerify" /\ UNCHANGED <<head, link, slot>>
         /\ loc'[t].pc \notin {"outCas", "verify", "next", "cas", "readVerify"}
    BY <1>1, <1>3, <2>4
  <2>11. QED  BY <1>0, <1>2, <2>4, <2>6, <2>8, <2>9, <2>10, Settle, Zenon
<1>10. CASE Len(held[t]) >= ScanThreshold
  <2>1. /\ Become(t, [Scanning(t, held[t], "stock") EXCEPT !.node = loc[t].still[1]])
        /\ held' = [held EXCEPT ![t] = <<>>]
    BY <1>10, Zenon DEF PushHeld
  <2>2. loc'[t] = [Scanning(t, held[t], "stock") EXCEPT !.node = loc[t].still[1]]
    BY <1>5, <2>1, BecomeFields, Zenon
  <2>3. Good(loc[t].still) /\ loc[t].still # <<>> /\ Tail(loc[t].still) = <<>>
    <3>1. Good(loc[t].still) /\ Good(loc[t].tmp)  BY InvFacts
    <3>2. Len(loc[t].tmp) = 0 /\ Len(loc[t].still) \in Nat
          /\ (Len(loc[t].still) = 0 <=> loc[t].still = <<>>)
      BY <1>1, <3>1, Elements DEF Good
    <3>3. \A y \in Nat : 0 + y = 1 => y = 1 /\ y # 0  OBVIOUS
    <3>4. Len(loc[t].still) = 1 /\ loc[t].still # <<>>  BY <1>4, <3>2, <3>3, Zenon
    <3>5. QED  BY <3>1, <3>4, RestLen, Zenon
  <2>4. PICK m \in Nodes : m = loc[t].still[1]  BY <2>3, Rest
  <2>5. /\ loc'[t].pc = "scan" /\ loc'[t].then = "stock" /\ loc'[t].tmp = held[t]
        /\ loc'[t].still = <<>> /\ loc'[t].unseen = Slots /\ loc'[t].out = <<>>
        /\ loc'[t].node = m
    BY <1>4, <2>2, <2>4, OwnFacts DEF Scanning, Locals
  <2>6. held'[t] = <<>>  BY <1>5, <2>1 DEF TypeOK
  <2>7. p[m] = <<"still", t>>
    <3>1. m \in ToSet(loc[t].still)  BY <2>3, <2>4, Rest
    <3>2. QED  BY <1>6, <3>1, Zenon DEF IsAt
  <2>8. PICK x : Put(t, m, <<"still", t>>, <<"node", t>>, p, x)  BY <1>2, <1>8, <2>7, PutOne, Zenon
  <2>9. /\ Moved(t, {<<"still", t>>, <<"node", t>>}, p, x) /\ x \in [Nodes -> Places]
        /\ \A n \in Nodes : x[n] = IF n = m THEN <<"node", t>> ELSE p[n]
    BY <2>8, Zenon DEF Put, Moved
  <2>10. IsAt(<<>>, <<"still", t>>, x)
    <3>1. <<"still", t>> # <<"node", t>>  OBVIOUS
    <3>2. Put(t, loc[t].still[1], <<"still", t>>, <<"node", t>>, p, x)  BY <2>4, <2>8
    <3>3. IsAt(Tail(loc[t].still), <<"still", t>>, x)  BY <1>6, <2>3, <3>1, <3>2, LeftFirst, Zenon
    <3>4. QED  BY <2>3, <3>3, Zenon
  <2>11. IsAt(held[t], <<"held", t>>, x) /\ IsAt(loc[t].tmp, <<"tmp", t>>, x)
    <3>1. /\ <<"held", t>> \notin {<<"still", t>>, <<"node", t>>}
          /\ <<"tmp", t>> \notin {<<"still", t>>, <<"node", t>>}
      OBVIOUS
    <3>2. QED  BY <1>6, <2>9, <3>1, Stays, Zenon
  <2>12. PICK q : Poured(t, held[t], <<"held", t>>, <<"tmp", t>>, x, q)
    BY <1>8, <2>9, <2>11, Pour, Zenon
  <2>13. /\ Moved(t, {<<"held", t>>, <<"tmp", t>>}, x, q)
         /\ \A n \in Nodes : q[n] = IF n \in ToSet(held[t]) THEN <<"tmp", t>> ELSE x[n]
    BY <2>12, Zenon DEF Poured
  <2>14. /\ IsAt(<<>>, <<"held", t>>, q) /\ IsAt(held[t], <<"tmp", t>>, q)
         /\ IsAt(<<>>, <<"still", t>>, q)
    <3>1. /\ <<"held", t>> # <<"tmp", t>>
          /\ <<"still", t>> \notin {<<"held", t>>, <<"tmp", t>>}
      OBVIOUS
    <3>2. IsAt(<<>>, <<"held", t>>, q)  BY <2>11, <2>12, <3>1, Left, Zenon
    <3>3. IsAt(held[t], <<"tmp", t>>, q)  BY <1>1, <2>11, <2>12, <3>1, Received, Zenon
    <3>4. IsAt(<<>>, <<"still", t>>, q)  BY <2>10, <2>13, <3>1, Stays, Zenon
    <3>5. QED  BY <3>2, <3>3, <3>4
  <2>15. \A n \in Nodes : n = m <=> q[n] = <<"node", t>>
    <3>1. \A n \in Nodes : n \in ToSet(held[t]) => x[n] = <<"held", t>>  BY <2>11, Zenon DEF IsAt
    <3>2. \A n \in Nodes : n = m <=> x[n] = <<"node", t>>  BY <1>7, <2>9
    <3>3. QED  BY <2>13, <3>1, <3>2
  <2> DEFINE K == {<<"still", t>>, <<"node", t>>} \cup {<<"held", t>>, <<"tmp", t>>}
  <2>16. Moved(t, K, p, q)  BY <2>9, <2>13, MovedTwice, Zenon
  <2>17. Follow(t, K, c, c, q)
    BY <1>1, <1>4, <2>5, <2>6, <2>14, <2>15 DEF Follow, Follows
  <2> HIDE DEF K
  <2>18. Safe(t, p, q)
    <3>1. \A n \in Nodes : q[n] \in Open(t) => Clear(n, t, p)  BY <2>9, <2>13 DEF Open, Clear
    <3>2. \A n \in Nodes : q[n] \in {<<"unused", Null>>, <<"lockFree", Null>>} => Popped(n, t, p)
      BY <2>9, <2>13 DEF Popped
    <3>3. QED  BY <2>5, <3>1, <3>2, Zenon DEF Safe
  <2>19. NodesOK(loc[t])'
    <3>1. /\ loc'[t].then \in Thens \ {"none"} /\ loc'[t].then # "push"
          /\ loc'[t].node # Null <=> loc'[t].then = "stock"
      BY <2>5, PoolAssumption DEF Thens
    <3>2. NodesOK(loc'[t])  BY <2>5, <3>1, ScanOK, Zenon
    <3>3. QED  BY <3>2, Zenon DEF NodesOK, ScansFor
  <2>20. ListsOK(t)'
    <3>1. loc'[t].pc \notin OutPoints /\ owner'["free"] # t  BY <1>1, <1>4, <2>5 DEF OutPoints
    <3>2. QED  BY <2>5, <2>6, <3>1 DEF ListsOK, ScansFor
  <2>21. /\ loc[t].pc # "readVerify" /\ UNCHANGED <<head, link, slot>>
         /\ loc'[t].pc \notin {"outCas", "verify", "next", "cas", "readVerify"}
    BY <1>1, <1>3, <2>5
  <2>22. QED  BY <1>0, <1>2, <2>16, <2>17, <2>18, <2>19, <2>20, <2>21, Settle, Zenon
<1>11. QED  BY <1>9, <1>10

\* The end of a thread: its lists go to those that threads share.
LEMMA EndFacts ==
  ASSUME Inv, NEW t \in Threads, loc[t].pc = "idle", loc' = loc,
         owner' = owner, UNCHANGED <<head, link, slot>>
  PROVE  /\ loc[t].out = <<>> /\ loc[t].node = Null /\ loc[t].tmp = <<>>
         /\ loc'[t].tmp = loc[t].tmp /\ loc'[t].still = loc[t].still
         /\ loc'[t].out = loc[t].out /\ loc'[t].node = loc[t].node
         /\ NodesOK(loc[t])' /\ ListsOK(t)' /\ loc[t].pc # "readVerify"
         /\ loc'[t].pc \notin {"outCas", "verify", "next", "cas", "readVerify"}
<1>1. NodesOK(loc[t]) /\ ListsOK(t) /\ loc[t].pc \in Bare \cup {"idle"}  BY OwnFacts
<1>2. loc[t].out = <<>> /\ loc[t].node = Null /\ loc[t].tmp = <<>>  BY <1>1, BareFacts
<1>3. NodesOK(loc[t])'  BY <1>1, Zenon DEF NodesOK, ScansFor
<1>4. ListsOK(t)'
  <2>1. loc[t].pc # "scan" /\ loc[t].pc \notin OutPoints  BY DEF OutPoints
  <2>2. owner["free"] # t  BY <1>1, <2>1 DEF ListsOK
  <2>3. QED  BY <2>1, <2>2 DEF ListsOK, ScansFor
<1>5. QED  BY <1>2, <1>3, <1>4

LEMMA EndFreeStep == ASSUME Inv, NEW t \in Threads, EndFree(t) PROVE Inv'
<1>0. Step(t)  BY Zenon DEF Step
<1>1. /\ loc[t].pc = "idle" /\ gfree' = gfree \o free[t] /\ free' = [free EXCEPT ![t] = <<>>]
      /\ UNCHANGED <<head, link, slot, held, gheld, owner, inUse, allocated, loc>>
  BY Zenon DEF EndFree, Begin, At
<1>2. /\ loc[t].out = <<>> /\ loc[t].node = Null /\ loc[t].tmp = <<>>
      /\ loc'[t].tmp = loc[t].tmp /\ loc'[t].still = loc[t].still
      /\ loc'[t].out = loc[t].out /\ loc'[t].node = loc[t].node
      /\ NodesOK(loc[t])' /\ ListsOK(t)' /\ loc[t].pc # "readVerify"
      /\ loc'[t].pc \notin {"outCas", "verify", "next", "cas", "readVerify"}
  <2>1. loc' = loc /\ owner' = owner /\ UNCHANGED <<head, link, slot>>  BY <1>1
  <2>2. QED  BY <1>1, <2>1, EndFacts, Zenon
<1>3. free'[t] = <<>>  BY <1>1, OwnFacts DEF TypeOK
<1>4. PICK c \in Seq(Nodes), p \in [Nodes -> Places] : InvOf(c, p)  BY InvFacts
<1>5. IsAt(free[t], <<"free", t>>, p) /\ IsAt(gfree, <<"gfree", Null>>, p)
  BY <1>4, Where, Zenon
<1>6. PICK q : Poured(t, free[t], <<"free", t>>, <<"gfree", Null>>, p, q)
  BY <1>4, <1>5, PlaceNames, Pour, Zenon
<1>7. /\ Moved(t, {<<"free", t>>, <<"gfree", Null>>}, p, q)
      /\ \A n \in Nodes : q[n] = IF n \in ToSet(free[t]) THEN <<"gfree", Null>> ELSE p[n]
  BY <1>6, Zenon DEF Poured
<1>8. IsAt(<<>>, <<"free", t>>, q) /\ IsAt(gfree \o free[t], <<"gfree", Null>>, q)
  <2>1. <<"free", t>> # <<"gfree", Null>>  OBVIOUS
  <2>2. QED  BY <1>5, <1>6, <2>1, Left, Received, Zenon
<1>9. Follow(t, {<<"free", t>>, <<"gfree", Null>>}, c, c, q)
  BY <1>1, <1>2, <1>3, <1>8 DEF Follow, Follows
<1>10. Safe(t, p, q)
  <2>1. \A n \in Nodes : p[n] # <<"tmp", t>> /\ p[n] # <<"node", t>>
    BY <1>2, <1>4, Empties, Zenon
  <2>2. \A n \in Nodes : n \in ToSet(free[t]) <=> p[n] = <<"free", t>>  BY <1>5, Zenon DEF IsAt
  <2>3. ASSUME NEW n \in Nodes, q[n] \in Open(t) PROVE Clear(n, t, p)
    <3>1. n \in ToSet(free[t]) => p[n] \in Open(t)
      <4>1. <<"free", t>> \in Open(t)  BY DEF Open
      <4>2. QED  BY <2>2, <4>1, Zenon
    <3>2. n \notin ToSet(free[t]) => q[n] = p[n]  BY <1>7
    <3>3. QED  BY <2>3, <3>1, <3>2, Zenon DEF Clear
  <2>4. \A n \in Nodes : q[n] # <<"tmp", t>> /\ q[n] # <<"node", t>>  BY <1>7, <2>1
  <2>5. \A n \in Nodes : q[n] \in {<<"unused", Null>>, <<"lockFree", Null>>} => Popped(n, t, p)
    BY <1>7 DEF Popped
  <2>6. QED  BY <2>3, <2>4, <2>5, Zenon DEF Safe
<1>11. UNCHANGED <<head, link, slot>>  BY <1>1
<1>12. QED  BY <1>0, <1>2, <1>4, <1>7, <1>9, <1>10, <1>11, Settle, Zenon

LEMMA EndHeldStep == ASSUME Inv, NEW t \in Threads, EndHeld(t) PROVE Inv'
<1>0. Step(t)  BY Zenon DEF Step
<1>1. /\ loc[t].pc = "idle" /\ gheld' = gheld \o held[t] /\ held' = [held EXCEPT ![t] = <<>>]
      /\ UNCHANGED <<head, link, slot, free, gfree, owner, inUse, allocated, loc>>
  BY Zenon DEF EndHeld, Begin, At
<1>2. /\ loc[t].out = <<>> /\ loc[t].node = Null /\ loc[t].tmp = <<>>
      /\ loc'[t].tmp = loc[t].tmp /\ loc'[t].still = loc[t].still
      /\ loc'[t].out = loc[t].out /\ loc'[t].node = loc[t].node
      /\ NodesOK(loc[t])' /\ ListsOK(t)' /\ loc[t].pc # "readVerify"
      /\ loc'[t].pc \notin {"outCas", "verify", "next", "cas", "readVerify"}
  <2>1. loc' = loc /\ owner' = owner /\ UNCHANGED <<head, link, slot>>  BY <1>1
  <2>2. QED  BY <1>1, <2>1, EndFacts, Zenon
<1>3. held'[t] = <<>>  BY <1>1, OwnFacts DEF TypeOK
<1>4. PICK c \in Seq(Nodes), p \in [Nodes -> Places] : InvOf(c, p)  BY InvFacts
<1>5. IsAt(held[t], <<"held", t>>, p) /\ IsAt(gheld, <<"gheld", Null>>, p)  BY <1>4, Where, Zenon
<1>6. PICK q : Poured(t, held[t], <<"held", t>>, <<"gheld", Null>>, p, q)
  BY <1>4, <1>5, PlaceNames, Pour, Zenon
<1>7. /\ Moved(t, {<<"held", t>>, <<"gheld", Null>>}, p, q)
      /\ \A n \in Nodes : q[n] = IF n \in ToSet(held[t]) THEN <<"gheld", Null>> ELSE p[n]
  BY <1>6, Zenon DEF Poured
<1>8. IsAt(<<>>, <<"held", t>>, q) /\ IsAt(gheld \o held[t], <<"gheld", Null>>, q)
  <2>1. <<"held", t>> # <<"gheld", Null>>  OBVIOUS
  <2>2. QED  BY <1>5, <1>6, <2>1, Left, Received, Zenon
<1>9. Follow(t, {<<"held", t>>, <<"gheld", Null>>}, c, c, q)
  BY <1>1, <1>2, <1>3, <1>8 DEF Follow, Follows
<1>10. Safe(t, p, q)
  <2>1. \A n \in Nodes : p[n] # <<"tmp", t>> /\ p[n] # <<"node", t>>
    BY <1>2, <1>4, Empties, Zenon
  <2>2. \A n \in Nodes : q[n] \in Open(t) => Clear(n, t, p)  BY <1>7 DEF Open, Clear
  <2>3. \A n \in Nodes : q[n] # <<"tmp", t>> /\ q[n] # <<"node", t>>  BY <1>7, <2>1
  <2>4. \A n \in Nodes : q[n] \in {<<"unused", Null>>, <<"lockFree", Null>>} => Popped(n, t, p)
    BY <1>7 DEF Popped
  <2>5. QED  BY <2>2, <2>3, <2>4, Zenon DEF Safe
<1>11. UNCHANGED <<head, link, slot>>  BY <1>1
<1>12. QED  BY <1>0, <1>2, <1>4, <1>7, <1>9, <1>10, <1>11, Settle, Zenon

\* The first node of a list last
LEMMA Rotated ==
  ASSUME NEW s, Good(s), s # <<>>
  PROVE  /\ Good(Append(Tail(s), s[1]))
         /\ \A n : n \in ToSet(Append(Tail(s), s[1])) <=> n \in ToSet(s)
<1>1. PICK m \in Nodes : m = s[1]  BY Rest
<1>2. /\ m \in ToSet(s) /\ Good(Tail(s))
      /\ \A n : n \in ToSet(Tail(s)) <=> n \in ToSet(s) /\ n # m
  BY <1>1, Rest
<1>3. m \notin ToSet(Tail(s))  BY <1>2
<1>4. /\ Good(Append(Tail(s), m))
      /\ \A n : n \in ToSet(Append(Tail(s), m)) <=> n \in ToSet(Tail(s)) \/ n = m
  BY <1>2, <1>3, Appended, Zenon
<1>5. \A n : n \in ToSet(Append(Tail(s), m)) <=> n \in ToSet(s)  BY <1>2, <1>4
<1>6. QED  BY <1>1, <1>4, <1>5, Zenon

LEMMA StocktakeStep == ASSUME Inv, NEW t \in Threads, Stocktake(t) PROVE Inv'
<1> DEFINE s == IF loc[t].tmp = <<>> THEN <<>> ELSE Append(Tail(loc[t].tmp), loc[t].tmp[1])
<1>0. Step(t)  BY Zenon DEF Step
<1>1. /\ Scanned(t, "stock")
      /\ free' = [free EXCEPT ![t] = @ \o s]
      /\ held' = [held EXCEPT ![t] = Append(loc[t].still, loc[t].node)]
      /\ Become(t, Idle)
      /\ UNCHANGED <<head, link, slot, gfree, gheld, owner, inUse, allocated, calls>>
  BY Zenon DEF Stocktake, Return
<1>2. PICK c \in Seq(Nodes), p \in [Nodes -> Places] : InvOf(c, p)  BY InvFacts
<1>3. /\ At(t, "scan") /\ loc[t].pc = "scan" /\ loc[t].then = "stock"
      /\ \A n \in Nodes : p[n] = <<"tmp", t>> => Clear(n, t, p)
  BY <1>1, <1>2, ScannedFacts, Zenon
<1>4. loc[t].out = <<>> /\ loc[t].node # Null /\ owner["free"] # t /\ held[t] = <<>>
  <2>1. "stock" \in {"own", "stock", "clear"}  OBVIOUS
  <2>2. QED  BY <1>3, <2>1, ScanFacts, Zenon
<1>5. TypeOK  BY OwnFacts
<1>6. /\ IsAt(loc[t].tmp, <<"tmp", t>>, p) /\ IsAt(loc[t].still, <<"still", t>>, p)
      /\ IsAt(held[t], <<"held", t>>, p) /\ IsAt(free[t], <<"free", t>>, p)
  BY <1>2, Where, Zenon
<1>7. PICK m \in Nodes : m = loc[t].node
  <2>1. loc[t].node \in Nodes  BY <1>4, <1>5, LocalTypes DEF NodeOrNull
  <2>2. QED  BY <2>1
<1>8. \A n \in Nodes : n = m <=> p[n] = <<"node", t>>  BY <1>2, <1>7, WhereOne
<1>9. /\ <<"tmp", t>> \in PlacesFor(t) /\ <<"still", t>> \in PlacesFor(t)
      /\ <<"held", t>> \in PlacesFor(t) /\ <<"node", t>> \in PlacesFor(t)
      /\ <<"free", t>> \in PlacesFor(t)
  BY PlaceNames, Zenon
<1>10. IsAt(s, <<"tmp", t>>, p)
  <2>1. CASE loc[t].tmp = <<>>  BY <1>6, <2>1
  <2>2. CASE loc[t].tmp # <<>>
    <3>1. Good(loc[t].tmp) /\ s = Append(Tail(loc[t].tmp), loc[t].tmp[1])  BY <2>2, InvFacts
    <3>2. Good(s) /\ \A n : n \in ToSet(s) <=> n \in ToSet(loc[t].tmp)  BY <2>2, <3>1, Rotated
    <3>3. \A n \in Nodes : n \in ToSet(s) <=> p[n] = <<"tmp", t>>  BY <1>6, <3>2, Zenon DEF IsAt
    <3>4. QED  BY <3>2, <3>3, NewAt, Zenon
  <2>3. QED  BY <2>1, <2>2
<1> HIDE DEF s
<1>11. free'[t] = free[t] \o s /\ held'[t] = Append(loc[t].still, m)  BY <1>1, <1>5, <1>7 DEF TypeOK
<1>12. loc'[t] = Idle  BY <1>1, <1>5, BecomeFields
<1>13. /\ loc'[t].tmp = <<>> /\ loc'[t].still = <<>> /\ loc'[t].out = <<>> /\ loc'[t].node = Null
       /\ loc'[t].pc = "idle" /\ NodesOK(loc[t])' /\ ListsOK(t)'
  <2>1. owner'["free"] # t  BY <1>1, <1>4
  <2>2. NodesOK(loc[t])' /\ ListsOK(t)'  BY <1>12, <2>1, Idles
  <2>3. QED  BY <1>12, <2>2 DEF Idle
\* Those that are free, ...
<1>14. PICK x : Poured(t, s, <<"tmp", t>>, <<"free", t>>, p, x)
  BY <1>2, <1>9, <1>10, Pour, Zenon
<1>15. /\ Moved(t, {<<"tmp", t>>, <<"free", t>>}, p, x) /\ x \in [Nodes -> Places]
       /\ \A n \in Nodes : x[n] = IF n \in ToSet(s) THEN <<"free", t>> ELSE p[n]
  BY <1>14, Zenon DEF Poured, Moved
<1>16. /\ IsAt(<<>>, <<"tmp", t>>, x) /\ IsAt(free[t] \o s, <<"free", t>>, x)
       /\ IsAt(loc[t].still, <<"still", t>>, x) /\ IsAt(held[t], <<"held", t>>, x)
  <2>1. /\ <<"tmp", t>> # <<"free", t>> /\ <<"still", t>> \notin {<<"tmp", t>>, <<"free", t>>}
        /\ <<"held", t>> \notin {<<"tmp", t>>, <<"free", t>>}
    OBVIOUS
  <2>2. IsAt(<<>>, <<"tmp", t>>, x) /\ IsAt(free[t] \o s, <<"free", t>>, x)
    BY <1>6, <1>10, <1>14, <2>1, Left, Received, Zenon
  <2>3. IsAt(loc[t].still, <<"still", t>>, x) /\ IsAt(held[t], <<"held", t>>, x)
    BY <1>6, <1>15, <2>1, Stays, Zenon
  <2>4. QED  BY <2>2, <2>3
\* ... those still in hazard, ...
<1>17. PICK y : Poured(t, loc[t].still, <<"still", t>>, <<"held", t>>, x, y)
  BY <1>9, <1>15, <1>16, Pour, Zenon
<1>18. /\ Moved(t, {<<"still", t>>, <<"held", t>>}, x, y) /\ y \in [Nodes -> Places]
       /\ \A n \in Nodes : y[n] = IF n \in ToSet(loc[t].still) THEN <<"held", t>> ELSE x[n]
  BY <1>17, Zenon DEF Poured, Moved
<1>19. /\ IsAt(<<>>, <<"tmp", t>>, y) /\ IsAt(free[t] \o s, <<"free", t>>, y)
       /\ IsAt(<<>>, <<"still", t>>, y) /\ IsAt(loc[t].still, <<"held", t>>, y)
  <2>1. /\ <<"still", t>> # <<"held", t>> /\ <<"tmp", t>> \notin {<<"still", t>>, <<"held", t>>}
        /\ <<"free", t>> \notin {<<"still", t>>, <<"held", t>>}
    OBVIOUS
  <2>2. IsAt(<<>>, <<"still", t>>, y)  BY <1>16, <1>17, <2>1, Left, Zenon
  <2>3. IsAt(loc[t].still, <<"held", t>>, y)  BY <1>4, <1>16, <1>17, <2>1, Received, Zenon
  <2>4. IsAt(<<>>, <<"tmp", t>>, y) /\ IsAt(free[t] \o s, <<"free", t>>, y)
    BY <1>16, <1>18, <2>1, Stays, Zenon
  <2>5. QED  BY <2>2, <2>3, <2>4
\* ... and the one that is pushed.
<1>20. \A n \in Nodes : n = m <=> y[n] = <<"node", t>>
  <2>1. \A n \in Nodes : n \in ToSet(s) => p[n] = <<"tmp", t>>  BY <1>10, Zenon DEF IsAt
  <2>2. \A n \in Nodes : n \in ToSet(loc[t].still) => x[n] = <<"still", t>>  BY <1>16, Zenon DEF IsAt
  <2>3. \A n \in Nodes : n = m <=> x[n] = <<"node", t>>  BY <1>8, <1>15, <2>1
  <2>4. QED  BY <1>18, <2>2, <2>3
<1>21. PICK q : Put(t, m, <<"node", t>>, <<"held", t>>, y, q)
  BY <1>9, <1>18, <1>20, PutOne, Zenon
<1>22. /\ Moved(t, {<<"node", t>>, <<"held", t>>}, y, q)
       /\ \A n \in Nodes : q[n] = IF n = m THEN <<"held", t>> ELSE y[n]
  BY <1>21, Zenon DEF Put
<1>23. /\ IsAt(<<>>, <<"tmp", t>>, q) /\ IsAt(free[t] \o s, <<"free", t>>, q)
       /\ IsAt(<<>>, <<"still", t>>, q) /\ IsAt(Append(loc[t].still, m), <<"held", t>>, q)
       /\ \A n \in Nodes : q[n] # <<"node", t>>
  <2>1. /\ <<"node", t>> # <<"held", t>> /\ <<"tmp", t>> \notin {<<"node", t>>, <<"held", t>>}
        /\ <<"free", t>> \notin {<<"node", t>>, <<"held", t>>}
        /\ <<"still", t>> \notin {<<"node", t>>, <<"held", t>>}
    OBVIOUS
  <2>2. IsAt(Append(loc[t].still, m), <<"held", t>>, q)
    BY <1>19, <1>20, <1>21, <2>1, ReceivedOne, Zenon
  <2>3. /\ IsAt(<<>>, <<"tmp", t>>, q) /\ IsAt(free[t] \o s, <<"free", t>>, q)
        /\ IsAt(<<>>, <<"still", t>>, q)
    BY <1>19, <1>22, <2>1, Stays, Zenon
  <2>4. \A n \in Nodes : q[n] # <<"node", t>>  BY <1>20, <1>22, <2>1, Zenon
  <2>5. QED  BY <2>2, <2>3, <2>4
<1> DEFINE J == {<<"tmp", t>>, <<"free", t>>} \cup {<<"still", t>>, <<"held", t>>}
<1> DEFINE K == J \cup {<<"node", t>>, <<"held", t>>}
<1>24. Moved(t, K, p, q)
  <2>1. Moved(t, J, p, y)  BY <1>15, <1>18, MovedTwice, Zenon
  <2> HIDE DEF J
  <2>2. QED  BY <1>22, <2>1, MovedTwice, Zenon
<1>25. Follow(t, K, c, c, q)
  <2>1. \A n \in Nodes : n = loc'[t].node <=> q[n] = <<"node", t>>
    BY <1>13, <1>23, PoolAssumption
  <2>2. /\ <<"tmp", t>> \in K /\ <<"free", t>> \in K /\ <<"still", t>> \in K
        /\ <<"held", t>> \in K /\ <<"node", t>> \in K
        /\ <<"unused", Null>> \notin K /\ <<"inUse", Null>> \notin K /\ <<"lockFree", Null>> \notin K
        /\ <<"gfree", Null>> \notin K /\ <<"gheld", Null>> \notin K /\ <<"out", t>> \notin K
    OBVIOUS
  <2> HIDE DEF J, K
  <2>3. /\ allocated' = allocated /\ inUse' = inUse /\ gfree' = gfree /\ gheld' = gheld
        /\ loc'[t].out = loc[t].out
    BY <1>1, <1>4, <1>13
  <2>4. QED  BY <1>11, <1>13, <1>23, <2>1, <2>2, <2>3 DEF Follow, Follows
<1> HIDE DEF J, K
<1>26. Safe(t, p, q)
  <2>1. \A n \in Nodes : n \in ToSet(s) => p[n] = <<"tmp", t>>  BY <1>10, Zenon DEF IsAt
  <2>2. ASSUME NEW n \in Nodes, q[n] \in Open(t) PROVE Clear(n, t, p)
    <3>1. CASE n \in ToSet(s)  BY <1>3, <2>1, <3>1
    <3>2. CASE n \notin ToSet(s)
      <4>1. <<"held", t>> \notin Open(t)  BY DEF Open
      <4>2. q[n] = p[n]  BY <1>15, <1>18, <1>22, <2>2, <3>2, <4>1, Zenon
      <4>3. QED  BY <2>2, <4>2 DEF Clear
    <3>3. QED  BY <3>1, <3>2
  <2>3. \A n \in Nodes : q[n] # <<"tmp", t>>  BY <1>23, NoNodes, Zenon DEF IsAt
  <2>4. \A n \in Nodes : q[n] \in {<<"unused", Null>>, <<"lockFree", Null>>} => Popped(n, t, p)
    BY <1>15, <1>18, <1>22 DEF Popped
  <2>5. QED  BY <1>23, <2>2, <2>3, <2>4, Zenon DEF Safe
<1>27. /\ loc[t].pc # "readVerify" /\ UNCHANGED <<head, link, slot>>
       /\ loc'[t].pc \notin {"outCas", "verify", "next", "cas", "readVerify"}
  BY <1>1, <1>3, <1>13
<1>28. QED  BY <1>0, <1>2, <1>13, <1>24, <1>25, <1>26, <1>27, Settle, Zenon

\* The scan of a pop is over: of the nodes that it has found free, the first is for
\* the caller.
LEMMA GiveSteps == ASSUME Inv, NEW t \in Threads, PopOwn(t) \/ PopAll(t) PROVE Inv'
<1>0. Step(t)  BY Zenon DEF Step
<1>1. PICK w \in {"own", "all"}, e \in {"popHeldLock", "none"} :
        /\ Scanned(t, w) /\ GiveFirst(t, e)
        /\ UNCHANGED <<head, link, slot, gfree, inUse, allocated, calls>>
        /\ owner'["free"] = owner["free"]
        /\ \/ w = "own" /\ held' = [held EXCEPT ![t] = loc[t].still] /\ UNCHANGED gheld
           \/ w = "all" /\ gheld' = loc[t].still /\ UNCHANGED held
  <2>1. CASE PopOwn(t)
    <3>1. /\ Scanned(t, "own") /\ GiveFirst(t, "popHeldLock")
          /\ UNCHANGED <<head, link, slot, gfree, gheld, owner, inUse, allocated, calls>>
          /\ held' = [held EXCEPT ![t] = loc[t].still]
      BY <2>1, Zenon DEF PopOwn
    <3>2. QED  BY <3>1
  <2>2. CASE PopAll(t)
    <3>1. /\ Scanned(t, "all") /\ GiveFirst(t, "none")
          /\ UNCHANGED <<head, link, slot, held, gfree, inUse, allocated, calls>>
          /\ gheld' = loc[t].still /\ owner' = [owner EXCEPT !["held"] = Null]
      BY <2>2, Zenon DEF PopAll
    <3>2. owner'["free"] = owner["free"]  BY <3>1, OwnFacts DEF TypeOK, Locks
    <3>3. QED  BY <3>1, <3>2
  <2>3. QED  BY <2>1, <2>2
<1>2. PICK c \in Seq(Nodes), p \in [Nodes -> Places] : InvOf(c, p)  BY InvFacts
<1>3. /\ At(t, "scan") /\ loc[t].pc = "scan" /\ loc[t].then = w
      /\ \A n \in Nodes : p[n] = <<"tmp", t>> => Clear(n, t, p)
  BY <1>1, <1>2, ScannedFacts, Zenon
<1>4. /\ loc[t].out = <<>> /\ loc[t].node = Null /\ owner["free"] # t
      /\ w = "own" => held[t] = <<>>
      /\ w = "all" => gheld = <<>>
  <2>1. w # "stock" /\ (w = "own" => w \in {"own", "stock", "clear"})
        /\ (w = "all" => w \in {"all", "clearAll"})
    OBVIOUS
  <2>2. QED  BY <1>3, <2>1, ScanFacts, Zenon
<1>5. TypeOK  BY OwnFacts
<1>6. PICK a \in {<<"held", t>>, <<"gheld", Null>>} :
        \/ w = "own" /\ a = <<"held", t>>
        \/ w = "all" /\ a = <<"gheld", Null>>
  <2>1. w = "own" \/ w = "all"  OBVIOUS
  <2>2. QED  BY <2>1, Zenon
<1>7. /\ IsAt(loc[t].tmp, <<"tmp", t>>, p) /\ IsAt(loc[t].still, <<"still", t>>, p)
      /\ IsAt(free[t], <<"free", t>>, p) /\ IsAt(<<>>, a, p)
  <2>1. /\ IsAt(loc[t].tmp, <<"tmp", t>>, p) /\ IsAt(loc[t].still, <<"still", t>>, p)
        /\ IsAt(free[t], <<"free", t>>, p) /\ IsAt(held[t], <<"held", t>>, p)
        /\ IsAt(gheld, <<"gheld", Null>>, p)
    BY <1>2, Where, Zenon
  <2>2. QED  BY <1>4, <1>6, <2>1, Zenon
<1>8. \A n \in Nodes : p[n] # <<"node", t>>  BY <1>2, <1>4, Empties, Zenon
<1>9. /\ <<"tmp", t>> \in PlacesFor(t) /\ <<"still", t>> \in PlacesFor(t)
      /\ <<"node", t>> \in PlacesFor(t) /\ <<"free", t>> \in PlacesFor(t) /\ a \in PlacesFor(t)
  BY PlaceNames, Zenon
<1>10. /\ a # <<"still", t>> /\ a # <<"tmp", t>> /\ a # <<"node", t>> /\ a # <<"free", t>>
       /\ a \notin Open(t) /\ a # <<"unused", Null>> /\ a # <<"lockFree", Null>>
  BY DEF Open
<1>11. /\ loc' = [loc EXCEPT ![t] = [Idle EXCEPT !.call = loc[t].call,
            !.pc = IF loc[t].tmp = <<>> THEN e ELSE "got",
            !.node = IF loc[t].tmp = <<>> THEN Null ELSE loc[t].tmp[1]]]
       /\ free' = [free EXCEPT ![t] = @ \o (IF loc[t].tmp = <<>> THEN <<>> ELSE Tail(loc[t].tmp))]
  BY <1>1, Zenon DEF GiveFirst
<1>12. /\ loc'[t].tmp = <<>> /\ loc'[t].still = <<>> /\ loc'[t].out = <<>>
       /\ loc'[t].pc = IF loc[t].tmp = <<>> THEN e ELSE "got"
       /\ loc'[t].node = IF loc[t].tmp = <<>> THEN Null ELSE loc[t].tmp[1]
  BY <1>5, <1>11 DEF TypeOK, Idle
<1>13. ListsOK(t)' /\ loc'[t].pc \notin {"outCas", "verify", "next", "cas", "readVerify"}
  <2>1. loc'[t].pc \notin {"scan", "outCas", "verify", "next", "cas", "readVerify"} \cup OutPoints
    BY <1>12 DEF OutPoints
  <2>2. QED  BY <1>1, <1>4, <2>1 DEF ListsOK, ScansFor
<1>14. PICK x : Poured(t, loc[t].still, <<"still", t>>, a, p, x)
  BY <1>2, <1>7, <1>9, Pour, Zenon
<1>15. /\ Moved(t, {<<"still", t>>, a}, p, x) /\ x \in [Nodes -> Places]
       /\ \A n \in Nodes : x[n] = IF n \in ToSet(loc[t].still) THEN a ELSE p[n]
  BY <1>14, Zenon DEF Poured, Moved
<1>16. /\ IsAt(<<>>, <<"still", t>>, x) /\ IsAt(loc[t].still, a, x)
       /\ IsAt(loc[t].tmp, <<"tmp", t>>, x) /\ IsAt(free[t], <<"free", t>>, x)
  <2>1. /\ <<"tmp", t>> \notin {<<"still", t>>, a} /\ <<"free", t>> \notin {<<"still", t>>, a}
    BY <1>10
  <2>2. IsAt(<<>>, <<"still", t>>, x)  BY <1>7, <1>10, <1>14, Left, Zenon
  <2>3. IsAt(loc[t].still, a, x)  BY <1>7, <1>10, <1>14, Received, Zenon
  <2>4. IsAt(loc[t].tmp, <<"tmp", t>>, x) /\ IsAt(free[t], <<"free", t>>, x)
    BY <1>7, <1>15, <2>1, Stays, Zenon
  <2>5. QED  BY <2>2, <2>3, <2>4
<1>17. \A n \in Nodes : x[n] # <<"node", t>>  BY <1>8, <1>10, <1>15
<1>18. /\ \A n \in Nodes : x[n] \in Open(t) => p[n] \in Open(t)
       /\ \A n \in Nodes : x[n] = <<"tmp", t>> => p[n] = <<"tmp", t>>
       /\ \A n \in Nodes : x[n] \in {<<"unused", Null>>, <<"lockFree", Null>>} => x[n] = p[n]
  BY <1>10, <1>15
\* What becomes of the list that was scanned
<1>19. ASSUME NEW q, IsAt(loc[t].still, a, q), NEW K, a \in K,
              <<"gheld", Null>> \notin K \ {a}, <<"held", t>> \notin K \ {a}
       PROVE  /\ Follows(gheld, gheld', <<"gheld", Null>>, K, q)
              /\ Follows(held[t], held'[t], <<"held", t>>, K, q)
  <2>1. CASE a = <<"held", t>>
    <3>1. <<"gheld", Null>> \notin K /\ gheld' = gheld /\ held'[t] = loc[t].still
      BY <1>1, <1>5, <1>6, <1>19, <2>1 DEF TypeOK
    <3>2. QED  BY <1>19, <2>1, <3>1, Zenon DEF Follows
  <2>2. CASE a = <<"gheld", Null>>
    <3>1. <<"held", t>> \notin K /\ held'[t] = held[t] /\ gheld' = loc[t].still
      BY <1>1, <1>6, <1>19, <2>2
    <3>2. QED  BY <1>19, <2>2, <3>1, Zenon DEF Follows
  <2>3. QED  BY <2>1, <2>2
<1>20. UNCHANGED <<gfree, inUse, allocated>> /\ UNCHANGED <<head, link, slot>> /\ loc[t].pc # "readVerify"
  BY <1>1, <1>3
<1>21. CASE loc[t].tmp = <<>>
  <2>1. free'[t] = free[t]
    <3>1. free'[t] = free[t] \o <<>> /\ free[t] \in Seq(Nodes)  BY <1>5, <1>11, <1>21 DEF TypeOK
    <3>2. QED  BY <3>1
  <2> DEFINE K == {<<"still", t>>, a}
  <2>2. Follow(t, K, c, c, x)
    <3>1. /\ <<"still", t>> \in K /\ a \in K /\ <<"gheld", Null>> \notin K \ {a}
          /\ <<"held", t>> \notin K \ {a} /\ <<"tmp", t>> \notin K /\ <<"free", t>> \notin K
          /\ <<"unused", Null>> \notin K /\ <<"inUse", Null>> \notin K
          /\ <<"lockFree", Null>> \notin K /\ <<"gfree", Null>> \notin K /\ <<"out", t>> \notin K
          /\ <<"node", t>> \notin K
      BY <1>10
    <3> HIDE DEF K
    <3>2. /\ Follows(gheld, gheld', <<"gheld", Null>>, K, x)
          /\ Follows(held[t], held'[t], <<"held", t>>, K, x)
      BY <1>16, <1>19, <3>1, Zenon
    <3>3. QED  BY <1>4, <1>12, <1>16, <1>20, <1>21, <2>1, <3>1, <3>2 DEF Follow, Follows
  <2>3. Moved(t, K, p, x)  BY <1>15
  <2> HIDE DEF K
  <2>4. Safe(t, p, x)
    <3>1. \A n \in Nodes : x[n] # <<"tmp", t>>  BY <1>16, <1>21, NoNodes, Zenon DEF IsAt
    <3>2. QED  BY <1>17, <1>18, <3>1, Zenon DEF Safe, Clear, Popped
  <2>5. NodesOK(loc[t])'
    <3>1. /\ loc'[t].pc \in Bare /\ loc'[t].tmp = <<>> /\ loc'[t].still = <<>>
          /\ loc'[t].out = <<>> /\ loc'[t].node = Null
      BY <1>12, <1>21 DEF Bare
    <3>2. NodesOK(loc'[t])  BY <3>1, BareOK, Zenon
    <3>3. QED  BY <3>2, Zenon DEF NodesOK, ScansFor
  <2>6. QED  BY <1>0, <1>2, <1>13, <1>20, <2>2, <2>3, <2>4, <2>5, Settle, Zenon
<1>22. CASE loc[t].tmp # <<>>
  <2>1. Good(loc[t].tmp)  BY InvFacts
  <2>2. PICK m \in Nodes : m = loc[t].tmp[1]  BY <1>22, <2>1, Rest
  <2>3. m \in ToSet(loc[t].tmp)  BY <1>22, <2>1, <2>2, Rest
  <2>4. x[m] = <<"tmp", t>> /\ p[m] = <<"tmp", t>>  BY <1>7, <1>16, <2>3, Zenon DEF IsAt
  <2>5. PICK y : Put(t, m, <<"tmp", t>>, <<"node", t>>, x, y)
    BY <1>9, <1>15, <2>4, PutOne, Zenon
  <2>6. /\ Moved(t, {<<"tmp", t>>, <<"node", t>>}, x, y) /\ y \in [Nodes -> Places]
        /\ \A n \in Nodes : y[n] = IF n = m THEN <<"node", t>> ELSE x[n]
    BY <2>5, Zenon DEF Put, Moved
  <2>7. /\ IsAt(<<>>, <<"still", t>>, y) /\ IsAt(loc[t].still, a, y)
        /\ IsAt(Tail(loc[t].tmp), <<"tmp", t>>, y) /\ IsAt(free[t], <<"free", t>>, y)
    <3>1. /\ <<"still", t>> \notin {<<"tmp", t>>, <<"node", t>>} /\ a \notin {<<"tmp", t>>, <<"node", t>>}
          /\ <<"free", t>> \notin {<<"tmp", t>>, <<"node", t>>} /\ <<"tmp", t>> # <<"node", t>>
      BY <1>10
    <3>2. Put(t, loc[t].tmp[1], <<"tmp", t>>, <<"node", t>>, x, y)  BY <2>2, <2>5
    <3>3. IsAt(Tail(loc[t].tmp), <<"tmp", t>>, y)  BY <1>16, <1>22, <3>1, <3>2, LeftFirst, Zenon
    <3>4. /\ IsAt(<<>>, <<"still", t>>, y) /\ IsAt(loc[t].still, a, y)
          /\ IsAt(free[t], <<"free", t>>, y)
      BY <1>16, <2>6, <3>1, Stays, Zenon
    <3>5. QED  BY <3>3, <3>4
  <2>8. PICK q : Poured(t, Tail(loc[t].tmp), <<"tmp", t>>, <<"free", t>>, y, q)
    BY <1>9, <2>6, <2>7, Pour, Zenon
  <2>9. /\ Moved(t, {<<"tmp", t>>, <<"free", t>>}, y, q)
        /\ \A n \in Nodes : q[n] = IF n \in ToSet(Tail(loc[t].tmp)) THEN <<"free", t>> ELSE y[n]
    BY <2>8, Zenon DEF Poured
  <2>10. /\ IsAt(<<>>, <<"still", t>>, q) /\ IsAt(loc[t].still, a, q)
         /\ IsAt(<<>>, <<"tmp", t>>, q)
         /\ IsAt(free[t] \o Tail(loc[t].tmp), <<"free", t>>, q)
    <3>1. /\ <<"still", t>> \notin {<<"tmp", t>>, <<"free", t>>} /\ a \notin {<<"tmp", t>>, <<"free", t>>}
          /\ <<"tmp", t>> # <<"free", t>>
      BY <1>10
    <3>2. /\ IsAt(<<>>, <<"tmp", t>>, q)
          /\ IsAt(free[t] \o Tail(loc[t].tmp), <<"free", t>>, q)
      BY <2>7, <2>8, <3>1, Left, Received, Zenon
    <3>3. IsAt(<<>>, <<"still", t>>, q)  BY <2>7, <2>9, <3>1, Stays, Zenon
    <3>4. IsAt(loc[t].still, a, q)
      <4>1. a \notin {<<"tmp", t>>, <<"free", t>>} /\ IsAt(loc[t].still, a, y)  BY <2>7, <3>1
      <4>2. Moved(t, {<<"tmp", t>>, <<"free", t>>}, y, q)  BY <2>9
      <4>3. \A n \in Nodes : q[n] = a <=> y[n] = a  BY <4>1, <4>2, Zenon DEF Moved
      <4>4. QED  BY <4>1, <4>3, Zenon DEF IsAt
    <3>5. QED  BY <3>2, <3>3, <3>4
  <2>11. \A n \in Nodes : n = m <=> q[n] = <<"node", t>>
    <3>1. \A n \in Nodes : n \in ToSet(Tail(loc[t].tmp)) => y[n] = <<"tmp", t>>
      BY <2>7, Zenon DEF IsAt
    <3>2. \A n \in Nodes : n = m <=> y[n] = <<"node", t>>  BY <1>17, <2>6
    <3>3. <<"tmp", t>> # <<"node", t>> /\ <<"free", t>> # <<"node", t>>  OBVIOUS
    <3>4. QED  BY <2>9, <3>1, <3>2, <3>3, Zenon
  <2> DEFINE J == {<<"still", t>>, a} \cup {<<"tmp", t>>, <<"node", t>>}
  <2> DEFINE K == J \cup {<<"tmp", t>>, <<"free", t>>}
  <2>12. Moved(t, K, p, q)
    <3>1. Moved(t, J, p, y)  BY <1>15, <2>6, MovedTwice, Zenon
    <3> HIDE DEF J
    <3>2. QED  BY <2>9, <3>1, MovedTwice, Zenon
  <2>13. free'[t] = free[t] \o Tail(loc[t].tmp)  BY <1>5, <1>11, <1>22 DEF TypeOK
  <2>14. loc'[t].node = m /\ loc'[t].pc = "got"  BY <1>12, <1>22, <2>2
  <2>15. Follow(t, K, c, c, q)
    <3>1. /\ <<"still", t>> \in K /\ a \in K /\ <<"gheld", Null>> \notin K \ {a}
          /\ <<"held", t>> \notin K \ {a} /\ <<"tmp", t>> \in K /\ <<"free", t>> \in K
          /\ <<"unused", Null>> \notin K /\ <<"inUse", Null>> \notin K
          /\ <<"lockFree", Null>> \notin K /\ <<"gfree", Null>> \notin K /\ <<"out", t>> \notin K
          /\ <<"node", t>> \in K
      BY <1>10
    <3> HIDE DEF J, K
    <3>2. /\ Follows(gheld, gheld', <<"gheld", Null>>, K, q)
          /\ Follows(held[t], held'[t], <<"held", t>>, K, q)
      BY <1>19, <2>10, <3>1, Zenon
    <3>3. QED
      BY <1>4, <1>12, <1>20, <2>10, <2>11, <2>13, <2>14, <3>1, <3>2 DEF Follow, Follows
  <2> HIDE DEF J, K
  <2>16. Safe(t, p, q)
    <3>1. \A n \in Nodes : n \in ToSet(Tail(loc[t].tmp)) => y[n] = <<"tmp", t>>
      BY <2>7, Zenon DEF IsAt
    <3>2. \A n \in Nodes : n \in ToSet(Tail(loc[t].tmp)) => p[n] = <<"tmp", t>>
      <4>1. <<"tmp", t>> # <<"node", t>>  OBVIOUS
      <4>2. QED  BY <1>18, <2>6, <3>1, <4>1, Zenon
    <3>3. ASSUME NEW n \in Nodes, q[n] \in Open(t) PROVE Clear(n, t, p)
      <4>1. CASE n \in ToSet(Tail(loc[t].tmp))  BY <1>3, <3>2, <4>1
      <4>2. CASE n \notin ToSet(Tail(loc[t].tmp))
        <5>1. <<"node", t>> \notin Open(t)  BY DEF Open
        <5>2. q[n] = x[n]  BY <2>6, <2>9, <3>3, <4>2, <5>1, Zenon
        <5>3. QED  BY <1>18, <3>3, <5>2, Zenon DEF Clear
      <4>3. QED  BY <4>1, <4>2
    <3>4. \A n \in Nodes : q[n] # <<"tmp", t>>  BY <2>10, NoNodes, Zenon DEF IsAt
    <3>5. ASSUME NEW n \in Nodes, q[n] \in {<<"unused", Null>>, <<"lockFree", Null>>}
          PROVE  Popped(n, t, p)
      <4>1. q[n] = x[n]  BY <2>6, <2>9, <3>5
      <4>2. QED  BY <1>18, <3>5, <4>1, Zenon DEF Popped
    <3>6. ASSUME NEW n \in Nodes, q[n] = <<"node", t>> PROVE Popped(n, t, p)
      BY <1>3, <2>4, <2>11, <3>6, Zenon DEF Popped
    <3>7. QED  BY <3>3, <3>4, <3>5, <3>6, Zenon DEF Safe
  <2>17. NodesOK(loc[t])'
    <3>1. loc'[t].node # Null /\ loc'[t].pc \in {"drop", "got"}  BY <2>14, PoolAssumption
    <3>2. loc'[t].tmp = <<>> /\ loc'[t].still = <<>> /\ loc'[t].out = <<>>  BY <1>12
    <3>3. NodesOK(loc'[t])  BY <3>1, <3>2, HasOK
    <3>4. QED  BY <3>3, Zenon DEF NodesOK, ScansFor
  <2>18. QED  BY <1>0, <1>2, <1>13, <1>20, <2>12, <2>15, <2>16, <2>17, Settle, Zenon
<1>23. QED  BY <1>21, <1>22

\* A thread that has no nodes gets one: the first of its own list or of the locked
\* one, or a new one.
LEMMA GotOne ==
  ASSUME Inv, NEW t \in Threads, Step(t), loc[t].pc \in Bare \cup {"idle"}, loc[t].pc # "readVerify",
         NEW m \in Nodes, loc'[t].pc = "got", loc'[t].node = m,
         loc'[t].tmp = <<>>, loc'[t].still = <<>>, loc'[t].out = <<>>,
         UNCHANGED <<head, link, slot, held, gheld, inUse, owner>>,
         \/ /\ free[t] # <<>> /\ m = free[t][1] /\ free'[t] = Tail(free[t])
            /\ UNCHANGED <<gfree, allocated>>
         \/ /\ gfree # <<>> /\ m = gfree[1] /\ gfree' = Tail(gfree)
            /\ UNCHANGED allocated /\ free'[t] = free[t]
         \/ /\ m \notin allocated /\ allocated' = allocated \cup {m}
            /\ UNCHANGED gfree /\ free'[t] = free[t]
  PROVE  Inv'
<1>1. loc[t].tmp = <<>> /\ loc[t].still = <<>> /\ loc[t].out = <<>> /\ loc[t].node = Null
  BY BareFacts, OwnFacts
<1>2. owner["free"] # t
  <2>1. ListsOK(t) /\ loc[t].pc \notin OutPoints  BY OwnFacts DEF Bare, OutPoints
  <2>2. QED  BY <2>1 DEF ListsOK
<1>3. NodesOK(loc[t])' /\ ListsOK(t)'
  <2>1. NodesOK(loc'[t])
    <3>1. loc'[t].node # Null /\ loc'[t].pc \in {"drop", "got"}  BY PoolAssumption
    <3>2. QED  BY <3>1, HasOK
  <2>2. NodesOK(loc[t])'  BY <2>1, Zenon DEF NodesOK, ScansFor
  <2>3. ListsOK(t)'  BY <1>2 DEF ListsOK, ScansFor, OutPoints
  <2>4. QED  BY <2>2, <2>3
<1>4. PICK c \in Seq(Nodes), p \in [Nodes -> Places] : InvOf(c, p)  BY InvFacts
<1>5. IsAt(free[t], <<"free", t>>, p) /\ IsAt(gfree, <<"gfree", Null>>, p)  BY <1>4, Where, Zenon
<1>6. \A n \in Nodes : n \in allocated <=> p[n] # <<"unused", Null>>  BY <1>4, WhereOne
<1>7. \A n \in Nodes : p[n] # <<"node", t>> /\ p[n] # <<"tmp", t>>  BY <1>1, <1>4, Empties, Zenon
<1>8. ASSUME NEW a \in {<<"free", t>>, <<"gfree", Null>>, <<"unused", Null>>}, p[m] = a,
             \A q : Put(t, m, a, <<"node", t>>, p, q) /\ (\A n \in Nodes : n = m <=> q[n] = <<"node", t>>)
                    => Follow(t, {a, <<"node", t>>}, c, c, q)
      PROVE  Inv'
  <2>1. PICK q : Put(t, m, a, <<"node", t>>, p, q)
    <3>1. a \in PlacesFor(t) /\ <<"node", t>> \in PlacesFor(t)  BY PlaceNames, Zenon
    <3>2. QED  BY <1>4, <1>8, <3>1, PutOne, Zenon
  <2>2. /\ Moved(t, {a, <<"node", t>>}, p, q)
        /\ \A n \in Nodes : q[n] = IF n = m THEN <<"node", t>> ELSE p[n]
    BY <2>1, Zenon DEF Put
  <2>3. \A n \in Nodes : n = m <=> q[n] = <<"node", t>>  BY <1>7, <2>2
  <2>4. Follow(t, {a, <<"node", t>>}, c, c, q)  BY <1>8, <2>1, <2>3, Zenon
  <2>5. Safe(t, p, q)
    <3>1. \A n \in Nodes : q[n] \in Open(t) => Clear(n, t, p)  BY <2>2 DEF Open, Clear
    <3>2. \A n \in Nodes : q[n] # <<"tmp", t>>  BY <1>7, <2>2
    <3>3. \A n \in Nodes : q[n] \in {<<"unused", Null>>, <<"lockFree", Null>>} => Popped(n, t, p)
      BY <2>2 DEF Popped
    <3>4. Popped(m, t, p)  BY <1>8 DEF Popped, Clear, Open
    <3>5. \A n \in Nodes : q[n] = <<"node", t>> => Popped(n, t, p)  BY <2>3, <3>4, Zenon
    <3>6. QED  BY <3>1, <3>2, <3>3, <3>5, Zenon DEF Safe
  <2>6. /\ UNCHANGED <<head, link, slot>>
        /\ loc'[t].pc \notin {"outCas", "verify", "next", "cas", "readVerify"}
    OBVIOUS
  <2>7. QED  BY <1>3, <1>4, <2>2, <2>4, <2>5, <2>6, Settle, Zenon
<1>9. CASE free[t] # <<>> /\ m = free[t][1] /\ free'[t] = Tail(free[t]) /\ UNCHANGED <<gfree, allocated>>
  <2>1. p[m] = <<"free", t>>
    <3>1. m \in ToSet(free[t])  BY <1>9, InvFacts, Rest
    <3>2. QED  BY <1>5, <3>1, Zenon DEF IsAt
  <2>2. ASSUME NEW q, Put(t, m, <<"free", t>>, <<"node", t>>, p, q),
               \A n \in Nodes : n = m <=> q[n] = <<"node", t>>
        PROVE  Follow(t, {<<"free", t>>, <<"node", t>>}, c, c, q)
    <3>1. IsAt(Tail(free[t]), <<"free", t>>, q)
      <4>1. <<"free", t>> # <<"node", t>>  OBVIOUS
      <4>2. Put(t, free[t][1], <<"free", t>>, <<"node", t>>, p, q)  BY <1>9, <2>2
      <4>3. QED  BY <1>5, <1>9, <4>1, <4>2, LeftFirst, Zenon
    <3>2. QED  BY <1>1, <1>9, <2>2, <3>1 DEF Follow, Follows
  <2>3. QED  BY <1>8, <2>1, <2>2, Zenon
<1>10. CASE /\ gfree # <<>> /\ m = gfree[1] /\ gfree' = Tail(gfree)
            /\ UNCHANGED allocated /\ free'[t] = free[t]
  <2>1. p[m] = <<"gfree", Null>>
    <3>1. m \in ToSet(gfree)  BY <1>10, InvFacts, Rest
    <3>2. QED  BY <1>5, <3>1, Zenon DEF IsAt
  <2>2. ASSUME NEW q, Put(t, m, <<"gfree", Null>>, <<"node", t>>, p, q),
               \A n \in Nodes : n = m <=> q[n] = <<"node", t>>
        PROVE  Follow(t, {<<"gfree", Null>>, <<"node", t>>}, c, c, q)
    <3>1. IsAt(Tail(gfree), <<"gfree", Null>>, q)
      <4>1. <<"gfree", Null>> # <<"node", t>>  OBVIOUS
      <4>2. Put(t, gfree[1], <<"gfree", Null>>, <<"node", t>>, p, q)  BY <1>10, <2>2
      <4>3. QED  BY <1>5, <1>10, <4>1, <4>2, LeftFirst, Zenon
    <3>2. QED  BY <1>1, <1>10, <2>2, <3>1 DEF Follow, Follows
  <2>3. QED  BY <1>8, <2>1, <2>2, Zenon
<1>11. CASE /\ m \notin allocated /\ allocated' = allocated \cup {m}
            /\ UNCHANGED gfree /\ free'[t] = free[t]
  <2>1. p[m] = <<"unused", Null>>  BY <1>6, <1>11
  <2>2. ASSUME NEW q, Put(t, m, <<"unused", Null>>, <<"node", t>>, p, q),
               \A n \in Nodes : n = m <=> q[n] = <<"node", t>>
        PROVE  Follow(t, {<<"unused", Null>>, <<"node", t>>}, c, c, q)
    <3>1. \A n \in Nodes : n \in allocated' <=> q[n] # <<"unused", Null>>
      BY <1>6, <1>11, <2>2 DEF Put
    <3>2. QED  BY <1>1, <1>11, <2>2, <3>1 DEF Follow, Follows
  <2>3. QED  BY <1>8, <2>1, <2>2, Zenon
<1>12. QED  BY <1>9, <1>10, <1>11, Zenon

LEMMA CallPopStep ==
  ASSUME Inv, NEW t \in Threads, NEW call \in {"pop", "delete"}, CallPop(t, call)
  PROVE  Inv'
<1>0. Step(t)
  <2>1. CallPop(t, "pop") \/ CallPop(t, "delete")  OBVIOUS
  <2>2. QED  BY <2>1, Zenon DEF Step
<1>1. /\ loc[t].pc = "idle"
      /\ UNCHANGED <<head, link, slot, held, gfree, gheld, owner, inUse, allocated>>
  BY Zenon DEF CallPop, Begin, At
<1>2. TypeOK /\ loc[t].pc \in Bare \cup {"idle"} /\ loc[t].pc # "readVerify"  BY <1>1, OwnFacts
<1>3. CASE free[t] # <<>>
  <2>1. /\ free' = [free EXCEPT ![t] = Tail(@)]
        /\ Become(t, [Idle EXCEPT !.pc = "got", !.node = free[t][1], !.call = call])
    BY <1>3, Zenon DEF CallPop
  <2>2. PICK m \in Nodes : m = free[t][1]  BY <1>3, InvFacts, Rest
  <2>3. loc'[t] = [Idle EXCEPT !.pc = "got", !.node = free[t][1], !.call = call]
    BY <1>2, <2>1, BecomeFields, Zenon
  <2>4. /\ loc'[t].pc = "got" /\ loc'[t].node = m
        /\ loc'[t].tmp = <<>> /\ loc'[t].still = <<>> /\ loc'[t].out = <<>>
    BY <2>2, <2>3 DEF Idle
  <2>5. free'[t] = Tail(free[t])  BY <1>2, <2>1 DEF TypeOK
  <2>6. UNCHANGED <<head, link, slot, held, gheld, inUse, owner>> /\ UNCHANGED <<gfree, allocated>>
    BY <1>1
  <2>7. QED  BY <1>0, <1>2, <1>3, <2>2, <2>4, <2>5, <2>6, GotOne, Zenon
<1>4. CASE free[t] = <<>>
  <2>1. UNCHANGED free /\ Become(t, [Idle EXCEPT !.pc = "popLock", !.call = call])
    BY <1>4, Zenon DEF CallPop
  <2>2. loc'[t] = [Idle EXCEPT !.pc = "popLock", !.call = call]  BY <1>2, <2>1, BecomeFields, Zenon
  <2>3. loc[t].tmp = <<>> /\ loc[t].still = <<>> /\ loc[t].out = <<>> /\ loc[t].node = Null
    BY <1>2, BareFacts, OwnFacts
  <2>4. /\ loc'[t].pc = "popLock" /\ loc'[t].node = loc[t].node
        /\ loc'[t].tmp = loc[t].tmp /\ loc'[t].still = loc[t].still /\ loc'[t].out = loc[t].out
    BY <2>2, <2>3 DEF Idle
  <2>5. loc'[t].pc \in Bare  BY <2>4 DEF Bare
  <2>6. UNCHANGED owner  BY <1>1
  <2>7. NodesOK(loc[t])' /\ ListsOK(t)' /\ ~ At(t, "scan") /\ \A n : n \notin ToSet(loc[t].tmp)
    BY <1>2, <2>4, <2>5, <2>6, BareStep, Zenon
  <2>8. loc'[t].pc \notin {"outCas", "verify", "next", "cas", "readVerify"}  BY <2>4
  <2>9. UNCHANGED <<head, link, slot, lists, inUse, allocated>>  BY <1>1, <2>1 DEF lists
  <2>10. QED  BY <1>0, <1>2, <2>4, <2>7, <2>8, <2>9, Quieter, Zenon
<1>5. QED  BY <1>3, <1>4

LEMMA NewStep == ASSUME Inv, NEW t \in Threads, New(t) PROVE Inv'
<1>0. Step(t)  BY Zenon DEF Step
<1>1. /\ loc[t].pc = "none"
      /\ UNCHANGED <<head, link, slot, lists, owner, inUse, calls>>
  BY Zenon DEF New, At
<1>2. PICK m \in Nodes \ allocated :
        /\ allocated' = allocated \cup {m}
        /\ Become(t, [loc[t] EXCEPT !.pc = "got", !.node = m])
  BY Zenon DEF New
<1>3. loc'[t] = [loc[t] EXCEPT !.pc = "got", !.node = m]  BY <1>2, BecomeFields, OwnFacts, Zenon
<1>4. loc[t].pc \in Bare /\ loc[t].pc \in Bare \cup {"idle"} /\ loc[t].pc # "readVerify"
  BY <1>1 DEF Bare
<1>5. loc[t].tmp = <<>> /\ loc[t].still = <<>> /\ loc[t].out = <<>>
  BY <1>4, BareFacts, OwnFacts
<1>6. /\ loc'[t].pc = "got" /\ loc'[t].node = m
      /\ loc'[t].tmp = <<>> /\ loc'[t].still = <<>> /\ loc'[t].out = <<>>
  BY <1>3, <1>5, OwnFacts DEF Locals
<1>7. /\ UNCHANGED <<head, link, slot, held, gheld, inUse, owner>> /\ UNCHANGED gfree
      /\ free'[t] = free[t] /\ m \in Nodes /\ m \notin allocated
  BY <1>1, <1>2 DEF lists
<1>8. QED  BY <1>0, <1>2, <1>4, <1>6, <1>7, GotOne, Zenon

LEMMA PopLockedStep == ASSUME Inv, NEW t \in Threads, PopLocked(t) PROVE Inv'
<1>0. Step(t)  BY Zenon DEF Step
<1>1. /\ loc[t].pc = "popLock" /\ gfree # <<>>
      /\ UNCHANGED <<head, link, slot, free, held, gheld, inUse, allocated, calls>>
  BY Zenon DEF PopLocked, At
<1>2. TypeOK /\ loc[t].pc \in Bare /\ loc[t].pc \in Bare \cup {"idle"} /\ loc[t].pc # "readVerify"
  BY <1>1, OwnFacts DEF Bare
<1>3. loc[t].tmp = <<>> /\ loc[t].still = <<>> /\ loc[t].out = <<>> /\ loc[t].node = Null
  BY <1>2, BareFacts, OwnFacts
<1>4. PICK m \in Nodes : m = gfree[1]  BY <1>1, InvFacts, Rest
<1>5. CASE ~(Len(gfree) - 1 >= AggThreshold)
  <2>1. /\ Become(t, [loc[t] EXCEPT !.pc = "got", !.node = gfree[1]])
        /\ gfree' = Tail(gfree) /\ UNCHANGED owner
    BY <1>5, Zenon DEF PopLocked
  <2>2. loc'[t] = [loc[t] EXCEPT !.pc = "got", !.node = gfree[1]]
    BY <1>2, <2>1, BecomeFields, Zenon
  <2>3. /\ loc'[t].pc = "got" /\ loc'[t].node = m
        /\ loc'[t].tmp = <<>> /\ loc'[t].still = <<>> /\ loc'[t].out = <<>>
    BY <1>3, <1>4, <2>2, OwnFacts DEF Locals
  <2>4. /\ UNCHANGED <<head, link, slot, held, gheld, inUse, owner>> /\ UNCHANGED allocated
        /\ free'[t] = free[t]
    BY <1>1, <2>1
  <2>5. QED  BY <1>0, <1>1, <1>2, <1>4, <2>1, <2>3, <2>4, GotOne, Zenon
<1>6. CASE Len(gfree) - 1 >= AggThreshold
  <2>1. /\ Become(t, [loc[t] EXCEPT !.pc = "outLoad", !.node = gfree[1],
                                    !.out = SubSeq(gfree, 2, 1 + AggThreshold)])
        /\ gfree' = SubSeq(gfree, 2 + AggThreshold, Len(gfree))
        /\ owner' = [owner EXCEPT !["free"] = t]
    BY <1>6, Zenon DEF PopLocked
  <2>2. loc'[t] = [loc[t] EXCEPT !.pc = "outLoad", !.node = gfree[1],
                                 !.out = SubSeq(gfree, 2, 1 + AggThreshold)]
    BY <1>2, <2>1, BecomeFields, Zenon
  <2> DEFINE r == SubSeq(gfree, 2, 1 + AggThreshold)
             s == SubSeq(gfree, 2 + AggThreshold, Len(gfree))
  <2>3. r = SubSeq(gfree, 2, 1 + AggThreshold) /\ s = SubSeq(gfree, 2 + AggThreshold, Len(gfree))
    OBVIOUS
  <2>4. /\ Good(r) /\ r # <<>> /\ Good(s)
        /\ \A n : n \in ToSet(gfree) <=> n = m \/ n \in ToSet(r) \/ n \in ToSet(s)
        /\ \A n : /\ n = m => n \notin ToSet(r)
                  /\ n = m => n \notin ToSet(s)
                  /\ n \in ToSet(r) => n \notin ToSet(s)
    <3>1. Good(gfree)  BY InvFacts
    <3>2. /\ r # <<>> /\ Good(r) /\ Good(s)
          /\ \A n : n \in ToSet(gfree) <=> n = gfree[1] \/ n \in ToSet(r) \/ n \in ToSet(s)
          /\ \A n : /\ n = gfree[1] => n \notin ToSet(r)
                    /\ n = gfree[1] => n \notin ToSet(s)
                    /\ n \in ToSet(r) => n \notin ToSet(s)
      <4>1. AggThreshold \in Nat \ {0}  BY PoolAssumption
      <4>2. QED  BY <1>6, <3>1, <4>1, Cut, Zenon
    <3>3. QED  BY <1>4, <3>2, Zenon
  <2>25. loc'[t].out = r /\ gfree' = s
    <3>1. loc'[t] = [loc[t] EXCEPT !.pc = "outLoad", !.node = gfree[1], !.out = r]
      BY <2>2, Zenon
    <3> HIDE DEF r, s
    <3>2. loc'[t].out = r  BY <3>1, OwnFacts DEF Locals
    <3>3. QED  BY <2>1, <2>3, <3>2, Zenon
  <2> HIDE DEF r, s
  <2>5. /\ loc'[t].pc = "outLoad" /\ loc'[t].node = m /\ loc'[t].out = r
        /\ loc'[t].tmp = <<>> /\ loc'[t].still = <<>>
    BY <1>3, <1>4, <2>2, <2>25, OwnFacts DEF Locals
  <2>6. gfree' = s /\ owner'["free"] = t  BY <1>2, <2>1, <2>25 DEF TypeOK, Locks
  <2>7. PICK c \in Seq(Nodes), p \in [Nodes -> Places] : InvOf(c, p)  BY InvFacts
  <2>8. \A n \in Nodes : n \in ToSet(gfree) <=> p[n] = <<"gfree", Null>>
    <3>1. IsAt(gfree, <<"gfree", Null>>, p)  BY <2>7, Where, Zenon
    <3>2. QED  BY <3>1, Zenon DEF IsAt
  <2>9. \A n \in Nodes : p[n] # <<"node", t>> /\ p[n] # <<"tmp", t>> /\ p[n] # <<"out", t>>
    BY <1>3, <2>7, Empties, Zenon
  <2>10. /\ <<"gfree", Null>> \in PlacesFor(t) /\ <<"node", t>> \in PlacesFor(t)
         /\ <<"out", t>> \in PlacesFor(t)
    BY PlaceNames, Zenon
  <2>11. PICK x : Put(t, m, <<"gfree", Null>>, <<"node", t>>, p, x)
    <3>1. p[m] = <<"gfree", Null>>  BY <2>4, <2>8
    <3>2. QED  BY <2>7, <2>10, <3>1, PutOne, Zenon
  <2>12. /\ Moved(t, {<<"gfree", Null>>, <<"node", t>>}, p, x) /\ x \in [Nodes -> Places]
         /\ \A n \in Nodes : x[n] = IF n = m THEN <<"node", t>> ELSE p[n]
    BY <2>11, Zenon DEF Put, Moved
  <2>13. PICK q : Poured(t, r, <<"gfree", Null>>, <<"out", t>>, x, q)
    <3>1. \A n \in Nodes : n \in ToSet(r) => x[n] = <<"gfree", Null>>  BY <2>4, <2>8, <2>12
    <3>2. QED  BY <2>10, <2>12, <3>1, PourSome, Zenon
  <2>14. /\ Moved(t, {<<"gfree", Null>>, <<"out", t>>}, x, q)
         /\ \A n \in Nodes : q[n] = IF n \in ToSet(r) THEN <<"out", t>> ELSE x[n]
    BY <2>13, Zenon DEF Poured
  <2>15. \A n \in Nodes :
           q[n] = IF n = m THEN <<"node", t>> ELSE IF n \in ToSet(r) THEN <<"out", t>> ELSE p[n]
    BY <2>4, <2>12, <2>14
  <2>16. IsAt(s, <<"gfree", Null>>, q) /\ IsAt(r, <<"out", t>>, q)
    <3>1. \A n \in Nodes : n \in ToSet(s) <=> q[n] = <<"gfree", Null>>  BY <2>4, <2>8, <2>15
    <3>2. \A n \in Nodes : n \in ToSet(r) <=> q[n] = <<"out", t>>  BY <2>4, <2>9, <2>15
    <3>3. QED  BY <2>4, <3>1, <3>2, NewAt
  <2>17. \A n \in Nodes : n = m <=> q[n] = <<"node", t>>  BY <2>9, <2>15
  <2> DEFINE K == {<<"gfree", Null>>, <<"node", t>>} \cup {<<"gfree", Null>>, <<"out", t>>}
  <2>18. Moved(t, K, p, q)  BY <2>12, <2>14, MovedTwice, Zenon
  <2>19. Follow(t, K, c, c, q)
    BY <1>1, <1>3, <2>5, <2>6, <2>16, <2>17 DEF Follow, Follows
  <2> HIDE DEF K
  <2>20. Safe(t, p, q)
    <3>1. ASSUME NEW n \in Nodes, q[n] \in Open(t) PROVE Clear(n, t, p)
      <4>1. CASE n = m
        <5>1. p[n] = <<"gfree", Null>>  BY <2>4, <2>8, <4>1
        <5>2. QED  BY <5>1 DEF Clear, Open
      <4>2. CASE n \in ToSet(r)
        <5>1. p[n] = <<"gfree", Null>>  BY <2>4, <2>8, <4>2
        <5>2. QED  BY <5>1 DEF Clear, Open
      <4>3. CASE n # m /\ n \notin ToSet(r)
        <5>1. q[n] = p[n]  BY <2>15, <4>3
        <5>2. QED  BY <3>1, <5>1 DEF Clear
      <4>4. QED  BY <4>1, <4>2, <4>3
    <3>2. \A n \in Nodes : q[n] # <<"tmp", t>>  BY <2>9, <2>15
    <3>3. \A n \in Nodes : q[n] \in {<<"unused", Null>>, <<"lockFree", Null>>} => Popped(n, t, p)
      BY <2>15 DEF Popped
    <3>4. Popped(m, t, p)
      <4>1. p[m] = <<"gfree", Null>>  BY <2>4, <2>8
      <4>2. QED  BY <4>1 DEF Popped, Clear, Open
    <3>5. \A n \in Nodes : q[n] = <<"node", t>> => Popped(n, t, p)  BY <2>17, <3>4, Zenon
    <3>6. QED  BY <3>1, <3>2, <3>3, <3>5, Zenon DEF Safe
  <2>21. NodesOK(loc[t])'
    <3>1. NodesOK(loc'[t])
      <4>1. /\ loc'[t].pc \in OutPoints /\ loc'[t].tmp = <<>> /\ loc'[t].still = <<>>
            /\ loc'[t].out # <<>>
        BY <2>4, <2>5 DEF OutPoints
      <4>2. QED  BY <4>1, OutOK, Zenon
    <3>2. QED  BY <3>1, Zenon DEF NodesOK, ScansFor
  <2>22. ListsOK(t)'
    <3>1. loc'[t].node # Null /\ loc'[t].pc # "scan" /\ loc'[t].pc \in OutPoints
      BY <2>5, PoolAssumption DEF OutPoints
    <3>2. QED  BY <2>6, <3>1 DEF ListsOK, ScansFor
  <2>23. UNCHANGED <<head, link, slot>>
         /\ loc'[t].pc \notin {"outCas", "verify", "next", "cas", "readVerify"}
    BY <1>1, <2>5
  <2>24. QED  BY <1>0, <1>2, <2>7, <2>18, <2>19, <2>20, <2>21, <2>22, <2>23, Settle, Zenon
<1>7. QED  BY <1>5, <1>6

\* What a pop was for: the node is used, or deleted.
LEMMA GotSteps == ASSUME Inv, NEW t \in Threads, Use(t) \/ Delete(t) PROVE Inv'
<1>0. Step(t)  BY Zenon DEF Step
<1>1. /\ loc[t].pc = "got" /\ Become(t, Idle)
      /\ UNCHANGED <<head, link, slot, lists, owner, calls>>
  BY Zenon DEF Use, Delete, At, Return
<1>2. \/ inUse' = inUse \cup {loc[t].node} /\ UNCHANGED allocated
      \/ allocated' = allocated \ {loc[t].node} /\ UNCHANGED inUse
  BY DEF Use, Delete
<1>3. /\ UNCHANGED <<free, held, gfree, gheld, owner>> /\ UNCHANGED <<head, link, slot>>
  BY <1>1 DEF lists
<1>4. /\ loc[t].tmp = <<>> /\ loc[t].still = <<>> /\ loc[t].out = <<>> /\ loc[t].node # Null
      /\ owner["free"] # t
  <2>1. NodesOK(loc[t]) /\ ListsOK(t)  BY OwnFacts
  <2>2. loc[t].pc \notin {"idle", "scan", "pushLock"} \cup OutPoints  BY <1>1 DEF OutPoints
  <2>3. QED  BY <1>1, <2>1, <2>2 DEF NodesOK, ListsOK
<1>5. PICK m \in Nodes : m = loc[t].node
  <2>1. loc[t].node \in Nodes  BY <1>4, OwnFacts, LocalTypes DEF NodeOrNull
  <2>2. QED  BY <2>1
<1>6. /\ loc'[t].tmp = <<>> /\ loc'[t].still = <<>> /\ loc'[t].out = <<>> /\ loc'[t].node = Null
      /\ loc'[t].pc = "idle" /\ NodesOK(loc[t])' /\ ListsOK(t)'
  <2>1. owner'["free"] # t  BY <1>3, <1>4
  <2>2. loc'[t] = Idle  BY <1>1, BecomeFields, OwnFacts
  <2>3. NodesOK(loc[t])' /\ ListsOK(t)'  BY <2>1, <2>2, Idles
  <2>4. QED  BY <2>2, <2>3 DEF Idle
<1>7. PICK c \in Seq(Nodes), p \in [Nodes -> Places] : InvOf(c, p)  BY InvFacts
<1>8. /\ \A n \in Nodes : n = m <=> p[n] = <<"node", t>>
      /\ \A n \in Nodes : n \in allocated <=> p[n] # <<"unused", Null>>
      /\ \A n \in Nodes : n \in inUse <=> p[n] = <<"inUse", Null>>
  BY <1>5, <1>7, WhereOne
<1>9. \A n \in Nodes : p[n] # <<"tmp", t>>  BY <1>4, <1>7, Empties, Zenon
<1>10. ASSUME NEW b \in {<<"inUse", Null>>, <<"unused", Null>>},
              \A q : Put(t, m, <<"node", t>>, b, p, q)
                     => Follow(t, {<<"node", t>>, b}, c, c, q)
       PROVE  Inv'
  <2>1. PICK q : Put(t, m, <<"node", t>>, b, p, q)
    <3>1. b \in PlacesFor(t) /\ <<"node", t>> \in PlacesFor(t)  BY PlaceNames, Zenon
    <3>2. QED  BY <1>7, <1>8, <3>1, PutOne, Zenon
  <2>2. /\ Moved(t, {<<"node", t>>, b}, p, q)
        /\ \A n \in Nodes : q[n] = IF n = m THEN b ELSE p[n]
    BY <2>1, Zenon DEF Put
  <2>3. Follow(t, {<<"node", t>>, b}, c, c, q)  BY <1>10, <2>1, Zenon
  <2>4. Safe(t, p, q)
    <3>1. \A n \in Nodes : q[n] \in Open(t) => Clear(n, t, p)  BY <2>2 DEF Open, Clear
    <3>2. \A n \in Nodes : q[n] # <<"tmp", t>> /\ q[n] # <<"node", t>>  BY <1>8, <1>9, <2>2
    <3>3. Popped(m, t, p)
      <4>1. ~ At(t, "scan") /\ p[m] = <<"node", t>>  BY <1>1, <1>8 DEF At
      <4>2. QED  BY <4>1, Zenon DEF Popped
    <3>4. \A n \in Nodes : q[n] \in {<<"unused", Null>>, <<"lockFree", Null>>} => Popped(n, t, p)
      BY <2>2, <3>3 DEF Popped
    <3>5. QED  BY <3>1, <3>2, <3>4, Zenon DEF Safe
  <2>5. /\ loc[t].pc # "readVerify" /\ UNCHANGED <<head, link, slot>>
        /\ loc'[t].pc \notin {"outCas", "verify", "next", "cas", "readVerify"}
    BY <1>1, <1>3, <1>6
  <2>6. QED  BY <1>0, <1>6, <1>7, <2>2, <2>3, <2>4, <2>5, Settle, Zenon
<1>11. \A n \in Nodes : n # Null  BY PoolAssumption
<1>12. CASE inUse' = inUse \cup {loc[t].node} /\ UNCHANGED allocated
  <2>1. ASSUME NEW q, Put(t, m, <<"node", t>>, <<"inUse", Null>>, p, q)
        PROVE  Follow(t, {<<"node", t>>, <<"inUse", Null>>}, c, c, q)
    <3>1. \A n \in Nodes : n \in inUse' <=> q[n] = <<"inUse", Null>>
      BY <1>5, <1>8, <1>12, <2>1 DEF Put
    <3>2. \A n \in Nodes : n = loc'[t].node <=> q[n] = <<"node", t>>
      BY <1>6, <1>8, <1>11, <2>1 DEF Put
    <3>3. QED  BY <1>3, <1>4, <1>6, <1>12, <3>1, <3>2 DEF Follow, Follows
  <2>2. QED  BY <1>10, <2>1, Zenon
<1>13. CASE allocated' = allocated \ {loc[t].node} /\ UNCHANGED inUse
  <2>1. ASSUME NEW q, Put(t, m, <<"node", t>>, <<"unused", Null>>, p, q)
        PROVE  Follow(t, {<<"node", t>>, <<"unused", Null>>}, c, c, q)
    <3>1. \A n \in Nodes : n \in allocated' <=> q[n] # <<"unused", Null>>
      BY <1>5, <1>8, <1>13, <2>1 DEF Put
    <3>2. \A n \in Nodes : n = loc'[t].node <=> q[n] = <<"node", t>>
      BY <1>6, <1>8, <1>11, <2>1 DEF Put
    <3>3. QED  BY <1>3, <1>4, <1>6, <1>13, <3>1, <3>2 DEF Follow, Follows
  <2>2. QED  BY <1>10, <2>1, Zenon
<1>14. QED  BY <1>2, <1>12, <1>13

-----------------------------------------------------------------------------
(* Nodes that are deleted.                                                 *)

LEMMA Freed ==
  ASSUME NEW t, NEW s, NEW a, NEW p, NEW q, Poured(t, s, a, <<"unused", Null>>, p, q),
         \A n \in Nodes : n \in allocated <=> p[n] # <<"unused", Null>>,
         allocated' = allocated \ ToSet(s)
  PROVE  \A n \in Nodes : n \in allocated' <=> q[n] # <<"unused", Null>>
<1>1. \A n \in Nodes : q[n] = IF n \in ToSet(s) THEN <<"unused", Null>> ELSE p[n]
  BY Zenon DEF Poured
<1>2. QED  BY <1>1

LEMMA ClearFreeStep == ASSUME Inv, NEW t \in Threads, ClearFree(t) PROVE Inv'
<1>0. Step(t)  BY Zenon DEF Step
<1>1. /\ loc[t].pc = "idle" /\ free' = [free EXCEPT ![t] = <<>>]
      /\ held' = [held EXCEPT ![t] = <<>>] /\ allocated' = allocated \ ToSet(free[t])
      /\ Become(t, Scanning(t, held[t], "clear"))
      /\ UNCHANGED <<head, link, slot, gfree, gheld, owner, inUse>>
  BY Zenon DEF ClearFree, Begin, At
<1>2. free'[t] = <<>> /\ held'[t] = <<>>  BY <1>1, OwnFacts DEF TypeOK
<1>3. loc[t].tmp = <<>> /\ loc[t].still = <<>> /\ loc[t].out = <<>> /\ loc[t].node = Null
  <2>1. NodesOK(loc[t]) /\ loc[t].pc \in Bare \cup {"idle"}  BY <1>1, OwnFacts
  <2>2. QED  BY <2>1, BareFacts
<1>4. owner'["free"] # t
  <2>1. ListsOK(t) /\ loc[t].pc \notin OutPoints  BY <1>1, OwnFacts DEF OutPoints
  <2>2. QED  BY <1>1, <2>1 DEF ListsOK
<1>5. /\ loc'[t].pc = "scan" /\ loc'[t].tmp = held[t] /\ loc'[t].still = <<>>
      /\ loc'[t].unseen = Slots /\ loc'[t].out = <<>> /\ loc'[t].node = Null
      /\ NodesOK(loc[t])' /\ ListsOK(t)'
  <2>1. loc'[t] = Scanning(t, held[t], "clear")  BY <1>1, BecomeFields, OwnFacts, Zenon
  <2>2. "clear" \in Thens \ {"none", "stock"} /\ "clear" # "push" /\ "clear" \notin {"all", "clearAll"}
    BY DEF Thens
  <2>3. QED  BY <1>2, <1>3, <1>4, <2>1, <2>2, BeginsOK, Zenon
<1>6. PICK c \in Seq(Nodes), p \in [Nodes -> Places] : InvOf(c, p)  BY InvFacts
<1>7. /\ IsAt(free[t], <<"free", t>>, p) /\ IsAt(held[t], <<"held", t>>, p)
      /\ IsAt(loc[t].tmp, <<"tmp", t>>, p)
  BY <1>6, Where, Zenon
<1>8. \A n \in Nodes : n \in allocated <=> p[n] # <<"unused", Null>>  BY <1>6, WhereOne
<1>9. \A n \in Nodes : p[n] # <<"node", t>>  BY <1>3, <1>6, Empties, Zenon
<1>10. /\ <<"free", t>> \in PlacesFor(t) /\ <<"unused", Null>> \in PlacesFor(t)
       /\ <<"held", t>> \in PlacesFor(t) /\ <<"tmp", t>> \in PlacesFor(t)
  BY PlaceNames, Zenon
\* Its free nodes are deleted, ...
<1>11. PICK x : Poured(t, free[t], <<"free", t>>, <<"unused", Null>>, p, x)
  BY <1>6, <1>7, <1>10, Pour, Zenon
<1>12. /\ Moved(t, {<<"free", t>>, <<"unused", Null>>}, p, x) /\ x \in [Nodes -> Places]
       /\ \A n \in Nodes : x[n] = IF n \in ToSet(free[t]) THEN <<"unused", Null>> ELSE p[n]
  BY <1>11, Zenon DEF Poured, Moved
<1>13. /\ IsAt(<<>>, <<"free", t>>, x) /\ IsAt(held[t], <<"held", t>>, x)
       /\ IsAt(loc[t].tmp, <<"tmp", t>>, x)
  <2>1. /\ <<"held", t>> \notin {<<"free", t>>, <<"unused", Null>>}
        /\ <<"tmp", t>> \notin {<<"free", t>>, <<"unused", Null>>}
        /\ <<"free", t>> # <<"unused", Null>>
    OBVIOUS
  <2>2. IsAt(<<>>, <<"free", t>>, x)  BY <1>7, <1>11, <2>1, Left, Zenon
  <2>3. IsAt(held[t], <<"held", t>>, x)  BY <1>7, <1>12, <2>1, Stays, Zenon
  <2>4. IsAt(loc[t].tmp, <<"tmp", t>>, x)  BY <1>7, <1>12, <2>1, Stays, Zenon
  <2>5. QED  BY <2>2, <2>3, <2>4
<1>14. \A n \in Nodes : n \in allocated' <=> x[n] # <<"unused", Null>>
  BY <1>1, <1>8, <1>11, Freed, Zenon
\* ... and the others are looked at.
<1>15. PICK q : Poured(t, held[t], <<"held", t>>, <<"tmp", t>>, x, q)
  BY <1>10, <1>12, <1>13, Pour, Zenon
<1>16. /\ Moved(t, {<<"held", t>>, <<"tmp", t>>}, x, q)
       /\ \A n \in Nodes : q[n] = IF n \in ToSet(held[t]) THEN <<"tmp", t>> ELSE x[n]
  BY <1>15, Zenon DEF Poured
<1>17. /\ IsAt(<<>>, <<"free", t>>, q) /\ IsAt(<<>>, <<"held", t>>, q)
       /\ IsAt(held[t], <<"tmp", t>>, q)
  <2>1. <<"held", t>> # <<"tmp", t>> /\ <<"free", t>> \notin {<<"held", t>>, <<"tmp", t>>}
    OBVIOUS
  <2>2. IsAt(<<>>, <<"held", t>>, q)  BY <1>13, <1>15, <2>1, Left, Zenon
  <2>3. IsAt(held[t], <<"tmp", t>>, q)  BY <1>3, <1>13, <1>15, <2>1, Received, Zenon
  <2>4. IsAt(<<>>, <<"free", t>>, q)  BY <1>13, <1>16, <2>1, Stays, Zenon
  <2>5. QED  BY <2>2, <2>3, <2>4
<1>18. \A n \in Nodes : n \in allocated' <=> q[n] # <<"unused", Null>>
  <2>1. \A n \in Nodes : n \in ToSet(held[t]) => x[n] = <<"held", t>>  BY <1>13, Zenon DEF IsAt
  <2>2. \A n \in Nodes : q[n] = <<"unused", Null>> <=> x[n] = <<"unused", Null>>
    BY <1>16, <2>1
  <2>3. QED  BY <1>14, <2>2
<1> DEFINE K == {<<"free", t>>, <<"unused", Null>>} \cup {<<"held", t>>, <<"tmp", t>>}
<1>19. Moved(t, K, p, q)  BY <1>12, <1>16, MovedTwice, Zenon
<1>20. Follow(t, K, c, c, q)
  BY <1>1, <1>2, <1>3, <1>5, <1>17, <1>18 DEF Follow, Follows
<1> HIDE DEF K
<1>21. Safe(t, p, q)
  <2>1. \A n \in Nodes : n \in ToSet(free[t]) => p[n] = <<"free", t>>  BY <1>7, Zenon DEF IsAt
  <2>2. ASSUME NEW n \in Nodes, q[n] \in Open(t) PROVE Clear(n, t, p)
    <3>1. q[n] = p[n]  BY <1>12, <1>16, <2>2 DEF Open
    <3>2. QED  BY <2>2, <3>1 DEF Clear
  <2>3. ASSUME NEW n \in Nodes, q[n] \in {<<"unused", Null>>, <<"lockFree", Null>>}
        PROVE  Popped(n, t, p)
    <3>1. CASE n \in ToSet(free[t])
      <4>1. p[n] = <<"free", t>>  BY <2>1, <3>1
      <4>2. <<"free", t>> \in Open(t)  BY DEF Open
      <4>3. QED  BY <4>1, <4>2 DEF Popped, Clear
    <3>2. CASE n \notin ToSet(free[t])
      <4>1. q[n] = p[n]  BY <1>12, <1>16, <2>3, <3>2
      <4>2. QED  BY <2>3, <4>1 DEF Popped
    <3>3. QED  BY <3>1, <3>2
  <2>4. QED  BY <1>5, <2>2, <2>3, Zenon DEF Safe
<1>22. /\ loc[t].pc # "readVerify" /\ UNCHANGED <<head, link, slot>>
       /\ loc'[t].pc \notin {"outCas", "verify", "next", "cas", "readVerify"}
  BY <1>1, <1>5
<1>23. QED  BY <1>0, <1>5, <1>6, <1>19, <1>20, <1>21, <1>22, Settle, Zenon

LEMMA ClearLockedStep == ASSUME Inv, NEW t \in Threads, ClearLocked(t) PROVE Inv'
<1>0. Step(t)  BY Zenon DEF Step
<1>1. /\ loc[t].pc = "clearLock" /\ gfree' = <<>> /\ allocated' = allocated \ ToSet(gfree)
      /\ Goto(t, "clearHeldLock")
      /\ UNCHANGED <<head, link, slot, free, held, gheld, owner, inUse, calls>>
  BY Zenon DEF ClearLocked, At
<1>2. loc[t].pc \in Bare /\ loc[t].pc \in Bare \cup {"idle"} /\ loc[t].pc # "readVerify"
  BY <1>1 DEF Bare
<1>3. loc[t].tmp = <<>> /\ loc[t].still = <<>> /\ loc[t].out = <<>> /\ loc[t].node = Null
  BY <1>2, BareFacts, OwnFacts
<1>4. /\ loc'[t].pc = "clearHeldLock" /\ loc'[t].node = loc[t].node
      /\ loc'[t].tmp = loc[t].tmp /\ loc'[t].still = loc[t].still /\ loc'[t].out = loc[t].out
  BY <1>1, GotoFields, OwnFacts
<1>5. NodesOK(loc[t])' /\ ListsOK(t)'
  <2>1. loc'[t].pc \in Bare  BY <1>4 DEF Bare
  <2>2. UNCHANGED owner  BY <1>1
  <2>3. QED  BY <1>2, <1>4, <2>1, <2>2, BareStep, Zenon
<1>6. PICK c \in Seq(Nodes), p \in [Nodes -> Places] : InvOf(c, p)  BY InvFacts
<1>7. IsAt(gfree, <<"gfree", Null>>, p)  BY <1>6, Where, Zenon
<1>8. \A n \in Nodes : n \in allocated <=> p[n] # <<"unused", Null>>  BY <1>6, WhereOne
<1>9. /\ \A n \in Nodes : p[n] # <<"node", t>>
      /\ \A n \in Nodes : p[n] # <<"tmp", t>>
  BY <1>3, <1>6, Empties, Zenon
<1>10. PICK q : Poured(t, gfree, <<"gfree", Null>>, <<"unused", Null>>, p, q)
  <2>1. <<"gfree", Null>> \in PlacesFor(t) /\ <<"unused", Null>> \in PlacesFor(t)
    BY PlaceNames, Zenon
  <2>2. QED  BY <1>6, <1>7, <2>1, Pour, Zenon
<1>11. /\ Moved(t, {<<"gfree", Null>>, <<"unused", Null>>}, p, q)
       /\ \A n \in Nodes : q[n] = IF n \in ToSet(gfree) THEN <<"unused", Null>> ELSE p[n]
  BY <1>10, Zenon DEF Poured
<1>12. Follow(t, {<<"gfree", Null>>, <<"unused", Null>>}, c, c, q)
  <2>1. <<"gfree", Null>> # <<"unused", Null>>  OBVIOUS
  <2>2. IsAt(<<>>, <<"gfree", Null>>, q)  BY <1>7, <1>10, <2>1, Left, Zenon
  <2>3. \A n \in Nodes : n \in allocated' <=> q[n] # <<"unused", Null>>
    BY <1>1, <1>8, <1>10, Freed, Zenon
  <2>4. QED  BY <1>1, <1>4, <2>2, <2>3 DEF Follow, Follows
<1>13. Safe(t, p, q)
  <2>1. \A n \in Nodes : n \in ToSet(gfree) => p[n] = <<"gfree", Null>>  BY <1>7, Zenon DEF IsAt
  <2>2. ASSUME NEW n \in Nodes, q[n] \in Open(t) PROVE Clear(n, t, p)
    <3>1. q[n] = p[n]  BY <1>11, <2>2 DEF Open
    <3>2. QED  BY <2>2, <3>1 DEF Clear
  <2>3. ASSUME NEW n \in Nodes, q[n] \in {<<"unused", Null>>, <<"lockFree", Null>>}
        PROVE  Popped(n, t, p)
    <3>1. CASE n \in ToSet(gfree)
      <4>1. p[n] = <<"gfree", Null>>  BY <2>1, <3>1
      <4>2. <<"gfree", Null>> \in Open(t)  BY DEF Open
      <4>3. QED  BY <4>1, <4>2 DEF Popped, Clear
    <3>2. CASE n \notin ToSet(gfree)
      <4>1. q[n] = p[n]  BY <1>11, <3>2
      <4>2. QED  BY <2>3, <4>1 DEF Popped
    <3>3. QED  BY <3>1, <3>2
  <2>4. \A n \in Nodes : q[n] # <<"node", t>> /\ q[n] # <<"tmp", t>>  BY <1>9, <1>11
  <2>5. QED  BY <2>2, <2>3, <2>4, Zenon DEF Safe
<1>14. UNCHANGED <<head, link, slot>>
       /\ loc'[t].pc \notin {"outCas", "verify", "next", "cas", "readVerify"}
  BY <1>1, <1>4
<1>15. QED  BY <1>0, <1>2, <1>5, <1>6, <1>11, <1>12, <1>13, <1>14, Settle, Zenon


LEMMA IdleAgain == Idle = [Idle EXCEPT !.pc = "idle"]
  BY DEF Idle

\* The scan of a clear is over: what it has found free is deleted.
LEMMA CheckedSteps == ASSUME Inv, NEW t \in Threads, ClearHeld(t) \/ ClearAll(t) PROVE Inv'
<1>0. Step(t)  BY Zenon DEF Step
<1>1. PICK w \in {"clear", "clearAll"}, e \in {"clearLock", "idle"} :
        /\ Scanned(t, w) /\ Become(t, [Idle EXCEPT !.pc = e])
        /\ allocated' = allocated \ ToSet(loc[t].tmp)
        /\ UNCHANGED <<head, link, slot, free, gfree, inUse, calls>>
        /\ owner'["free"] = owner["free"]
        /\ \/ w = "clear" /\ held' = [held EXCEPT ![t] = loc[t].still] /\ UNCHANGED gheld
           \/ w = "clearAll" /\ gheld' = loc[t].still /\ UNCHANGED held
  <2>1. CASE ClearHeld(t)
    <3>1. /\ Scanned(t, "clear") /\ Become(t, [Idle EXCEPT !.pc = "clearLock"])
          /\ allocated' = allocated \ ToSet(loc[t].tmp)
          /\ UNCHANGED <<head, link, slot, free, gfree, gheld, owner, inUse, calls>>
          /\ held' = [held EXCEPT ![t] = loc[t].still]
      BY <2>1, Zenon DEF ClearHeld
    <3>2. QED  BY <3>1
  <2>2. CASE ClearAll(t)
    <3>1. /\ Scanned(t, "clearAll") /\ Become(t, Idle)
          /\ allocated' = allocated \ ToSet(loc[t].tmp)
          /\ UNCHANGED <<head, link, slot, free, held, gfree, inUse, calls>>
          /\ gheld' = loc[t].still /\ owner' = [owner EXCEPT !["held"] = Null]
      BY <2>2, Zenon DEF ClearAll, Return
    <3>2. owner'["free"] = owner["free"]  BY <3>1, OwnFacts DEF TypeOK, Locks
    <3>3. Become(t, [Idle EXCEPT !.pc = "idle"])  BY <3>1, IdleAgain, Zenon
    <3>4. QED  BY <3>1, <3>2, <3>3
  <2>3. QED  BY <2>1, <2>2
<1>2. PICK c \in Seq(Nodes), p \in [Nodes -> Places] : InvOf(c, p)  BY InvFacts
<1>3. /\ At(t, "scan") /\ loc[t].pc = "scan" /\ loc[t].then = w
      /\ \A n \in Nodes : p[n] = <<"tmp", t>> => Clear(n, t, p)
  BY <1>1, <1>2, ScannedFacts, Zenon
<1>4. /\ loc[t].out = <<>> /\ loc[t].node = Null /\ owner["free"] # t
      /\ w = "clear" => held[t] = <<>>
      /\ w = "clearAll" => gheld = <<>>
  <2>1. w # "stock" /\ (w = "clear" => w \in {"own", "stock", "clear"})
        /\ (w = "clearAll" => w \in {"all", "clearAll"})
    OBVIOUS
  <2>2. QED  BY <1>3, <2>1, ScanFacts, Zenon
<1>5. TypeOK  BY OwnFacts
<1>6. PICK a \in {<<"held", t>>, <<"gheld", Null>>} :
        \/ w = "clear" /\ a = <<"held", t>>
        \/ w = "clearAll" /\ a = <<"gheld", Null>>
  <2>1. w = "clear" \/ w = "clearAll"  OBVIOUS
  <2>2. QED  BY <2>1, Zenon
<1>7. /\ IsAt(loc[t].tmp, <<"tmp", t>>, p) /\ IsAt(loc[t].still, <<"still", t>>, p)
      /\ IsAt(<<>>, a, p)
  <2>1. /\ IsAt(loc[t].tmp, <<"tmp", t>>, p) /\ IsAt(loc[t].still, <<"still", t>>, p)
        /\ IsAt(held[t], <<"held", t>>, p) /\ IsAt(gheld, <<"gheld", Null>>, p)
    BY <1>2, Where, Zenon
  <2>2. QED  BY <1>4, <1>6, <2>1, Zenon
<1>8. \A n \in Nodes : p[n] # <<"node", t>>  BY <1>2, <1>4, Empties, Zenon
<1>9. \A n \in Nodes : n \in allocated <=> p[n] # <<"unused", Null>>  BY <1>2, WhereOne
<1>10. /\ <<"tmp", t>> \in PlacesFor(t) /\ <<"still", t>> \in PlacesFor(t)
       /\ <<"unused", Null>> \in PlacesFor(t) /\ a \in PlacesFor(t)
  BY PlaceNames, Zenon
<1>11. /\ a # <<"still", t>> /\ a # <<"tmp", t>> /\ a # <<"node", t>> /\ a \notin Open(t)
       /\ a # <<"unused", Null>> /\ a # <<"lockFree", Null>>
  BY DEF Open
<1>12. /\ loc'[t].tmp = <<>> /\ loc'[t].still = <<>> /\ loc'[t].out = <<>>
       /\ loc'[t].node = Null /\ loc'[t].pc = e /\ NodesOK(loc[t])' /\ ListsOK(t)'
       /\ e \notin {"outCas", "verify", "next", "cas", "readVerify"}
  <2>1. loc'[t] = [Idle EXCEPT !.pc = e]  BY <1>1, <1>5, BecomeFields, Zenon
  <2>2. /\ loc'[t].tmp = <<>> /\ loc'[t].still = <<>> /\ loc'[t].out = <<>>
        /\ loc'[t].node = Null /\ loc'[t].pc = e
    BY <2>1 DEF Idle
  <2>3. NodesOK(loc[t])' /\ ListsOK(t)'
    <3>1. CASE e = "idle"
      <4>1. loc'[t] = Idle
        <5>1. loc'[t] = [Idle EXCEPT !.pc = "idle"]  BY <2>1, <3>1, Zenon
        <5>2. QED  BY <5>1, IdleAgain, Zenon
      <4>2. owner'["free"] # t  BY <1>1, <1>4
      <4>3. QED  BY <4>1, <4>2, Idles
    <3>2. CASE e = "clearLock"
      <4>1. e \in Bare /\ e \notin {"scan"} \cup OutPoints  BY <3>2 DEF Bare, OutPoints
      <4>2. NodesOK(loc'[t])  BY <2>2, <4>1, BareOK, Zenon
      <4>3. NodesOK(loc[t])'  BY <4>2, Zenon DEF NodesOK, ScansFor
      <4>4. owner'["free"] # t  BY <1>1, <1>4
      <4>5. ListsOK(t)'  BY <2>2, <4>1, <4>4 DEF ListsOK, ScansFor
      <4>6. QED  BY <4>3, <4>5
    <3>3. QED  BY <3>1, <3>2
  <2>4. e \notin {"outCas", "verify", "next", "cas", "readVerify"}  OBVIOUS
  <2>5. QED  BY <2>2, <2>3, <2>4, Zenon
<1>13. PICK x : Poured(t, loc[t].still, <<"still", t>>, a, p, x)
  BY <1>2, <1>7, <1>10, Pour, Zenon
<1>14. /\ Moved(t, {<<"still", t>>, a}, p, x) /\ x \in [Nodes -> Places]
       /\ \A n \in Nodes : x[n] = IF n \in ToSet(loc[t].still) THEN a ELSE p[n]
  BY <1>13, Zenon DEF Poured, Moved
<1>15. /\ IsAt(<<>>, <<"still", t>>, x) /\ IsAt(loc[t].still, a, x)
       /\ IsAt(loc[t].tmp, <<"tmp", t>>, x)
  <2>1. <<"tmp", t>> \notin {<<"still", t>>, a}  BY <1>11
  <2>2. IsAt(<<>>, <<"still", t>>, x)  BY <1>7, <1>11, <1>13, Left, Zenon
  <2>3. IsAt(loc[t].still, a, x)  BY <1>7, <1>11, <1>13, Received, Zenon
  <2>4. IsAt(loc[t].tmp, <<"tmp", t>>, x)  BY <1>7, <1>14, <2>1, Stays, Zenon
  <2>5. QED  BY <2>2, <2>3, <2>4
<1>16. \A n \in Nodes : n \in allocated <=> x[n] # <<"unused", Null>>
  <2>1. \A n \in Nodes : n \in ToSet(loc[t].still) => p[n] = <<"still", t>>  BY <1>7, Zenon DEF IsAt
  <2>2. \A n \in Nodes : x[n] = <<"unused", Null>> <=> p[n] = <<"unused", Null>>
    BY <1>11, <1>14, <2>1
  <2>3. QED  BY <1>9, <2>2
<1>17. PICK q : Poured(t, loc[t].tmp, <<"tmp", t>>, <<"unused", Null>>, x, q)
  BY <1>10, <1>14, <1>15, Pour, Zenon
<1>18. /\ Moved(t, {<<"tmp", t>>, <<"unused", Null>>}, x, q)
       /\ \A n \in Nodes : q[n] = IF n \in ToSet(loc[t].tmp) THEN <<"unused", Null>> ELSE x[n]
  BY <1>17, Zenon DEF Poured
<1>19. /\ IsAt(<<>>, <<"still", t>>, q) /\ IsAt(loc[t].still, a, q) /\ IsAt(<<>>, <<"tmp", t>>, q)
  <2>1. /\ <<"tmp", t>> # <<"unused", Null>> /\ a \notin {<<"tmp", t>>, <<"unused", Null>>}
        /\ <<"still", t>> \notin {<<"tmp", t>>, <<"unused", Null>>}
    BY <1>11
  <2>2. IsAt(<<>>, <<"tmp", t>>, q)  BY <1>15, <1>17, <2>1, Left, Zenon
  <2>3. IsAt(<<>>, <<"still", t>>, q)  BY <1>15, <1>18, <2>1, Stays, Zenon
  <2>4. IsAt(loc[t].still, a, q)  BY <1>15, <1>18, <2>1, Stays, Zenon
  <2>5. QED  BY <2>2, <2>3, <2>4
<1>20. \A n \in Nodes : n \in allocated' <=> q[n] # <<"unused", Null>>
  <2>1. allocated' = allocated \ ToSet(loc[t].tmp)  BY <1>1
  <2>2. QED  BY <1>16, <1>17, <2>1, Freed, Zenon
<1> DEFINE K == {<<"still", t>>, a} \cup {<<"tmp", t>>, <<"unused", Null>>}
<1>21. Moved(t, K, p, q)  BY <1>14, <1>18, MovedTwice, Zenon
<1>22. Follow(t, K, c, c, q)
  <2>1. /\ <<"still", t>> \in K /\ a \in K /\ <<"gheld", Null>> \notin K \ {a}
        /\ <<"held", t>> \notin K \ {a} /\ <<"tmp", t>> \in K /\ <<"unused", Null>> \in K
        /\ <<"inUse", Null>> \notin K /\ <<"lockFree", Null>> \notin K /\ <<"gfree", Null>> \notin K
        /\ <<"out", t>> \notin K /\ <<"node", t>> \notin K /\ <<"free", t>> \notin K
    BY <1>11
  <2> HIDE DEF K
  <2>2. /\ Follows(gheld, gheld', <<"gheld", Null>>, K, q)
        /\ Follows(held[t], held'[t], <<"held", t>>, K, q)
    <3>1. CASE a = <<"held", t>>
      <4>1. <<"gheld", Null>> \notin K /\ gheld' = gheld /\ held'[t] = loc[t].still
        BY <1>1, <1>5, <1>6, <2>1, <3>1 DEF TypeOK
      <4>2. QED  BY <1>19, <2>1, <3>1, <4>1, Zenon DEF Follows
    <3>2. CASE a = <<"gheld", Null>>
      <4>1. <<"held", t>> \notin K /\ held'[t] = held[t] /\ gheld' = loc[t].still
        BY <1>1, <1>6, <2>1, <3>2
      <4>2. QED  BY <1>19, <2>1, <3>2, <4>1, Zenon DEF Follows
    <3>3. QED  BY <3>1, <3>2
  <2>3. UNCHANGED <<free, gfree, inUse>>  BY <1>1
  <2>4. QED  BY <1>4, <1>12, <1>19, <1>20, <2>1, <2>2, <2>3 DEF Follow, Follows
<1> HIDE DEF K
<1>23. Safe(t, p, q)
  <2>1. \A n \in Nodes : n \in ToSet(loc[t].tmp) => p[n] = <<"tmp", t>>  BY <1>7, Zenon DEF IsAt
  <2>2. ASSUME NEW n \in Nodes, q[n] \in Open(t) PROVE Clear(n, t, p)
    <3>1. <<"unused", Null>> \notin Open(t)  BY DEF Open
    <3>2. q[n] = p[n]  BY <1>11, <1>14, <1>18, <2>2, <3>1, Zenon
    <3>3. QED  BY <2>2, <3>2 DEF Clear
  <2>3. ASSUME NEW n \in Nodes, q[n] \in {<<"unused", Null>>, <<"lockFree", Null>>}
        PROVE  Popped(n, t, p)
    <3>1. CASE n \in ToSet(loc[t].tmp)  BY <1>3, <2>1, <3>1 DEF Popped
    <3>2. CASE n \notin ToSet(loc[t].tmp)
      <4>1. q[n] = p[n]  BY <1>11, <1>14, <1>18, <2>3, <3>2
      <4>2. QED  BY <2>3, <4>1 DEF Popped
    <3>3. QED  BY <3>1, <3>2
  <2>4. \A n \in Nodes : q[n] # <<"node", t>>  BY <1>8, <1>11, <1>14, <1>18
  <2>5. \A n \in Nodes : q[n] # <<"tmp", t>>  BY <1>19, NoNodes, Zenon DEF IsAt
  <2>6. QED  BY <2>2, <2>3, <2>4, <2>5, Zenon DEF Safe
<1>24. /\ loc[t].pc # "readVerify" /\ UNCHANGED <<head, link, slot>>
       /\ loc'[t].pc \notin {"outCas", "verify", "next", "cas", "readVerify"}
  BY <1>1, <1>3, <1>12
<1>25. QED  BY <1>0, <1>2, <1>12, <1>21, <1>22, <1>23, <1>24, Settle, Zenon

-----------------------------------------------------------------------------
(* The invariant holds.                                                    *)

LEMMA StepInv == ASSUME Inv, NEW t \in Threads, Step(t) PROVE Inv'
<1>1. CASE \/ Scan(t) \/ CallPush(t) \/ PushHeld(t) \/ Stocktake(t) \/ PushFree(t)
           \/ PushLocked(t) \/ PushUnlocked(t)
  BY <1>1, ScanStep, CallPushStep, PushHeldStep, StocktakeStep, PushFreeStep, PushLockedStep,
     PushUnlockedStep, Zenon
<1>2. CASE OutLoad(t) \/ OutLink(t) \/ OutCas(t) \/ OutFails(t)
  BY <1>2, OutLoadStep, OutLinkStep, OutCasStep, Zenon
<1>3. CASE CallPop(t, "pop") \/ CallPop(t, "delete") \/ PopLocked(t) \/ PopUnlocked(t)
  BY <1>3, CallPopStep, PopLockedStep, GotoSteps
<1>4. CASE Load(t) \/ Store(t) \/ Verify(t) \/ ReadNext(t) \/ Cas(t) \/ Drop(t)
  BY <1>4, LoadStep, StoreStep, VerifyStep, ReadNextStep, CasStep, DropStep, Zenon
<1>5. CASE PopHeld(t) \/ PopOwn(t) \/ PopHeldLocked(t) \/ PopAll(t) \/ PopNothing(t)
  BY <1>5, PopHeldStep, GiveSteps, HeldLockedSteps, GotoSteps, Zenon
<1>6. CASE New(t) \/ NoNew(t) \/ Use(t) \/ Delete(t)
  BY <1>6, NewStep, ReturnSteps, GotSteps, Zenon
<1>7. CASE \/ ClearFree(t) \/ ClearHeld(t) \/ ClearLocked(t) \/ ClearUnlocked(t)
           \/ ClearHeldLocked(t) \/ ClearAll(t) \/ ClearHeldUnlocked(t)
  BY <1>7, ClearFreeStep, CheckedSteps, ClearLockedStep, GotoSteps, HeldLockedSteps, ReturnSteps,
     Zenon
<1>8. CASE \/ EndFree(t) \/ EndHeld(t) \/ Find(t) \/ Protect(t) \/ ReadVerify(t) \/ Leave(t)
           \/ Skip(t)
  BY <1>8, EndFreeStep, EndHeldStep, FindStep, ProtectStep, ReadVerifyStep, LeaveStep, SkipStep,
     Zenon
<1>9. QED  BY <1>1, <1>2, <1>3, <1>4, <1>5, <1>6, <1>7, <1>8, Zenon DEF Step

LEMMA Stutter == ASSUME Inv, UNCHANGED vars PROVE Inv'
<1>1. /\ UNCHANGED <<head, link, slot, free, held, gfree, gheld>>
      /\ UNCHANGED <<owner, inUse, allocated, calls, loc>>
  BY Zenon DEF vars, lists
<1>2. TypeOK'  BY <1>1, Zenon DEF Inv, TypeOK
<1>3. LocalsOK'
  <2>1. ASSUME NEW t \in Threads PROVE NodesOK(loc[t])' /\ ListsOK(t)' /\ LinksOK(t)'
    <3>1. NodesOK(loc[t]) /\ ListsOK(t) /\ LinksOK(t)  BY OwnFacts
    <3>2. NodesOK(loc[t])'
      <4>1. NodesOK(loc'[t])  BY <1>1, <3>1, Zenon
      <4>2. QED  BY <4>1, Zenon DEF NodesOK, ScansFor
    <3>3. ListsOK(t)'  BY <1>1, <3>1, Zenon DEF ListsOK, ScansFor
    <3>4. LinksOK(t)'  BY <1>1, <3>1, Zenon DEF LinksOK, At
    <3>5. QED  BY <3>2, <3>3, <3>4
  <2>2. QED  BY <2>1, Zenon DEF LocalsOK
<1>4. PICK c \in Seq(Nodes), p \in [Nodes -> Places] : InvOf(c, p)  BY InvFacts
<1>5. ChainIs(c)'  BY <1>1, <1>4, Zenon DEF ChainIs, InvOf
<1>6. Arranged(c, p)'  BY <1>1, <1>4, Zenon DEF Arranged, InvOf
<1>7. HazardsOK(p)'
  <2>1. ASSUME NEW t \in Threads PROVE Reading(t)' = Reading(t)  BY <1>1, Zenon DEF Reading, At
  <2>2. ASSUME NEW n, NEW s PROVE Shielded(n, s, p)' <=> Shielded(n, s, p)
    BY <1>1, Zenon DEF Shielded
  <2>3. ASSUME NEW n PROVE Kept(n, p)' <=> Kept(n, p)  BY <1>1, Zenon DEF Kept, At
  <2>4. ASSUME NEW t \in Threads
        PROVE  /\ (loc[t].pc \in {"next", "cas"})' => Shielded(loc[t].cur, <<t, "pop">>, p)'
               /\ Reading(t)' # Null => Shielded(Reading(t), <<t, "read">>, p)' /\ Kept(Reading(t), p)'
    <3>1. /\ loc[t].pc \in {"next", "cas"} => Shielded(loc[t].cur, <<t, "pop">>, p)
          /\ Reading(t) # Null => Shielded(Reading(t), <<t, "read">>, p) /\ Kept(Reading(t), p)
      BY <1>4, Zenon DEF InvOf, HazardsOK
    <3>2. loc'[t] = loc[t] /\ Reading(t)' = Reading(t)  BY <1>1, <2>1
    <3>3. (Shielded(loc[t].cur, <<t, "pop">>, p))' <=> Shielded(loc[t].cur, <<t, "pop">>, p)
      BY <1>1, Zenon DEF Shielded
    <3>4. /\ (Shielded(Reading(t), <<t, "read">>, p))' <=> Shielded(Reading(t), <<t, "read">>, p)
          /\ (Kept(Reading(t), p))' <=> Kept(Reading(t), p)
      BY <1>1, <3>2, Zenon DEF Shielded, Kept, At
    <3>5. QED  BY <3>1, <3>2, <3>3, <3>4
  <2>5. QED  BY <1>1, <2>4, Zenon DEF HazardsOK
<1>8. InvOf(c, p)'  BY <1>5, <1>6, <1>7, Zenon DEF InvOf
<1>9. QED  BY <1>2, <1>3, <1>8, Zenon DEF Inv

LEMMA NextInv == Inv /\ [Next]_vars => Inv'
<1>1. ASSUME Inv, Next PROVE Inv'  BY <1>1, StepInv, Zenon DEF Next
<1>2. ASSUME Inv, UNCHANGED vars PROVE Inv'  BY <1>2, Stutter, Zenon
<1>3. QED  BY <1>1, <1>2


\* At first a node is where the history has put it, and there are no nodes in the
\* lock-free list.
LEMMA InvInit == Init => Inv
<1> SUFFICES ASSUME Init PROVE Inv
  OBVIOUS
<1>1. PICK h \in Histories :
        /\ head = Null /\ link = [n \in Nodes |-> Null] /\ slot = [s \in Slots |-> Null]
        /\ free = h.free /\ held = [t \in Threads |-> <<>>]
        /\ gfree = h.gfree /\ gheld = <<>> /\ owner = [k \in Locks |-> Null]
        /\ inUse = h.inUse
        /\ allocated = h.inUse \cup ToSet(h.gfree) \cup UNION {ToSet(h.free[t]) : t \in Threads}
        /\ calls = h.calls /\ loc = [t \in Threads |-> Idle]
  BY Zenon DEF Init
<1>2. /\ calls \in [Threads -> Seq(CallNames)] /\ inUse \subseteq Nodes
      /\ Good(gfree) /\ ToSet(gfree) \cap inUse = {} /\ free \in [Threads -> Seq(Nodes)]
      /\ \A t \in Threads :
           /\ Good(free[t]) /\ ToSet(free[t]) \cap (inUse \cup ToSet(gfree)) = {}
           /\ \A u \in Threads \ {t} : ToSet(free[t]) \cap ToSet(free[u]) = {}
  <2>1. /\ h.calls \in [Threads -> Seq(CallNames)] /\ h.inUse \subseteq Nodes
        /\ h.gfree \in Seq(Nodes) /\ IsInjective(h.gfree) /\ ToSet(h.gfree) \cap h.inUse = {}
        /\ h.free \in [Threads -> Seq(Nodes)]
        /\ \A t \in Threads :
             /\ IsInjective(h.free[t])
             /\ ToSet(h.free[t]) \cap (h.inUse \cup ToSet(h.gfree)) = {}
             /\ \A u \in Threads \ {t} : ToSet(h.free[t]) \cap ToSet(h.free[u]) = {}
    BY HistoriesAssumption, Zenon
  <2>2. \A t \in Threads : h.free[t] \in Seq(Nodes)  BY <2>1
  <2>3. calls = h.calls /\ inUse = h.inUse /\ gfree = h.gfree /\ free = h.free  BY <1>1
  <2>4. QED  BY <2>1, <2>2, <2>3, Zenon DEF Good
<1>3. \A s : Good(s) => \A n \in ToSet(s) : n \in Nodes
  <2>1. ASSUME NEW s, Good(s), NEW n \in ToSet(s) PROVE n \in Nodes
    <3>1. PICK i \in 1 .. Len(s) : s[i] = n  BY <2>1, Elements DEF Good
    <3>2. QED  BY <2>1, <3>1, Elements DEF Good
  <2>2. QED  BY <2>1
<1>4. \A n \in Nodes :
        n \in allocated <=> n \in inUse \/ n \in ToSet(gfree) \/ \E t \in Threads : n \in ToSet(free[t])
  BY <1>1
<1>5. allocated \subseteq Nodes
  <2>1. ASSUME NEW n \in allocated PROVE n \in Nodes
    <3>1. n \in inUse \/ n \in ToSet(gfree) \/ \E t \in Threads : n \in ToSet(free[t])  BY <1>1
    <3>2. QED  BY <1>2, <1>3, <3>1
  <2>2. QED  BY <2>1
<1>6. \A t \in Threads :
        /\ loc[t].pc = "idle" /\ loc[t] = Idle /\ loc[t].node = Null /\ loc[t].out = <<>>
        /\ loc[t].tmp = <<>> /\ loc[t].still = <<>> /\ held[t] = <<>>
        /\ slot[<<t, "read">>] = Null /\ owner["free"] = Null
  BY <1>1 DEF Idle, Slots, Locks
<1>7. TypeOK
  <2>1. /\ head \in NodeOrNull /\ link \in [Nodes -> NodeOrNull] /\ slot \in [Slots -> NodeOrNull]
        /\ owner \in [Locks -> Threads \cup {Null}]
    BY <1>1 DEF NodeOrNull
  <2>2. held \in [Threads -> Seq(Nodes)] /\ gfree \in Seq(Nodes) /\ gheld \in Seq(Nodes)
    BY <1>1, <1>2 DEF Good
  <2>3. loc \in [Threads -> Locals]  BY <1>1, IdleType, Zenon
  <2>4. QED  BY <1>2, <1>5, <2>1, <2>2, <2>3, Zenon DEF TypeOK
<1>8. LocalsOK
  <2>1. ASSUME NEW t \in Threads PROVE NodesOK(loc[t]) /\ ListsOK(t) /\ LinksOK(t)
    <3>1. loc[t].pc = "idle" /\ loc[t] = Idle /\ owner["free"] # t
      <4>1. t # Null  BY PoolAssumption
      <4>2. QED  BY <1>6, <4>1, Zenon
    <3>2. loc[t].pc \notin OutPoints  BY <3>1 DEF OutPoints
    <3>3. NodesOK(loc[t])
      <4>1. NodesOK(Idle)  BY DEF NodesOK, ScansFor, Idle, OutPoints
      <4>2. QED  BY <3>1, <4>1, Zenon
    <3>4. ListsOK(t)  BY <3>1, <3>2 DEF ListsOK, ScansFor
    <3>5. LinksOK(t)  BY <3>1 DEF LinksOK, At
    <3>6. QED  BY <3>3, <3>4, <3>5
  <2>2. QED  BY <2>1, Zenon DEF LocalsOK
<1> DEFINE p == [n \in Nodes |->
                   IF n \in inUse THEN <<"inUse", Null>>
                   ELSE IF n \in ToSet(gfree) THEN <<"gfree", Null>>
                   ELSE IF \E t \in Threads : n \in ToSet(free[t])
                   THEN <<"free", CHOOSE t \in Threads : n \in ToSet(free[t])>>
                   ELSE <<"unused", Null>>]
<1>9. ASSUME NEW n \in Nodes
      PROVE  /\ n \in inUse => p[n] = <<"inUse", Null>>
             /\ n \in ToSet(gfree) => p[n] = <<"gfree", Null>>
             /\ \A t \in Threads : n \in ToSet(free[t]) => p[n] = <<"free", t>>
             /\ n \notin allocated => p[n] = <<"unused", Null>>
             /\ \/ n \in inUse \/ n \in ToSet(gfree) \/ \E t \in Threads : n \in ToSet(free[t])
                \/ n \notin allocated
             /\ p[n] \in Places
  <2>1. n \in inUse => p[n] = <<"inUse", Null>>  OBVIOUS
  <2>2. n \in ToSet(gfree) => p[n] = <<"gfree", Null>>  BY <1>2
  <2>3. ASSUME NEW t \in Threads, n \in ToSet(free[t]) PROVE p[n] = <<"free", t>>
    <3>1. n \notin inUse /\ n \notin ToSet(gfree)  BY <1>2, <2>3
    <3>2. \A u \in Threads : n \in ToSet(free[u]) => u = t  BY <1>2, <2>3
    <3>3. (CHOOSE u \in Threads : n \in ToSet(free[u])) = t  BY <2>3, <3>2
    <3>4. p[n] = <<"free", CHOOSE u \in Threads : n \in ToSet(free[u])>>  BY <2>3, <3>1
    <3>5. QED  BY <3>3, <3>4, Zenon
  <2>4. n \notin allocated => p[n] = <<"unused", Null>>  BY <1>4
  <2>5. \/ n \in inUse \/ n \in ToSet(gfree) \/ \E t \in Threads : n \in ToSet(free[t])
        \/ n \notin allocated
    BY <1>4
  <2> HIDE DEF p
  <2>6. p[n] \in Places
    <3>1. /\ <<"inUse", Null>> \in Places /\ <<"gfree", Null>> \in Places
          /\ <<"unused", Null>> \in Places /\ \A t \in Threads : <<"free", t>> \in Places
      BY DEF Places, Shared, Own
    <3>2. QED  BY <2>1, <2>2, <2>3, <2>4, <2>5, <3>1, Zenon
  <2>7. QED  BY <2>1, <2>2, <2>3, <2>4, <2>5, <2>6
<1>10. p \in [Nodes -> Places]  BY <1>9
<1> HIDE DEF p
<1>11. ASSUME NEW n \in Nodes
       PROVE  /\ n \in allocated <=> p[n] # <<"unused", Null>>
              /\ n \in inUse <=> p[n] = <<"inUse", Null>>
              /\ n \in ToSet(gfree) <=> p[n] = <<"gfree", Null>>
              /\ \A t \in Threads : n \in ToSet(free[t]) <=> p[n] = <<"free", t>>
              /\ p[n] # <<"lockFree", Null>> /\ p[n] # <<"gheld", Null>>
              /\ \A t \in Threads : /\ p[n] # <<"held", t>> /\ p[n] # <<"tmp", t>>
                                    /\ p[n] # <<"still", t>> /\ p[n] # <<"out", t>>
                                    /\ p[n] # <<"node", t>>
  BY <1>4, <1>9
<1>12. \A place : (\A n \in Nodes : p[n] # place) => IsAt(<<>>, place, p)
  BY NoNodes, NewAt, Zenon
<1>13. Arranged(<<>>, p)
  <2>1. IsAt(<<>>, <<"lockFree", Null>>, p) /\ IsAt(<<>>, <<"gheld", Null>>, p)
    BY <1>11, <1>12, Zenon
  <2>2. IsAt(gfree, <<"gfree", Null>>, p)  BY <1>2, <1>11, NewAt, Zenon
  <2>3. ASSUME NEW t \in Threads
        PROVE  /\ IsAt(free[t], <<"free", t>>, p) /\ IsAt(<<>>, <<"held", t>>, p)
               /\ IsAt(<<>>, <<"tmp", t>>, p) /\ IsAt(<<>>, <<"still", t>>, p)
               /\ IsAt(<<>>, <<"out", t>>, p)
               /\ \A n \in Nodes : n = loc[t].node <=> p[n] = <<"node", t>>
    <3>1. IsAt(free[t], <<"free", t>>, p)  BY <1>2, <1>11, NewAt, Zenon
    <3>2. \A n \in Nodes : n # loc[t].node
      <4>1. \A n \in Nodes : n # Null  BY PoolAssumption
      <4>2. loc[t].node = Null  BY <1>6, Zenon
      <4>3. QED  BY <4>1, <4>2, Zenon
    <3>3. QED  BY <1>11, <1>12, <3>1, <3>2, Zenon
  <2>4. \A n \in Nodes : /\ n \in allocated <=> p[n] # <<"unused", Null>>
                         /\ n \in inUse <=> p[n] = <<"inUse", Null>>
    BY <1>11
  <2>5. gheld = <<>>  BY <1>1
  <2>6. QED  BY <1>6, <2>1, <2>2, <2>3, <2>4, <2>5, Zenon DEF Arranged
<1>14. ChainIs(<<>>)
  <2>1. Len(<<>>) = 0 /\ \A i : i \notin 1 .. 0  OBVIOUS
  <2>2. \A i \in 1 .. Len(<<>>) : FALSE  BY <2>1, Zenon
  <2>3. QED  BY <1>1, <2>2, Zenon DEF ChainIs
<1>15. HazardsOK(p)
  <2>1. ASSUME NEW t \in Threads PROVE loc[t].pc \notin {"next", "cas"} /\ Reading(t) = Null
    BY <1>6 DEF Reading
  <2>2. QED  BY <2>1, Zenon DEF HazardsOK
<1>16. <<>> \in Seq(Nodes)  OBVIOUS
<1>17. QED  BY <1>7, <1>8, <1>10, <1>13, <1>14, <1>15, <1>16, Zenon DEF Inv, InvOf

\* The invariant holds in every state.
THEOREM InvHolds == Spec => []Inv
<1>1. Inv /\ [Next]_vars => Inv'  BY NextInv
<1>2. QED  BY <1>1, InvInit, PTL DEF Spec


-----------------------------------------------------------------------------
(* Every node is in one place.                                             *)

\* A set of natural numbers has a least one.
LEMMA LeastOf ==
  ASSUME NEW S, S \subseteq Nat, S # {}
  PROVE  \E i \in S : \A j \in S : i <= j
<1> DEFINE R == OpToRel(<, Nat)
<1>1. \A i, j \in Nat : i < j => <<i, j>> \in R  BY DEF OpToRel
<1> HIDE DEF R
<1>2. IsWellFoundedOn(R, Nat)  BY NatLessThanWellFounded, Zenon DEF R
<1>3. \E i \in S : \A j \in S : <<j, i>> \notin R  BY <1>2, WFMin, Zenon
<1>4. PICK i \in S : \A j \in S : <<j, i>> \notin R  BY <1>3
<1>5. \A j \in S : ~ (j < i)  BY <1>1, <1>4, Zenon
<1>6. \A j \in S : i <= j  BY <1>5
<1>7. QED  BY <1>6

\* A list that has no node twice is not longer than there are nodes.
LEMMA NotLonger ==
  ASSUME NEW c, Good(c)
  PROVE  Len(c) \in Nat /\ Cardinality(Nodes) \in Nat /\ Len(c) <= Cardinality(Nodes)
<1>1. c \in Seq(Nodes) /\ Len(c) \in Nat /\ \A i, j \in 1 .. Len(c) : c[i] = c[j] => i = j
  BY Elements DEF Good
<1>2. c \in Injection(1 .. Len(c), Nodes)
  <2>1. c \in [1 .. Len(c) -> Nodes]  BY <1>1
  <2>2. QED  BY <1>1, <2>1 DEF Injection, IsInjective
<1>3. Cardinality(1 .. Len(c)) <= Cardinality(Nodes)  BY <1>2, FS_Injection, PoolAssumption, Zenon
<1>4. Cardinality(1 .. Len(c)) = Len(c)
  <2>1. 1 \in Int /\ Len(c) \in Int  BY <1>1
  <2>2. Cardinality(1 .. Len(c)) = IF 1 > Len(c) THEN 0 ELSE Len(c) - 1 + 1
    BY <2>1, FS_Interval, Zenon
  <2>3. QED  BY <1>1, <2>2
<1>5. Cardinality(Nodes) \in Nat  BY FS_CardinalityType, PoolAssumption
<1>6. QED  BY <1>1, <1>3, <1>4, <1>5

\* The links lead from the head through the nodes of the lock-free list to its end.
LEMMA ReachedChain ==
  ASSUME NEW c, Good(c), ChainIs(c), NEW N \in Nat, N = Cardinality(Nodes), Len(c) <= N
  PROVE  \A k \in 0 .. N : Reached[k] = IF k < Len(c) THEN c[k + 1] ELSE Null
<1> DEFINE Leads(f) ==
      f = [k \in 0 .. N |-> IF k = 0 THEN head ELSE IF f[k - 1] = Null THEN Null ELSE link[f[k - 1]]]
<1> DEFINE g == [k \in 0 .. N |-> IF k < Len(c) THEN c[k + 1] ELSE Null]
<1>1. /\ Len(c) \in Nat /\ (c = <<>> <=> Len(c) = 0)
      /\ \A i \in 1 .. Len(c) : c[i] \in Nodes /\ c[i] # Null
      /\ head = IF c = <<>> THEN Null ELSE c[1]
      /\ \A i \in 1 .. Len(c) : link[c[i]] = IF i = Len(c) THEN Null ELSE c[i + 1]
  BY Elements, PoolAssumption DEF Good, ChainIs
<1>2. Leads(g)
  <2>1. ASSUME NEW k \in 0 .. N
        PROVE  g[k] = IF k = 0 THEN head ELSE IF g[k - 1] = Null THEN Null ELSE link[g[k - 1]]
    <3>1. CASE k = 0  BY <1>1, <3>1
    <3>2. CASE k # 0
      <4>1. k - 1 \in 0 .. N /\ (k - 1) + 1 = k  BY <3>2
      <4>2. g[k - 1] = IF k - 1 < Len(c) THEN c[k] ELSE Null  BY <4>1
      <4>3. g[k] = IF k < Len(c) THEN c[k + 1] ELSE Null  OBVIOUS
      <4> HIDE DEF g
      <4>4. CASE k - 1 < Len(c)
        <5>1. k \in 1 .. Len(c)  BY <1>1, <3>2, <4>4
        <5>2. g[k - 1] = c[k] /\ c[k] # Null /\ link[c[k]] = IF k = Len(c) THEN Null ELSE c[k + 1]
          BY <1>1, <4>2, <4>4, <5>1
        <5>3. k < Len(c) <=> k # Len(c)  BY <1>1, <5>1
        <5>4. QED  BY <3>2, <4>3, <5>2, <5>3
      <4>5. CASE ~ (k - 1 < Len(c))
        <5>1. g[k - 1] = Null /\ ~ (k < Len(c))  BY <1>1, <4>2, <4>5
        <5>2. QED  BY <3>2, <4>3, <5>1
      <4>6. QED  BY <4>4, <4>5
    <3>3. QED  BY <3>1, <3>2
  <2>2. g = [k \in 0 .. N |-> g[k]]  OBVIOUS
  <2> HIDE DEF g
  <2>3. QED  BY <2>1, <2>2
<1>3. Reached = CHOOSE f : Leads(f)  BY DEF Reached
<1>4. \A k \in 0 .. N : g[k] = IF k < Len(c) THEN c[k + 1] ELSE Null  OBVIOUS
<1> HIDE DEF g
<1> DEFINE Same(f) == \A k \in 0 .. N : f[k] = g[k]
<1>5. ASSUME NEW f, Leads(f) PROVE Same(f)
  <2>1. /\ \A k \in 0 .. N :
             f[k] = IF k = 0 THEN head ELSE IF f[k - 1] = Null THEN Null ELSE link[f[k - 1]]
        /\ \A k \in 0 .. N :
             g[k] = IF k = 0 THEN head ELSE IF g[k - 1] = Null THEN Null ELSE link[g[k - 1]]
    BY <1>2, <1>5
  <2> HIDE DEF Leads
  <2> DEFINE S == {k \in 0 .. N : f[k] # g[k]}
  <2>2. CASE S = {}  BY <2>2
  <2>3. CASE S # {}
    <3>1. PICK k \in S : \A j \in S : k <= j
      <4>1. S \subseteq Nat  OBVIOUS
      <4>2. QED  BY <2>3, <4>1, LeastOf, Zenon
    <3>2. k \in 0 .. N /\ f[k] # g[k]  BY <3>1
    <3>3. k # 0  BY <2>1, <3>2
    <3>4. k - 1 \in 0 .. N /\ ~ (k <= k - 1)  BY <3>2, <3>3
    <3>5. f[k - 1] = g[k - 1]  BY <3>1, <3>4
    <3>6. f[k] = g[k]  BY <2>1, <3>2, <3>3, <3>5
    <3>7. QED  BY <3>2, <3>6
  <2>4. QED  BY <2>2, <2>3
<1>6. Same(Reached)
  <2>1. \E f : Leads(f)  BY <1>2
  <2> HIDE DEF Leads
  <2>2. Leads(Reached)  BY <1>3, <2>1
  <2>3. QED  BY <1>5, <2>2
<1>7. QED  BY <1>4, <1>6


LEMMA LockFreeChain ==
  ASSUME NEW c, Good(c), ChainIs(c)
  PROVE  /\ \A n \in Nodes : n \in LockFree <=> n \in ToSet(c)
         /\ Reached[Cardinality(Nodes)] = Null
<1>1. PICK N \in Nat : N = Cardinality(Nodes)  BY NotLonger
<1>2. Len(c) \in Nat /\ Len(c) <= N  BY <1>1, NotLonger
<1>3. \A k \in 0 .. N : Reached[k] = IF k < Len(c) THEN c[k + 1] ELSE Null
  BY <1>1, <1>2, ReachedChain, Zenon
<1>4. \A n : n \in LockFree <=> n # Null /\ \E k \in 0 .. N : Reached[k] = n
  BY <1>1 DEF LockFree
<1>5. \A n : n \in ToSet(c) <=> \E i \in 1 .. Len(c) : c[i] = n  BY Elements DEF Good
<1>6. ASSUME NEW n \in Nodes PROVE n \in LockFree <=> n \in ToSet(c)
  <2>1. n # Null  BY PoolAssumption
  <2>2. ASSUME n \in LockFree PROVE n \in ToSet(c)
    <3>1. PICK k \in 0 .. N : Reached[k] = n  BY <1>4, <2>2
    <3>2. k < Len(c) /\ c[k + 1] = n  BY <1>3, <2>1, <3>1
    <3>3. k + 1 \in 1 .. Len(c)  BY <1>2, <3>1, <3>2
    <3>4. QED  BY <1>5, <3>2, <3>3
  <2>3. ASSUME n \in ToSet(c) PROVE n \in LockFree
    <3>1. PICK i \in 1 .. Len(c) : c[i] = n  BY <1>5, <2>3
    <3>2. i - 1 \in 0 .. N /\ i - 1 < Len(c) /\ (i - 1) + 1 = i  BY <1>2, <3>1
    <3>3. Reached[i - 1] = n  BY <1>3, <3>1, <3>2
    <3>4. QED  BY <1>4, <2>1, <3>2, <3>3
  <2>4. QED  BY <2>2, <2>3
<1>7. Reached[N] = Null
  <2>1. N \in 0 .. N /\ ~ (N < Len(c))  BY <1>2
  <2>2. QED  BY <1>3, <2>1
<1>8. QED  BY <1>1, <1>6, <1>7

\* What p says of the places is so.
LEMMA PlacesHold ==
  ASSUME Inv, NEW c, NEW p, InvOf(c, p), NEW n \in Nodes, NEW place \in Places
  PROVE  Holds(place, n) <=> p[n] = place
<1>1. IsAt(c, <<"lockFree", Null>>, p) /\ ChainIs(c)  BY Zenon DEF InvOf, Arranged
<1>2. n \in LockFree <=> p[n] = <<"lockFree", Null>>
  <2>1. Good(c)  BY <1>1, Zenon DEF IsAt, Good
  <2>2. n \in LockFree <=> n \in ToSet(c)  BY <1>1, <2>1, LockFreeChain
  <2>3. QED  BY <1>1, <2>2, Zenon DEF IsAt
<1>3. /\ n \in allocated <=> p[n] # <<"unused", Null>>
      /\ n \in inUse <=> p[n] = <<"inUse", Null>>
      /\ n \in ToSet(gfree) <=> p[n] = <<"gfree", Null>>
      /\ n \in ToSet(gheld) <=> p[n] = <<"gheld", Null>>
  BY Zenon DEF InvOf, Arranged, IsAt
<1>4. CASE place \in Shared \X {Null}
  <2>1. PICK k \in Shared : place = <<k, Null>>  BY <1>4
  <2>2. place[1] = k  BY <2>1
  <2>3. CASE k = "unused"  BY <1>3, <2>1, <2>2, <2>3 DEF Holds
  <2>4. CASE k = "inUse"  BY <1>3, <2>1, <2>2, <2>4 DEF Holds
  <2>5. CASE k = "lockFree"  BY <1>2, <2>1, <2>2, <2>5 DEF Holds
  <2>6. CASE k = "gfree"  BY <1>3, <2>1, <2>2, <2>6 DEF Holds
  <2>7. CASE k = "gheld"  BY <1>3, <2>1, <2>2, <2>7 DEF Holds
  <2>8. QED  BY <2>3, <2>4, <2>5, <2>6, <2>7 DEF Shared
<1>5. CASE place \in Own \X Threads
  <2>1. PICK k \in Own, t \in Threads : place = <<k, t>>  BY <1>5
  <2>2. place[1] = k /\ place[2] = t  BY <2>1
  <2>3. /\ n \in ToSet(free[t]) <=> p[n] = <<"free", t>>
        /\ n \in ToSet(held[t]) <=> p[n] = <<"held", t>>
        /\ n \in ToSet(loc[t].tmp) <=> p[n] = <<"tmp", t>>
        /\ n \in ToSet(loc[t].still) <=> p[n] = <<"still", t>>
        /\ n \in ToSet(loc[t].out) <=> p[n] = <<"out", t>>
        /\ n = loc[t].node <=> p[n] = <<"node", t>>
    BY Zenon DEF InvOf, Arranged, IsAt
  <2>4. CASE k = "free"  BY <2>1, <2>2, <2>3, <2>4 DEF Holds
  <2>5. CASE k = "held"  BY <2>1, <2>2, <2>3, <2>5 DEF Holds
  <2>6. CASE k = "tmp"  BY <2>1, <2>2, <2>3, <2>6 DEF Holds
  <2>7. CASE k = "still"  BY <2>1, <2>2, <2>3, <2>7 DEF Holds
  <2>8. CASE k = "out"  BY <2>1, <2>2, <2>3, <2>8 DEF Holds
  <2>9. CASE k = "node"  BY <2>1, <2>2, <2>3, <2>9 DEF Holds
  <2>10. QED  BY <2>4, <2>5, <2>6, <2>7, <2>8, <2>9 DEF Own
<1>6. QED  BY <1>4, <1>5 DEF Places

LEMMA InOnePlace == Inv => NodesInOnePlace
<1> SUFFICES ASSUME Inv PROVE NodesInOnePlace
  OBVIOUS
<1>1. PICK c \in Seq(Nodes), p \in [Nodes -> Places] : InvOf(c, p)  BY InvFacts
<1>2. ASSUME NEW n \in Nodes PROVE \E r \in Places : \A q \in Places : Holds(q, n) <=> q = r
  <2>1. p[n] \in Places  BY <1>1
  <2>2. \A q \in Places : Holds(q, n) <=> p[n] = q  BY <1>1, PlacesHold, Zenon
  <2>3. \A q \in Places : Holds(q, n) <=> q = p[n]  BY <2>2, Zenon
  <2>4. QED  BY <2>1, <2>3, Zenon
<1>3. /\ IsInjective(gfree) /\ IsInjective(gheld)
      /\ \A t \in Threads :
           /\ IsInjective(free[t]) /\ IsInjective(held[t])
           /\ IsInjective(loc[t].tmp) /\ IsInjective(loc[t].still) /\ IsInjective(loc[t].out)
  BY InvFacts, Zenon DEF Good
<1>4. Reached[Cardinality(Nodes)] = Null
  <2>1. Good(c) /\ ChainIs(c)  BY <1>1, Zenon DEF InvOf, Arranged, IsAt, Good
  <2>2. QED  BY <2>1, LockFreeChain, Zenon
<1>5. QED  BY <1>2, <1>3, <1>4, Zenon DEF NodesInOnePlace

\* Every node that exists is in one place, once: in a data structure, in a list of
\* the pool or with one thread; and the lock-free list ends.
THEOREM OnePlaceForNodes == Spec => []NodesInOnePlace
  BY InvHolds, InOnePlace, PTL

-----------------------------------------------------------------------------
(* What a reader has is not used again.                                    *)

LEMMA NotGiven == Inv => NoReuseUnderHazard
<1> SUFFICES ASSUME Inv, NEW t \in Threads, Reading(t) # Null
             PROVE  /\ Reading(t) \in allocated
                    /\ Reading(t) \notin LockFree \cup ToSet(gfree)
                    /\ \A u \in Threads : Reading(t) \notin Given(u)
  BY Zenon DEF NoReuseUnderHazard
<1>1. PICK c \in Seq(Nodes), p \in [Nodes -> Places] : InvOf(c, p)  BY InvFacts
<1>2. PICK n \in Nodes : n = Reading(t)
  <2>1. Reading(t) \in Nodes
    <3>1. <<t, "read">> \in Slots /\ Reading(t) = slot[<<t, "read">>]  BY DEF Slots, Reading
    <3>2. QED  BY <3>1, OwnFacts DEF TypeOK, NodeOrNull
  <2>2. QED  BY <2>1
<1>3. Shielded(n, <<t, "read">>, p) /\ Kept(n, p)
  BY <1>1, <1>2, Zenon DEF InvOf, HazardsOK
<1>4. /\ p[n] # <<"unused", Null>> /\ p[n] # <<"lockFree", Null>> /\ p[n] # <<"gfree", Null>>
      /\ \A u \in Threads :
           /\ p[n] # <<"free", u>> /\ p[n] # <<"out", u>>
           /\ p[n] = <<"node", u>> => At(u, "scan")
  BY <1>3, Zenon DEF Shielded, Kept
<1>5. n \in allocated  BY <1>1, <1>4, WhereOne
<1>6. n \notin LockFree \cup ToSet(gfree)
  <2>1. IsAt(gfree, <<"gfree", Null>>, p) /\ IsAt(c, <<"lockFree", Null>>, p) /\ ChainIs(c)
    BY <1>1, Zenon DEF InvOf, Arranged
  <2>2. Good(c)  BY <2>1, Zenon DEF IsAt, Good
  <2>3. n \notin ToSet(c) /\ n \notin ToSet(gfree)  BY <1>4, <2>1, Zenon DEF IsAt
  <2>4. n \notin LockFree  BY <2>1, <2>2, <2>3, LockFreeChain, Zenon
  <2>5. QED  BY <2>3, <2>4
<1>7. ASSUME NEW u \in Threads PROVE n \notin Given(u)
  <2>1. IsAt(free[u], <<"free", u>>, p) /\ IsAt(loc[u].out, <<"out", u>>, p)
    BY <1>1, Where, Zenon
  <2>2. n \notin ToSet(free[u]) /\ n \notin ToSet(loc[u].out)  BY <1>4, <2>1, Zenon DEF IsAt
  <2>3. n \notin ToSet(free[u] \o loc[u].out)
    <3>1. Good(free[u]) /\ Good(loc[u].out)  BY InvFacts
    <3>2. \A m \in Nodes : ~ (m \in ToSet(free[u]) /\ m \in ToSet(loc[u].out))
      <4>1. ASSUME NEW m \in Nodes, m \in ToSet(free[u]), m \in ToSet(loc[u].out) PROVE FALSE
        <5>1. p[m] = <<"free", u>> /\ p[m] = <<"out", u>>  BY <2>1, <4>1, Zenon DEF IsAt
        <5>2. QED  BY <5>1
      <4>2. QED  BY <4>1
    <3>3. QED  BY <2>2, <3>1, <3>2, Concat, Zenon
  <2>4. At(u, "got") => n # loc[u].node
    <3>1. n = loc[u].node <=> p[n] = <<"node", u>>  BY <1>1, WhereOne
    <3>2. ~ (At(u, "got") /\ At(u, "scan"))  BY DEF At
    <3>3. QED  BY <1>4, <3>1, <3>2, Zenon
  <2>5. QED  BY <2>3, <2>4 DEF Given
<1>8. QED  BY <1>2, <1>5, <1>6, <1>7, Zenon

\* A node that a reader has is not given to anyone, nor in a list of nodes that are.
THEOREM ReadersAreSafe == Spec => []NoReuseUnderHazard
  BY InvHolds, NotGiven, PTL

-----------------------------------------------------------------------------
(* A simple list is a sequence: what its operations do to links, tail and  *)
(* count is what they do to the sequence of its nodes, for every number of *)
(* nodes.  NodePool takes tmp_odn_list and the lists of nodes for          *)
(* sequences for this reason.                                              *)

Simple == INSTANCE SimpleList

\* What a list looks like, given node by node
LEMMA IsListFacts ==
  ASSUME NEW l, NEW next, NEW s, Simple!IsList(l, next, s)
  PROVE  /\ s \in Seq(DOMAIN next) /\ Len(s) \in Nat
         /\ \A i \in 1 .. Len(s) : s[i] \in DOMAIN next /\ s[i] # Null
         /\ l.count = Len(s)
         /\ Simple!IsEmpty(l) <=> Len(s) = 0
         /\ Len(s) = 0 => l.head = Null /\ l.tail = Null
         /\ Len(s) # 0 => l.head = s[1] /\ l.tail = s[Len(s)]
         /\ \A i \in 1 .. Len(s) : next[s[i]] = IF i = Len(s) THEN Null ELSE s[i + 1]
         /\ Simple!Distinct(s) /\ Null \notin DOMAIN next
<1>1. s \in Seq(DOMAIN next) /\ Len(s) \in Nat /\ Null \notin DOMAIN next  BY DEF Simple!IsList
<1>2. \A i \in 1 .. Len(s) : s[i] \in DOMAIN next  BY <1>1
<1>3. QED  BY <1>1, <1>2 DEF Simple!IsList, Simple!IsEmpty

\* What has to be shown of a list that is not empty
LEMMA MakesList ==
  ASSUME NEW next, NEW s \in Seq(DOMAIN next), Simple!Distinct(s), Null \notin DOMAIN next, Len(s) # 0,
         \A i \in 1 .. Len(s) : next[s[i]] = IF i = Len(s) THEN Null ELSE s[i + 1]
  PROVE  Simple!IsList([head |-> s[1], tail |-> s[Len(s)], count |-> Len(s)], next, s)
BY DEF Simple!IsList

\* The nodes of two sequences put together
LEMMA ConcatFacts ==
  ASSUME NEW D, NEW s \in Seq(D), NEW u \in Seq(D)
  PROVE  /\ s \o u \in Seq(D)
         /\ Len(s) \in Nat /\ Len(u) \in Nat
         /\ Len(s \o u) = Len(s) + Len(u)
         /\ \A i \in 1 .. Len(s) : (s \o u)[i] = s[i]
         /\ \A i \in 1 .. Len(u) : (s \o u)[Len(s) + i] = u[i]
         /\ \A i \in 1 .. Len(s \o u) :
              IF i <= Len(s) THEN (s \o u)[i] = s[i]
              ELSE i - Len(s) \in 1 .. Len(u) /\ (s \o u)[i] = u[i - Len(s)]
OBVIOUS

LEMMA OneNodeList ==
  ASSUME NEW D, NEW n \in D
  PROVE  <<n>> \in Seq(D) /\ Len(<<n>>) = 1 /\ <<n>>[1] = n
OBVIOUS

LEMMA ConcatDistinct ==
  ASSUME NEW D, NEW s \in Seq(D), NEW u \in Seq(D), Simple!Distinct(s), Simple!Distinct(u), Simple!Apart(s, u)
  PROVE  Simple!Distinct(s \o u)
<1>1. SUFFICES ASSUME NEW i \in 1 .. Len(s \o u), NEW j \in 1 .. Len(s \o u),
                      (s \o u)[i] = (s \o u)[j]
               PROVE  i = j
  BY DEF Simple!Distinct
<1> DEFINE a == i - Len(s)
           b == j - Len(s)
<1>2. Len(s) \in Nat  OBVIOUS
<1>3. CASE i <= Len(s) /\ j <= Len(s)
  BY <1>1, <1>2, <1>3, ConcatFacts DEF Simple!Distinct
<1>4. CASE i > Len(s) /\ j > Len(s)
  <2>1. a \in 1 .. Len(u) /\ b \in 1 .. Len(u) /\ u[a] = u[b]
    BY <1>1, <1>2, <1>4, ConcatFacts
  <2>2. a = b  BY <2>1 DEF Simple!Distinct
  <2>3. QED  BY <1>2, <2>2
<1>5. CASE i <= Len(s) /\ j > Len(s)
  <2>1. i \in 1 .. Len(s) /\ b \in 1 .. Len(u) /\ s[i] = u[b]
    BY <1>1, <1>2, <1>5, ConcatFacts
  <2>2. QED  BY <2>1 DEF Simple!Apart
<1>6. CASE i > Len(s) /\ j <= Len(s)
  <2>1. j \in 1 .. Len(s) /\ a \in 1 .. Len(u) /\ s[j] = u[a]
    BY <1>1, <1>2, <1>6, ConcatFacts
  <2>2. QED  BY <2>1 DEF Simple!Apart
<1>7. QED  BY <1>2, <1>3, <1>4, <1>5, <1>6

\* Two lists, one linked behind the other: how both merges and both pushes work
LEMMA JoinIsConcat ==
  ASSUME NEW a, NEW b, NEW next, NEW s, NEW u,
         Simple!IsList(a, next, s), Simple!IsList(b, next, u), Simple!Apart(s, u), Len(s) # 0, Len(u) # 0,
         NEW joined, joined = [next EXCEPT ![a.tail] = b.head]
  PROVE  Simple!IsList([head |-> a.head, tail |-> b.tail, count |-> Len(s) + Len(u)], joined, s \o u)
<1> DEFINE w == s \o u
<1>1. /\ s \in Seq(DOMAIN next) /\ u \in Seq(DOMAIN next) /\ Len(s) \in Nat /\ Len(u) \in Nat
      /\ \A i \in 1 .. Len(s) : s[i] \in DOMAIN next
      /\ \A i \in 1 .. Len(u) : u[i] \in DOMAIN next
      /\ a.head = s[1] /\ a.tail = s[Len(s)] /\ b.head = u[1] /\ b.tail = u[Len(u)]
      /\ \A i \in 1 .. Len(s) : next[s[i]] = IF i = Len(s) THEN Null ELSE s[i + 1]
      /\ \A i \in 1 .. Len(u) : next[u[i]] = IF i = Len(u) THEN Null ELSE u[i + 1]
      /\ Simple!Distinct(s) /\ Simple!Distinct(u) /\ Null \notin DOMAIN next
  BY IsListFacts
<1>2. DOMAIN joined = DOMAIN next  OBVIOUS
<1>3. w \in Seq(DOMAIN joined)  BY <1>1, <1>2, ConcatFacts
<1>4. Simple!Distinct(w)  BY <1>1, ConcatDistinct
<1>5. /\ Len(w) = Len(s) + Len(u)
      /\ \A i \in 1 .. Len(s) : w[i] = s[i]
      /\ \A i \in 1 .. Len(u) : w[Len(s) + i] = u[i]
  BY <1>1, ConcatFacts
<1> HIDE DEF w
<1>6. ASSUME NEW i \in 1 .. Len(w)
      PROVE  joined[w[i]] = IF i = Len(w) THEN Null ELSE w[i + 1]
  <2>1. CASE i < Len(s)
    <3>1. w[i] = s[i] /\ w[i + 1] = s[i + 1] /\ i # Len(w)  BY <1>1, <1>5, <2>1
    <3>2. s[i] # s[Len(s)]  BY <1>1, <2>1 DEF Simple!Distinct
    <3>3. joined[s[i]] = next[s[i]]  BY <1>1, <2>1, <3>2
    <3>4. next[s[i]] = s[i + 1]  BY <1>1, <2>1
    <3>5. QED  BY <3>1, <3>3, <3>4
  <2>2. CASE i = Len(s)
    <3>1. 1 \in 1 .. Len(u) /\ i + 1 = Len(s) + 1 /\ i \in 1 .. Len(s) /\ i # Len(w)
      BY <1>1, <1>5, <2>2
    <3>2. w[i] = s[i] /\ w[i + 1] = u[1]  BY <1>5, <3>1, Zenon
    <3>3. joined[s[i]] = u[1]  BY <1>1, <2>2
    <3>4. QED  BY <3>1, <3>2, <3>3
  <2>3. CASE i > Len(s)
    <3> DEFINE j == i - Len(s)
    <3>1. j \in 1 .. Len(u) /\ i = Len(s) + j  BY <1>1, <1>5, <2>3
    <3> HIDE DEF j
    <3>6. w[i] = u[j] /\ (i = Len(w) <=> j = Len(u))
      <4>1. w[i] = u[j]  BY <1>5, <3>1, Zenon
      <4>2. Len(w) = Len(s) + Len(u) /\ Len(s) \in Nat /\ Len(u) \in Nat  BY <1>1, <1>5
      <4>3. QED  BY <3>1, <4>1, <4>2
    <3>2. u[j] # s[Len(s)]
      <4>1. Len(s) \in 1 .. Len(s)  BY <1>1
      <4>2. QED  BY <3>1, <4>1, Zenon DEF Simple!Apart
    <3>3. joined[u[j]] = next[u[j]]  BY <1>1, <3>1, <3>2
    <3>4. next[u[j]] = IF j = Len(u) THEN Null ELSE u[j + 1]  BY <1>1, <3>1, Zenon
    <3>5. i # Len(w) => w[i + 1] = u[j + 1]
      <4>1. j # Len(u) => j + 1 \in 1 .. Len(u) /\ i + 1 = Len(s) + (j + 1)  BY <1>1, <3>1
      <4>2. QED  BY <1>5, <3>6, <4>1
    <3>7. QED  BY <3>3, <3>4, <3>5, <3>6
  <2>4. Len(s) \in Nat /\ i \in Nat  BY <1>1
  <2>5. QED  BY <2>1, <2>2, <2>3, <2>4
<1>7. Len(w) # 0 /\ w[1] = s[1] /\ w[Len(w)] = u[Len(u)]  BY <1>1, <1>5
<1>8. Simple!IsList([head |-> w[1], tail |-> w[Len(w)], count |-> Len(w)], joined, w)
  BY <1>1, <1>2, <1>3, <1>4, <1>6, <1>7, MakesList, Zenon
<1>9. a.head = w[1] /\ b.tail = w[Len(w)] /\ Len(s) + Len(u) = Len(w)  BY <1>1, <1>5, <1>7
<1>10. [head |-> w[1], tail |-> w[Len(w)], count |-> Len(w)]
       = [head |-> a.head, tail |-> b.tail, count |-> Len(s) + Len(u)]
  BY <1>9
<1>11. QED  BY <1>8, <1>10, Zenon DEF w

\* One node, as a list
LEMMA SingleList ==
  ASSUME NEW next, NEW n \in DOMAIN next, Null \notin DOMAIN next, next[n] = Null
  PROVE  Simple!IsList([head |-> n, tail |-> n, count |-> 1], next, <<n>>)
<1>1. <<n>> \in Seq(DOMAIN next) /\ Len(<<n>>) = 1 /\ <<n>>[1] = n  OBVIOUS
<1>2. Simple!Distinct(<<n>>)  BY <1>1 DEF Simple!Distinct
<1>3. QED  BY <1>1, <1>2, MakesList

\* A change of links that are not those of the list leaves it as it was.
LEMMA OtherLinks ==
  ASSUME NEW l, NEW next, NEW s, Simple!IsList(l, next, s),
         NEW n, NEW v, \A i \in 1 .. Len(s) : s[i] # n
  PROVE  Simple!IsList(l, [next EXCEPT ![n] = v], s)
<1> DEFINE joined == [next EXCEPT ![n] = v]
<1>1. DOMAIN joined = DOMAIN next  OBVIOUS
<1>2. \A i \in 1 .. Len(s) : s[i] \in DOMAIN next /\ s[i] # n  BY IsListFacts
<1>3. \A i \in 1 .. Len(s) : joined[s[i]] = next[s[i]]  BY <1>2
<1>4. QED  BY <1>1, <1>3 DEF Simple!IsList

-----------------------------------------------------------------------------
(* The operations                                                          *)

\* merge_push_front and merge_push_back (src/od_simple_list.cpp:129, :161): the
\* nodes of the other list come before, or after, all nodes of this one, and they
\* are all counted.
THEOREM MergeIsConcat ==
  ASSUME NEW l, NEW src, NEW next, NEW s, NEW u,
         Simple!IsList(l, next, s), Simple!IsList(src, next, u), Simple!Apart(s, u)
  PROVE  /\ LET r == Simple!MergePushFront(l, next, src) IN Simple!IsList(r.list, r.next, u \o s)
         /\ LET r == Simple!MergePushBack(l, next, src) IN Simple!IsList(r.list, r.next, s \o u)
<1> DEFINE f == Simple!MergePushFront(l, next, src)
           b == Simple!MergePushBack(l, next, src)
<1>1. /\ s \in Seq(DOMAIN next) /\ u \in Seq(DOMAIN next) /\ Len(s) \in Nat /\ Len(u) \in Nat
      /\ Simple!IsEmpty(l) <=> Len(s) = 0
      /\ Simple!IsEmpty(src) <=> Len(u) = 0
      /\ l.count = Len(s) /\ src.count = Len(u)
  BY IsListFacts
<1>2. Simple!Apart(u, s)  BY DEF Simple!Apart
<1>3. CASE Len(u) = 0
  <2>1. u = <<>> /\ u \o s = s /\ s \o u = s  BY <1>1, <1>3, ConcatEmptySeq, EmptySeq
  <2>2. f = [list |-> l, next |-> next] /\ b = [list |-> l, next |-> next]
    BY <1>1, <1>3 DEF Simple!MergePushFront, Simple!MergePushBack
  <2>3. QED  BY <2>1, <2>2
<1>4. CASE Len(u) # 0 /\ Len(s) = 0
  <2>1. s = <<>> /\ u \o s = u /\ s \o u = u  BY <1>1, <1>4, ConcatEmptySeq, EmptySeq
  <2>2. Simple!IsEmpty(l) /\ ~Simple!IsEmpty(src)  BY <1>1, <1>4
  <2>3. l.count = 0 /\ src.count = Len(u) /\ l.count + src.count = Len(u)  BY <1>1, <1>4
  <2>4. f.list = [head |-> src.head, tail |-> src.tail, count |-> Len(u)] /\ f.next = next
    BY <1>1, <2>2, <2>3 DEF Simple!MergePushFront, Simple!Counted, Simple!LinkFront
  <2>5. b.list = [head |-> src.head, tail |-> src.tail, count |-> Len(u)] /\ b.next = next
    BY <1>1, <2>2, <2>3 DEF Simple!MergePushBack, Simple!Counted, Simple!LinkBack
  <2>6. f.list = src /\ b.list = src  BY <2>4, <2>5 DEF Simple!IsList
  <2>7. QED  BY <2>1, <2>4, <2>5, <2>6
<1>5. CASE Len(u) # 0 /\ Len(s) # 0
  <2> DEFINE fnext == [next EXCEPT ![src.tail] = l.head]
             bnext == [next EXCEPT ![l.tail] = src.head]
             flist == [head |-> src.head, tail |-> l.tail, count |-> Len(u) + Len(s)]
             blist == [head |-> l.head, tail |-> src.tail, count |-> Len(s) + Len(u)]
  <2>1. /\ ~Simple!IsEmpty(l) /\ ~Simple!IsEmpty(src) /\ l.count = Len(s) /\ src.count = Len(u)
        /\ l.count + src.count = Len(u) + Len(s)
    BY <1>1, <1>5
  <2>2. f.list = flist /\ f.next = fnext
    <3>1. f = Simple!Counted(Simple!LinkFront(l, next, src.head, src.tail), src.count)
      BY <2>1 DEF Simple!MergePushFront
    <3>2. Simple!LinkFront(l, next, src.head, src.tail)
          = [list |-> [head |-> src.head, tail |-> l.tail, count |-> l.count], next |-> fnext]
      BY <2>1 DEF Simple!LinkFront
    <3>3. l.count + src.count = Len(u) + Len(s)  BY <2>1
    <3>4. QED  BY <3>1, <3>2, <3>3 DEF Simple!Counted
  <2>3. b.list = blist /\ b.next = bnext
    <3>1. b = Simple!Counted(Simple!LinkBack(l, next, src.head, src.tail), src.count)
      BY <2>1 DEF Simple!MergePushBack
    <3>2. Simple!LinkBack(l, next, src.head, src.tail)
          = [list |-> [head |-> l.head, tail |-> src.tail, count |-> l.count], next |-> bnext]
      BY <2>1 DEF Simple!LinkBack
    <3>3. l.count + src.count = Len(s) + Len(u)  BY <1>1, <2>1
    <3>4. QED  BY <3>1, <3>2, <3>3 DEF Simple!Counted
  <2>4. Simple!IsList(flist, fnext, u \o s)  BY <1>2, <1>5, JoinIsConcat, Zenon
  <2>5. Simple!IsList(blist, bnext, s \o u)  BY <1>5, JoinIsConcat, Zenon
  <2>6. QED  BY <2>2, <2>3, <2>4, <2>5, Zenon
<1>6. QED  BY <1>3, <1>4, <1>5

\* push_front (src/od_simple_list.cpp:87): the node comes before all others,
\* whatever its link was.
THEOREM PushFrontIsCons ==
  ASSUME NEW l, NEW next, NEW s, Simple!IsList(l, next, s),
         NEW n \in DOMAIN next, \A i \in 1 .. Len(s) : s[i] # n
  PROVE  LET r == Simple!PushFront(l, next, n) IN Simple!IsList(r.list, r.next, <<n>> \o s)
<1> DEFINE r == Simple!PushFront(l, next, n)
           one == [head |-> n, tail |-> n, count |-> 1]
           cut == [next EXCEPT ![n] = Null]
<1>1. s \in Seq(DOMAIN next) /\ Len(s) \in Nat /\ Null \notin DOMAIN next  BY IsListFacts
<1>2. <<n>> \in Seq(DOMAIN next) /\ Len(<<n>>) = 1 /\ <<n>>[1] = n  OBVIOUS
<1>3. Simple!IsList(l, cut, s)  BY OtherLinks, Zenon
<1>4. Simple!IsList(one, cut, <<n>>)
  <2>1. DOMAIN cut = DOMAIN next /\ cut[n] = Null  OBVIOUS
  <2>2. QED  BY <1>1, <2>1, SingleList
<1>5. r.next = [next EXCEPT ![n] = l.head]  BY DEF Simple!PushFront
<1>6. CASE Len(s) = 0
  <2>1. <<n>> \o s = <<n>>  BY <1>1, <1>2, <1>6, ConcatEmptySeq, EmptySeq
  <2>2. r.list = one /\ l.head = Null  BY <1>6, IsListFacts DEF Simple!PushFront
  <2>3. r.next = cut  BY <1>5, <2>2
  <2>4. QED  BY <1>4, <2>1, <2>2, <2>3, Zenon
<1>7. CASE Len(s) # 0
  <2>1. r.list = [head |-> one.head, tail |-> l.tail, count |-> Len(<<n>>) + Len(s)]
    BY <1>1, <1>2, <1>7, IsListFacts DEF Simple!PushFront
  <2>2. Simple!Apart(<<n>>, s)  BY <1>2 DEF Simple!Apart
  <2> DEFINE list == [head |-> one.head, tail |-> l.tail, count |-> Len(<<n>>) + Len(s)]
  <2>3. r.next = [cut EXCEPT ![one.tail] = l.head]
    <3>1. one.tail = n  OBVIOUS
    <3>2. [cut EXCEPT ![n] = l.head] = [next EXCEPT ![n] = l.head]  BY Zenon
    <3>3. QED  BY <1>5, <3>1, <3>2
  <2>4. Len(<<n>>) # 0  BY <1>2
  <2>5. Simple!IsList(list, r.next, <<n>> \o s)
    BY <1>3, <1>4, <1>7, <2>2, <2>3, <2>4, JoinIsConcat, Zenon
  <2>6. QED  BY <2>1, <2>5, Zenon
<1>8. QED  BY <1>6, <1>7

\* push_back (src/od_simple_list.cpp:108): the node comes after all others, if its
\* link is nullptr, which pop_front leaves.
THEOREM PushBackIsAppend ==
  ASSUME NEW l, NEW next, NEW s, Simple!IsList(l, next, s),
         NEW n \in DOMAIN next, next[n] = Null, \A i \in 1 .. Len(s) : s[i] # n
  PROVE  LET r == Simple!PushBack(l, next, n) IN Simple!IsList(r.list, r.next, s \o <<n>>)
<1> DEFINE r == Simple!PushBack(l, next, n)
           one == [head |-> n, tail |-> n, count |-> 1]
<1>1. s \in Seq(DOMAIN next) /\ Len(s) \in Nat /\ Null \notin DOMAIN next  BY IsListFacts
<1>2. <<n>> \in Seq(DOMAIN next) /\ Len(<<n>>) = 1 /\ <<n>>[1] = n  OBVIOUS
<1>3. Simple!IsList(one, next, <<n>>)  BY <1>1, SingleList
<1>4. CASE Len(s) = 0
  <2>1. s \o <<n>> = <<n>>  BY <1>1, <1>2, <1>4, ConcatEmptySeq, EmptySeq
  <2>2. r.list = one /\ r.next = next  BY <1>4, IsListFacts DEF Simple!PushBack
  <2>3. QED  BY <1>3, <2>1, <2>2, Zenon
<1>5. CASE Len(s) # 0
  <2>1. /\ r.list = [head |-> l.head, tail |-> one.tail, count |-> Len(s) + Len(<<n>>)]
        /\ r.next = [next EXCEPT ![l.tail] = one.head]
    BY <1>1, <1>2, <1>5, IsListFacts DEF Simple!PushBack
  <2>2. Simple!Apart(s, <<n>>)  BY <1>2 DEF Simple!Apart
  <2> DEFINE list == [head |-> l.head, tail |-> one.tail, count |-> Len(s) + Len(<<n>>)]
  <2>3. Len(<<n>>) # 0  BY <1>2
  <2>4. Simple!IsList(list, r.next, s \o <<n>>)
    BY <1>3, <1>5, <2>1, <2>2, <2>3, JoinIsConcat, Zenon
  <2>5. QED  BY <2>1, <2>4, Zenon
<1>6. QED  BY <1>4, <1>5

\* pop_front (src/od_simple_list.cpp:193): it takes the first node, leaves the
\* others and the node with a link of nullptr, ready for push_back.
THEOREM PopFrontIsTail ==
  ASSUME NEW l, NEW next, NEW s, Simple!IsList(l, next, s), Len(s) # 0
  PROVE  LET r == Simple!PopFront(l, next)
         IN r.node = s[1] /\ r.next[r.node] = Null /\ Simple!IsList(r.list, r.next, Tail(s))
<1> DEFINE r == Simple!PopFront(l, next)
           w == Tail(s)
<1>1. /\ s \in Seq(DOMAIN next) /\ Len(s) \in Nat /\ Null \notin DOMAIN next /\ Simple!Distinct(s)
      /\ l.head = s[1] /\ l.tail = s[Len(s)] /\ l.count = Len(s) /\ ~Simple!IsEmpty(l)
      /\ \A i \in 1 .. Len(s) : s[i] \in DOMAIN next /\ s[i] # Null
      /\ \A i \in 1 .. Len(s) : next[s[i]] = IF i = Len(s) THEN Null ELSE s[i + 1]
  BY IsListFacts
<1>2. /\ r.node = s[1] /\ r.next = [next EXCEPT ![s[1]] = Null]
      /\ r.list = [head  |-> next[s[1]],
                    tail  |-> IF next[s[1]] = Null THEN Null ELSE l.tail,
                    count |-> Len(s) - 1]
  BY <1>1 DEF Simple!PopFront
<1>3. /\ w \in Seq(DOMAIN next) /\ Len(w) = Len(s) - 1
      /\ \A i \in 1 .. Len(w) : w[i] = s[i + 1]
  BY <1>1, HeadTailProperties, EmptySeq
<1> HIDE DEF w
<1>4. Simple!Distinct(w)
  <2>1. SUFFICES ASSUME NEW i \in 1 .. Len(w), NEW j \in 1 .. Len(w), w[i] = w[j]
                 PROVE  i = j
    BY DEF Simple!Distinct
  <2>2. i + 1 \in 1 .. Len(s) /\ j + 1 \in 1 .. Len(s) /\ s[i + 1] = s[j + 1]
    BY <1>1, <1>3, <2>1
  <2>3. i + 1 = j + 1  BY <1>1, <2>2 DEF Simple!Distinct
  <2>4. QED  BY <2>3
<1>5. r.next[s[1]] = Null /\ DOMAIN r.next = DOMAIN next  BY <1>1, <1>2
<1>6. ASSUME NEW i \in 1 .. Len(w)
      PROVE  r.next[w[i]] = IF i = Len(w) THEN Null ELSE w[i + 1]
  <2>1. i + 1 \in 1 .. Len(s) /\ w[i] = s[i + 1] /\ i + 1 # 1  BY <1>1, <1>3
  <2>2. s[i + 1] # s[1]  BY <1>1, <2>1 DEF Simple!Distinct
  <2>3. r.next[w[i]] = next[s[i + 1]]  BY <1>1, <1>2, <2>1, <2>2
  <2>4. next[s[i + 1]] = IF i + 1 = Len(s) THEN Null ELSE s[i + 2]
    <3>1. i \in Nat /\ (i + 1) + 1 = i + 2  OBVIOUS
    <3>2. next[s[i + 1]] = IF i + 1 = Len(s) THEN Null ELSE s[(i + 1) + 1]  BY <1>1, <2>1, Zenon
    <3>3. QED  BY <3>1, <3>2
  <2>5. i = Len(w) <=> i + 1 = Len(s)  BY <1>1, <1>3
  <2>6. i # Len(w) => w[i + 1] = s[i + 2]
    <3>1. i # Len(w) => i + 1 \in 1 .. Len(w) /\ (i + 1) + 1 = i + 2  BY <1>3, <1>1
    <3>2. QED  BY <1>3, <3>1
  <2>7. QED  BY <2>3, <2>4, <2>5, <2>6
<1>7. CASE Len(w) = 0
  <2>1. Len(s) = 1  BY <1>1, <1>3, <1>7
  <2>2. next[s[1]] = Null  BY <1>1, <2>1
  <2>3. r.list = [head |-> Null, tail |-> Null, count |-> Len(w)]  BY <1>2, <1>3, <2>1, <2>2
  <2>4. Null \notin DOMAIN r.next /\ w \in Seq(DOMAIN r.next)  BY <1>1, <1>3, <1>5
  <2>5. Simple!IsList(r.list, r.next, w)  BY <1>4, <1>7, <2>3, <2>4 DEF Simple!IsList
  <2>6. QED  BY <1>2, <1>5, <2>5 DEF w
<1>8. CASE Len(w) # 0
  <2>1. next[s[1]] = s[2] /\ s[2] # Null  BY <1>1, <1>3, <1>8
  <2>2. r.list = [head |-> w[1], tail |-> w[Len(w)], count |-> Len(w)]
    <3>1. 1 \in 1 .. Len(w) /\ Len(w) \in 1 .. Len(w) /\ Len(w) + 1 = Len(s)  BY <1>1, <1>3, <1>8
    <3>2. w[1] = s[1 + 1] /\ w[Len(w)] = s[Len(w) + 1]  BY <1>3, <3>1, Zenon
    <3>3. l.tail = s[Len(s)] /\ Len(w) = Len(s) - 1  BY <1>1, <1>3
    <3>4. QED  BY <1>2, <2>1, <3>1, <3>2, <3>3
  <2>3. Null \notin DOMAIN r.next /\ w \in Seq(DOMAIN r.next)  BY <1>1, <1>3, <1>5
  <2>4. Simple!IsList([head |-> w[1], tail |-> w[Len(w)], count |-> Len(w)], r.next, w)
    BY <1>4, <1>6, <1>8, <2>3, MakesList, Zenon
  <2>5. Simple!IsList(r.list, r.next, w)  BY <1>2, <2>2, <2>4
  <2>6. QED  BY <1>2, <1>5, <2>5 DEF w
<1>9. QED  BY <1>7, <1>8

\* A turn of split_if (src/od_simple_list.cpp:225): the node that is looked at goes
\* behind those taken out or stays behind those kept; no node is lost, and both
\* lists are lists at every turn.
THEOREM SplitTurnPartitions ==
  ASSUME NEW m, NEW kept, NEW rest, NEW out, NEW pred,
         kept \in Seq(DOMAIN m.next), rest \in Seq(DOMAIN m.next),
         Simple!InSplit(m, kept, rest, out), Len(rest) # 0
  PROVE  LET d == Simple!SplitTurn(m, pred)
         IN IF rest[1] \in pred
            THEN Simple!InSplit(d, kept, Tail(rest), out \o <<rest[1]>>)
            ELSE Simple!InSplit(d, kept \o <<rest[1]>>, Tail(rest), out)
<1> DEFINE d == Simple!SplitTurn(m, pred)
           x == rest[1]
           k == Len(kept)
           w == kept \o rest
           tail == Tail(rest)
           v == kept \o tail
           after == m.next[m.cur]
<1>1. /\ k \in Nat /\ Len(rest) \in Nat \ {0} /\ m.cur = x
      /\ m.pre = IF k = 0 THEN Null ELSE kept[k]
      /\ Simple!IsList(m.list, m.next, w) /\ Simple!IsList(m.ans, m.next, out) /\ Simple!Apart(w, out)
  BY DEF Simple!InSplit
<1>2. /\ tail \in Seq(DOMAIN m.next) /\ Len(tail) = Len(rest) - 1
      /\ \A i \in 1 .. Len(tail) : tail[i] = rest[i + 1]
  BY <1>1, HeadTailProperties, EmptySeq
<1>3. /\ w \in Seq(DOMAIN m.next) /\ Len(w) = k + Len(rest)
      /\ \A i \in 1 .. k : w[i] = kept[i]
      /\ \A i \in 1 .. Len(rest) : w[k + i] = rest[i]
  BY ConcatFacts
<1>4. /\ v \in Seq(DOMAIN m.next) /\ Len(v) = Len(w) - 1
      /\ \A i \in 1 .. k : v[i] = kept[i]
      /\ \A i \in 1 .. Len(tail) : v[k + i] = tail[i]
  <2>1. /\ v \in Seq(DOMAIN m.next) /\ Len(v) = k + Len(tail)
        /\ \A i \in 1 .. k : v[i] = kept[i]
        /\ \A i \in 1 .. Len(tail) : v[k + i] = tail[i]
    BY <1>2, ConcatFacts
  <2>2. QED  BY <1>1, <1>2, <1>3, <2>1
<1> HIDE DEF w, v, tail
\* v is w without its node at k + 1.
<1>5. \A i \in 1 .. Len(v) : v[i] = IF i <= k THEN w[i] ELSE w[i + 1]
  <2>1. TAKE i \in 1 .. Len(v)
  <2>2. CASE i <= k  BY <1>1, <1>3, <1>4, <2>2
  <2>3. CASE i > k
    <3> DEFINE j == i - k
    <3>1. j \in 1 .. Len(tail) /\ j + 1 \in 1 .. Len(rest) /\ i = k + j /\ i + 1 = k + (j + 1)
      BY <1>1, <1>2, <1>3, <1>4, <2>3
    <3> HIDE DEF j
    <3>2. v[i] = tail[j] /\ tail[j] = rest[j + 1] /\ w[i + 1] = rest[j + 1]
      BY <1>2, <1>3, <1>4, <3>1, Zenon
    <3>3. QED  BY <2>3, <3>2, <1>1
  <2>4. QED  BY <1>1, <2>2, <2>3
<1>6. w[k + 1] = x /\ k + 1 \in 1 .. Len(w)
  <2>1. 1 \in 1 .. Len(rest)  BY <1>1
  <2>2. QED  BY <1>1, <1>3, <2>1
<1>7. /\ Simple!Distinct(w) /\ Null \notin DOMAIN m.next /\ x \in DOMAIN m.next
      /\ \A i \in 1 .. Len(w) : w[i] \in DOMAIN m.next /\ w[i] # Null
      /\ \A i \in 1 .. Len(w) : m.next[w[i]] = IF i = Len(w) THEN Null ELSE w[i + 1]
      /\ m.list.count = Len(w) /\ m.list.head = w[1] /\ m.list.tail = w[Len(w)]
  <2>1. Len(w) # 0  BY <1>1, <1>3
  <2>2. /\ Simple!Distinct(w) /\ Null \notin DOMAIN m.next
        /\ \A i \in 1 .. Len(w) : w[i] \in DOMAIN m.next /\ w[i] # Null
        /\ \A i \in 1 .. Len(w) : m.next[w[i]] = IF i = Len(w) THEN Null ELSE w[i + 1]
        /\ m.list.count = Len(w) /\ m.list.head = w[1] /\ m.list.tail = w[Len(w)]
    BY <1>1, <2>1, IsListFacts, SMTT(20)
  <2>3. x \in DOMAIN m.next  BY <1>6, <2>2
  <2>4. QED  BY <2>2, <2>3
<1>8. /\ after = IF k = Len(v) THEN Null ELSE v[k + 1]
      /\ after = Null <=> k = Len(v)
      /\ after = IF Len(tail) = 0 THEN Null ELSE tail[1]
  <2>1. after = IF k + 1 = Len(w) THEN Null ELSE w[(k + 1) + 1]  BY <1>1, <1>6, <1>7, Zenon
  <2>2. Len(v) = Len(w) - 1 /\ Len(v) = k + Len(tail) /\ k \in Nat /\ Len(tail) \in Nat
    BY <1>1, <1>2, <1>3, <1>4
  <2>3. CASE k = Len(v)  BY <2>1, <2>2, <2>3
  <2>4. CASE k # Len(v)
    <3>1. /\ k + 1 \in 1 .. Len(v) /\ 1 \in 1 .. Len(tail) /\ Len(tail) # 0
          /\ (k + 1) + 1 \in 1 .. Len(w) /\ k + 1 # Len(w) /\ ~(k + 1 <= k)
      BY <2>2, <2>4
    <3>2. v[k + 1] = w[(k + 1) + 1] /\ v[k + 1] = tail[1]  BY <1>4, <1>5, <3>1, Zenon
    <3>3. w[(k + 1) + 1] # Null  BY <1>7, <3>1, Zenon
    <3>4. QED  BY <2>1, <2>4, <3>1, <3>2, <3>3, Zenon
  <2>5. QED  BY <2>3, <2>4
<1>9. CASE x \notin pred
  <2> DEFINE kx == kept \o <<x>>
             last == kx \o tail
  <2>1. d.list = m.list /\ d.next = m.next /\ d.ans = m.ans /\ d.pre = x /\ d.cur = after
    BY <1>1, <1>9 DEF Simple!SplitTurn
  <2>2. /\ kx \in Seq(DOMAIN m.next) /\ Len(kx) = k + 1 /\ kx[k + 1] = x
        /\ \A i \in 1 .. k : kx[i] = kept[i]
    <3>1. <<x>> \in Seq(DOMAIN m.next) /\ Len(<<x>>) = 1 /\ <<x>>[1] = x
      BY <1>7, OneNodeList, Zenon
    <3>2. /\ kx \in Seq(DOMAIN m.next) /\ Len(kx) = k + Len(<<x>>)
          /\ \A i \in 1 .. k : kx[i] = kept[i]
          /\ \A i \in 1 .. Len(<<x>>) : kx[k + i] = <<x>>[i]
      BY <3>1, ConcatFacts, SMTT(20)
    <3>3. kx[k + 1] = <<x>>[1]  BY <3>1, <3>2
    <3>4. QED  BY <3>1, <3>2, <3>3
  <2> HIDE DEF kx
  <2>3. /\ last \in Seq(DOMAIN m.next) /\ Len(last) = (k + 1) + Len(tail)
        /\ \A i \in 1 .. Len(kx) : last[i] = kx[i]
        /\ \A i \in 1 .. Len(tail) : last[Len(kx) + i] = tail[i]
    <3>1. /\ last \in Seq(DOMAIN m.next) /\ Len(last) = Len(kx) + Len(tail)
          /\ \A i \in 1 .. Len(kx) : last[i] = kx[i]
          /\ \A i \in 1 .. Len(tail) : last[Len(kx) + i] = tail[i]
      BY <1>2, <2>2, ConcatFacts, SMTT(20)
    <3>2. QED  BY <2>2, <3>1
  <2> HIDE DEF last
  <2>4. ASSUME NEW i \in 1 .. Len(last)
        PROVE  last[i] = w[i]
    <3>1. CASE i <= k  BY <1>1, <1>3, <2>2, <2>3, <3>1
    <3>2. CASE i = k + 1  BY <1>1, <1>6, <2>2, <2>3, <3>2
    <3>3. CASE i > k + 1
      <4> DEFINE j == i - (k + 1)
      <4>1. /\ j \in 1 .. Len(tail) /\ j + 1 \in 1 .. Len(rest)
            /\ i = Len(kx) + j /\ i = k + (j + 1)
        BY <1>1, <1>2, <2>2, <2>3, <3>3
      <4> HIDE DEF j
      <4>2. last[i] = tail[j] /\ tail[j] = rest[j + 1] /\ w[i] = rest[j + 1]
        BY <1>2, <1>3, <2>3, <4>1, Zenon
      <4>3. QED  BY <4>2
    <3>4. QED  BY <1>1, <3>1, <3>2, <3>3
  <2>5. last = w
    <3>1. Len(last) = Len(w)  BY <1>1, <1>2, <1>3, <2>3
    <3>2. QED  BY <1>3, <2>3, <2>4, <3>1, SeqEqual, Zenon
  <2>6. Len(kx) # 0 /\ kx[Len(kx)] = x  BY <1>1, <2>2
  <2>7. Simple!InSplit(d, kx, tail, out)
    BY <1>1, <1>8, <2>1, <2>5, <2>6, Zenon DEF Simple!InSplit, last
  <2>8. QED  BY <1>9, <2>7, Zenon DEF kx, tail
<1>10. CASE x \in pred
  <2> DEFINE cut == IF m.pre = Null THEN m.next ELSE [m.next EXCEPT ![m.pre] = after]
             next1 == [cut EXCEPT ![x] = Null]
             list == [head  |-> IF m.pre = Null THEN after ELSE m.list.head,
                      tail  |-> IF after = Null THEN m.pre ELSE m.list.tail,
                      count |-> Len(w) - 1]
             ans == Simple!PushBack(m.ans, next1, x)
  <2>1. /\ d.list = list /\ d.next = ans.next /\ d.ans = ans.list /\ d.pre = m.pre /\ d.cur = after
    BY <1>1, <1>7, <1>10 DEF Simple!SplitTurn, Simple!TakeOut
  <2>2. /\ m.pre = Null <=> k = 0
        /\ k # 0 => k \in 1 .. Len(w) /\ m.pre = w[k] /\ w[k] \in DOMAIN m.next
    BY <1>1, <1>3, <1>6, <1>7
  <2>3. /\ DOMAIN next1 = DOMAIN m.next /\ next1[x] = Null
        /\ k # 0 /\ m.pre # x => next1[m.pre] = after
        /\ \A n \in DOMAIN m.next : n # m.pre /\ n # x => next1[n] = m.next[n]
    BY <1>7, <2>2
  <2>4. Len(v) \in Nat /\ Len(w) = Len(v) + 1 /\ k <= Len(v)  BY <1>1, <1>2, <1>3, <1>4
  <2>5. Simple!Distinct(v)
    <3>1. SUFFICES ASSUME NEW i \in 1 .. Len(v), NEW j \in 1 .. Len(v), v[i] = v[j]
                   PROVE  i = j
      BY DEF Simple!Distinct
    <3> DEFINE a == IF i <= k THEN i ELSE i + 1
               b == IF j <= k THEN j ELSE j + 1
    <3>2. a \in 1 .. Len(w) /\ b \in 1 .. Len(w)  BY <1>1, <2>4
    <3>3. w[a] = w[b]  BY <1>5, <3>1
    <3>4. a = b  BY <1>7, <3>2, <3>3, Zenon DEF Simple!Distinct
    <3>5. QED  BY <1>1, <3>4
  <2>6. ASSUME NEW i \in 1 .. Len(v)
        PROVE  next1[v[i]] = IF i = Len(v) THEN Null ELSE v[i + 1]
    <3>1. CASE i < k
      <4>1. i \in 1 .. Len(w) /\ i + 1 \in 1 .. Len(v) /\ k \in 1 .. Len(w) /\ i # Len(w) /\ i # Len(v)
            /\ i # k /\ i # k + 1 /\ i <= k /\ i + 1 <= k
        BY <1>1, <2>4, <3>1
      <4>2. v[i] = w[i] /\ v[i + 1] = w[i + 1]  BY <1>5, <4>1, Zenon
      <4>3. w[i] # w[k] /\ w[i] # w[k + 1]  BY <1>6, <1>7, <4>1, Zenon DEF Simple!Distinct
      <4>4. m.pre = w[k]  BY <1>1, <2>2, <3>1
      <4>5. next1[w[i]] = m.next[w[i]]  BY <1>6, <1>7, <2>3, <4>1, <4>3, <4>4, Zenon
      <4>6. m.next[w[i]] = w[i + 1]  BY <1>7, <4>1, Zenon
      <4>7. QED  BY <4>1, <4>2, <4>5, <4>6, Zenon
    <3>2. CASE i = k
      <4>1. k # 0 /\ k <= k /\ k # k + 1 /\ k \in 1 .. Len(v)  BY <1>1, <3>2
      <4>2. v[k] = w[k] /\ m.pre = w[k] /\ k \in 1 .. Len(w)  BY <1>5, <2>2, <4>1, Zenon
      <4>3. w[k] # x  BY <1>6, <1>7, <4>1, <4>2, Zenon DEF Simple!Distinct
      <4>4. next1[w[k]] = after  BY <2>3, <4>1, <4>2, <4>3, Zenon
      <4>5. QED  BY <1>8, <3>2, <4>2, <4>4, Zenon
    <3>3. CASE i > k
      <4>1. /\ i + 1 \in 1 .. Len(w) /\ ~(i <= k) /\ i + 1 # k /\ i + 1 # k + 1
            /\ (i + 1 = Len(w) <=> i = Len(v))
            /\ i # Len(v) => i + 1 \in 1 .. Len(v) /\ ~(i + 1 <= k)
        <5>1. k \in Nat /\ i \in 1 .. Len(v) /\ Len(v) \in Nat /\ Len(w) = Len(v) + 1
          BY <1>1, <2>4
        <5>2. QED  BY <3>3, <5>1
      <4>2. v[i] = w[i + 1] /\ (i # Len(v) => v[i + 1] = w[(i + 1) + 1])  BY <1>5, <4>1, Zenon
      <4>3. w[i + 1] # x /\ w[i + 1] # Null /\ w[i + 1] \in DOMAIN m.next
        BY <1>6, <1>7, <4>1, Zenon DEF Simple!Distinct
      <4>4. w[i + 1] # m.pre
        <5>1. CASE k = 0  BY <2>2, <4>3, <5>1
        <5>2. CASE k # 0  BY <1>7, <2>2, <4>1, <5>2, Zenon DEF Simple!Distinct
        <5>3. QED  BY <5>1, <5>2
      <4>5. next1[w[i + 1]] = m.next[w[i + 1]]  BY <2>3, <4>3, <4>4, Zenon
      <4>6. m.next[w[i + 1]] = IF i + 1 = Len(w) THEN Null ELSE w[(i + 1) + 1]  BY <1>7, <4>1, Zenon
      <4>7. QED  BY <4>1, <4>2, <4>5, <4>6, Zenon
    <3>4. QED  BY <1>1, <3>1, <3>2, <3>3
  <2>7. Null \notin DOMAIN next1 /\ v \in Seq(DOMAIN next1)  BY <1>4, <1>7, <2>3
  <2>8. Simple!IsList(list, next1, v)
    <3>1. CASE Len(v) = 0
      <4>1. k = 0 /\ m.pre = Null /\ after = Null /\ Len(w) - 1 = 0  BY <1>1, <1>8, <2>2, <2>4, <3>1
      <4>2. /\ (IF m.pre = Null THEN after ELSE m.list.head) = Null
            /\ (IF after = Null THEN m.pre ELSE m.list.tail) = Null
            /\ Len(w) - 1 = Len(v)
        BY <3>1, <4>1
      <4>4. list = [head |-> Null, tail |-> Null, count |-> Len(v)]  BY <4>2
      <4>3. QED  BY <2>5, <2>7, <3>1, <4>4 DEF Simple!IsList
    <3>2. CASE Len(v) # 0
      <4>1. 1 \in 1 .. Len(v) /\ Len(v) \in 1 .. Len(v) /\ Len(w) - 1 = Len(v)  BY <2>4, <3>2
      <4>2. (IF m.pre = Null THEN after ELSE m.list.head) = v[1]
        <5>1. CASE k = 0
          <6>1. k # Len(v) /\ k + 1 = 1  BY <3>2, <5>1
          <6>2. after = v[1]  BY <1>8, <6>1
          <6>3. QED  BY <2>2, <5>1, <6>2
        <5>2. CASE k # 0
          <6>1. 1 <= k  BY <1>1, <5>2
          <6>2. v[1] = w[1]  BY <1>5, <4>1, <6>1, Zenon
          <6>3. QED  BY <1>7, <2>2, <5>2, <6>2
        <5>3. QED  BY <5>1, <5>2
      <4>3. (IF after = Null THEN m.pre ELSE m.list.tail) = v[Len(v)]
        <5>1. CASE k = Len(v)
          <6>1. k <= k /\ k # 0 /\ k \in 1 .. Len(v)  BY <1>1, <3>2, <4>1, <5>1
          <6>2. v[k] = w[k] /\ m.pre = w[k]  BY <1>5, <2>2, <6>1, Zenon
          <6>3. QED  BY <1>8, <5>1, <6>2
        <5>2. CASE k # Len(v)
          <6>1. ~(Len(v) <= k)  BY <1>1, <2>4, <5>2
          <6>2. v[Len(v)] = w[Len(v) + 1]  BY <1>5, <4>1, <6>1, Zenon
          <6>3. QED  BY <1>7, <1>8, <2>4, <5>2, <6>2
        <5>3. QED  BY <5>1, <5>2
      <4>4. list = [head |-> v[1], tail |-> v[Len(v)], count |-> Len(v)]  BY <4>1, <4>2, <4>3
      <4>5. Simple!IsList([head |-> v[1], tail |-> v[Len(v)], count |-> Len(v)], next1, v)
        BY <2>5, <2>6, <2>7, <3>2, MakesList, Zenon
      <4>6. QED  BY <4>4, <4>5, Zenon
    <3>3. QED  BY <3>1, <3>2
  <2>9. \A j \in 1 .. Len(out) : out[j] # x /\ (k # 0 => out[j] # m.pre)
    BY <1>1, <1>6, <2>2, Zenon DEF Simple!Apart
  <2>10. Simple!IsList(m.ans, next1, out)
    <3>1. Simple!IsList(m.ans, cut, out)
      <4>1. CASE k = 0  BY <1>1, <2>2, <4>1
      <4>2. CASE k # 0
        <5>1. Simple!IsList(m.ans, [m.next EXCEPT ![m.pre] = after], out)
          BY <1>1, <2>9, <4>2, OtherLinks, Zenon
        <5>2. QED  BY <2>2, <4>2, <5>1
      <4>3. QED  BY <4>1, <4>2
    <3> HIDE DEF cut
    <3>2. QED  BY <2>9, <3>1, OtherLinks, Zenon
  <2>11. x \in DOMAIN next1  BY <1>7, <2>3
  <2>12. next1[x] = Null  BY <2>3
  <2> HIDE DEF next1, list
  <2>13. Simple!IsList(ans.list, ans.next, out \o <<x>>)
    BY <2>9, <2>10, <2>11, <2>12, PushBackIsAppend, Zenon
  <2>14. \A i \in 1 .. Len(v) : v[i] # x /\ \A j \in 1 .. Len(out) : v[i] # out[j]
    <3>1. TAKE i \in 1 .. Len(v)
    <3> DEFINE a == IF i <= k THEN i ELSE i + 1
    <3>2. a \in 1 .. Len(w) /\ a # k + 1  BY <1>1, <2>4
    <3>3. v[i] = w[a]  BY <1>5
    <3> HIDE DEF a
    <3>4. w[a] # x  BY <1>6, <1>7, <3>2, Zenon DEF Simple!Distinct
    <3>5. \A j \in 1 .. Len(out) : w[a] # out[j]  BY <1>1, <3>2, Zenon DEF Simple!Apart
    <3>6. QED  BY <3>3, <3>4, <3>5
  <2>15. Simple!IsList(list, ans.next, v)
    <3>1. CASE Simple!IsEmpty(m.ans)  BY <2>8, <3>1 DEF Simple!PushBack
    <3>2. CASE ~Simple!IsEmpty(m.ans)
      <4>1. Len(out) # 0 /\ Len(out) \in 1 .. Len(out) /\ m.ans.tail = out[Len(out)]
        BY <2>10, <3>2, IsListFacts
      <4>2. ans.next = [next1 EXCEPT ![m.ans.tail] = x]  BY <3>2 DEF Simple!PushBack
      <4>3. \A i \in 1 .. Len(v) : v[i] # m.ans.tail  BY <2>14, <4>1, Zenon
      <4>4. Simple!IsList(list, [next1 EXCEPT ![m.ans.tail] = x], v)  BY <2>8, <4>3, OtherLinks, Zenon
      <4>5. QED  BY <4>2, <4>4
    <3>3. QED  BY <3>1, <3>2
  <2>16. out \in Seq(DOMAIN m.next)  BY <1>1 DEF Simple!IsList
  <2>17. Simple!Apart(v, out \o <<x>>)
    <3> DEFINE ox == out \o <<x>>
    <3>1. Len(out) \in Nat /\ Len(ox) = Len(out) + 1 /\ ox[Len(out) + 1] = x
          /\ \A j \in 1 .. Len(out) : ox[j] = out[j]
      BY <1>7, <2>16
    <3> HIDE DEF ox
    <3>2. ASSUME NEW i \in 1 .. Len(v), NEW j \in 1 .. Len(ox)
          PROVE  v[i] # ox[j]
      <4>1. j \in 1 .. Len(out) \/ j = Len(out) + 1  BY <3>1
      <4>2. QED  BY <2>14, <3>1, <4>1
    <3>3. QED  BY <3>2 DEF Simple!Apart, ox
  <2>18. Simple!InSplit(d, kept, tail, out \o <<x>>)
    BY <1>1, <1>8, <2>1, <2>13, <2>15, <2>17, Zenon DEF Simple!InSplit, v
  <2>19. QED  BY <1>10, <2>18, Zenon DEF tail
<1>11. QED  BY <1>9, <1>10
=================================================================================
