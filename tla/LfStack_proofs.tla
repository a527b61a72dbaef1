---------------------------- MODULE LfStack_proofs ----------------------------
(***************************************************************************)
(* Proofs about LfStack, for every number of threads, nodes, values and    *)
(* operations, and for any hazard pointers that other code holds: memory   *)
(* is used safely, and the stack implements AtomicStack, so that it is     *)
(* linearizable.                                                           *)
(***************************************************************************)
EXTENDS LfStack, SequenceTheorems, TLAPS

-----------------------------------------------------------------------------
(* The inductive invariant.                                                *)

\* What the locals of a thread hold at each control point.
HasNode(t) == pc[t] \in {"recheck", "pushLoad", "pushNext", "pushCas",
                         "popDrop", "popValue", "retire"}
LocalsOK ==
  \A t \in Threads :
    /\ HasNode(t) <=> node[t] # Null
    /\ Visiting(t) => expect[t] # Null
    /\ pc[t] = "pushCas" => next[node[t]] = expect[t]
    /\ pc[t] = "popCas" => succ[t] = next[expect[t]]
    /\ pc[t] = "popVerify" \/ Visiting(t) => slot[t] = expect[t]

\* u has not passed the slot of t in the last scan before u's node can be
\* used again.
WillSee(u, t) ==
  pc[u] \in {"popDrop", "popValue"} \/ (Scanning(u) /\ t \in unseen[u])

\* A node that a pop has verified is not free, and whoever has taken it off
\* the stack will still see the hazard pointer on it.
Protected ==
  \A t \in Threads : Visiting(t) =>
    /\ expect[t] \notin free
    /\ \A u \in Threads : node[u] = expect[t] => WillSee(u, t)

StackInv == TypeOK /\ LocalsOK /\ ChainIsStack /\ OnePlace /\ Protected

-----------------------------------------------------------------------------
\* The top of the stack is at the head.
LEMMA TopOfStack ==
  ASSUME TypeOK, ChainIsStack, head # Null
  PROVE  /\ Len(stk) \in Nat \ {0}
         /\ stk[Len(stk)] = head
         /\ head \in OnStack
  BY DEF TypeOK, ChainIsStack, OnStack

\* A push adds the node to the history.
LEMMA Pushed ==
  ASSUME NEW s \in Seq(Nodes), NEW n \in Nodes, NEW s1, s1 = Append(s, n)
  PROVE  /\ s1 \in Seq(Nodes)
         /\ Len(s1) = Len(s) + 1
         /\ \A i \in 1..Len(s) : s1[i] = s[i]
         /\ s1[Len(s) + 1] = n
         /\ {s1[i] : i \in 1..Len(s1)} = {s[i] : i \in 1..Len(s)} \cup {n}
  <1>1. /\ s1 \in Seq(Nodes)
        /\ Len(s1) = Len(s) + 1
        /\ \A i \in 1..Len(s) : s1[i] = s[i]
        /\ s1[Len(s) + 1] = n
    OBVIOUS
  <1>2. ASSUME NEW i \in 1..Len(s1)
        PROVE  s1[i] \in {s[j] : j \in 1..Len(s)} \cup {n}
    <2>1. i \in 1..Len(s) \/ i = Len(s) + 1
      BY <1>1
    <2> QED
      BY <1>1, <2>1
  <1>3. ASSUME NEW i \in 1..Len(s)
        PROVE  s[i] \in {s1[j] : j \in 1..Len(s1)}
    BY <1>1
  <1>4. n \in {s1[j] : j \in 1..Len(s1)}
    <2>1. Len(s) + 1 \in 1..Len(s1)
      BY <1>1
    <2> QED
      BY <1>1, <2>1
  <1> QED
    BY <1>1, <1>2, <1>3, <1>4

\* A prefix of a sequence.
LEMMA Prefix ==
  ASSUME NEW s \in Seq(Nodes), NEW n \in Nat, n < Len(s), NEW s1, s1 = SubSeq(s, 1, n)
  PROVE  s1 \in Seq(Nodes) /\ Len(s1) = n /\ \A i \in 1..n : s1[i] = s[i]
  OBVIOUS

\* A pop takes the last node away.
LEMMA Popped ==
  ASSUME NEW s \in Seq(Nodes), Len(s) \in Nat \ {0},
         NEW s1, s1 = SubSeq(s, 1, Len(s) - 1)
  PROVE  /\ s1 \in Seq(Nodes)
         /\ Len(s1) = Len(s) - 1
         /\ \A i \in 1..Len(s1) : s1[i] = s[i] /\ i \in 1..Len(s)
  <1>1. PICK n \in Nat : n = Len(s) - 1 /\ n < Len(s)
    OBVIOUS
  <1>2. s1 = SubSeq(s, 1, n)
    BY <1>1
  <1>3. s1 \in Seq(Nodes) /\ Len(s1) = n /\ \A i \in 1..n : s1[i] = s[i]
    BY <1>1, <1>2, Prefix
  <1> QED
    BY <1>1, <1>3

-----------------------------------------------------------------------------
LEMMA StackInvInit == Init => StackInv
  BY StackAssumption
     DEF Init, StackInv, TypeOK, LocalsOK, ChainIsStack, OnePlace, Protected,
         NodeOrNull, Points, HasNode, Visiting, OnStack, Held

\* What the compare_exchange of a push does to the history.
LEMMA PushCasHistory ==
  ASSUME StackInv, NEW t \in Threads, PushCas(t)
  PROVE  /\ node[t] \in Nodes
         /\ stk' \in Seq(Nodes)
         /\ Len(stk') = Len(stk) + 1
         /\ \A i \in 1..Len(stk) : stk'[i] = stk[i]
         /\ stk'[Len(stk) + 1] = node[t]
         /\ OnStack' = OnStack \cup {node[t]}
         /\ \A i, j \in 1..Len(stk') : stk'[i] = stk'[j] => i = j
  <1>1. node[t] \in Nodes /\ stk \in Seq(Nodes) /\ stk' = Append(stk, node[t])
    BY DEF StackInv, TypeOK, LocalsOK, HasNode, NodeOrNull, PushCas
  <1>2. /\ stk' \in Seq(Nodes)
        /\ Len(stk') = Len(stk) + 1
        /\ \A i \in 1..Len(stk) : stk'[i] = stk[i]
        /\ stk'[Len(stk) + 1] = node[t]
        /\ OnStack' = OnStack \cup {node[t]}
    BY <1>1, Pushed DEF OnStack
  <1>3. node[t] \notin OnStack
    BY <1>1, StackAssumption DEF StackInv, OnePlace, Held
  <1>4. ASSUME NEW i \in 1..Len(stk'), NEW j \in 1..Len(stk'), stk'[i] = stk'[j]
        PROVE  i = j
    <2>1. \A k \in 1..Len(stk') : k \in 1..Len(stk) \/ k = Len(stk) + 1
      BY <1>1, <1>2
    <2>2. \A k \in 1..Len(stk) : stk'[k] \in OnStack
      BY <1>2 DEF OnStack
    <2> QED
      BY <1>2, <1>3, <1>4, <2>1, <2>2 DEF StackInv, OnePlace
  <1> QED
    BY <1>1, <1>2, <1>4

\* What the compare_exchange of a pop does to it.
LEMMA PopCasHistory ==
  ASSUME StackInv, NEW t \in Threads, PopCas(t)
  PROVE  /\ stk \in Seq(Nodes)
         /\ Len(stk) \in Nat \ {0}
         /\ head = stk[Len(stk)]
         /\ head \in OnStack
         /\ expect[t] = head
         /\ stk' \in Seq(Nodes)
         /\ Len(stk') = Len(stk) - 1
         /\ \A i \in 1..Len(stk') : stk'[i] = stk[i] /\ i \in 1..Len(stk)
         /\ OnStack' = OnStack \ {head}
  <1>1. head # Null /\ expect[t] = head /\ stk' = SubSeq(stk, 1, Len(stk) - 1)
    BY DEF StackInv, LocalsOK, Visiting, PopCas
  <1>2. Len(stk) \in Nat \ {0} /\ head = stk[Len(stk)] /\ head \in OnStack
    BY <1>1, TopOfStack DEF StackInv
  <1>3. stk \in Seq(Nodes)
    BY DEF StackInv, TypeOK
  <1>4. /\ stk' \in Seq(Nodes)
        /\ Len(stk') = Len(stk) - 1
        /\ \A i \in 1..Len(stk') : stk'[i] = stk[i] /\ i \in 1..Len(stk)
    BY <1>1, <1>2, <1>3, Popped
  <1>5. \A i \in 1..Len(stk) : i = Len(stk) \/ i \in 1..Len(stk')
    BY <1>2, <1>4
  <1>6. OnStack' \subseteq OnStack \ {head}
    <2>1. \A i \in 1..Len(stk') : i # Len(stk) /\ i \in 1..Len(stk)
      BY <1>2, <1>4
    <2> QED
      BY <1>2, <1>4, <2>1 DEF OnStack, StackInv, OnePlace
  <1>7. OnStack \ {head} \subseteq OnStack'
    BY <1>2, <1>4, <1>5 DEF OnStack
  <1> QED
    BY <1>1, <1>2, <1>3, <1>4, <1>6, <1>7

\* A thread whose scan of a node is over has seen the slot of every pop that
\* has verified it: no such pop is left.
LEMMA ScanIsOver ==
  ASSUME StackInv, NEW u \in Threads, Scanning(u), unseen[u] = {},
         NEW t \in Threads, Visiting(t)
  PROVE  expect[t] # node[u]
  BY DEF StackInv, Protected, WillSee, Scanning

\* Every step preserves the type invariant.
LEMMA TypeStep ==
  ASSUME StackInv, NEW t \in Threads, Step(t)
  PROVE  TypeOK'
  <1> USE StackAssumption DEF StackInv, TypeOK, LocalsOK, HasNode, Visiting,
       NodeOrNull, Points, memVars, poolVars, Goto
  <1>1. CASE CallPush(t)
    BY <1>1 DEF CallPush, Begin
  <1>2. CASE TakeFree(t)
    BY <1>2 DEF TakeFree, Obtain
  <1>3. CASE Recheck(t)
    BY <1>3 DEF Recheck
  <1>4. CASE PushLoad(t)
    BY <1>4 DEF PushLoad
  <1>5. CASE PushNext(t)
    BY <1>5 DEF PushNext
  <1>6. CASE PushCas(t)
    BY <1>6, PushCasHistory DEF PushCas
  <1>7. CASE PushRetry(t)
    BY <1>7 DEF PushRetry
  <1>8. CASE CallPop(t)
    BY <1>8 DEF CallPop, Begin
  <1>9. CASE PopLoad(t)
    BY <1>9 DEF PopLoad
  <1>10. CASE PopSlot(t)
    BY <1>10 DEF PopSlot
  <1>11. CASE PopReload(t)
    BY <1>11 DEF PopReload
  <1>12. CASE PopEmpty(t)
    BY <1>12 DEF PopEmpty
  <1>13. CASE PopVerified(t)
    BY <1>13 DEF PopVerified
  <1>14. CASE PopNext(t)
    BY <1>14 DEF PopNext
  <1>15. CASE PopCas(t)
    BY <1>15, PopCasHistory DEF PopCas
  <1>16. CASE PopRetry(t)
    BY <1>16 DEF PopRetry
  <1>17. CASE PopDrop(t)
    BY <1>17 DEF PopDrop
  <1>18. CASE PopValue(t)
    BY <1>18 DEF PopValue
  <1>19. CASE ScanSlot(t)
    BY <1>19 DEF ScanSlot, Scanning
  <1>20. CASE FoundInHazard(t)
    BY <1>20 DEF FoundInHazard, Scanning
  <1>21. CASE Reclaim(t)
    BY <1>21 DEF Reclaim
  <1>22. CASE Reuse(t)
    BY <1>22 DEF Reuse, Obtain
  <1> QED
    BY <1>1, <1>2, <1>3, <1>4, <1>5, <1>6, <1>7, <1>8, <1>9, <1>10, <1>11,
       <1>12, <1>13, <1>14, <1>15, <1>16, <1>17, <1>18, <1>19, <1>20, <1>21,
       <1>22 DEF Step

\* Every step preserves what the control points say of the locals.
LEMMA LocalsStep ==
  ASSUME StackInv, NEW t \in Threads, Step(t)
  PROVE  LocalsOK'
  <1> USE StackAssumption DEF StackInv, TypeOK, LocalsOK, OnePlace, Protected, WillSee, HasNode,
       Visiting, Scanning, Held, NodeOrNull, Points, Slots, memVars, poolVars, Goto
  <1>1. CASE CallPush(t)
    BY <1>1 DEF CallPush, Begin
  <1>2. CASE TakeFree(t)
    BY <1>2 DEF TakeFree, Obtain
  <1>3. CASE Recheck(t)
    BY <1>3 DEF Recheck
  <1>4. CASE PushLoad(t)
    BY <1>4 DEF PushLoad
  <1>5. CASE PushNext(t)
    <2>1. node[t] \in Nodes
      BY <1>5 DEF PushNext
    <2>2. \A u \in Threads : u # t => node[u] # node[t]
      BY <1>5, <2>1 DEF PushNext
    <2>3. \A u \in Threads : Visiting(u) => expect[u] # node[t]
      BY <1>5 DEF PushNext
    <2>4. next'[node[t]] = expect[t] /\ \A n \in Nodes \ {node[t]} : next'[n] = next[n]
      BY <1>5, <2>1 DEF PushNext
    <2> QED
      BY <1>5, <2>1, <2>2, <2>3, <2>4 DEF PushNext
  <1>6. CASE PushCas(t)
    BY <1>6, PushCasHistory DEF PushCas
  <1>7. CASE PushRetry(t)
    BY <1>7 DEF PushRetry
  <1>8. CASE CallPop(t)
    BY <1>8 DEF CallPop, Begin
  <1>9. CASE PopLoad(t)
    BY <1>9 DEF PopLoad
  <1>10. CASE PopSlot(t)
    BY <1>10 DEF PopSlot
  <1>11. CASE PopReload(t)
    BY <1>11 DEF PopReload
  <1>12. CASE PopEmpty(t)
    BY <1>12 DEF PopEmpty
  <1>13. CASE PopVerified(t)
    BY <1>13 DEF PopVerified
  <1>14. CASE PopNext(t)
    BY <1>14 DEF PopNext
  <1>15. CASE PopCas(t)
    BY <1>15, PopCasHistory DEF PopCas
  <1>16. CASE PopRetry(t)
    BY <1>16 DEF PopRetry
  <1>17. CASE PopDrop(t)
    BY <1>17 DEF PopDrop
  <1>18. CASE PopValue(t)
    BY <1>18 DEF PopValue
  <1>19. CASE ScanSlot(t)
    BY <1>19 DEF ScanSlot, Scanning
  <1>20. CASE FoundInHazard(t)
    BY <1>20 DEF FoundInHazard, Scanning
  <1>21. CASE Reclaim(t)
    BY <1>21 DEF Reclaim
  <1>22. CASE Reuse(t)
    BY <1>22 DEF Reuse, Obtain
  <1> QED
    BY <1>1, <1>2, <1>3, <1>4, <1>5, <1>6, <1>7, <1>8, <1>9, <1>10, <1>11,
       <1>12, <1>13, <1>14, <1>15, <1>16, <1>17, <1>18, <1>19, <1>20, <1>21,
       <1>22 DEF Step

\* The links change with the history.
LEMMA ChainStep ==
  ASSUME StackInv, NEW t \in Threads, Step(t)
  PROVE  ChainIsStack'
  <1> USE StackAssumption DEF StackInv, TypeOK, LocalsOK, HasNode, NodeOrNull, memVars, poolVars, Goto
  <1>1. CASE PushNext(t)
    <2>1. node[t] \in Nodes /\ node[t] \notin OnStack
      BY <1>1 DEF PushNext, OnePlace, Held
    <2>2. \A i \in 1..Len(stk) : next'[stk[i]] = next[stk[i]]
      BY <1>1, <2>1 DEF PushNext, OnStack
    <2> QED
      BY <1>1, <2>2 DEF PushNext, ChainIsStack
  <1>2. CASE PushCas(t)
    <2> DEFINE n == Len(stk)
    <2>1. /\ n \in Nat /\ n + 1 = Len(stk') /\ stk'[n + 1] = node[t]
          /\ \A i \in 1..n : stk'[i] = stk[i]
      BY <1>2, PushCasHistory
    <2>2. stk' # <<>>
      BY <2>1
    <2>3. head' = stk'[Len(stk')]
      BY <1>2, <2>1 DEF PushCas
    <2>4. next' = next /\ next[node[t]] = head
      BY <1>2 DEF PushCas
    <2>5. ASSUME NEW i \in 1..Len(stk')
          PROVE  next'[stk'[i]] = IF i = 1 THEN Null ELSE stk'[i - 1]
      <3>1. CASE i = n + 1
        <4>1. head = IF i = 1 THEN Null ELSE stk[i - 1]
          BY <2>1, <3>1 DEF ChainIsStack
        <4>2. i = 1 \/ i - 1 \in 1..n
          BY <2>1, <3>1
        <4> QED
          BY <2>1, <2>4, <3>1, <4>1, <4>2
      <3>2. CASE i # n + 1
        <4>1. i \in 1..n /\ (i = 1 \/ i - 1 \in 1..n)
          BY <2>1, <3>2
        <4>2. next[stk[i]] = IF i = 1 THEN Null ELSE stk[i - 1]
          BY <4>1 DEF ChainIsStack
        <4> QED
          BY <2>1, <2>4, <4>1, <4>2
      <3> QED
        BY <3>1, <3>2
    <2> QED
      BY <2>2, <2>3, <2>5 DEF ChainIsStack
  <1>3. CASE PopCas(t)
    <2> DEFINE n == Len(stk)
    <2>1. /\ n \in Nat \ {0} /\ Len(stk') = n - 1 /\ head = stk[n]
          /\ \A i \in 1..n - 1 : stk'[i] = stk[i]
          /\ expect[t] = head /\ stk' \in Seq(Nodes)
      BY <1>3, PopCasHistory
    <2>2. next' = next /\ head' = next[head]
      BY <1>3 DEF PopCas
    <2>3. \A i \in 1..n : next[stk[i]] = IF i = 1 THEN Null ELSE stk[i - 1]
      BY DEF ChainIsStack
    <2> HIDE DEF n, StackInv
    <2>4. head' = IF n = 1 THEN Null ELSE stk[n - 1]
      <3>1. n \in 1..n
        BY <2>1
      <3> QED
        BY <2>1, <2>2, <2>3, <3>1
    <2>5. head' = IF stk' = <<>> THEN Null ELSE stk'[Len(stk')]
      <3>1. CASE n = 1
        <4>1. stk' = <<>>
          BY <2>1, <3>1
        <4> QED
          BY <2>4, <3>1, <4>1
      <3>2. CASE n # 1
        <4>1. n - 1 \in 1..n - 1 /\ stk' # <<>>
          BY <2>1, <3>2
        <4> QED
          BY <2>1, <2>4, <3>2, <4>1
      <3> QED
        BY <3>1, <3>2
    <2>6. ASSUME NEW i \in 1..Len(stk')
          PROVE  next'[stk'[i]] = IF i = 1 THEN Null ELSE stk'[i - 1]
      <3>1. i \in 1..n /\ i \in 1..n - 1 /\ (i = 1 \/ i - 1 \in 1..n - 1)
        BY <2>1
      <3> QED
        <4>1. next[stk[i]] = IF i = 1 THEN Null ELSE stk[i - 1]
          BY <2>3, <3>1
        <4>2. stk'[i] = stk[i] /\ (i # 1 => stk'[i - 1] = stk[i - 1])
          BY <2>1, <3>1
        <4> QED
          BY <2>2, <4>1, <4>2
    <2> QED
      BY <2>5, <2>6 DEF ChainIsStack
  <1>4. CASE UNCHANGED <<head, next, stk>>
    BY <1>4 DEF ChainIsStack
  <1>5. \/ PushNext(t)
       \/ PushCas(t)
       \/ PopCas(t)
       \/ UNCHANGED <<head, next, stk>>
    BY DEF Step, CallPush, TakeFree, Recheck, PushLoad, PushRetry, CallPop,
           PopLoad, PopSlot, PopReload, PopEmpty, PopVerified, PopNext,
           PopRetry, PopDrop, PopValue, ScanSlot, FoundInHazard, Reclaim,
           Reuse
  <1> QED
    BY <1>1, <1>2, <1>3, <1>4, <1>5 DEF Step

\* Nodes move from one place to another.
LEMMA OnePlaceStep ==
  ASSUME StackInv, NEW t \in Threads, Step(t)
  PROVE  OnePlace'
  <1> USE StackAssumption DEF StackInv, TypeOK, LocalsOK, OnePlace, Held, HasNode, Visiting,
       NodeOrNull, memVars, poolVars, Goto
  <1>1. CASE TakeFree(t)
    BY <1>1 DEF TakeFree, Obtain, OnStack
  <1>2. CASE Recheck(t)
    BY <1>2 DEF Recheck, OnStack
  <1>3. CASE PushCas(t)
    <2>1. /\ OnStack' = OnStack \cup {node[t]}
          /\ \A i, j \in 1..Len(stk') : stk'[i] = stk'[j] => i = j
      BY <1>3, PushCasHistory
    <2>2. /\ Held(t)' = {} /\ Held(t) = {node[t]}
          /\ \A u \in Threads : u # t => Held(u)' = Held(u)
          /\ free' = free /\ limbo' = limbo
      BY <1>3 DEF PushCas
    <2>3. OnePlace
      BY DEF StackInv
    <2> HIDE DEF Held, StackInv
    <2> QED
      BY <2>1, <2>2, <2>3
  <1>4. CASE PopCas(t)
    <2>1. /\ OnStack' = OnStack \ {head} /\ head \in OnStack /\ expect[t] = head
          /\ \A i \in 1..Len(stk') : stk'[i] = stk[i] /\ i \in 1..Len(stk)
      BY <1>4, PopCasHistory
    <2>2. /\ Held(t)' = {head} /\ Held(t) = {}
          /\ \A u \in Threads : u # t => Held(u)' = Held(u)
          /\ free' = free /\ limbo' = limbo
      <3>1. head # Null /\ node[t] = Null
        BY <1>4 DEF PopCas
      <3>2. node'[t] = head /\ \A u \in Threads : u # t => node'[u] = node[u]
        BY <1>4 DEF PopCas
      <3> QED
        BY <1>4, <3>1, <3>2 DEF PopCas
    <2> HIDE DEF Held, StackInv
    <2>3. OnePlace
      BY DEF StackInv
    <2>4. \A u \in Threads : Held(u)' \subseteq Held(u) \cup {head}
      BY <2>2
    <2> QED
      BY <2>1, <2>2, <2>3, <2>4
  <1>5. CASE FoundInHazard(t)
    BY <1>5 DEF FoundInHazard, Scanning, OnStack
  <1>6. CASE Reclaim(t)
    BY <1>6 DEF Reclaim, OnStack
  <1>7. CASE Reuse(t)
    BY <1>7 DEF Reuse, Obtain, OnStack
  <1>8. CASE UNCHANGED <<stk, free, limbo, node>>
    BY <1>8 DEF OnStack
  <1>9. \/ TakeFree(t)
       \/ Recheck(t)
       \/ PushCas(t)
       \/ PopCas(t)
       \/ FoundInHazard(t)
       \/ Reclaim(t)
       \/ Reuse(t)
       \/ UNCHANGED <<stk, free, limbo, node>>
    BY DEF Step, CallPush, PushLoad, PushNext, PushRetry, CallPop, PopLoad,
           PopSlot, PopReload, PopEmpty, PopVerified, PopNext, PopRetry,
           PopDrop, PopValue, ScanSlot
  <1> QED
    BY <1>1, <1>2, <1>3, <1>4, <1>5, <1>6, <1>7, <1>8, <1>9 DEF Step

\* Every step preserves the protection of the nodes that pops have verified.
LEMMA ProtectedStep ==
  ASSUME StackInv, NEW t \in Threads, Step(t)
  PROVE  Protected'
  <1> USE StackAssumption DEF StackInv, TypeOK, LocalsOK, OnePlace, Protected, WillSee, Held,
       HasNode, Visiting, Scanning, NodeOrNull, Points, Slots, memVars, poolVars, Goto
  <1>1. CASE CallPush(t)
    BY <1>1 DEF CallPush, Begin
  <1>2. CASE TakeFree(t)
    BY <1>2 DEF TakeFree, Obtain
  <1>3. CASE Recheck(t)
    BY <1>3 DEF Recheck
  <1>4. CASE PushLoad(t)
    BY <1>4 DEF PushLoad
  <1>5. CASE PushNext(t)
    BY <1>5 DEF PushNext
  <1>6. CASE PushCas(t)
    BY <1>6, PushCasHistory DEF PushCas
  <1>7. CASE PushRetry(t)
    BY <1>7 DEF PushRetry
  <1>8. CASE CallPop(t)
    BY <1>8 DEF CallPop, Begin
  <1>9. CASE PopLoad(t)
    BY <1>9 DEF PopLoad
  <1>10. CASE PopSlot(t)
    BY <1>10 DEF PopSlot
  <1>11. CASE PopReload(t)
    BY <1>11 DEF PopReload
  <1>12. CASE PopEmpty(t)
    BY <1>12 DEF PopEmpty
  <1>13. CASE PopVerified(t)
    BY <1>13, TopOfStack DEF PopVerified
  <1>14. CASE PopNext(t)
    BY <1>14 DEF PopNext
  <1>15. CASE PopCas(t)
    BY <1>15, PopCasHistory DEF PopCas
  <1>16. CASE PopRetry(t)
    BY <1>16 DEF PopRetry
  <1>17. CASE PopDrop(t)
    BY <1>17 DEF PopDrop
  <1>18. CASE PopValue(t)
    BY <1>18 DEF PopValue
  <1>19. CASE ScanSlot(t)
    BY <1>19 DEF ScanSlot, Scanning
  <1>20. CASE FoundInHazard(t)
    BY <1>20 DEF FoundInHazard, Scanning
  <1>21. CASE Reclaim(t)
    <2>1. \A u \in Threads : Visiting(u) => expect[u] # node[t]
      BY <1>21, ScanIsOver DEF Reclaim
    <2> QED
      BY <1>21, <2>1 DEF Reclaim
  <1>22. CASE Reuse(t)
    <2>1. \A u \in Threads : Visiting(u) => expect[u] # node[t]
      BY <1>22, ScanIsOver DEF Reuse
    <2> QED
      BY <1>22, <2>1 DEF Reuse, Obtain
  <1> QED
    BY <1>1, <1>2, <1>3, <1>4, <1>5, <1>6, <1>7, <1>8, <1>9, <1>10, <1>11,
       <1>12, <1>13, <1>14, <1>15, <1>16, <1>17, <1>18, <1>19, <1>20, <1>21,
       <1>22 DEF Step

\* The invariant is inductive.
LEMMA StackInvStep == StackInv /\ [Next]_vars => StackInv'
  <1>1. ASSUME StackInv, NEW t \in Threads, Step(t)
        PROVE  StackInv'
    BY <1>1, TypeStep, LocalsStep, ChainStep, OnePlaceStep, ProtectedStep DEF StackInv
  <1>2. ASSUME StackInv, UNCHANGED vars
        PROVE  StackInv'
    BY <1>2 DEF StackInv, TypeOK, LocalsOK, ChainIsStack, OnePlace, Protected, WillSee,
       HasNode, Visiting, Scanning, OnStack, Held, vars, memVars, poolVars
  <1> QED
    BY <1>1, <1>2 DEF Next

-----------------------------------------------------------------------------
\* The type invariant.
THEOREM TypeCorrect == Spec => []TypeOK
  <1> QED
    BY StackInvInit, StackInvStep, PTL DEF Spec, StackInv

\* The links in memory always represent the stack.
THEOREM MemoryIsStack == Spec => []ChainIsStack
  <1> QED
    BY StackInvInit, StackInvStep, PTL DEF Spec, StackInv

\* A node is in one place at a time.
THEOREM NodesInOnePlace == Spec => []OnePlace
  <1> QED
    BY StackInvInit, StackInvStep, PTL DEF Spec, StackInv

\* Hazard pointers keep every node a pop reads out of the pool.
THEOREM ReclamationIsSafe == Spec => []NoUseAfterReclaim
  <1>1. StackInv => NoUseAfterReclaim
    BY DEF StackInv, Protected, NoUseAfterReclaim
  <1> QED
    BY StackInvInit, StackInvStep, <1>1, PTL DEF Spec

\* The compare_exchange of a pop is free of ABA.
THEOREM PopIsABAFree == Spec => []NoABA
  <1>1. StackInv => NoABA
    BY DEF StackInv, LocalsOK, NoABA
  <1> QED
    BY StackInvInit, StackInvStep, <1>1, PTL DEF Spec

-----------------------------------------------------------------------------
(* The invariant behind the refinement: who holds a value.                 *)

ValuesOK ==
  /\ \A t \in Threads :
       /\ pc[t] \in {"pool", "recheck", "alloc"} => arg[t] \in Values
       /\ HasNode(t) /\ pc[t] \notin {"recheck", "retire"} => val[node[t]] \in Values
       /\ pc[t] = "retire" => ret[t] \in Values
  /\ \A n \in OnStack : val[n] \in Values

RefInv == StackInv /\ ValuesOK

LEMMA RefInvInit == Init => RefInv
  BY StackInvInit DEF Init, RefInv, ValuesOK, HasNode, OnStack

\* A step writes to the value of the thread's node, or of a free one, only.
LEMMA ValueKept ==
  ASSUME StackInv, NEW t \in Threads, Step(t),
         NEW n \in Nodes, n \notin free, n # node[t]
  PROVE  val'[n] = val[n]
  <1> USE DEF StackInv, TypeOK
  <1>1. CASE TakeFree(t)
    BY <1>1 DEF TakeFree, Obtain
  <1>2. CASE Reclaim(t)
    BY <1>2 DEF Reclaim
  <1>3. CASE Reuse(t)
    BY <1>3 DEF Reuse, Obtain
  <1>4. TakeFree(t) \/ Reclaim(t) \/ Reuse(t) \/ val' = val
    BY DEF Step, memVars, CallPush, Recheck, PushLoad, PushNext, PushCas, PushRetry,
           CallPop, PopLoad, PopSlot, PopReload, PopEmpty, PopVerified, PopNext,
           PopCas, PopRetry, PopDrop, PopValue, ScanSlot, FoundInHazard
  <1> QED
    BY <1>1, <1>2, <1>3, <1>4

\* A thread other than the one that steps keeps its locals, and the value of
\* its node.
LEMMA OthersKeep ==
  ASSUME StackInv, NEW t \in Threads, Step(t), NEW u \in Threads, u # t
  PROVE  /\ pc'[u] = pc[u] /\ arg'[u] = arg[u] /\ node'[u] = node[u] /\ ret'[u] = ret[u]
         /\ HasNode(u) => val'[node[u]] = val[node[u]]
  <1>1. pc'[u] = pc[u] /\ arg'[u] = arg[u] /\ node'[u] = node[u] /\ ret'[u] = ret[u]
    BY DEF StackInv, TypeOK, Step, Goto, memVars, poolVars, Obtain, CallPush, TakeFree,
           Recheck, PushLoad, PushNext, PushCas, PushRetry, CallPop, PopLoad, PopSlot,
           PopReload, PopEmpty, PopVerified, PopNext, PopCas, PopRetry, PopDrop,
           PopValue, ScanSlot, FoundInHazard, Reclaim, Reuse
  <1>2. ASSUME HasNode(u)
        PROVE  node[u] \in Nodes /\ node[u] \notin free /\ node[u] # node[t]
    BY <1>2 DEF StackInv, TypeOK, LocalsOK, NodeOrNull, OnePlace, Held
  <1> QED
    BY <1>1, <1>2, ValueKept

\* The values of the nodes on the stack do not change.
LEMMA StackValuesKept ==
  ASSUME StackInv, NEW t \in Threads, Step(t), NEW n \in OnStack
  PROVE  n \in Nodes /\ val'[n] = val[n]
  <1>1. n \in Nodes
    BY DEF OnStack, StackInv, TypeOK
  <1>2. n \notin free /\ n # node[t]
    BY <1>1, StackAssumption DEF StackInv, OnePlace, Held
  <1> QED
    BY <1>1, <1>2, ValueKept

\* What the thread that steps does to its own value.
OwnValueOK(t) ==
  /\ pc[t] \in {"pool", "recheck", "alloc"} => arg[t] \in Values
  /\ HasNode(t) /\ pc[t] \notin {"recheck", "retire"} => val[node[t]] \in Values
  /\ pc[t] = "retire" => ret[t] \in Values

LEMMA OwnValueStep ==
  ASSUME RefInv, NEW t \in Threads, Step(t)
  PROVE  OwnValueOK(t)'
  <1> USE StackAssumption
      DEF RefInv, StackInv, TypeOK, LocalsOK, ValuesOK, OwnValueOK, HasNode, NodeOrNull,
          memVars, poolVars, Goto
  <1>1. CASE CallPush(t)
    BY <1>1 DEF CallPush
  <1>2. CASE TakeFree(t)
    BY <1>2 DEF TakeFree, Obtain
  <1>3. CASE Recheck(t)
    BY <1>3 DEF Recheck
  <1>4. CASE PushLoad(t) \/ PushNext(t) \/ PushCas(t) \/ PushRetry(t)
    BY <1>4 DEF PushLoad, PushNext, PushCas, PushRetry
  <1>5. CASE CallPop(t) \/ PopLoad(t) \/ PopSlot(t) \/ PopReload(t) \/ PopEmpty(t)
    BY <1>5 DEF CallPop, PopLoad, PopSlot, PopReload, PopEmpty
  <1>6. CASE PopVerified(t) \/ PopNext(t) \/ PopRetry(t)
    BY <1>6 DEF PopVerified, PopNext, PopRetry
  <1>7. CASE PopCas(t)
    <2>1. expect[t] \in OnStack
      BY <1>7, PopCasHistory
    <2> QED
      BY <1>7, <2>1 DEF PopCas
  <1>8. CASE PopDrop(t) \/ PopValue(t) \/ ScanSlot(t)
    BY <1>8 DEF PopDrop, PopValue, ScanSlot, Scanning
  <1>9. CASE FoundInHazard(t)
    BY <1>9 DEF FoundInHazard, Scanning
  <1>10. CASE Reclaim(t)
    BY <1>10 DEF Reclaim
  <1>11. CASE Reuse(t)
    BY <1>11 DEF Reuse, Obtain
  <1> QED
    BY <1>1, <1>2, <1>3, <1>4, <1>5, <1>6, <1>7, <1>8, <1>9, <1>10, <1>11 DEF Step

LEMMA RefInvStep == RefInv /\ [Next]_vars => RefInv'
  <1>1. ASSUME RefInv, NEW t \in Threads, Step(t)
        PROVE  RefInv'
    <2>1. StackInv'
      BY <1>1, StackInvStep DEF RefInv, Next
    <2>2. OwnValueOK(t)'
      BY <1>1, OwnValueStep
    <2>3. ASSUME NEW u \in Threads, u # t
          PROVE  OwnValueOK(u)'
      BY <1>1, <2>3, OthersKeep DEF RefInv, ValuesOK, OwnValueOK, HasNode
    <2>4. ASSUME NEW n \in OnStack'
          PROVE  val'[n] \in Values
      <3>1. CASE n \in OnStack
        BY <1>1, <3>1, StackValuesKept DEF RefInv, ValuesOK
      <3>2. CASE n \notin OnStack
        <4>1. PushCas(t)
          <5>1. CASE PopCas(t)
            BY <1>1, <2>4, <3>2, <5>1, PopCasHistory DEF RefInv
          <5>2. PushCas(t) \/ PopCas(t) \/ stk' = stk
            BY <1>1 DEF Step, memVars, CallPush, TakeFree, Recheck, PushLoad, PushNext,
               PushRetry, CallPop, PopLoad, PopSlot, PopReload, PopEmpty, PopVerified,
               PopNext, PopRetry, PopDrop, PopValue, ScanSlot, FoundInHazard, Reclaim, Reuse
          <5> QED
            BY <2>4, <3>2, <5>1, <5>2 DEF OnStack
        <4>2. n = node[t]
          BY <1>1, <2>4, <3>2, <4>1, PushCasHistory DEF RefInv
        <4> QED
          BY <1>1, <4>1, <4>2 DEF PushCas, RefInv, ValuesOK, HasNode
      <3> QED
        BY <3>1, <3>2
    <2> QED
      BY <2>1, <2>2, <2>3, <2>4 DEF RefInv, ValuesOK, OwnValueOK
  <1>2. ASSUME RefInv, UNCHANGED vars
        PROVE  RefInv'
    BY <1>2, StackInvStep DEF RefInv, ValuesOK, HasNode, OnStack, vars, memVars, poolVars
  <1> QED
    BY <1>1, <1>2 DEF Next

-----------------------------------------------------------------------------
(* The refinement.                                                         *)

Content == [i \in 1..Len(stk) |-> val[stk[i]]]
Op == [t \in Threads |-> OpOf(t)]

\* The content is a sequence of values.
LEMMA ContentIsSeq ==
  ASSUME RefInv
  PROVE  /\ stk \in Seq(Nodes)
         /\ Len(stk) \in Nat
         /\ Content \in Seq(Values)
         /\ Len(Content) = Len(stk)
         /\ \A i \in 1..Len(stk) : Content[i] = val[stk[i]]
  <1>1. stk \in Seq(Nodes) /\ Len(stk) \in Nat
    BY DEF RefInv, StackInv, TypeOK
  <1>2. \A i \in 1..Len(stk) : val[stk[i]] \in Values
    BY DEF RefInv, ValuesOK, OnStack
  <1>3. Content \in [1..Len(stk) -> Values]
    BY <1>2 DEF Content
  <1>4. Content \in Seq(Values) /\ Len(Content) = Len(stk)
    BY <1>1, <1>3
  <1> QED
    BY <1>1, <1>4 DEF Content

\* What a thread's operation is, point by point.
LEMMA OpOfPoint ==
  ASSUME NEW t \in Threads
  PROVE  /\ pc[t] = "idle" => OpOf(t) = Abstract!Idle
         /\ pc[t] \in {"pool", "recheck", "alloc"} => OpOf(t) = Abstract!Push(arg[t])
         /\ pc[t] \in {"pushLoad", "pushNext", "pushCas"} =>
              OpOf(t) = Abstract!Push(val[node[t]])
         /\ pc[t] \in {"popLoad", "popSlot", "popVerify", "popNext", "popCas"} =>
              OpOf(t) = Abstract!Pop
         /\ pc[t] \in {"popDrop", "popValue"} => OpOf(t) = Abstract!Got(val[node[t]])
         /\ pc[t] = "retire" => OpOf(t) = Abstract!Got(ret[t])
  BY DEF OpOf, Abstract!Idle, Abstract!Push, Abstract!Pop, Abstract!Got

\* A step does not change what the others do.
LEMMA OthersOp ==
  ASSUME StackInv, NEW t \in Threads, Step(t), NEW u \in Threads, u # t
  PROVE  OpOf(u)' = OpOf(u)
  <1>1. /\ pc'[u] = pc[u] /\ arg'[u] = arg[u] /\ node'[u] = node[u] /\ ret'[u] = ret[u]
        /\ HasNode(u) => val'[node'[u]] = val[node[u]]
    BY OthersKeep
  <1>2. pc[u] \in Points
    BY DEF StackInv, TypeOK
  <1>3. CASE HasNode(u)
    BY <1>1, <1>2, <1>3 DEF OpOf, Points, HasNode
  <1>4. CASE ~HasNode(u)
    BY <1>1, <1>2, <1>4 DEF OpOf, Points, HasNode
  <1> QED
    BY <1>3, <1>4

\* So the abstract step is that of the thread.
LEMMA OpBecomes ==
  ASSUME StackInv, NEW t \in Threads, Step(t), NEW o, OpOf(t)' = o
  PROVE  Op' = [Op EXCEPT ![t] = o] /\ Op[t] = OpOf(t)
  BY OthersOp DEF Op

\* A step that leaves the history alone leaves the content alone.
LEMMA ContentKept ==
  ASSUME RefInv, NEW t \in Threads, Step(t), stk' = stk
  PROVE  Content' = Content
  <1>1. \A i \in 1..Len(stk) : val'[stk[i]] = val[stk[i]]
    BY StackValuesKept DEF RefInv, OnStack
  <1> QED
    BY <1>1 DEF Content

LEMMA RefinementInit == Init => Abstract!Init
  BY DEF Init, Abstract!Init, OpOf, Abstract!Idle

\* A step that leaves the history and the thread's operation alone stutters.
LEMMA Stutter ==
  ASSUME RefInv, NEW t \in Threads, Step(t), stk' = stk, OpOf(t)' = OpOf(t)
  PROVE  UNCHANGED <<Content, Op>>
  BY ContentKept, OthersOp DEF Op, RefInv

\* Every step of the implementation is a step of the abstract stack, or a
\* stutter.
LEMMA RefinementStep ==
  ASSUME RefInv, NEW t \in Threads, Step(t)
  PROVE  Abstract!Next \/ UNCHANGED <<Content, Op>>
  <1>0. StackInv
    BY DEF RefInv
  <1>1. ASSUME NEW o, OpOf(t)' = o
        PROVE  Op' = [Op EXCEPT ![t] = o] /\ Op[t] = OpOf(t)
    BY <1>0, <1>1, OpBecomes
  <1>2. CASE CallPush(t)
    <2>1. PICK v \in Values : arg' = [arg EXCEPT ![t] = v]
      BY <1>2 DEF CallPush
    <2>2. OpOf(t) = Abstract!Idle /\ OpOf(t)' = Abstract!Push(v)
      BY <1>0, <1>2, <2>1 DEF CallPush, OpOf, Abstract!Idle, Abstract!Push, Goto, StackInv, TypeOK
    <2>3. Content' = Content
      BY <1>2, ContentKept DEF CallPush
    <2>4. Abstract!CallPush(t, v)
      BY <1>1, <2>2, <2>3 DEF Abstract!CallPush, Abstract!Become, Op, Content
    <2> QED
      BY <2>4 DEF Abstract!Next
  <1>3. CASE CallPop(t)
    <2>1. OpOf(t) = Abstract!Idle /\ OpOf(t)' = Abstract!Pop
      BY <1>0, <1>3 DEF CallPop, OpOf, Abstract!Idle, Abstract!Pop, Goto, StackInv, TypeOK
    <2>2. Content' = Content
      BY <1>3, ContentKept DEF CallPop
    <2>3. Abstract!CallPop(t)
      BY <1>1, <2>1, <2>2 DEF Abstract!CallPop, Abstract!Become, Op, Content
    <2> QED
      BY <2>3 DEF Abstract!Next
  <1>4. CASE PushCas(t)
    <2>1. PICK v \in Values : v = val[node[t]]
      BY <1>4 DEF PushCas, RefInv, ValuesOK, StackInv, LocalsOK, HasNode
    <2>2. OpOf(t) = Abstract!Push(v) /\ OpOf(t)' = Abstract!Idle
      BY <1>0, <1>4, <2>1 DEF PushCas, OpOf, Abstract!Idle, Abstract!Push, Goto, StackInv, TypeOK
    <2>3. Content' = Append(Content, v)
      <3>1. Len(stk') = Len(stk) + 1 /\ stk'[Len(stk) + 1] = node[t]
            /\ \A i \in 1..Len(stk) : stk'[i] = stk[i]
        BY <1>0, <1>4, PushCasHistory
      <3>2. val' = val
        BY <1>4 DEF PushCas
      <3>3. /\ Content \in Seq(Values) /\ Len(Content) = Len(stk) /\ Len(stk) \in Nat
            /\ \A i \in 1..Len(stk) : Content[i] = val[stk[i]]
        BY ContentIsSeq
      <3>4. Content' = [i \in 1..Len(stk) + 1 |-> val[stk'[i]]]
        BY <3>1, <3>2 DEF Content
      <3>5. \A i \in 1..Len(stk) + 1 : i \in 1..Len(stk) \/ i = Len(stk) + 1
        BY <3>3
      <3>6. \A i \in 1..Len(stk) + 1 : val[stk'[i]] = Append(Content, v)[i]
        BY <2>1, <3>1, <3>3, <3>5
      <3>7. Append(Content, v) = [i \in 1..Len(stk) + 1 |-> Append(Content, v)[i]]
        BY <2>1, <3>3
      <3> QED
        BY <3>4, <3>6, <3>7
    <2>4. Abstract!DoPush(t, v)
      BY <1>1, <2>2, <2>3 DEF Abstract!DoPush, Abstract!Become, Op, Content
    <2> QED
      BY <2>4 DEF Abstract!Next
  <1>5. CASE PopCas(t)
    <2> DEFINE n == Len(stk)
    <2>1. /\ n \in Nat \ {0} /\ Len(stk') = n - 1 /\ expect[t] = stk[n]
          /\ \A i \in 1..n - 1 : stk'[i] = stk[i]
      BY <1>0, <1>5, PopCasHistory
    <2>2. val' = val
      BY <1>5 DEF PopCas
    <2>3. /\ Content \in Seq(Values) /\ Len(Content) = n
          /\ \A i \in 1..n : Content[i] = val[stk[i]]
      BY ContentIsSeq
    <2>4. OpOf(t) = Abstract!Pop /\ OpOf(t)' = Abstract!Got(Content[Len(Content)])
      <3>1. n \in 1..n
        BY <2>1
      <3>2. Content[Len(Content)] = val[expect[t]]
        BY <2>1, <2>3, <3>1
      <3> QED
        BY <1>0, <1>5, <2>2, <3>2 DEF PopCas, OpOf, Abstract!Pop, Abstract!Got, Goto, StackInv, TypeOK
    <2>5. Content # <<>>
      BY <2>1, <2>3
    <2>6. Content' = Abstract!Front(Content)
      <3>1. Content' = [i \in 1..n - 1 |-> val[stk'[i]]]
        BY <2>1, <2>2 DEF Content
      <3>2. \A i \in 1..n - 1 : i \in 1..n /\ val[stk'[i]] = Content[i]
        BY <2>1, <2>3
      <3>3. PICK m \in Nat : m = n - 1 /\ m <= Len(Content)
        <4>1. n - 1 \in Nat /\ n - 1 <= Len(Content)
          BY <2>1, <2>3
        <4> HIDE DEF n
        <4> QED
          BY <4>1
      <3>4. SubSeq(Content, 1, m) = [i \in 1..m |-> Content[i]]
        BY <2>3, <3>3
      <3> QED
        BY <2>3, <3>1, <3>2, <3>3, <3>4 DEF Abstract!Front
    <2>7. Abstract!DoPop(t)
      BY <1>1, <2>4, <2>5, <2>6 DEF Abstract!DoPop, Abstract!Become, Op, Content
    <2> QED
      BY <2>7 DEF Abstract!Next
  <1>6. CASE PopEmpty(t)
    <2>1. OpOf(t) = Abstract!Pop /\ OpOf(t)' = Abstract!Idle
      BY <1>0, <1>6 DEF PopEmpty, OpOf, Abstract!Idle, Abstract!Pop, Goto, StackInv, TypeOK
    <2>2. Content = <<>>
      <3>1. stk = <<>>
        <4>1. stk \in Seq(Nodes) /\ \A i \in 1..Len(stk) : stk[i] # Null
          BY <1>0, StackAssumption DEF StackInv, TypeOK
        <4>2. CASE stk # <<>>
          <5>1. Len(stk) \in 1..Len(stk)
            BY <4>1, <4>2
          <5>2. stk[Len(stk)] = Null
            BY <1>0, <1>6, <4>2 DEF PopEmpty, StackInv, ChainIsStack
          <5> QED
            BY <4>1, <5>1, <5>2
        <4> QED
          BY <4>2
      <3> QED
        BY <3>1, ContentIsSeq
    <2>3. Content' = Content
      BY <1>6, ContentKept DEF PopEmpty
    <2>4. Abstract!DoPopEmpty(t)
      BY <1>1, <2>1, <2>2, <2>3 DEF Abstract!DoPopEmpty, Abstract!Become, Op, Content
    <2> QED
      BY <2>4 DEF Abstract!Next
  <1>7. CASE Reclaim(t) \/ (FoundInHazard(t) /\ pc[t] = "retire")
    <2> DEFINE v == ret[t]
    <2>1. pc[t] = "retire" /\ pc'[t] = "idle" /\ stk' = stk
      BY <1>0, <1>7 DEF Reclaim, FoundInHazard, Goto, StackInv, TypeOK
    <2>2. OpOf(t) = Abstract!Got(v) /\ OpOf(t)' = Abstract!Idle /\ v \in Values
      BY <2>1 DEF OpOf, Abstract!Idle, Abstract!Got, RefInv, ValuesOK
    <2>3. Content' = Content
      BY <2>1, ContentKept
    <2>4. Abstract!Return(t, v)
      BY <1>1, <2>2, <2>3 DEF Abstract!Return, Abstract!Become, Op, Content
    <2> QED
      BY <2>2, <2>4 DEF Abstract!Next
  <1>8. CASE \/ TakeFree(t) \/ Reuse(t)
    <2>1. stk' = stk /\ OpOf(t)' = OpOf(t)
      BY <1>0, <1>8 DEF TakeFree, Reuse, Obtain, Goto, OpOf, StackInv, TypeOK, LocalsOK, HasNode,
         NodeOrNull
    <2> QED
      BY <2>1, Stutter
  <1>9. CASE Recheck(t) \/ (FoundInHazard(t) /\ pc[t] = "recheck")
    <2>1. stk' = stk /\ OpOf(t)' = OpOf(t)
      BY <1>0, <1>9 DEF Recheck, FoundInHazard, Goto, OpOf, StackInv, TypeOK, memVars, poolVars
    <2> QED
      BY <2>1, Stutter
  <1>10. CASE PushLoad(t) \/ PushNext(t) \/ PushRetry(t)
    <2>1. stk' = stk /\ OpOf(t)' = OpOf(t)
      BY <1>0, <1>10 DEF PushLoad, PushNext, PushRetry, Goto, OpOf, StackInv, TypeOK, memVars
    <2> QED
      BY <2>1, Stutter
  <1>11. CASE \/ PopLoad(t) \/ PopSlot(t) \/ PopReload(t) \/ PopVerified(t)
              \/ PopNext(t) \/ PopRetry(t)
    <2>1. stk' = stk /\ OpOf(t)' = OpOf(t)
      BY <1>0, <1>11 DEF PopLoad, PopSlot, PopReload, PopVerified, PopNext, PopRetry,
         Goto, OpOf, StackInv, TypeOK, memVars
    <2> QED
      BY <2>1, Stutter
  <1>12. CASE PopDrop(t) \/ PopValue(t) \/ ScanSlot(t)
    <2>1. stk' = stk /\ OpOf(t)' = OpOf(t)
      BY <1>0, <1>12 DEF PopDrop, PopValue, ScanSlot, Scanning, Goto, OpOf, StackInv, TypeOK, memVars
    <2> QED
      BY <2>1, Stutter
  <1>13. FoundInHazard(t) => pc[t] \in {"retire", "recheck"}
    BY DEF FoundInHazard, Scanning
  <1> QED
    BY <1>2, <1>3, <1>4, <1>5, <1>6, <1>7, <1>8, <1>9, <1>10, <1>11, <1>12, <1>13 DEF Step

\* The stack implements AtomicStack: every push and pop takes effect at one
\* moment between its call and its return.
THEOREM StackIsLinearizable == Spec => IsAtomicStack
  <1>1. RefInv /\ [Next]_vars => [Abstract!Next]_<<Content, Op>>
    <2>1. ASSUME RefInv, NEW t \in Threads, Step(t)
          PROVE  [Abstract!Next]_<<Content, Op>>
      BY <2>1, RefinementStep
    <2>2. ASSUME UNCHANGED vars
          PROVE  UNCHANGED <<Content, Op>>
      BY <2>2 DEF vars, memVars, poolVars, Content, Op, OpOf
    <2> QED
      BY <2>1, <2>2 DEF Next
  <1>2. RefInv /\ [Next]_vars => [Abstract!Next]_Abstract!vars
    BY <1>1 DEF Abstract!vars, Content, Op
  <1> QED
    BY RefInvInit, RefInvStep, RefinementInit, <1>2, PTL
       DEF Spec, IsAtomicStack, Abstract!Spec
=============================================================================
