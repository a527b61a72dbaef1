-------------------------- MODULE HazardChain_proofs --------------------------
(***************************************************************************)
(* Proofs about HazardChain, for every number of threads, scanners, groups *)
(* and lives.                                                              *)
(***************************************************************************)
EXTENDS HazardChain, FiniteSetTheorems, TLAPS

-----------------------------------------------------------------------------
(* The inductive invariant behind the type invariant.                      *)

\* Where a thread is in its life determines what its locals hold.
Owns(t) == pc[t] \notin {"idle", "occupy", "create"}
LocalsOK ==
  \A t \in Threads :
    /\ Owns(t) <=> own[t] # Null
    /\ pc[t] = "occupy" => expect[t] # Null
    /\ pc[t] \in {"acquire", "verify", "read", "unlink"} => focus[t] # Null
    /\ pc[t] \in {"verify", "read", "unlink"} => accCur[t] = focus[t]
    /\ accPre[t] = (IF pre[t] = Top THEN Null ELSE pre[t])

TypeInv == TypeOK /\ LocalsOK /\ AccessersCounted

-----------------------------------------------------------------------------
\* What an accesser on a counts for g.
Is(a, g) == IF a = g THEN 1 ELSE 0

Updated(f, t, v) == [f EXCEPT ![t] = v]

\* Changing one value of a function changes the number of arguments that are
\* mapped to g as the two values say.
LEMMA CountUpdate ==
  ASSUME NEW f \in [Threads -> GroupsOrNull], NEW t \in Threads,
         NEW v \in GroupsOrNull, NEW g \in Groups
  PROVE  /\ Holders(f, g) \in Nat
         /\ Holders(Updated(f, t, v), g) \in Nat
         /\ Holders(Updated(f, t, v), g) + Is(f[t], g) = Holders(f, g) + Is(v, g)
  <1> USE ChainAssumption DEF Holders, Updated
  <1> DEFINE h == Updated(f, t, v)
             A == {u \in Threads : f[u] = g}
             B == {u \in Threads : h[u] = g}
  <1>1. IsFiniteSet(A) /\ IsFiniteSet(B)
    BY FS_Subset
  <1>2. Cardinality(A) \in Nat /\ Cardinality(B) \in Nat
    BY <1>1, FS_CardinalityType
  <1>3. CASE f[t] = g /\ v = g
    <2>1. A = B
      BY <1>3
    <2> QED
      BY <1>2, <1>3, <2>1 DEF Is
  <1>4. CASE f[t] = g /\ v # g
    <2>1. B = A \ {t} /\ t \in A
      BY <1>4
    <2>2. Cardinality(A \ {t}) = IF t \in A THEN Cardinality(A) - 1 ELSE Cardinality(A)
      <3> HIDE DEF A
      <3> QED
        BY <1>1, FS_RemoveElement, Zenon
    <2>3. Cardinality(B) = Cardinality(A) - 1
      <3> HIDE DEF A, B
      <3> QED
        BY <2>1, <2>2
    <2> QED
      BY <1>2, <1>4, <2>3 DEF Is
  <1>5. CASE f[t] # g /\ v = g
    <2>1. B = A \cup {t} /\ t \notin A
      BY <1>5
    <2>2. Cardinality(B) = Cardinality(A) + 1
      BY <1>1, <2>1, FS_AddElement
    <2> QED
      BY <1>2, <1>5, <2>2 DEF Is
  <1>6. CASE f[t] # g /\ v # g
    <2>1. A = B
      BY <1>6
    <2> QED
      BY <1>2, <1>6, <2>1 DEF Is
  <1> QED
    BY <1>3, <1>4, <1>5, <1>6

-----------------------------------------------------------------------------
(* What constructions, move assignments and destructions of accessers come *)
(* to: the counters follow the accessers that a twin accessor keeps.       *)

\* t keeps accessers on p and c instead of those it had.
Hold(t, p, c) ==
  /\ cnt' = [g \in Groups |-> (cnt[g] + Is(p, g) + Is(c, g))
                                - (Is(accPre[t], g) + Is(accCur[t], g))]
  /\ accPre' = [accPre EXCEPT ![t] = p]
  /\ accCur' = [accCur EXCEPT ![t] = c]

\* A function is what its values are, after an update too.
LEMMA UpdateTabulated ==
  ASSUME NEW S, NEW c, c = [x \in S |-> c[x]], NEW y, NEW v
  PROVE  [c EXCEPT ![y] = v] = [x \in S |-> [c EXCEPT ![y] = v][x]]
  OBVIOUS

\* One accesser more, one accesser less.
LEMMA AcquiredCounts ==
  ASSUME NEW c \in [Groups -> Int], NEW f \in Groups
  PROVE  Acquired(c, f) = [g \in Groups |-> c[g] + Is(f, g)]
  <1>1. ASSUME NEW g \in Groups PROVE Acquired(c, f)[g] = c[g] + Is(f, g)
    BY DEF Acquired, Is
  <1>2. Acquired(c, f) = [g \in Groups |-> Acquired(c, f)[g]]
    <2>1. c = [g \in Groups |-> c[g]]
      OBVIOUS
    <2> QED
      BY <2>1, UpdateTabulated DEF Acquired
  <1> QED
    BY <1>1, <1>2

LEMMA DroppedCounts ==
  ASSUME NEW c \in [Groups -> Int], NEW a \in GroupsOrNull
  PROVE  Dropped(c, a) = [g \in Groups |-> c[g] - Is(a, g)]
  <1>1. ASSUME NEW g \in Groups PROVE Dropped(c, a)[g] = c[g] - Is(a, g)
    BY ChainAssumption DEF Dropped, Is, GroupsOrNull
  <1>2. Dropped(c, a) = [g \in Groups |-> Dropped(c, a)[g]]
    <2>1. CASE a = Null
      BY <2>1 DEF Dropped
    <2>2. CASE a # Null
      <3>1. c = [g \in Groups |-> c[g]]
        OBVIOUS
      <3> QED
        BY <2>2, <3>1, UpdateTabulated DEF Dropped
    <2> QED
      BY <2>1, <2>2
  <1> QED
    BY <1>1, <1>2

\* A temporary accesser on the focus, move-assigned to writer_cur_, whatever
\* that was on, the focus included, and destroyed.
LEMMA AcquireHolds ==
  ASSUME TypeOK, NEW t \in Threads, focus[t] \in Groups, SetupAcquire(t)
  PROVE  Hold(t, accPre[t], focus[t])
  <1> DEFINE f  == focus[t]
             a  == accCur[t]
             c1 == Acquired(cnt, f)
             m  == MoveAssigned(c1, a, f)
  <1>1. /\ cnt \in [Groups -> Int] /\ f \in GroupsOrNull /\ a \in GroupsOrNull
        /\ accPre \in [Threads -> GroupsOrNull] /\ accCur \in [Threads -> GroupsOrNull]
    BY DEF TypeOK, GroupsOrNull
  <1>2. cnt' = Dropped(m.cnt, m.src) /\ accCur' = [accCur EXCEPT ![t] = m.dst] /\ accPre' = accPre
    BY DEF SetupAcquire
  <1>3. c1 = [g \in Groups |-> cnt[g] + Is(f, g)] /\ c1 \in [Groups -> Int]
    <2>1. c1 = [g \in Groups |-> cnt[g] + Is(f, g)]
      BY <1>1, AcquiredCounts
    <2> QED
      BY <1>1, <2>1 DEF Is
  <1> HIDE DEF f, a, c1
  <1>4. m.dst = f
    BY DEF MoveAssigned
  <1>5. cnt' = Dropped(c1, a)
    <2>1. CASE a = f
      BY <1>2, <2>1 DEF MoveAssigned
    <2>2. CASE a # f
      BY <1>2, <2>2 DEF MoveAssigned, Dropped
    <2> QED
      BY <2>1, <2>2
  <1>6. cnt' = [g \in Groups |-> c1[g] - Is(a, g)]
    BY <1>1, <1>3, <1>5, DroppedCounts
  <1>7. cnt' = [g \in Groups |-> (cnt[g] + Is(accPre[t], g) + Is(f, g))
                                   - (Is(accPre[t], g) + Is(a, g))]
    <2>1. ASSUME NEW g \in Groups
          PROVE  c1[g] - Is(a, g) = (cnt[g] + Is(accPre[t], g) + Is(f, g))
                                      - (Is(accPre[t], g) + Is(a, g))
      BY <1>1, <1>3 DEF Is
    <2> QED
      BY <1>6, <2>1
  <1>8. accPre' = [accPre EXCEPT ![t] = accPre[t]]
    BY <1>1, <1>2
  <1>9. accCur' = [accCur EXCEPT ![t] = f]
    BY <1>2, <1>4
  <1> QED
    BY <1>7, <1>8, <1>9 DEF Hold, f, a

\* shift(): writer_cur_ is move-assigned to writer_pre_.  It is empty then,
\* unless both were on one group.
LEMMA ShiftHolds ==
  ASSUME TypeOK, NEW t \in Threads, focus[t] \in Groups, accCur[t] = focus[t], Passes(t)
  PROVE  \E c \in GroupsOrNull :
           Hold(t, focus[t], c) /\ pre' = [pre EXCEPT ![t] = focus[t]]
  <1> DEFINE f == focus[t]
             a == accPre[t]
             m == MoveAssigned(cnt, a, f)
  <1>1. cnt \in [Groups -> Int] /\ f \in GroupsOrNull /\ a \in GroupsOrNull /\ Null \in GroupsOrNull
    BY DEF TypeOK, GroupsOrNull
  <1>2. /\ cnt' = m.cnt
        /\ accPre' = [accPre EXCEPT ![t] = m.dst]
        /\ accCur' = [accCur EXCEPT ![t] = m.src]
        /\ pre' = [pre EXCEPT ![t] = m.dst]
    BY DEF Passes
  <1>3. accCur[t] = f /\ f \in Groups
    OBVIOUS
  <1> HIDE DEF f, a
  <1>4. m.dst = f
    BY DEF MoveAssigned
  <1>5. cnt' = [g \in Groups |-> (cnt[g] + Is(f, g) + Is(m.src, g)) - (Is(a, g) + Is(f, g))]
    <2>1. CASE a = f
      <3>1. m.cnt = cnt /\ m.src = f
        BY <2>1 DEF MoveAssigned
      <3>2. ASSUME NEW g \in Groups
            PROVE  cnt[g] = (cnt[g] + Is(f, g) + Is(m.src, g)) - (Is(a, g) + Is(f, g))
        BY <1>1, <2>1, <3>1 DEF Is
      <3>3. cnt = [g \in Groups |-> cnt[g]]
        BY <1>1
      <3> QED
        BY <1>2, <3>1, <3>2, <3>3
    <2>2. CASE a # f
      <3>1. m.cnt = Dropped(cnt, a) /\ m.src = Null
        BY <2>2 DEF MoveAssigned
      <3>2. cnt' = [g \in Groups |-> cnt[g] - Is(a, g)]
        BY <1>1, <1>2, <3>1, DroppedCounts
      <3>3. ASSUME NEW g \in Groups
            PROVE  cnt[g] - Is(a, g) = (cnt[g] + Is(f, g) + Is(m.src, g)) - (Is(a, g) + Is(f, g))
        BY <1>1, <3>1, ChainAssumption DEF Is
      <3> QED
        BY <3>2, <3>3
    <2> QED
      BY <2>1, <2>2
  <1>6. m.src \in GroupsOrNull
    BY <1>1 DEF MoveAssigned
  <1>7. Hold(t, f, m.src) /\ pre' = [pre EXCEPT ![t] = f]
    BY <1>2, <1>3, <1>4, <1>5 DEF Hold, a
  <1> QED
    BY <1>6, <1>7 DEF f

\* The twin accessor is destroyed, and with it writer_cur_ and writer_pre_.
LEMMA RestartHolds ==
  ASSUME TypeOK, NEW t \in Threads, Restart(t)
  PROVE  Hold(t, Null, Null)
  <1> DEFINE a == accCur[t]
             b == accPre[t]
             d == Dropped(cnt, a)
  <1>1. cnt \in [Groups -> Int] /\ a \in GroupsOrNull /\ b \in GroupsOrNull
    BY DEF TypeOK, GroupsOrNull
  <1>2. cnt' = Dropped(d, b)
    BY DEF Restart
  <1> HIDE DEF a, b
  <1>3. d = [g \in Groups |-> cnt[g] - Is(a, g)]
    BY <1>1, DroppedCounts
  <1>4. d \in [Groups -> Int]
    BY <1>1, <1>3 DEF Is
  <1> HIDE DEF d
  <1>5. cnt' = [g \in Groups |-> d[g] - Is(b, g)]
    BY <1>1, <1>2, <1>4, DroppedCounts
  <1>6. ASSUME NEW g \in Groups
        PROVE  d[g] - Is(b, g) = (cnt[g] + Is(Null, g) + Is(Null, g)) - (Is(b, g) + Is(a, g))
    BY <1>1, <1>3, ChainAssumption DEF Is
  <1>7. cnt' = [g \in Groups |-> (cnt[g] + Is(Null, g) + Is(Null, g)) - (Is(b, g) + Is(a, g))]
    BY <1>5, <1>6
  <1> QED
    BY <1>7 DEF Hold, Restart, a, b

\* Exchanging the accessers of one twin accessor keeps the counters right.
LEMMA HoldCounts ==
  ASSUME TypeOK, AccessersCounted, NEW t \in Threads,
         NEW p \in GroupsOrNull, NEW c \in GroupsOrNull, Hold(t, p, c)
  PROVE  /\ AccessersCounted'
         /\ cnt' \in [Groups -> Nat]
         /\ accPre' \in [Threads -> GroupsOrNull]
         /\ accCur' \in [Threads -> GroupsOrNull]
  <1> USE ChainAssumption
  <1>1. ASSUME NEW g \in Groups
        PROVE  /\ cnt'[g] = Holders(accPre', g) + Holders(accCur', g)
               /\ cnt'[g] \in Nat
    <2> DEFINE P  == Holders(accPre, g)
               P1 == Holders(accPre', g)
               C  == Holders(accCur, g)
               C1 == Holders(accCur', g)
    <2>1. P \in Nat /\ P1 \in Nat /\ P1 + Is(accPre[t], g) = P + Is(p, g)
      <3>1. accPre \in [Threads -> GroupsOrNull] /\ accPre' = Updated(accPre, t, p)
        BY DEF TypeOK, Hold, Updated
      <3> QED
        BY <3>1, CountUpdate
    <2>2. C \in Nat /\ C1 \in Nat /\ C1 + Is(accCur[t], g) = C + Is(c, g)
      <3>1. accCur \in [Threads -> GroupsOrNull] /\ accCur' = Updated(accCur, t, c)
        BY DEF TypeOK, Hold, Updated
      <3> QED
        BY <3>1, CountUpdate
    <2>3. cnt[g] = P + C
      BY DEF AccessersCounted
    <2>4. cnt'[g] = (cnt[g] + Is(p, g) + Is(c, g)) - (Is(accPre[t], g) + Is(accCur[t], g))
      BY DEF Hold
    <2> HIDE DEF P, P1, C, C1
    <2>5. cnt'[g] = P1 + C1
      BY <2>1, <2>2, <2>3, <2>4 DEF Is
    <2> QED
      BY <2>1, <2>2, <2>5 DEF P1, C1
  <1>2. AccessersCounted'
    BY <1>1 DEF AccessersCounted
  <1>3. cnt' \in [Groups -> Nat]
    BY <1>1 DEF Hold
  <1> QED
    BY <1>2, <1>3 DEF Hold, TypeOK

-----------------------------------------------------------------------------
LEMMA TypeInvInit == Init => TypeInv
  <1> SUFFICES ASSUME Init PROVE TypeInv
    OBVIOUS
  <1> USE ChainAssumption DEF Init
  <1>1. TypeOK
    BY DEF TypeOK, GroupsOrNull, Links, Points
  <1>2. LocalsOK
    BY DEF LocalsOK, Owns
  <1>3. AccessersCounted
    <2> SUFFICES ASSUME NEW g \in Groups
                 PROVE  cnt[g] = Holders(accPre, g) + Holders(accCur, g)
      BY DEF AccessersCounted
    <2>1. {t \in Threads : accPre[t] = g} = {} /\ {t \in Threads : accCur[t] = g} = {}
      OBVIOUS
    <2>2. Holders(accPre, g) = Cardinality({}) /\ Holders(accCur, g) = Cardinality({})
      BY <2>1 DEF Holders
    <2> QED
      BY <2>2, FS_EmptySet
  <1> QED
    BY <1>1, <1>2, <1>3 DEF TypeInv

\* The counters and the accessers stay as they are.
LEMMA CountsUnchanged ==
  ASSUME AccessersCounted, UNCHANGED <<cnt, accPre, accCur>>
  PROVE  AccessersCounted'
  BY DEF AccessersCounted, Holders

LEMMA TypeInvStep == TypeInv /\ [Next]_vars => TypeInv'
  <1> SUFFICES ASSUME TypeInv, [Next]_vars PROVE TypeInv'
    OBVIOUS
  <1> USE ChainAssumption DEF TypeInv, Goto
  <1>1. ASSUME NEW t \in Threads, GetOwnership(t) PROVE TypeInv'
    <2> USE <1>1 DEF GetOwnership
    <2>1. TypeOK'
      BY DEF TypeOK, LocalsOK, Owns, GroupsOrNull, Links, Points, regVars, linkVars, walkVars, scanVars
    <2>2. LocalsOK'
      BY DEF TypeOK, LocalsOK, Owns, GroupsOrNull, Points, walkVars
    <2>3. AccessersCounted'
      BY CountsUnchanged DEF walkVars
    <2> QED
      BY <2>1, <2>2, <2>3
  <1>2. ASSUME NEW t \in Threads, TryOccupy(t) PROVE TypeInv'
    <2> USE <1>2 DEF TryOccupy
    <2>1. TypeOK'
      BY DEF TypeOK, LocalsOK, Owns, GroupsOrNull, Links, Points, regVars, linkVars, walkVars, scanVars
    <2>2. LocalsOK'
      BY DEF TypeOK, LocalsOK, Owns, GroupsOrNull, Points, walkVars
    <2>3. AccessersCounted'
      BY CountsUnchanged DEF walkVars
    <2> QED
      BY <2>1, <2>2, <2>3
  <1>3. ASSUME NEW t \in Threads, OccupyNext(t) PROVE TypeInv'
    <2> USE <1>3 DEF OccupyNext
    <2>1. TypeOK'
      BY DEF TypeOK, LocalsOK, Owns, GroupsOrNull, Links, Points, regVars, linkVars, walkVars, scanVars
    <2>2. LocalsOK'
      BY DEF TypeOK, LocalsOK, Owns, GroupsOrNull, Points, walkVars
    <2>3. AccessersCounted'
      BY CountsUnchanged DEF walkVars
    <2> QED
      BY <2>1, <2>2, <2>3
  <1>4. ASSUME NEW t \in Threads, NewGroup(t) PROVE TypeInv'
    <2> USE <1>4 DEF NewGroup
    <2>1. TypeOK'
      BY DEF TypeOK, LocalsOK, Owns, GroupsOrNull, Links, Points, regVars, linkVars, walkVars, scanVars
    <2>2. LocalsOK'
      BY DEF TypeOK, LocalsOK, Owns, GroupsOrNull, Points, walkVars
    <2>3. AccessersCounted'
      BY CountsUnchanged DEF walkVars
    <2> QED
      BY <2>1, <2>2, <2>3
  <1>5. ASSUME NEW t \in Threads, RegisterStore(t) PROVE TypeInv'
    <2> USE <1>5 DEF RegisterStore
    <2>1. TypeOK'
      BY DEF TypeOK, LocalsOK, Owns, GroupsOrNull, Links, Points, regVars, linkVars, walkVars, scanVars
    <2>2. LocalsOK'
      BY DEF TypeOK, LocalsOK, Owns, GroupsOrNull, Points, walkVars
    <2>3. AccessersCounted'
      BY CountsUnchanged DEF walkVars
    <2> QED
      BY <2>1, <2>2, <2>3
  <1>6. ASSUME NEW t \in Threads, RegisterCas(t) PROVE TypeInv'
    <2> USE <1>6 DEF RegisterCas
    <2>1. TypeOK'
      BY DEF TypeOK, LocalsOK, Owns, GroupsOrNull, Links, Points, regVars, linkVars, walkVars, scanVars
    <2>2. LocalsOK'
      BY DEF TypeOK, LocalsOK, Owns, GroupsOrNull, Points, walkVars
    <2>3. AccessersCounted'
      BY CountsUnchanged DEF walkVars
    <2> QED
      BY <2>1, <2>2, <2>3
  <1>7. ASSUME NEW t \in Threads, RegisterRetry(t) PROVE TypeInv'
    <2> USE <1>7 DEF RegisterRetry
    <2>1. TypeOK'
      BY DEF TypeOK, LocalsOK, Owns, GroupsOrNull, Links, Points, regVars, linkVars, walkVars, scanVars
    <2>2. LocalsOK'
      BY DEF TypeOK, LocalsOK, Owns, GroupsOrNull, Points, walkVars
    <2>3. AccessersCounted'
      BY CountsUnchanged DEF walkVars
    <2> QED
      BY <2>1, <2>2, <2>3
  <1>8. ASSUME NEW t \in Threads, PushLoad(t) PROVE TypeInv'
    <2> USE <1>8 DEF PushLoad
    <2>1. TypeOK'
      BY DEF TypeOK, LocalsOK, Owns, GroupsOrNull, Links, Points, regVars, linkVars, walkVars, scanVars
    <2>2. LocalsOK'
      BY DEF TypeOK, LocalsOK, Owns, GroupsOrNull, Points, walkVars
    <2>3. AccessersCounted'
      BY CountsUnchanged DEF walkVars
    <2> QED
      BY <2>1, <2>2, <2>3
  <1>9. ASSUME NEW t \in Threads, PushStore(t) PROVE TypeInv'
    <2> USE <1>9 DEF PushStore
    <2>1. TypeOK'
      BY DEF TypeOK, LocalsOK, Owns, GroupsOrNull, Links, Points, regVars, linkVars, walkVars, scanVars
    <2>2. LocalsOK'
      BY DEF TypeOK, LocalsOK, Owns, GroupsOrNull, Points, walkVars
    <2>3. AccessersCounted'
      BY CountsUnchanged DEF walkVars
    <2> QED
      BY <2>1, <2>2, <2>3
  <1>10. ASSUME NEW t \in Threads, PushCas(t) PROVE TypeInv'
    <2> USE <1>10 DEF PushCas
    <2>1. TypeOK'
      BY DEF TypeOK, LocalsOK, Owns, GroupsOrNull, Links, Points, regVars, linkVars, walkVars, scanVars
    <2>2. LocalsOK'
      BY DEF TypeOK, LocalsOK, Owns, GroupsOrNull, Points, walkVars
    <2>3. AccessersCounted'
      BY CountsUnchanged DEF walkVars
    <2> QED
      BY <2>1, <2>2, <2>3
  <1>11. ASSUME NEW t \in Threads, PushRetry(t) PROVE TypeInv'
    <2> USE <1>11 DEF PushRetry
    <2>1. TypeOK'
      BY DEF TypeOK, LocalsOK, Owns, GroupsOrNull, Links, Points, regVars, linkVars, walkVars, scanVars
    <2>2. LocalsOK'
      BY DEF TypeOK, LocalsOK, Owns, GroupsOrNull, Points, walkVars
    <2>3. AccessersCounted'
      BY CountsUnchanged DEF walkVars
    <2> QED
      BY <2>1, <2>2, <2>3
  <1>12. ASSUME NEW t \in Threads, SeesMark(t) PROVE TypeInv'
    <2> USE <1>12 DEF SeesMark
    <2>1. TypeOK'
      BY DEF TypeOK, LocalsOK, Owns, GroupsOrNull, Links, Points, regVars, linkVars, walkVars, scanVars
    <2>2. LocalsOK'
      BY DEF TypeOK, LocalsOK, Owns, GroupsOrNull, Points, walkVars
    <2>3. AccessersCounted'
      BY CountsUnchanged DEF walkVars
    <2> QED
      BY <2>1, <2>2, <2>3
  <1>13. ASSUME NEW t \in Threads, Unlink(t) PROVE TypeInv'
    <2> USE <1>13 DEF Unlink
    <2>1. TypeOK'
      <3>1. nxt[t] \in GroupsOrNull /\ [ptr |-> nxt[t], mark |-> FALSE] \in Links
        BY DEF TypeOK, Links
      <3>2. next' \in [Groups -> Links] /\ top' \in GroupsOrNull
        <4>1. CASE pre[t] = Top
          BY <3>1, <4>1 DEF TypeOK, linkVars
        <4>2. CASE pre[t] # Top
          <5>1. pre[t] \in Groups
            BY <4>2 DEF TypeOK
          <5>2. next' = [next EXCEPT ![pre[t]] = [ptr |-> nxt[t], mark |-> FALSE]] /\ top' = top
            BY <4>2
          <5> HIDE <1>13 DEF Unlink
          <5> QED
            BY <3>1, <5>1, <5>2 DEF TypeOK
        <4> QED
          BY <4>1, <4>2
      <3> QED
        BY <3>2 DEF TypeOK, Points, GroupsOrNull, regVars, scanVars
    <2>2. LocalsOK'
      BY DEF TypeOK, LocalsOK, Owns, GroupsOrNull, Points, walkVars
    <2>3. AccessersCounted'
      BY CountsUnchanged DEF walkVars
    <2> QED
      BY <2>1, <2>2, <2>3
  <1>14. ASSUME NEW t \in Threads, ThreadExit(t) PROVE TypeInv'
    <2> USE <1>14 DEF ThreadExit
    <2>1. TypeOK'
      BY DEF TypeOK, LocalsOK, Owns, GroupsOrNull, Links, Points, regVars, linkVars, walkVars, scanVars
    <2>2. LocalsOK'
      BY DEF TypeOK, LocalsOK, Owns, GroupsOrNull, Points, walkVars
    <2>3. AccessersCounted'
      BY CountsUnchanged DEF walkVars
    <2> QED
      BY <2>1, <2>2, <2>3
  <1>15. ASSUME NEW t \in Threads, SetDelMark(t) PROVE TypeInv'
    <2> USE <1>15 DEF SetDelMark
    <2>1. TypeOK'
      <3>1. own[t] \in Groups
        BY DEF TypeOK, LocalsOK, Owns, GroupsOrNull
      <3>2. [ptr |-> next[own[t]].ptr, mark |-> TRUE] \in Links
        BY <3>1 DEF TypeOK, Links
      <3>3. next' \in [Groups -> Links]
        BY <3>1, <3>2 DEF TypeOK
      <3> QED
        BY <3>3 DEF TypeOK, Points, GroupsOrNull, regVars, scanVars
    <2>2. LocalsOK'
      BY DEF TypeOK, LocalsOK, Owns, GroupsOrNull, Points, walkVars
    <2>3. AccessersCounted'
      BY CountsUnchanged DEF walkVars
    <2> QED
      BY <2>1, <2>2, <2>3
  <1>16. ASSUME NEW t \in Threads, Release(t) PROVE TypeInv'
    <2> USE <1>16 DEF Release
    <2>1. TypeOK'
      BY DEF TypeOK, LocalsOK, Owns, GroupsOrNull, Links, Points, regVars, linkVars, walkVars, scanVars
    <2>2. LocalsOK'
      BY DEF TypeOK, LocalsOK, Owns, GroupsOrNull, Points, walkVars
    <2>3. AccessersCounted'
      BY CountsUnchanged DEF walkVars
    <2> QED
      BY <2>1, <2>2, <2>3
  <1>17. ASSUME NEW t \in Threads, SetupAcquire(t) PROVE TypeInv'
    <2>0. focus[t] \in Groups /\ accPre[t] \in GroupsOrNull /\ TypeOK
      BY <1>17 DEF SetupAcquire, TypeInv, TypeOK, LocalsOK, GroupsOrNull
    <2>1. Hold(t, accPre[t], focus[t])
      BY <1>17, <2>0, AcquireHolds
    <2>2. AccessersCounted' /\ cnt' \in [Groups -> Nat]
          /\ accPre' \in [Threads -> GroupsOrNull] /\ accCur' \in [Threads -> GroupsOrNull]
      BY <2>0, <2>1, HoldCounts DEF TypeInv, GroupsOrNull
    <2>3. TypeOK'
      BY <1>17, <2>2 DEF SetupAcquire, TypeInv, TypeOK, Points, Goto, regVars, linkVars, scanVars
    <2>4. LocalsOK'
      <3>1. accCur' = [accCur EXCEPT ![t] = focus[t]] /\ accCur \in [Threads -> GroupsOrNull]
        BY <2>0, <2>1 DEF Hold, TypeOK
      <3>2. /\ pc[t] = "acquire" /\ pc' = [pc EXCEPT ![t] = "verify"]
            /\ UNCHANGED <<own, expect, focus, accPre, pre>>
        BY <1>17 DEF SetupAcquire, Goto
      <3> QED
        BY <2>0, <3>1, <3>2 DEF TypeInv, TypeOK, LocalsOK, Owns, GroupsOrNull, Points
    <2> QED
      BY <2>2, <2>3, <2>4 DEF TypeInv
  <1>18. ASSUME NEW t \in Threads, Finds(t) PROVE TypeInv'
    <2> USE <1>18 DEF Finds
    <2>1. Hold(t, Null, Null)
      BY RestartHolds
    <2>2. AccessersCounted' /\ cnt' \in [Groups -> Nat]
          /\ accPre' \in [Threads -> GroupsOrNull] /\ accCur' \in [Threads -> GroupsOrNull]
      BY <2>1, HoldCounts DEF TypeOK, GroupsOrNull
    <2>3. TypeOK'
      BY <2>2 DEF TypeOK, LocalsOK, Owns, GroupsOrNull, Links, Points, Restart, regVars, linkVars, scanVars
    <2>4. LocalsOK'
      BY DEF TypeOK, LocalsOK, Owns, GroupsOrNull, Points, Hold, Restart
    <2> QED
      BY <2>2, <2>3, <2>4
  <1>19. ASSUME NEW t \in Threads, Passes(t) PROVE TypeInv'
    <2>0. focus[t] \in Groups /\ accCur[t] = focus[t] /\ TypeOK
      BY <1>19 DEF Passes, TypeInv, TypeOK, LocalsOK, GroupsOrNull
    <2>1. PICK c \in GroupsOrNull : Hold(t, focus[t], c) /\ pre' = [pre EXCEPT ![t] = focus[t]]
      BY <1>19, <2>0, ShiftHolds
    <2>2. AccessersCounted' /\ cnt' \in [Groups -> Nat]
          /\ accPre' \in [Threads -> GroupsOrNull] /\ accCur' \in [Threads -> GroupsOrNull]
      BY <2>0, <2>1, HoldCounts DEF TypeInv, GroupsOrNull
    <2>3. TypeOK'
      BY <1>19, <2>0, <2>1, <2>2 DEF Passes, TypeInv, TypeOK, Points, Goto, regVars, linkVars, scanVars
    <2>4. LocalsOK'
      <3>1. /\ accPre' = [accPre EXCEPT ![t] = focus[t]] /\ accPre \in [Threads -> GroupsOrNull]
            /\ accCur' = [accCur EXCEPT ![t] = c]
        BY <2>0, <2>1 DEF Hold, TypeOK
      <3>2. /\ pc[t] = "read" /\ pc' = [pc EXCEPT ![t] = "load"]
            /\ UNCHANGED <<own, expect, focus>>
        BY <1>19 DEF Passes, Goto
      <3> QED
        BY <2>0, <2>1, <3>1, <3>2, ChainAssumption DEF TypeInv, TypeOK, LocalsOK, Owns, GroupsOrNull, Points
    <2> QED
      BY <2>2, <2>3, <2>4 DEF TypeInv
  <1>20. ASSUME NEW t \in Threads, UnlinkFails(t) PROVE TypeInv'
    <2> USE <1>20 DEF UnlinkFails
    <2>1. Hold(t, Null, Null)
      BY RestartHolds
    <2>2. AccessersCounted' /\ cnt' \in [Groups -> Nat]
          /\ accPre' \in [Threads -> GroupsOrNull] /\ accCur' \in [Threads -> GroupsOrNull]
      BY <2>1, HoldCounts DEF TypeOK, GroupsOrNull
    <2>3. TypeOK'
      BY <2>2 DEF TypeOK, LocalsOK, Owns, GroupsOrNull, Links, Points, Restart, regVars, linkVars, scanVars
    <2>4. LocalsOK'
      BY DEF TypeOK, LocalsOK, Owns, GroupsOrNull, Points, Hold, Restart
    <2> QED
      BY <2>2, <2>3, <2>4
  <1>21. ASSUME NEW t \in Threads, SetupLoad(t) PROVE TypeInv'
    <2> USE <1>21 DEF SetupLoad
    <2>1. CASE WalkEnd(t)
      <3>1. Hold(t, Null, Null)
        BY <2>1, RestartHolds DEF WalkEnd
      <3>2. AccessersCounted' /\ cnt' \in [Groups -> Nat]
            /\ accPre' \in [Threads -> GroupsOrNull] /\ accCur' \in [Threads -> GroupsOrNull]
        BY <3>1, HoldCounts DEF TypeOK, GroupsOrNull
      <3>3. TypeOK'
        BY <2>1, <3>2 DEF TypeOK, GroupsOrNull, Links, Points, WalkEnd, Restart, regVars, linkVars, scanVars
      <3>4. LocalsOK'
        BY <2>1 DEF TypeOK, LocalsOK, Owns, GroupsOrNull, Points, WalkEnd, Hold, Restart
      <3> QED
        BY <3>2, <3>3, <3>4
    <2>2. CASE ~WalkEnd(t)
      <3>1. UNCHANGED <<pre, accPre, accCur, cnt>>
        BY <2>2
      <3>2. TypeOK'
        <4>1. PreLink(t).ptr \in GroupsOrNull
          BY DEF TypeOK, PreLink, Links
        <4>2. focus' \in [Threads -> GroupsOrNull] /\ pc' \in [Threads -> Points]
          BY <2>2, <4>1 DEF TypeOK, Points, Goto
        <4> QED
          BY <3>1, <4>2 DEF TypeOK, regVars, linkVars, scanVars
      <3>3. LocalsOK'
        BY <2>2, <3>1 DEF TypeOK, LocalsOK, Owns, PreLink, GroupsOrNull, Links, Points
      <3> QED
        BY <3>1, <3>2, <3>3, CountsUnchanged
    <2> QED
      BY <2>1, <2>2
  <1>22. ASSUME NEW t \in Threads, SetupVerify(t) PROVE TypeInv'
    <2> USE <1>22 DEF SetupVerify
    <2>1. CASE WalkEnd(t)
      <3>1. Hold(t, Null, Null)
        BY <2>1, RestartHolds DEF WalkEnd
      <3>2. AccessersCounted' /\ cnt' \in [Groups -> Nat]
            /\ accPre' \in [Threads -> GroupsOrNull] /\ accCur' \in [Threads -> GroupsOrNull]
        BY <3>1, HoldCounts DEF TypeOK, GroupsOrNull
      <3>3. TypeOK'
        BY <2>1, <3>2 DEF TypeOK, GroupsOrNull, Links, Points, WalkEnd, Restart, regVars, linkVars, scanVars
      <3>4. LocalsOK'
        BY <2>1 DEF TypeOK, LocalsOK, Owns, GroupsOrNull, Points, WalkEnd, Hold, Restart
      <3> QED
        BY <3>2, <3>3, <3>4
    <2>2. CASE ~WalkEnd(t)
      <3>1. UNCHANGED <<pre, accPre, accCur, cnt>>
        BY <2>2
      <3>2. TypeOK'
        <4>1. PreLink(t).ptr \in GroupsOrNull
          BY DEF TypeOK, PreLink, Links
        <4>2. focus' \in [Threads -> GroupsOrNull] /\ pc' \in [Threads -> Points]
          BY <2>2, <4>1 DEF TypeOK, Points, Goto
        <4> QED
          BY <3>1, <4>2 DEF TypeOK, regVars, linkVars, scanVars
      <3>3. LocalsOK'
        BY <2>2, <3>1 DEF TypeOK, LocalsOK, Owns, PreLink, GroupsOrNull, Links, Points
      <3> QED
        BY <3>1, <3>2, <3>3, CountsUnchanged
    <2> QED
      BY <2>1, <2>2
  <1>23. ASSUME NEW s \in Scanners, ScanStart(s) PROVE TypeInv'
    <2> USE <1>23 DEF ScanStart
    <2>1. TypeOK'
      BY DEF TypeOK, LocalsOK, Owns, GroupsOrNull, Links, Points, Registered, regVars, linkVars, walkVars
    <2>2. LocalsOK'
      BY DEF LocalsOK, Owns, walkVars
    <2>3. AccessersCounted'
      BY CountsUnchanged DEF walkVars
    <2> QED
      BY <2>1, <2>2, <2>3
  <1>24. ASSUME NEW s \in Scanners, ScanVisit(s) PROVE TypeInv'
    <2> USE <1>24 DEF ScanVisit
    <2>1. TypeOK'
      BY DEF TypeOK, LocalsOK, Owns, GroupsOrNull, Links, Points, Registered, regVars, linkVars, walkVars
    <2>2. LocalsOK'
      BY DEF LocalsOK, Owns, walkVars
    <2>3. AccessersCounted'
      BY CountsUnchanged DEF walkVars
    <2> QED
      BY <2>1, <2>2, <2>3
  <1>25. ASSUME NEW s \in Scanners, ScanReturn(s) PROVE TypeInv'
    <2> USE <1>25 DEF ScanReturn
    <2>1. TypeOK'
      BY DEF TypeOK, LocalsOK, Owns, GroupsOrNull, Links, Points, Registered, regVars, linkVars, walkVars
    <2>2. LocalsOK'
      BY DEF LocalsOK, Owns, walkVars
    <2>3. AccessersCounted'
      BY CountsUnchanged DEF walkVars
    <2> QED
      BY <2>1, <2>2, <2>3
  <1>26. CASE UNCHANGED vars
    <2>1. UNCHANGED <<cnt, accPre, accCur>>
      BY <1>26 DEF vars, walkVars
    <2>2. TypeOK' /\ LocalsOK'
      BY <1>26 DEF TypeOK, LocalsOK, Owns, vars, regVars, linkVars, walkVars, scanVars
    <2> QED
      BY <2>1, <2>2, CountsUnchanged
  <1> QED
    BY <1>1, <1>2, <1>3, <1>4, <1>5, <1>6, <1>7, <1>8, <1>9, <1>10, <1>11, <1>12, <1>13, <1>14, <1>15, <1>16, <1>17, <1>18, <1>19, <1>20, <1>21, <1>22, <1>23, <1>24, <1>25, <1>26 DEF Next, Bind, Unbind, Walk, Scan

-----------------------------------------------------------------------------
(* The chain of all groups.                                                *)

\* The groups a walk of try_get_ownership may stand on.
Reg == allocated \ Unregistered

\* A group in use is owned by the thread that took or allocated it.
OwnedOK == \A t \in Threads : own[t] # Null => own[t] \in allocated /\ using[own[t]]

\* Nothing leads from a registered group to one that is not.
ChainOK ==
  /\ chainTop \in Reg \cup {Null}
  /\ \A g \in Reg : chainNext[g] \in Reg \cup {Null}
  /\ \A t \in Threads :
       /\ pc[t] = "occupy" => expect[t] \in Reg
       /\ pc[t] \in {"regStore", "regCas"} => expect[t] \in Reg \cup {Null}
       /\ pc[t] = "regCas" => chainNext[own[t]] = expect[t]

RegInv == TypeInv /\ OwnedOK /\ OwnershipExclusive /\ ChainOK /\ AllGroupsFindable

LEMMA RegInvInit == Init => RegInv
  <1> SUFFICES ASSUME Init PROVE RegInv
    OBVIOUS
  <1>1. TypeInv
    BY TypeInvInit
  <1> QED
    BY <1>1 DEF Init, RegInv, OwnedOK, OwnershipExclusive, ChainOK, Reg, AllGroupsFindable

\* A thread that is not working on the chain of all groups, and does not
\* begin to, leaves everything about it as it is.
LEMMA ChainFrame ==
  ASSUME RegInv, TypeInv', NEW t \in Threads, NEW p \in Points,
         pc' = [pc EXCEPT ![t] = p],
         pc[t] \notin {"occupy", "regStore", "regCas"},
         p \notin {"occupy", "regStore", "regCas"},
         \A u \in Threads \ {t} : expect'[u] = expect[u],
         UNCHANGED <<own, regVars>>
  PROVE  RegInv'
  <1>1. Unregistered' = Unregistered
    BY DEF Unregistered, RegInv, TypeInv, TypeOK
  <1>2. Reg' = Reg
    BY <1>1 DEF Reg, regVars
  <1>3. ChainOK'
    BY <1>2 DEF RegInv, ChainOK, regVars, TypeInv, TypeOK
  <1> QED
    BY <1>1, <1>3 DEF RegInv, OwnedOK, OwnershipExclusive, AllGroupsFindable, regVars

LEMMA RegInvStep == RegInv /\ [Next]_vars => RegInv'
  <1> SUFFICES ASSUME RegInv, [Next]_vars PROVE RegInv'
    OBVIOUS
  <1>0. TypeInv /\ TypeInv'
    BY TypeInvStep DEF RegInv
  <1> USE DEF Goto
  <1>1. ASSUME NEW t \in Threads, GetOwnership(t) PROVE RegInv'
    <2> USE <1>1 DEF GetOwnership
    <2>1. Unregistered' = Unregistered
      BY <1>0 DEF Unregistered, TypeInv, TypeOK
    <2>2. ChainOK'
      BY <1>0, <2>1 DEF RegInv, ChainOK, Reg, regVars, TypeInv, TypeOK
    <2> QED
      BY <1>0, <2>1, <2>2 DEF RegInv, OwnedOK, OwnershipExclusive, AllGroupsFindable, regVars
  <1>2. ASSUME NEW t \in Threads, TryOccupy(t) PROVE RegInv'
    <2> USE <1>2 DEF TryOccupy
    <2>1. own[t] = Null /\ own'[t] = expect[t] /\ expect[t] \in Reg /\ expect[t] \in Groups
      BY <1>0 DEF TypeInv, TypeOK, LocalsOK, Owns, RegInv, ChainOK, Reg
    <2>2. \A u \in Threads : own[u] # expect[t]
      BY <1>0, <2>1, ChainAssumption DEF RegInv, OwnedOK
    <2>3. Unregistered' = Unregistered
      BY <1>0, <2>1 DEF Unregistered, TypeInv, TypeOK
    <2>4. OwnedOK' /\ OwnershipExclusive'
      BY <1>0, <2>1, <2>2 DEF RegInv, OwnedOK, OwnershipExclusive, Reg, TypeInv, TypeOK
    <2>5. ChainOK'
      BY <1>0, <2>1, <2>3 DEF RegInv, ChainOK, Reg, TypeInv, TypeOK
    <2> QED
      BY <1>0, <2>3, <2>4, <2>5 DEF RegInv, AllGroupsFindable
  <1>3. ASSUME NEW t \in Threads, OccupyNext(t) PROVE RegInv'
    <2> USE <1>3 DEF OccupyNext
    <2>1. Unregistered' = Unregistered
      BY <1>0 DEF Unregistered, TypeInv, TypeOK
    <2>2. ChainOK'
      BY <1>0, <2>1 DEF RegInv, ChainOK, Reg, regVars, TypeInv, TypeOK
    <2> QED
      BY <1>0, <2>1, <2>2 DEF RegInv, OwnedOK, OwnershipExclusive, AllGroupsFindable, regVars
  <1>4. ASSUME NEW t \in Threads, NewGroup(t) PROVE RegInv'
    <2> USE <1>4 DEF NewGroup
    <2>1. PICK g \in Groups \ allocated :
                 /\ allocated' = allocated \cup {g}
                 /\ using' = [using EXCEPT ![g] = TRUE]
                 /\ own' = [own EXCEPT ![t] = g]
      OBVIOUS
    <2>2. own[t] = Null /\ g # Null /\ \A u \in Threads : own[u] # g
      BY <1>0, ChainAssumption DEF TypeInv, LocalsOK, Owns, RegInv, OwnedOK
    <2>3. Unregistered' = Unregistered \cup {g}
      BY <1>0, <2>1, <2>2 DEF Unregistered, TypeInv, TypeOK
    <2>4. Reg' = Reg
      BY <2>1, <2>3 DEF Reg
    <2>5. OwnedOK' /\ OwnershipExclusive'
      BY <1>0, <2>1, <2>2 DEF RegInv, OwnedOK, OwnershipExclusive, TypeInv, TypeOK
    <2>6. ChainOK'
      BY <1>0, <2>1, <2>4 DEF RegInv, ChainOK, TypeInv, TypeOK
    <2> QED
      BY <1>0, <2>4, <2>5, <2>6 DEF RegInv, AllGroupsFindable, Reg
  <1>5. ASSUME NEW t \in Threads, RegisterStore(t) PROVE RegInv'
    <2> USE <1>5 DEF RegisterStore
    <2>1. own[t] \in Unregistered /\ own[t] \in Groups
      BY <1>0 DEF Unregistered, TypeInv, TypeOK, LocalsOK, Owns, GroupsOrNull
    <2>2. Unregistered' = Unregistered
      BY <1>0 DEF Unregistered, TypeInv, TypeOK
    <2>3. \A g \in Reg : chainNext'[g] = chainNext[g]
      BY <1>0, <2>1 DEF Reg, TypeInv, TypeOK
    <2>4. ChainOK'
      BY <1>0, <2>1, <2>2, <2>3 DEF RegInv, ChainOK, Reg, TypeInv, TypeOK, OwnershipExclusive, LocalsOK, Owns
    <2>5. AllGroupsFindable'
      <3> SUFFICES ASSUME NEW g \in Reg, NEW S \in SUBSET Groups,
                          chainTop \in S, Closed(chainNext', S)
                   PROVE  chainTop # Null /\ g \in S
        BY <2>2, ChainAssumption DEF AllGroupsFindable, Reaches, Reg, RegInv
      <3>1. Closed(chainNext, S \cap Reg) /\ chainTop \in S \cap Reg
        BY <2>3, ChainAssumption DEF Closed, RegInv, ChainOK
      <3> QED
        BY <3>1, ChainAssumption DEF RegInv, AllGroupsFindable, Reaches, Reg
    <2> QED
      BY <1>0, <2>4, <2>5 DEF RegInv, OwnedOK, OwnershipExclusive
  <1>6. ASSUME NEW t \in Threads, RegisterCas(t) PROVE RegInv'
    <2> USE <1>6 DEF RegisterCas
    <2>1. own[t] \in Groups /\ own[t] \in allocated /\ chainNext[own[t]] = chainTop
      BY <1>0 DEF TypeInv, TypeOK, LocalsOK, Owns, GroupsOrNull, RegInv, OwnedOK, ChainOK
    <2>2. Unregistered' = Unregistered \ {own[t]}
      BY <1>0, <2>1, ChainAssumption
         DEF Unregistered, TypeInv, TypeOK, RegInv, OwnershipExclusive
    <2>3. Reg' = Reg \cup {own[t]}
      BY <2>1, <2>2 DEF Reg
    <2>4. ChainOK'
      BY <1>0, <2>1, <2>3 DEF RegInv, ChainOK, TypeInv, TypeOK
    <2>5. AllGroupsFindable'
      <3> SUFFICES ASSUME NEW g \in Reg \cup {own[t]}, NEW S \in SUBSET Groups,
                          own[t] \in S, Closed(chainNext, S)
                   PROVE  g \in S
        BY <2>1, <2>3, ChainAssumption DEF AllGroupsFindable, Reaches, Reg
      <3>1. chainTop \in S \cup {Null}
        BY <2>1 DEF Closed
      <3> QED
        BY <3>1 DEF RegInv, AllGroupsFindable, Reaches, Reg
    <2> QED
      BY <1>0, <2>4, <2>5 DEF RegInv, OwnedOK, OwnershipExclusive
  <1>7. ASSUME NEW t \in Threads, RegisterRetry(t) PROVE RegInv'
    <2> USE <1>7 DEF RegisterRetry
    <2>1. Unregistered' = Unregistered
      BY <1>0 DEF Unregistered, TypeInv, TypeOK
    <2>2. ChainOK'
      BY <1>0, <2>1 DEF RegInv, ChainOK, Reg, regVars, TypeInv, TypeOK
    <2> QED
      BY <1>0, <2>1, <2>2 DEF RegInv, OwnedOK, OwnershipExclusive, AllGroupsFindable, regVars
  <1>8. ASSUME NEW t \in Threads, Release(t) PROVE RegInv'
    <2> USE <1>8 DEF Release
    <2>1. own[t] \in Groups /\ \A u \in Threads \ {t} : own[u] # own[t]
      <3>1. own[t] # Null
        BY <1>0 DEF TypeInv, LocalsOK, Owns
      <3> QED
        BY <1>0, <3>1 DEF TypeInv, TypeOK, GroupsOrNull, RegInv, OwnershipExclusive
    <2>2. Unregistered' = Unregistered
      BY <1>0 DEF Unregistered, TypeInv, TypeOK
    <2>3. ChainOK'
      BY <1>0, <2>2 DEF RegInv, ChainOK, Reg, TypeInv, TypeOK
    <2>4. OwnedOK' /\ OwnershipExclusive'
      BY <1>0, <2>1 DEF RegInv, OwnedOK, OwnershipExclusive, TypeInv, TypeOK
    <2> QED
      BY <1>0, <2>2, <2>3, <2>4 DEF RegInv, AllGroupsFindable
  <1>9. ASSUME NEW t \in Threads, PushLoad(t) PROVE RegInv'
    <2>1. /\ pc[t] \notin {"occupy", "regStore", "regCas"}
          /\ \E p \in Points \ {"occupy", "regStore", "regCas"} : pc' = [pc EXCEPT ![t] = p]
          /\ \A u \in Threads \ {t} : expect'[u] = expect[u]
          /\ UNCHANGED <<own, regVars>>
      BY <1>9, <1>0 DEF PushLoad, Points, regVars, TypeInv, TypeOK
    <2> QED
      BY <1>0, <2>1, ChainFrame
  <1>10. ASSUME NEW t \in Threads, PushStore(t) PROVE RegInv'
    <2>1. /\ pc[t] \notin {"occupy", "regStore", "regCas"}
          /\ \E p \in Points \ {"occupy", "regStore", "regCas"} : pc' = [pc EXCEPT ![t] = p]
          /\ \A u \in Threads \ {t} : expect'[u] = expect[u]
          /\ UNCHANGED <<own, regVars>>
      BY <1>10, <1>0 DEF PushStore, Points, regVars, TypeInv, TypeOK
    <2> QED
      BY <1>0, <2>1, ChainFrame
  <1>11. ASSUME NEW t \in Threads, PushCas(t) PROVE RegInv'
    <2>1. /\ pc[t] \notin {"occupy", "regStore", "regCas"}
          /\ \E p \in Points \ {"occupy", "regStore", "regCas"} : pc' = [pc EXCEPT ![t] = p]
          /\ \A u \in Threads \ {t} : expect'[u] = expect[u]
          /\ UNCHANGED <<own, regVars>>
      BY <1>11, <1>0 DEF PushCas, Points, regVars, TypeInv, TypeOK
    <2> QED
      BY <1>0, <2>1, ChainFrame
  <1>12. ASSUME NEW t \in Threads, PushRetry(t) PROVE RegInv'
    <2>1. /\ pc[t] \notin {"occupy", "regStore", "regCas"}
          /\ \E p \in Points \ {"occupy", "regStore", "regCas"} : pc' = [pc EXCEPT ![t] = p]
          /\ \A u \in Threads \ {t} : expect'[u] = expect[u]
          /\ UNCHANGED <<own, regVars>>
      BY <1>12, <1>0 DEF PushRetry, Points, regVars, TypeInv, TypeOK
    <2> QED
      BY <1>0, <2>1, ChainFrame
  <1>13. ASSUME NEW t \in Threads, SetupAcquire(t) PROVE RegInv'
    <2>1. /\ pc[t] \notin {"occupy", "regStore", "regCas"}
          /\ \E p \in Points \ {"occupy", "regStore", "regCas"} : pc' = [pc EXCEPT ![t] = p]
          /\ \A u \in Threads \ {t} : expect'[u] = expect[u]
          /\ UNCHANGED <<own, regVars>>
      BY <1>13, <1>0 DEF SetupAcquire, Points, regVars, TypeInv, TypeOK
    <2> QED
      BY <1>0, <2>1, ChainFrame
  <1>14. ASSUME NEW t \in Threads, SeesMark(t) PROVE RegInv'
    <2>1. /\ pc[t] \notin {"occupy", "regStore", "regCas"}
          /\ \E p \in Points \ {"occupy", "regStore", "regCas"} : pc' = [pc EXCEPT ![t] = p]
          /\ \A u \in Threads \ {t} : expect'[u] = expect[u]
          /\ UNCHANGED <<own, regVars>>
      BY <1>14, <1>0 DEF SeesMark, Points, regVars, TypeInv, TypeOK
    <2> QED
      BY <1>0, <2>1, ChainFrame
  <1>15. ASSUME NEW t \in Threads, Finds(t) PROVE RegInv'
    <2>1. /\ pc[t] \notin {"occupy", "regStore", "regCas"}
          /\ \E p \in Points \ {"occupy", "regStore", "regCas"} : pc' = [pc EXCEPT ![t] = p]
          /\ \A u \in Threads \ {t} : expect'[u] = expect[u]
          /\ UNCHANGED <<own, regVars>>
      BY <1>15, <1>0 DEF Finds, Points, regVars, TypeInv, TypeOK
    <2> QED
      BY <1>0, <2>1, ChainFrame
  <1>16. ASSUME NEW t \in Threads, Passes(t) PROVE RegInv'
    <2>1. /\ pc[t] \notin {"occupy", "regStore", "regCas"}
          /\ \E p \in Points \ {"occupy", "regStore", "regCas"} : pc' = [pc EXCEPT ![t] = p]
          /\ \A u \in Threads \ {t} : expect'[u] = expect[u]
          /\ UNCHANGED <<own, regVars>>
      BY <1>16, <1>0 DEF Passes, Points, regVars, TypeInv, TypeOK
    <2> QED
      BY <1>0, <2>1, ChainFrame
  <1>17. ASSUME NEW t \in Threads, Unlink(t) PROVE RegInv'
    <2>1. /\ pc[t] \notin {"occupy", "regStore", "regCas"}
          /\ \E p \in Points \ {"occupy", "regStore", "regCas"} : pc' = [pc EXCEPT ![t] = p]
          /\ \A u \in Threads \ {t} : expect'[u] = expect[u]
          /\ UNCHANGED <<own, regVars>>
      BY <1>17, <1>0 DEF Unlink, Points, regVars, TypeInv, TypeOK
    <2> QED
      BY <1>0, <2>1, ChainFrame
  <1>18. ASSUME NEW t \in Threads, UnlinkFails(t) PROVE RegInv'
    <2>1. /\ pc[t] \notin {"occupy", "regStore", "regCas"}
          /\ \E p \in Points \ {"occupy", "regStore", "regCas"} : pc' = [pc EXCEPT ![t] = p]
          /\ \A u \in Threads \ {t} : expect'[u] = expect[u]
          /\ UNCHANGED <<own, regVars>>
      BY <1>18, <1>0 DEF UnlinkFails, Points, regVars, TypeInv, TypeOK
    <2> QED
      BY <1>0, <2>1, ChainFrame
  <1>19. ASSUME NEW t \in Threads, ThreadExit(t) PROVE RegInv'
    <2>1. /\ pc[t] \notin {"occupy", "regStore", "regCas"}
          /\ \E p \in Points \ {"occupy", "regStore", "regCas"} : pc' = [pc EXCEPT ![t] = p]
          /\ \A u \in Threads \ {t} : expect'[u] = expect[u]
          /\ UNCHANGED <<own, regVars>>
      BY <1>19, <1>0 DEF ThreadExit, Points, regVars, TypeInv, TypeOK
    <2> QED
      BY <1>0, <2>1, ChainFrame
  <1>20. ASSUME NEW t \in Threads, SetDelMark(t) PROVE RegInv'
    <2>1. /\ pc[t] \notin {"occupy", "regStore", "regCas"}
          /\ \E p \in Points \ {"occupy", "regStore", "regCas"} : pc' = [pc EXCEPT ![t] = p]
          /\ \A u \in Threads \ {t} : expect'[u] = expect[u]
          /\ UNCHANGED <<own, regVars>>
      BY <1>20, <1>0 DEF SetDelMark, Points, regVars, TypeInv, TypeOK
    <2> QED
      BY <1>0, <2>1, ChainFrame
  <1>21. ASSUME NEW t \in Threads, SetupLoad(t) PROVE RegInv'
    <2>1. /\ pc[t] \notin {"occupy", "regStore", "regCas"}
          /\ \E p \in Points \ {"occupy", "regStore", "regCas"} : pc' = [pc EXCEPT ![t] = p]
          /\ \A u \in Threads \ {t} : expect'[u] = expect[u]
          /\ UNCHANGED <<own, regVars>>
      BY <1>21, <1>0 DEF SetupLoad, WalkEnd, Points, regVars, TypeInv, TypeOK
    <2> QED
      BY <1>0, <2>1, ChainFrame
  <1>22. ASSUME NEW t \in Threads, SetupVerify(t) PROVE RegInv'
    <2>1. /\ pc[t] \notin {"occupy", "regStore", "regCas"}
          /\ \E p \in Points \ {"occupy", "regStore", "regCas"} : pc' = [pc EXCEPT ![t] = p]
          /\ \A u \in Threads \ {t} : expect'[u] = expect[u]
          /\ UNCHANGED <<own, regVars>>
      BY <1>22, <1>0 DEF SetupVerify, WalkEnd, Points, regVars, TypeInv, TypeOK
    <2> QED
      BY <1>0, <2>1, ChainFrame
  <1>23. ASSUME NEW s \in Scanners, Scan(s) PROVE RegInv'
    <2>1. UNCHANGED <<regVars, pc, own, expect>>
      BY <1>23 DEF Scan, ScanStart, ScanVisit, ScanReturn
    <2> QED
      BY <1>0, <2>1 DEF RegInv, OwnedOK, OwnershipExclusive, ChainOK, Reg, Unregistered,
                        AllGroupsFindable, regVars
  <1>24. CASE UNCHANGED vars
    BY <1>0, <1>24 DEF RegInv, OwnedOK, OwnershipExclusive, ChainOK, Reg, Unregistered,
                      AllGroupsFindable, vars, regVars
  <1> QED
    BY <1>1, <1>2, <1>3, <1>4, <1>5, <1>6, <1>7, <1>8, <1>9, <1>10, <1>11,
       <1>12, <1>13, <1>14, <1>15, <1>16, <1>17, <1>18, <1>19, <1>20,
       <1>21, <1>22, <1>23, <1>24
       DEF Next, Bind, Unbind, Walk

-----------------------------------------------------------------------------
\* A group that is given back has no accesser: the counter that the busy
\* loop read as 0 counts them all.
LEMMA ReleaseStep ==
  ASSUME TypeInv, [Next]_vars, NEW t \in Threads, own[t] # Null, own'[t] = Null
  PROVE  \A u \in Threads : own[t] \notin {accPre[u], accCur[u]}
  <1>1. Release(t)
    <2>1. own' # own
      OBVIOUS
    <2>2. CASE \E u \in Threads : TryOccupy(u)
      BY <2>2, ChainAssumption DEF TryOccupy, TypeInv, TypeOK, LocalsOK
    <2>3. CASE \E u \in Threads : NewGroup(u)
      BY <2>3, ChainAssumption DEF NewGroup, TypeInv, TypeOK
    <2>4. CASE \E u \in Threads : Release(u)
      BY <2>4 DEF Release, TypeInv, TypeOK
    <2>5. CASE \E s \in Scanners : Scan(s)
      BY <2>1, <2>5 DEF Scan, ScanStart, ScanVisit, ScanReturn
    <2>6. ASSUME NEW u \in Threads, Bind(u), ~TryOccupy(u), ~NewGroup(u) PROVE FALSE
      BY <2>1, <2>6 DEF Bind, GetOwnership, OccupyNext, RegisterStore, RegisterCas,
                        RegisterRetry, PushLoad, PushStore, PushCas, PushRetry
    <2>7. ASSUME NEW u \in Threads, Unbind(u), ~Release(u) PROVE FALSE
      BY <2>1, <2>7 DEF Unbind, Walk, ThreadExit, SetDelMark, SetupLoad, SetupAcquire,
                        SetupVerify, SeesMark, Finds, Passes, Unlink, UnlinkFails
    <2> QED
      BY <2>1, <2>2, <2>3, <2>4, <2>5, <2>6, <2>7 DEF Next, vars
  <1>2. own[t] \in Groups /\ cnt[own[t]] = 0
    BY <1>1 DEF Release, TypeInv, TypeOK, GroupsOrNull
  <1> DEFINE P == {u \in Threads : accPre[u] = own[t]}
             C == {u \in Threads : accCur[u] = own[t]}
  <1>3. Cardinality(P) + Cardinality(C) = 0
    BY <1>2 DEF TypeInv, AccessersCounted, Holders
  <1>4. IsFiniteSet(P) /\ IsFiniteSet(C)
    BY ChainAssumption, FS_Subset
  <1>5. Cardinality(P) \in Nat /\ Cardinality(C) \in Nat
    BY <1>4, FS_CardinalityType
  <1>6. Cardinality(P) = 0 /\ Cardinality(C) = 0
    BY <1>3, <1>5
  <1>7. P = {} /\ C = {}
    BY <1>4, <1>6, FS_EmptySet
  <1> QED
    BY <1>7

-----------------------------------------------------------------------------
\* The type invariant, with writer_accesser_cnt_ never negative.
THEOREM TypeCorrect == Spec => []TypeOK
  <1> QED
    BY TypeInvInit, TypeInvStep, PTL DEF Spec, TypeInv

\* writer_accesser_cnt_ counts exactly the accessers of the walks, whatever
\* the interleaving of the walks' copies, moves and destructions.
THEOREM CountsCorrect == Spec => []AccessersCounted
  <1> QED
    BY TypeInvInit, TypeInvStep, PTL DEF Spec, TypeInv

\* No two threads ever own the same group.
THEOREM OwnershipIsExclusive == Spec => []OwnershipExclusive
  <1> QED
    BY RegInvInit, RegInvStep, PTL DEF Spec, RegInv

\* No registration is lost: every registered group is found again.
THEOREM GroupsStayFindable == Spec => []AllGroupsFindable
  <1> QED
    BY RegInvInit, RegInvStep, PTL DEF Spec, RegInv

\* A group is given back only when no walk holds an accesser on it.
THEOREM GivenBackUnheld == Spec => ReleasedUnheld
  <1> DEFINE A == \A t \in Threads : own[t] # Null /\ own'[t] = Null =>
                     \A u \in Threads : own[t] \notin {accPre[u], accCur[u]}
  <1>1. TypeInv /\ [Next]_vars => [A]_vars
    BY ReleaseStep
  <1> QED
    BY TypeInvInit, TypeInvStep, <1>1, PTL DEF Spec, ReleasedUnheld
=============================================================================
