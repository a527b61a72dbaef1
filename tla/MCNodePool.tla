------------------------------- MODULE MCNodePool -------------------------------
(***************************************************************************)
(* Small instances of NodePool: two threads, and thresholds so low that    *)
(* lists are moved and looked through.                                     *)
(***************************************************************************)
EXTENDS NodePool, TLC

CONSTANTS t1, t2, n1, n2, n3, n4, n5

None == [t \in Threads |-> <<>>]
Has(t, s) == [None EXCEPT ![t] = s]
Plays(a, b) == t1 :> a @@ t2 :> b
History(used, own, shared, a, b) ==
  [inUse |-> used, free |-> own, gfree |-> shared, calls |-> Plays(a, b)]

\* A long locked list goes to the lock-free one while others pop and push; a
\* thread has enough to put two on it; nodes are pushed while the other one
\* reads them, looked through, popped by their thread or, after its end, by
\* another; and nodes are deleted while others are read.
PoolHistories ==
  {History({}, None, <<n1, n2, n3, n4>>, <<"pop", "push", "delete">>, <<"pop", "pop", "push">>),
   History({n3, n4, n5}, Has(t1, <<n1, n2>>), <<>>, <<"push", "push", "pop">>,
           <<"pop", "push", "pop">>),
   History({n1, n2, n3}, None, <<>>, <<"push", "push", "pop", "leave">>,
           <<"read", "push", "leave", "read", "leave", "pop">>),
   History({n1, n2, n3}, None, <<>>, <<"push", "push", "endHeld", "endFree">>,
           <<"read", "pop", "leave", "read", "pop">>),
   History({n1, n2}, Has(t1, <<n3>>), <<n4>>, <<"push", "clear", "endFree", "endHeld">>,
           <<"read", "push", "leave", "clear">>)}

\* The lists of the pool are simple lists.  Over all pairs of disjoint sequences
\* of at most three nodes, what SimpleList computes with links, tail and count is
\* what the same operation does to the sequences.
Simple == INSTANCE SimpleList
Sequences3 == {s \in UNION {[1 .. k -> {n1, n2, n3}] : k \in 0 .. 3} : Simple!Distinct(s)}
After(s, n) == LET i == CHOOSE i \in DOMAIN s : s[i] = n IN IF i = Len(s) THEN Null ELSE s[i + 1]
Linked(s, u) ==
  [n \in Nodes |-> IF n \in Range(s) THEN After(s, n) ELSE IF n \in Range(u) THEN After(u, n) ELSE Null]
ListOf(s) ==
  [head |-> IF s = <<>> THEN Null ELSE s[1], tail |-> IF s = <<>> THEN Null ELSE s[Len(s)],
   count |-> Len(s)]
Gives(r, s) == Simple!IsList(r.list, r.next, s)
ASSUME SimpleListsAreSequences ==
  \A s, u \in Sequences3 : Simple!Apart(s, u) =>
    LET l == ListOf(s)  v == ListOf(u)  next == Linked(s, u)
        pop == Simple!PopFront(l, next)
    IN /\ Gives(Simple!PushFront(l, next, n4), <<n4>> \o s)
       /\ Gives(Simple!PushBack(l, next, n4), Append(s, n4))
       /\ Gives(pop, IF s = <<>> THEN s ELSE Tail(s))
       /\ pop.node = l.head
       /\ Gives(Simple!MergePushFront(l, next, v), u \o s)
       /\ Gives(Simple!MergePushBack(l, next, v), s \o u)
       /\ Simple!ForEach(l, next) = s
       /\ LET c == Simple!Clear(l, next)
          IN c.given = s /\ \A n \in Range(s) : c.next[n] = Null
       /\ \A pred \in SUBSET Nodes :
            LET d == Simple!SplitIf(l, next, pred)
            IN /\ Simple!IsList(d.list, d.next, SelectSeq(s, LAMBDA n : n \notin pred))
               /\ Simple!IsList(d.ans, d.next, SelectSeq(s, LAMBDA n : n \in pred))
       \* The chain that a caller links itself is counted one short.
       /\ u # <<>> =>
            Simple!MergeChainBack(l, next, u).list.count = Len(s) + Len(u) - 1

\* A thread pops from the lock-free list to delete, while another one pops.
DeleteHistories ==
  {History({}, None, <<n1, n2, n3, n4>>, <<"pop", "pop">>, <<"delete">>)}
=============================================================================
