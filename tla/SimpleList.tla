------------------------------- MODULE SimpleList -------------------------------
(***************************************************************************)
(* od_simple_list (src/od_simple_list.cpp): a singly linked list with a    *)
(* pointer to its last node and a count.  A list is the record of its      *)
(* members; next gives the link of each node; an operation is the state it *)
(* leaves.  What follows relates them to sequences of nodes, which is what *)
(* NodePool takes the lists for.                                           *)
(***************************************************************************)
EXTENDS Integers, Sequences

CONSTANT Null  \* nullptr

Empty == [head |-> Null, tail |-> Null, count |-> 0]

IsEmpty(l) == l.head = Null
IsOne(l) == l.head # Null /\ l.head = l.tail
IsMoreThanOne(l) == l.head # Null /\ l.head # l.tail

-----------------------------------------------------------------------------
(* One node                                                                *)

PushFront(l, next, n) ==
  [list |-> [head  |-> n,
             tail  |-> IF IsEmpty(l) THEN n ELSE l.tail,
             count |-> l.count + 1],
   next |-> [next EXCEPT ![n] = l.head]]

\* The link of the node is left as it is.
PushBack(l, next, n) ==
  [list |-> [head  |-> IF IsEmpty(l) THEN n ELSE l.head,
             tail  |-> n,
             count |-> l.count + 1],
   next |-> IF IsEmpty(l) THEN next ELSE [next EXCEPT ![l.tail] = n]]

PopFront(l, next) ==
  IF IsEmpty(l) THEN [node |-> Null, list |-> l, next |-> next]
  ELSE [node |-> l.head,
        list |-> [head  |-> next[l.head],
                  tail  |-> IF next[l.head] = Null THEN Null ELSE l.tail,
                  count |-> l.count - 1],
        next |-> [next EXCEPT ![l.head] = Null]]

-----------------------------------------------------------------------------
(* All nodes of another list                                               *)

\* The private merge_push_front and merge_push_back, which do not count
LinkFront(l, next, first, last) ==
  [list |-> [head |-> first, tail |-> IF IsEmpty(l) THEN last ELSE l.tail, count |-> l.count],
   next |-> IF IsEmpty(l) THEN next ELSE [next EXCEPT ![last] = l.head]]

LinkBack(l, next, first, last) ==
  [list |-> [head |-> IF IsEmpty(l) THEN first ELSE l.head, tail |-> last, count |-> l.count],
   next |-> IF IsEmpty(l) THEN next ELSE [next EXCEPT ![l.tail] = first]]

\* The result of one of them, with so many nodes counted
Counted(linked, n) ==
  [list |-> [linked.list EXCEPT !.count = @ + n], next |-> linked.next]

\* The other list is empty afterwards.
MergePushFront(l, next, src) ==
  IF IsEmpty(src) THEN [list |-> l, next |-> next]
  ELSE Counted(LinkFront(l, next, src.head, src.tail), src.count)

MergePushBack(l, next, src) ==
  IF IsEmpty(src) THEN [list |-> l, next |-> next]
  ELSE Counted(LinkBack(l, next, src.head, src.tail), src.count)

\* merge_push_front and merge_push_back of a chain that begins with a node: the
\* loop counts the steps to its last node, which is one less than its nodes.
\* Nothing calls them.
MergeChainFront(l, next, chain) ==
  Counted(LinkFront(l, next, chain[1], chain[Len(chain)]), Len(chain) - 1)
MergeChainBack(l, next, chain) ==
  Counted(LinkBack(l, next, chain[1], chain[Len(chain)]), Len(chain) - 1)

\* The move constructor and swap, and the move assignment, which deletes the
\* nodes that the list had.
MoveConstruct(src) == [list |-> src, src |-> Empty]
Swap(l, src) == [list |-> src, src |-> l]
MoveAssign(l, src) == [list |-> src, src |-> Empty, deleted |-> l]

-----------------------------------------------------------------------------
(* The loops, one turn at a time                                           *)

\* for_each reads the link before its function is called, clear clears it too.
Walk(l, next) == [cur |-> l.head, next |-> next, given |-> <<>>]
ForEachTurn(m) ==
  [m EXCEPT !.cur = m.next[m.cur], !.given = Append(@, m.cur)]
ClearTurn(m) ==
  [m EXCEPT !.cur = m.next[m.cur], !.next[m.cur] = Null, !.given = Append(@, m.cur)]

\* split_if moves the nodes that pred accepts to another list.
Split(l, next) == [list |-> l, next |-> next, pre |-> Null, cur |-> l.head, ans |-> Empty]
TakeOut(m, after) ==
  [list |-> [head  |-> IF m.pre = Null THEN after ELSE m.list.head,
             tail  |-> IF after = Null THEN m.pre ELSE m.list.tail,
             count |-> m.list.count - 1],
   next |-> [IF m.pre = Null THEN m.next ELSE [m.next EXCEPT ![m.pre] = after]
               EXCEPT ![m.cur] = Null]]
SplitTurn(m, pred) ==
  LET after == m.next[m.cur]
      out   == TakeOut(m, after)
      ans   == PushBack(m.ans, out.next, m.cur)
  IN IF m.cur \notin pred THEN [list |-> m.list, next |-> m.next, pre |-> m.cur, cur |-> after, ans |-> m.ans]
     ELSE [list |-> out.list, next |-> ans.next, pre |-> m.pre, cur |-> after, ans |-> ans.list]

\* Turn is taken until cur is nullptr, which is after count turns.
Turns(count, first, Turn(_)) ==
  LET m[k \in 0 .. count] ==
        IF k = 0 THEN first
        ELSE IF m[k - 1].cur = Null THEN m[k - 1] ELSE Turn(m[k - 1])
  IN m[count]
ForEach(l, next) == Turns(l.count, Walk(l, next), ForEachTurn).given
Clear(l, next) == Turns(l.count, Walk(l, next), ClearTurn)
SplitIf(l, next, pred) == Turns(l.count, Split(l, next), LAMBDA m : SplitTurn(m, pred))

-----------------------------------------------------------------------------

Distinct(s) == \A i, j \in 1 .. Len(s) : s[i] = s[j] => i = j
Apart(s, u) == \A i \in 1 .. Len(s), j \in 1 .. Len(u) : s[i] # u[j]

\* The list is the sequence s: its links lead from the head through all nodes to
\* the tail and end there, and the count is that of the nodes.
IsList(l, next, s) ==
  /\ s \in Seq(DOMAIN next) /\ Distinct(s) /\ Null \notin DOMAIN next
  /\ l = [head  |-> IF Len(s) = 0 THEN Null ELSE s[1],
          tail  |-> IF Len(s) = 0 THEN Null ELSE s[Len(s)],
          count |-> Len(s)]
  /\ \A i \in 1 .. Len(s) : next[s[i]] = IF i = Len(s) THEN Null ELSE s[i + 1]

\* In the midst of split_if: the list is what was kept and what is still to be
\* looked at, the result what was taken out.
InSplit(m, kept, rest, out) ==
  /\ IsList(m.list, m.next, kept \o rest)
  /\ IsList(m.ans, m.next, out)
  /\ Apart(kept \o rest, out)
  /\ m.pre = IF Len(kept) = 0 THEN Null ELSE kept[Len(kept)]
  /\ m.cur = IF Len(rest) = 0 THEN Null ELSE rest[1]
=============================================================================
