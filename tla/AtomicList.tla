------------------------------- MODULE AtomicList -------------------------------
(***************************************************************************)
(* What lockfree_list promises.  Every call takes effect between its call  *)
(* and its return, remove_all_if once for every element it removes:        *)
(*   - push_front puts the value first, pop_back takes the last one;       *)
(*   - insert puts it behind an element that its predicate refuses, or     *)
(*     first; behind all if the predicate refuses everything (push_back);  *)
(*   - remove_one_if takes an element that its predicate accepts;          *)
(*   - pop_front takes an element that has been the first one since the    *)
(*     call and that is still there, though another may be before it now.  *)
(* pop_front and pop_back return nothing only if the list is empty at some *)
(* moment.  remove_one_if may overlook what is inserted behind it.         *)
(***************************************************************************)
EXTENDS Integers, Sequences

CONSTANTS Threads, Values, Ids, None

VARIABLES
  content,  \* the elements, each with an identity and a value
  op        \* the operation each thread is in

vars == <<content, op>>

Preds == SUBSET Values  \* a predicate is the set of values it accepts

Idle            == [name |-> "idle"]
PushFront(v)    == [name |-> "pushFront", value |-> v]
Insert(p, v)    == [name |-> "insert", pred |-> p, value |-> v]
Remove(p)       == [name |-> "remove", pred |-> p]
RemoveAll(p)    == [name |-> "removeAll", pred |-> p]
PopBack         == [name |-> "popBack"]
PopFront(first) == [name |-> "popFront", first |-> first]  \* the element it has seen first
Got(v)          == [name |-> "got", value |-> v]

Present == {content[i].id : i \in 1..Len(content)}
Become(t, o) == op' = [op EXCEPT ![t] = o]

Init ==
  /\ content \in Seq([id : Ids, value : Values])
  /\ op = [t \in Threads |-> Idle]

Call(t, o) == op[t] = Idle /\ Become(t, o) /\ UNCHANGED content

InsertAt(i, v) ==
  \E n \in Ids \ Present :
    content' = SubSeq(content, 1, i - 1) \o <<[id |-> n, value |-> v]>>
                 \o SubSeq(content, i, Len(content))

\* A pop_front that has seen the element first has to look again.
TakeAt(i, t, o) ==
  /\ content' = SubSeq(content, 1, i - 1) \o SubSeq(content, i + 1, Len(content))
  /\ op' = [u \in Threads |-> IF u = t THEN o
                              ELSE IF op[u] = PopFront(content[i].id) THEN PopFront(None)
                              ELSE op[u]]

DoPushFront(t, v) == op[t] = PushFront(v) /\ InsertAt(1, v) /\ Become(t, Idle)

DoInsert(t, p, v) ==
  /\ op[t] = Insert(p, v)
  /\ \E i \in 1..Len(content) + 1 :
       /\ i > 1 => content[i - 1].value \notin p
       /\ p = {} => i = Len(content) + 1
       /\ InsertAt(i, v)
  /\ Become(t, Idle)

DoRemove(t, p) ==
  /\ op[t] = Remove(p)
  /\ \E i \in 1..Len(content) :
       content[i].value \in p /\ TakeAt(i, t, Got(content[i].value))

DoRemoveAll(t, p) ==
  /\ op[t] = RemoveAll(p)
  /\ \E i \in 1..Len(content) : content[i].value \in p /\ TakeAt(i, t, op[t])

FindNone(t, p) ==
  op[t] \in {Remove(p), RemoveAll(p)} /\ Become(t, Idle) /\ UNCHANGED content

DoPopBack(t) ==
  /\ op[t] = PopBack
  /\ content # <<>>
  /\ TakeAt(Len(content), t, Got(content[Len(content)].value))

SeeFirst(t, n) ==
  /\ op[t] = PopFront(n)
  /\ content # <<>>
  /\ Become(t, PopFront(content[1].id))
  /\ UNCHANGED content

LookAgain(t, n) == op[t] = PopFront(n) /\ Become(t, PopFront(None)) /\ UNCHANGED content

DoPopFront(t) ==
  \E i \in 1..Len(content) :
    op[t] = PopFront(content[i].id) /\ TakeAt(i, t, Got(content[i].value))

FindEmpty(t) ==
  op[t] \in {PopBack, PopFront(None)} /\ content = <<>> /\ Become(t, Idle) /\ UNCHANGED content

Return(t, v) == op[t] = Got(v) /\ Become(t, Idle) /\ UNCHANGED content

Next == \E t \in Threads :
          \/ Call(t, PopBack) \/ DoPopBack(t)
          \/ Call(t, PopFront(None)) \/ DoPopFront(t) \/ FindEmpty(t)
          \/ \E n \in Ids \cup {None} : SeeFirst(t, n) \/ LookAgain(t, n)
          \/ \E v \in Values : Call(t, PushFront(v)) \/ DoPushFront(t, v) \/ Return(t, v)
          \/ \E p \in Preds :
               \/ Call(t, Remove(p)) \/ DoRemove(t, p)
               \/ Call(t, RemoveAll(p)) \/ DoRemoveAll(t, p) \/ FindNone(t, p)
               \/ \E v \in Values : Call(t, Insert(p, v)) \/ DoInsert(t, p, v)

Spec == Init /\ [][Next]_vars
=============================================================================
