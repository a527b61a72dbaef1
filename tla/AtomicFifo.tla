------------------------------- MODULE AtomicFifo -------------------------------
(***************************************************************************)
(* What the code of fifo_list can promise: push appends, pop takes the     *)
(* first value, each at one moment between its call and its return.  Of    *)
(* push_head it is less than its name says: a call that has seen the queue *)
(* empty may append its value, whatever has been pushed since, so that the *)
(* value leaves the queue behind values of calls that were done before.    *)
(* The comment in push_front (od_lockfree_fifo.cpp:187) has the result the *)
(* same as at the head; AppendLate is where it is not.                     *)
(***************************************************************************)
EXTENDS Integers, Sequences

CONSTANTS Threads, Values

VARIABLES
  content,  \* the values in the queue, the first one to leave first
  op        \* the operation each thread is in

vars == <<content, op>>

Idle           == [name |-> "idle"]
Push(v)        == [name |-> "push", value |-> v]
PushHead(v, e) == [name |-> "pushHead", value |-> v, empty |-> e]
Pop            == [name |-> "pop"]
Got(v)         == [name |-> "got", value |-> v]

Become(t, o) == op' = [op EXCEPT ![t] = o]

Init == content = <<>> /\ op = [t \in Threads |-> Idle]

Call(t, o) == op[t] = Idle /\ Become(t, o) /\ UNCHANGED content

DoPush(t, v) ==
  op[t] = Push(v) /\ content' = Append(content, v) /\ Become(t, Idle)

DoPushHead(t, v) ==
  op[t] = PushHead(v, FALSE) /\ content' = <<v>> \o content /\ Become(t, Idle)

SeeEmpty(t, v) ==
  /\ op[t] = PushHead(v, FALSE)
  /\ content = <<>>
  /\ Become(t, PushHead(v, TRUE))
  /\ UNCHANGED content

LookAgain(t, v) ==
  op[t] = PushHead(v, TRUE) /\ Become(t, PushHead(v, FALSE)) /\ UNCHANGED content

\* The value becomes the last one; content need not be empty any more.
AppendLate(t, v) ==
  /\ op[t] = PushHead(v, TRUE)
  /\ content' = Append(content, v)
  /\ Become(t, Idle)

DoPop(t) ==
  /\ op[t] = Pop
  /\ content # <<>>
  /\ content' = Tail(content)
  /\ Become(t, Got(Head(content)))

DoPopEmpty(t) ==
  op[t] = Pop /\ content = <<>> /\ Become(t, Idle) /\ UNCHANGED content

Return(t, v) == op[t] = Got(v) /\ Become(t, Idle) /\ UNCHANGED content

Next == \E t \in Threads :
          \/ Call(t, Pop) \/ DoPop(t) \/ DoPopEmpty(t)
          \/ \E v \in Values :
               \/ Call(t, Push(v)) \/ DoPush(t, v) \/ Return(t, v)
               \/ Call(t, PushHead(v, FALSE)) \/ DoPushHead(t, v)
               \/ SeeEmpty(t, v) \/ LookAgain(t, v) \/ AppendLate(t, v)

Spec == Init /\ [][Next]_vars
=============================================================================
