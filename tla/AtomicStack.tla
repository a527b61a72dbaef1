------------------------------ MODULE AtomicStack ------------------------------
(***************************************************************************)
(* What stack_list promises: a push or pop of a thread takes effect        *)
(* atomically at one moment between its call and its return.               *)
(***************************************************************************)
EXTENDS Integers, Sequences

CONSTANTS Threads, Values

VARIABLES
  content,  \* the values on the stack, the top one last
  op        \* the operation each thread is in

vars == <<content, op>>

Idle    == [name |-> "idle"]
Push(v) == [name |-> "push", value |-> v]
Pop     == [name |-> "pop"]
Got(v)  == [name |-> "got", value |-> v]

Front(s) == SubSeq(s, 1, Len(s) - 1)
Become(t, o) == op' = [op EXCEPT ![t] = o]

Init == content = <<>> /\ op = [t \in Threads |-> Idle]

CallPush(t, v) == op[t] = Idle /\ Become(t, Push(v)) /\ UNCHANGED content
CallPop(t)     == op[t] = Idle /\ Become(t, Pop) /\ UNCHANGED content

DoPush(t, v) ==
  op[t] = Push(v) /\ content' = Append(content, v) /\ Become(t, Idle)

DoPop(t) ==
  /\ op[t] = Pop
  /\ content # <<>>
  /\ content' = Front(content)
  /\ Become(t, Got(content[Len(content)]))

\* A pop that finds the stack empty returns nothing.
DoPopEmpty(t) ==
  op[t] = Pop /\ content = <<>> /\ Become(t, Idle) /\ UNCHANGED content

Return(t, v) == op[t] = Got(v) /\ Become(t, Idle) /\ UNCHANGED content

Next == \E t \in Threads :
          \/ CallPop(t) \/ DoPop(t) \/ DoPopEmpty(t)
          \/ \E v \in Values : CallPush(t, v) \/ DoPush(t, v) \/ Return(t, v)

Spec == Init /\ [][Next]_vars
=============================================================================
