------------------------------- MODULE MarkedLink -------------------------------
(***************************************************************************)
(* hazard_ptr_w_mark_handler (inc/alconcurrent/hazard_ptr.hpp): a link of  *)
(* the list is a word that holds a pointer and, in its lowest bit, the     *)
(* mark.  LfList takes a link for the pair of both.  Each operation is     *)
(* what it leaves in the word and in its parameter, and what it returns;   *)
(* how it races with others is LfList's.                                   *)
(***************************************************************************)
EXTENDS Integers

\* Nodes are aligned, so that the lowest bit of a pointer is never its own.
Pointers == {2 * n : n \in Nat}

IsMarked(word) == (word % 2) # 0
SetMark(word) == IF IsMarked(word) THEN word ELSE word + 1
UnsetMark(word) == word - (word % 2)

Zip(p, mark) == IF mark THEN SetMark(p) ELSE p
Unzip(word) == [p |-> UnsetMark(word), mark |-> IsMarked(word)]

\* verify_exchange: is the link still what was found there before?
VerifyExchange(word, found) ==
  IF word = Zip(found.p, found.mark) THEN [ret |-> TRUE, found |-> found]
  ELSE [ret |-> FALSE, found |-> Unzip(word)]

Fails(word) == [ret |-> FALSE, word |-> word, expected |-> Unzip(word)]

\* compare_exchange_strong_set_mark, and compare_exchange_weak_set_mark, which
\* may fail for no reason
StrongSetMark(word, expected) ==
  IF word # Zip(expected.p, FALSE) THEN Fails(word)
  ELSE [ret |-> TRUE, word |-> Zip(expected.p, TRUE), expected |-> expected]
WeakSetMark(word, expected, spurious) ==
  IF spurious THEN Fails(word) ELSE StrongSetMark(word, expected)

\* compare_exchange_strong_to_verify_exchange1: what was expected becomes what
\* is in the link in any case.
Exchange1(word, expected, desired) ==
  IF word # Zip(expected.p, FALSE) THEN Fails(word)
  ELSE [ret |-> TRUE, word |-> Zip(desired, FALSE),
        expected |-> [p |-> desired, mark |-> FALSE]]

\* compare_exchange_strong_to_verify_exchange2: it is kept when it was right.
Exchange2(word, expected, desired) ==
  IF word # Zip(expected.p, FALSE) THEN Fails(word)
  ELSE [ret |-> TRUE, word |-> Zip(desired, FALSE), expected |-> expected]
=============================================================================
