\* A reader with three hazard_ptr against a thread that takes and deletes.
SPECIFICATION Spec
CONSTANTS
  reader = reader  taker = taker  a = a  b = b  c = c  o1 = o1  o2 = o2
  Null = Null
  One = One
  Threads = {reader, taker}
  Names = {a, b, c}
  Objects = {o1, o2}
  Width = 2
  Weak = TRUE
  May <- ReaderMay
  MaxCalls <- ReaderCalls
INVARIANTS SlotHasOneOwner VerifiedIsKept CopyIsKept
PROPERTY GroupsAsNeeded
SYMMETRY Symmetric
\* The threads stop after their calls.
CHECK_DEADLOCK FALSE
