CONSTANTS
  t1 = t1
  t2 = t2
  Threads = {t1, t2}
  Nodes = {n1, n2}
  Values = {1, 2}
  HeadNode = HeadNode
  End = End
  Null = Null
  Start <- OneTwo
  Inserts <- Sorted
  Fronts = {1}
  Removes <- Each
  Calls <- WalkedOver
SPECIFICATION Spec
SYMMETRY Symmetry
CHECK_DEADLOCK FALSE
INVARIANTS WalkIsSafe
