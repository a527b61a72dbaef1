CONSTANTS
  t1 = t1
  t2 = t2
  Threads = {t1, t2}
  Nodes = {n1, n2, n3}
  Values = {1, 2}
  HeadNode = HeadNode
  End = End
  Null = Null
  Start <- One
  Inserts <- Sorted
  Fronts = {1}
  Removes <- Each
  Calls <- Races
SPECIFICATION FairSpec
CHECK_DEADLOCK FALSE
INVARIANTS ListIsSound NoUseAfterReclaim WalkIsFaithful
PROPERTIES IsAtomicList AllReturn
