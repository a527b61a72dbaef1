CONSTANTS
  t1 = t1
  t2 = t2
  v1 = v1
  v2 = v2
  Threads = {t1, t2}
  Nodes = {n1, n2, n3, n4, n5}
  Values = {v1, v2}
  Null = Null
  Gives <- GivesOf
  Calls <- Races
SPECIFICATION FairSpec
CHECK_DEADLOCK FALSE
INVARIANTS QueueIsSound NoUseAfterReclaim
PROPERTIES IsAtomicFifo AllReturn
