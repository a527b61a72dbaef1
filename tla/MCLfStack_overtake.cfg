CONSTANTS
  t1 = t1
  t2 = t2
  t3 = t3
  n1 = n1
  n2 = n2
  n3 = n3
  Threads = {t1, t2}
  OtherSlots = {}
  Nodes = {n1, n2, n3}
  Values = {v1, v2}
  Null = Null
  MaxOps <- Uneven
SPECIFICATION FairSpec
INVARIANTS ChainIsStack NoUseAfterReclaim NoABA OnePlace
PROPERTIES IsAtomicStack AllReturn
CHECK_DEADLOCK FALSE
