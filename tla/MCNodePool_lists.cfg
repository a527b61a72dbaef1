\* Two threads share the pool and its lists.
SPECIFICATION FairSpec
CONSTANTS
  t1 = t1
  t2 = t2
  n1 = n1
  n2 = n2
  n3 = n3
  n4 = n4
  n5 = n5
  Null = Null
  Threads = {t1, t2}
  Nodes = {n1, n2, n3, n4, n5}
  ScanThreshold = 1
  AggThreshold = 3
  Histories <- PoolHistories
INVARIANTS NodesInOnePlace NoReuseUnderHazard
PROPERTY AllReturn
\* All calls end.
CHECK_DEADLOCK FALSE
