\* A data structure is destroyed while another one is used.
SPECIFICATION Spec
CONSTANTS
  t1 = t1
  t2 = t2
  n1 = n1
  n2 = n2
  n3 = n3
  n4 = n4
  n5 = n5
  Null = Null
  Threads = {t1, t2}
  Nodes = {n1, n2, n3, n4, n5}
  ScanThreshold = 1
  AggThreshold = 3
  Histories <- DeleteHistories
INVARIANT NoUseAfterDelete
\* All calls end.
CHECK_DEADLOCK FALSE
