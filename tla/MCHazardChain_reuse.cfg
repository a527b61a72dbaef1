CONSTANTS
  t1 = t1
  t2 = t2
  s1 = s1
  g1 = g1
  g2 = g2
  g3 = g3
  Null = Null
  Top = Top
  Threads = {t1, t2}
  Scanners = {s1}
  Groups = {g1, g2, g3}
  SpuriousFailures = FALSE
  MaxLives <- TwoLives
  MaxScans = 1
SPECIFICATION FairSpec
INVARIANTS OwnershipExclusive AllGroupsFindable ScanMissesNothing
           NoUnexpectedDeletion AccessersCounted
PROPERTIES ReleasedUnheld RemovalEnds
CHECK_DEADLOCK FALSE
