CONSTANTS
  t1 = t1
  t2 = t2
  t3 = t3
  g1 = g1
  g2 = g2
  g3 = g3
  Null = Null
  Top = Top
  Threads = {t1, t2, t3}
  Scanners = {}
  Groups = {g1, g2, g3}
  SpuriousFailures = FALSE
  MaxLives <- Lives
  MaxScans = 0
SPECIFICATION MidExitSpec
INVARIANTS NoUnexpectedDeletion
CHECK_DEADLOCK FALSE
