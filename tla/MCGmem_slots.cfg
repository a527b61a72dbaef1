CONSTANTS
  t1 = t1
  t2 = t2
  t3 = t3
  b1 = b1
  b2 = b2
  Threads = {t1, t2, t3}
  Lists = {"small", "big"}
  Slots <- AllSlots
  BigSlot = {b1, b2}
  Null = Null
  Limit = 4
  TooBig = 3
  LimitSlots = 3
  MaxGroups = 2
  Histories <- Together
SPECIFICATION FairSpec
INVARIANTS SlotsAreApart MemoryIsKnown
PROPERTY AllEnd
CHECK_DEADLOCK FALSE
