\* Three threads allocate, deallocate, search and inspect.
SPECIFICATION FairSpec
CONSTANTS
  PageSize = 128
  PreAlloc = 256
  MaxMmap = 300
  MaxCount = 5
  Places <- FourPlaces
  t1 = t1
  t2 = t2
  t3 = t3
  Null = Null
  Threads = {t1, t2, t3}
  Scripts <- RoomScripts
INVARIANTS RoomsAreApart AnswersAreRight
PROPERTY CallsEnd
\* All calls are over in the end, and a walk may never be.
CHECK_DEADLOCK FALSE
