CONSTANTS
  t1 = t1
  t2 = t2
  t3 = t3
  v1 = v1
  v2 = v2
  v3 = v3
  Threads = {t1, t2, t3}
  Vars = {v1, v2, v3}
  None = None
  ArraySize = 2
  MaxArrays = 4
  Uses <- V3UsesV2
  Scripts <- Together
SPECIFICATION FairSpec
CHECK_DEADLOCK FALSE
INVARIANTS OwnData NothingLeftBehind DeallocatorHasObject KeysAreSound
PROPERTIES AllEnd
