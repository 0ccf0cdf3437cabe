SPECIFICATION FairSpec
CONSTANTS
  t1 = t1
  t2 = t2
  Threads = {t1, t2}
  Duration = 3
  MaxResponses = 1
CHECK_DEADLOCK FALSE
INVARIANTS AllCounted PrintsFinishedSeconds
PROPERTIES RunEnds
