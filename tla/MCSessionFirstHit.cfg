SPECIFICATION Spec
CONSTANTS
  Threads = {t1, t2}
  Target = t1
  Blocked = {}
  NoThread = NoThread
  Focuses = {"single"}
  MaxCalls = 2
  MaxStarts = 1
INVARIANT
  FirstHitIsPromoted
CHECK_DEADLOCK FALSE
