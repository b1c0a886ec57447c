SPECIFICATION QueueSpec
CONSTANTS
  Threads = {t1, t2}
  Target = t1
  Blocked = {}
  NoThread = NoThread
  Focuses = {"queue"}
  MaxCalls = 2
  MaxStarts = 1
PROPERTY
  QueuedHitIsTraced
CHECK_DEADLOCK FALSE
