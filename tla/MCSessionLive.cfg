SPECIFICATION FairSpec
CONSTANTS
  Threads = {t1, t2}
  Target = t1
  Blocked = {}
  NoThread = NoThread
  Focuses = {"single", "queue"}
  MaxCalls = 2
  MaxStarts = 1
PROPERTY
  CallsReturn
  LateThreadsAreArmed
CHECK_DEADLOCK FALSE
