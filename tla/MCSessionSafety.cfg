SPECIFICATION Spec
CONSTANTS
  Threads = {t1, t2}
  Target = t1
  Blocked = {}
  NoThread = NoThread
  Focuses = {"direct", "given", "single", "queue"}
  MaxCalls = 3
  MaxStarts = 2
INVARIANT
  TypeOK
  OneWinner
  GivenRecovers
  FlowIsActive
PROPERTY
  QueueClaimsHits
  NoArmingAfterStop
CHECK_DEADLOCK FALSE
