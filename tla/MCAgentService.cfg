SPECIFICATION FairSpec
CONSTANTS
  Clients = {c1, c2}
  Servers = {s1, s2}
  Nobody = Nobody
  MaxCommands = 4
  MaxHostCalls = 3
  MaxRecorders = 2
INVARIANT
  TypeOK
  RecorderOutlivesHandler
  OneServer
PROPERTY
  ClientsReturn
  StopEndsServer
CHECK_DEADLOCK FALSE
