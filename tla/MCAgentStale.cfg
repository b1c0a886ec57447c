SPECIFICATION Spec
CONSTANTS
  Clients = {c1}
  Servers = {s1}
  Nobody = Nobody
  MaxCommands = 4
  MaxHostCalls = 1
  MaxRecorders = 1
INVARIANT
  StartedSessionHasRecorder
CHECK_DEADLOCK FALSE
