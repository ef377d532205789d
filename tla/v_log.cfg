SPECIFICATION FairSpec
CONSTANTS
  s1 = s1
  s2 = s2
  k1 = k1
  k2 = k2
  Server = {s1}
  Kid = {k1, k2}
  LOGSZ = 12
  Port = {"a"}
  Pid <- MCPid
  Faults = {"exec"}
PROPERTY LogReturns
CHECK_DEADLOCK FALSE
