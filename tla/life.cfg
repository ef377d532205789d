SPECIFICATION FairSpec
CONSTANTS
  s1 = s1
  s2 = s2
  k1 = k1
  k2 = k2
  Server = {s1, s2}
  Kid = {k1}
  LOGSZ = 12
  Port = {"a", "b"}
  Pid <- MCPid
  Faults = {"kill", "exec"}
INVARIANT OneServer
INVARIANT LockNamesServer
PROPERTY TermEnds
CHECK_DEADLOCK FALSE
