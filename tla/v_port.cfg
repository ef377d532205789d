SPECIFICATION Spec
CONSTANTS
  s1 = s1
  s2 = s2
  k1 = k1
  k2 = k2
  Server = {s1}
  Kid = {k1, k2}
  LOGSZ = 12
  Port = {"a"}
  Pid <- MCPid
  Faults = {"exec", "kill"}
INVARIANT PortsFreed
CHECK_DEADLOCK FALSE
