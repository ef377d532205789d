SPECIFICATION FairSpec
CONSTANTS
  c1 = c1
  Client = {c1}
  Tls = {}
  Uri <- MCUri
  CgiUri = {"/cgi/x"}
  FileSize <- MCFileSize
  Requests <- MCRequests
  Segments <- MCSegments
  Leaves = {c1}
  HalfCloses = {}
  BUFSZ = 12
  HDRSZ = 1
  INT_HALF = 8
  MAX_CONNS = 3
  FD_SETSIZE = 16
  NOFILE = 11
  SNDBUF = 20
  PIPESZ = 2
  OUTSZ = 2
  CgiOrder = "any"
  Faults = {"signal", "die", "stderr"}
INVARIANT FdsOwned
PROPERTY LoopReturns
PROPERTY PoolDrains
CHECK_DEADLOCK FALSE
