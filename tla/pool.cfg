SPECIFICATION Spec
CONSTANTS
  c1 = c1
  c2 = c2
  c3 = c3
  Client = {c1, c2, c3}
  Tls = {c3}
  Uri <- MCUri
  CgiUri = {"/cgi/x"}
  FileSize <- MCFileSize
  Requests <- MCRequests
  Segments <- MCSegments
  Leaves = {c1}
  HalfCloses = {}
  BUFSZ = 12
  HDRSZ = 1
  INT_HALF = 8
  MAX_CONNS = 2
  FD_SETSIZE = 9
  NOFILE = 10
  SNDBUF = 20
  PIPESZ = 4
  OUTSZ = 1
  CgiOrder = "any"
  Faults = {"fork", "ssl_new"}
INVARIANT PoolTypeOK
INVARIANT SelectSetsOpen
INVARIANT FdsOwned
INVARIANT PoolIndexed
PROPERTY VisitedStay
PROPERTY VisitsAll
CHECK_DEADLOCK FALSE
