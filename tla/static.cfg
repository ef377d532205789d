SPECIFICATION Spec
CONSTANTS
  c1 = c1
  c2 = c2
  Client = {c1, c2}
  Tls = {c2}
  Uri <- MCUri
  CgiUri = {}
  FileSize <- MCFileSize
  Requests <- MCRequests
  Segments <- MCSegments
  Leaves = {c2}
  HalfCloses = {}
  BUFSZ = 8
  HDRSZ = 2
  INT_HALF = 8
  MAX_CONNS = 3
  FD_SETSIZE = 16
  NOFILE = 8
  SNDBUF = 20
  PIPESZ = 4
  OUTSZ = 2
  CgiOrder = "any"
  Faults = {}
INVARIANT TypeOK
INVARIANT ResponsesInOrder
INVARIANT NoLineLeft
INVARIANT Backpressure
PROPERTY RepliesWait
PROPERTY DroppedWhenServed
PROPERTY ImplementsHttp
CHECK_DEADLOCK FALSE
