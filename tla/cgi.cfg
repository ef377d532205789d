SPECIFICATION FairSpec
CONSTANTS
  c1 = c1
  c2 = c2
  Client = {c1, c2}
  Tls = {}
  Uri <- MCUri
  CgiUri = {"/cgi/x"}
  FileSize <- MCFileSize
  Requests <- MCRequests
  Segments <- MCSegments
  Leaves = {}
  HalfCloses = {}
  BUFSZ = 6
  HDRSZ = 2
  INT_HALF = 8
  MAX_CONNS = 3
  FD_SETSIZE = 16
  NOFILE = 11
  SNDBUF = 20
  PIPESZ = 4
  OUTSZ = 2
  CgiOrder = "any"
  Faults = {}
INVARIANT TypeOK
INVARIANT ResponsesInOrder
INVARIANT BodyFidelity
INVARIANT InputFed
INVARIANT Awaited
PROPERTY ImplementsHttp
PROPERTY Served
CHECK_DEADLOCK FALSE
