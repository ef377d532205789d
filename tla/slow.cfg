SPECIFICATION FairSpec
CONSTANTS
  c1 = c1
  c2 = c2
  Client = {c1, c2}
  Tls = {}
  Uri <- MCUri
  CgiUri = {}
  FileSize <- MCFileSize
  Requests <- MCRequests
  Segments <- MCSegments
  Leaves = {}
  HalfCloses = {c1}
  BUFSZ = 6
  HDRSZ = 2
  INT_HALF = 8
  MAX_CONNS = 3
  FD_SETSIZE = 16
  NOFILE = 8
  SNDBUF = 3
  PIPESZ = 4
  OUTSZ = 2
  CgiOrder = "any"
  Faults = {}
INVARIANT ResponsesInOrder
INVARIANT FilesWhole
PROPERTY FilesOnce
PROPERTY DroppedWhenOver
PROPERTY Served
PROPERTY ImplementsHttp
CHECK_DEADLOCK FALSE
