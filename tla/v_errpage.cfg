SPECIFICATION Spec
CONSTANTS
  c1 = c1
  c2 = c2
  Client = {c1}
  Tls = {}
  Uri <- MCUri
  CgiUri = {"/cgi/x"}
  FileSize <- MCFileSize
  Requests <- MissingRequests
  Segments <- MissingSegments
  Leaves = {}
  HalfCloses = {}
  BUFSZ = 12
  HDRSZ = 1
  INT_HALF = 8
  MAX_CONNS = 2
  FD_SETSIZE = 16
  NOFILE = 11
  SNDBUF = 1
  PIPESZ = 4
  OUTSZ = 1
  CgiOrder = "any"
  Faults = {}
INVARIANT ResponsesInOrder
CHECK_DEADLOCK FALSE
