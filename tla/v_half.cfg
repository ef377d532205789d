SPECIFICATION FairSpec
CONSTANTS
  c1 = c1
  c2 = c2
  Client = {c1}
  Tls = {}
  Uri <- MCUri
  CgiUri = {"/cgi/x"}
  FileSize <- MCFileSize
  Requests <- MissingRequests
  Segments <- MissingSegments
  Leaves = {}
  HalfCloses = {c1}
  BUFSZ = 12
  HDRSZ = 1
  INT_HALF = 8
  MAX_CONNS = 2
  FD_SETSIZE = 16
  NOFILE = 11
  SNDBUF = 20
  PIPESZ = 4
  OUTSZ = 1
  CgiOrder = "any"
  Faults = {}
PROPERTY Served
CHECK_DEADLOCK FALSE
