SPECIFICATION FairSpec
CONSTANTS
  c1 = c1
  c2 = c2
  Client = {c1, c2}
  Tls = {}
  Uri <- MCUri
  CgiUri = {"/cgi/x"}
  FileSize <- MCFileSize
  Requests <- MCRequests
  Segments <- MCSegments
  Leaves = {c1}
  HalfCloses = {}
  BUFSZ = 12
  HDRSZ = 1
  INT_HALF = 8
  MAX_CONNS = 3
  FD_SETSIZE = 16
  NOFILE = 15
  SNDBUF = 5
  PIPESZ = 4
  OUTSZ = 1
  CgiOrder = "read"
  Faults = {}
INVARIANT FdsOwned
INVARIANT MaxFdCovers
INVARIANT BodyFidelity
PROPERTY InputsEnd
CHECK_DEADLOCK FALSE
