SPECIFICATION Spec
CONSTANTS
  p1 = p1
  p2 = p2
  r1 = r1
  r2 = r2
  r3 = r3
  h1 = h1
  junk = junk
  NoValue = NoValue
  None = None
  Procs <- MCProcs
  Readers <- MCRequests
  Requests <- MCRequests
  ProcOf <- MCProcOf
  Threads <- MCThreads
  Hashes <- MCHashes
  Contents <- MCContents
  Sends <- MCSends
  Values = {"nas", "s3"}
  EnvBackend = "nas"
  TTL = 1
  MaxWrites = 1
  MaxCrashes = 1
CHECK_DEADLOCK FALSE
INVARIANTS BoundedStaleness ExistsHolds TempsAccounted
PROPERTIES RowsReadable
