SPECIFICATION LiveSpec
CONSTANTS
  None = None
  c1 = c1
  c2 = c2
  Clients = {c1}
  Names = {"serde"}
  Files = {"serde"}
  FileOf <- MCOneName
  Overrides = {}
  Windows = {2}
  Versions <- MCVersions
  PubTime <- MCPubTime
  LastRev = 2
  RevLines <- MCRevLines
  RevDate <- MCRevDate
  OpaqueRevs = {}
  BucketSecs = 2
  MetadataMax = 1
  MemoMax = 1
  UpstreamSends = {"etag"}
  Faults = {}
  MaxTime = 5
  MaxRestarts = 0
PROPERTIES
  AgedVersionsReachClients
CHECK_DEADLOCK FALSE
