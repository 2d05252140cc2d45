SPECIFICATION LiveSpec
CONSTANTS
  None = None
  c1 = c1
  c2 = c2
  Clients = {c1}
  Names = {"serde"}
  Files = {"serde"}
  FileOf <- MCOneName
  Overrides = {}
  Windows = {0, 2}
  Versions <- MCVersions
  PubTime <- MCPubTime
  LastRev = 2
  RevLines <- MCRevLines
  RevDate <- MCRevDate
  OpaqueRevs = {}
  BucketSecs = 2
  MetadataMax = 1
  MemoMax = 1
  UpstreamSends = {"etag", "lm"}
  Faults = {"wipe"}
  MaxTime = 1
  MaxRestarts = 1
PROPERTIES
  StaleCopiesInvalidated
CHECK_DEADLOCK FALSE
