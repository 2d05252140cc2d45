SPECIFICATION Spec
CONSTANTS
  None = None
  c1 = c1
  c2 = c2
  Clients = {c1}
  Names = {"serde", "Serde"}
  Files = {"serde"}
  FileOf <- MCSpellings
  Overrides = {}
  Windows = {1, 2}
  Versions <- MCVersions
  PubTime <- MCPubTime
  LastRev = 2
  RevLines <- MCRevLines
  RevDate <- MCRevDate
  OpaqueRevs = {}
  BucketSecs = 2
  MetadataMax = 1
  MemoMax = 1
  UpstreamSends = {"etag", "lm"}
  Faults = {"upstream", "status", "cancel", "filter", "clock"}
  MaxTime = 5
  MaxRestarts = 0
INVARIANTS
  NoTooNewVersion
  CachesBounded
  ValidatorNotAheadOfBody
  FilesWholeBetweenWrites
PROPERTIES
  MemoJitterBounded
CHECK_DEADLOCK FALSE
