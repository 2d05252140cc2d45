SPECIFICATION Spec
CONSTANTS
  None = None
  c1 = c1
  c2 = c2
  Clients = {c1, c2}
  Names = {"serde"}
  Files = {"serde"}
  FileOf <- MCOneName
  Overrides = {}
  Windows = {2}
  Versions <- MCVersions
  PubTime <- MCPubTime
  LastRev = 2
  RevLines <- MCRevLines
  RevDate <- MCRevDate
  OpaqueRevs = {1}
  BucketSecs = 2
  MetadataMax = 1
  MemoMax = 1
  UpstreamSends = {"etag", "lm"}
  Faults = {"cancel"}
  MaxTime = 2
  MaxRestarts = 0
SYMMETRY ClientSymmetry
INVARIANTS
  TypeOK
PROPERTIES
  AgeGateSpec
CHECK_DEADLOCK FALSE
