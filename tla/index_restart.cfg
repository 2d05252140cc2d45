SPECIFICATION Spec
CONSTANTS
  None = None
  c1 = c1
  c2 = c2
  Clients = {c1}
  Names = {"serde"}
  Files = {"serde"}
  FileOf <- MCOneName
  Overrides = {}
  Windows = {0, 1, 2}
  Versions <- MCVersions
  PubTime <- MCPubTime
  LastRev = 2
  RevLines <- MCRevLines
  RevDate <- MCRevDate
  OpaqueRevs = {}
  BucketSecs = 2
  MetadataMax = 1
  MemoMax = 1
  UpstreamSends = {"etag", "lm"}
  Faults = {"upstream", "status", "disk", "cancel", "filter", "wipe"}
  MaxTime = 2
  MaxRestarts = 1
INVARIANTS
  AgeInv
  NoTooNewVersion
  NothingHeldBack
CHECK_DEADLOCK FALSE
