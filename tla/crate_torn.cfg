SPECIFICATION DownloadSpec
CONSTANTS
  None = None
  c1 = c1
  d1 = d1
  d2 = d2
  Clients = {c1}
  Downloaders = {d1}
  Crates <- MCOldCrate
  RestrictDownloads = FALSE
  Names = {"serde"}
  Files = {"serde"}
  FileOf <- MCOneName
  Overrides = {}
  Windows = {0}
  Versions <- MCVersions
  PubTime <- MCPubTime
  LastRev = 2
  RevLines <- MCRevLines
  RevDate <- MCRevDate
  OpaqueRevs = {}
  BucketSecs = 2
  MetadataMax = 1
  MemoMax = 1
  UpstreamSends = {"etag"}
  Faults = {}
  MaxTime = 2
  MaxRestarts = 1
INVARIANTS
  CratesServedVerbatim
CHECK_DEADLOCK FALSE
