SPECIFICATION DownloadLiveSpec
CONSTANTS
  None = None
  c1 = c1
  d1 = d1
  d2 = d2
  Clients = {c1}
  Downloaders = {d1}
  Crates <- MCOldCrate
  RestrictDownloads = TRUE
  Names = {"serde"}
  Files = {"serde"}
  FileOf <- MCOneName
  Overrides = {}
  Windows = {2}
  Versions <- MCVersions
  PubTime <- MCPubTime
  LastRev = 2
  RevLines <- MCRevLines
  RevDate <- MCRevDate
  OpaqueRevs = {}
  BucketSecs = 2
  MetadataMax = 1
  MemoMax = 1
  UpstreamSends = {"etag", "lm"}
  Faults = {}
  MaxTime = 1
  MaxRestarts = 1
PROPERTIES
  DownloadsSucceed
CHECK_DEADLOCK FALSE
