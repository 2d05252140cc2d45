SPECIFICATION DownloadLiveSpec
CONSTANTS
  None = None
  c1 = c1
  d1 = d1
  d2 = d2
  Clients = {c1}
  Downloaders = {d1}
  Crates <- MCMixedCaseCrate
  RestrictDownloads = TRUE
  Names = {"Inflector"}
  Files = {"inflector"}
  FileOf <- MCMixedCase
  Overrides = {}
  Windows = {1, 2}
  Versions <- MCVersions
  PubTime <- MCPubTime
  LastRev = 2
  RevLines <- MCRevLines
  RevDate <- MCRevDate
  OpaqueRevs = {}
  BucketSecs = 2
  MetadataMax = 1
  MemoMax = 1
  UpstreamSends = {"etag"}
  Faults = {}
  MaxTime = 2
  MaxRestarts = 1
PROPERTIES
  RequestsEnd
  StaleCopiesInvalidated
  CopiesCatchUp
  DownloadsSucceed
CHECK_DEADLOCK FALSE
