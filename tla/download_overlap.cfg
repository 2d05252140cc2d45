SPECIFICATION DownloadSpec
CONSTANTS
  None = None
  c1 = c1
  d1 = d1
  d2 = d2
  Clients = {c1}
  Downloaders = {d1, d2}
  Crates <- MCMixedCaseCrate
  RestrictDownloads = TRUE
  Names = {"Inflector"}
  Files = {"inflector"}
  FileOf <- MCMixedCase
  Overrides = {"inflector"}
  Windows = {2}
  Versions <- MCVersions
  PubTime <- MCPubTime
  LastRev = 2
  RevLines <- MCRevLines
  RevDate <- MCRevDate
  OpaqueRevs = {}
  BucketSecs = 2
  MetadataMax = 1
  MemoMax = 1
  UpstreamSends = {"etag"}
  Faults = {"cancel", "upstream", "status"}
  MaxTime = 1
  MaxRestarts = 1
SYMMETRY DownloaderSymmetry
INVARIANTS
  CrateFilesWholeBetweenWrites
  NothingHeldBack
PROPERTIES
  OnlyCrashesTearCrates
CHECK_DEADLOCK FALSE
