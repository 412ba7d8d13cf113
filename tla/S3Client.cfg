CONSTANTS
  Keys = {1, 2}
  CallKeys = {2}
  Size <- Sizes
  OtherVersions = {1}
  Threshold = 2
  MaxParts = 2
  RetryAttempts = 2
  DownloadAttempts = 3
  MaxBytes = 2
  PageSize = 1
  MaxListKeys = 2
  MaxListPages = 3
  MaxBodies = 2
  Servers = {"sound", "broken"}
  Faults = {"lost", "landed", "denied", "garbled", "read", "redirect", "cut", "short", "hollow", "stuck", "io", "replace", "stop", "crash"}
  MaxFaults = 2
SPECIFICATION FairSpec
INVARIANTS ReadsAreTrue UploadsAreClosed
PROPERTIES EveryCallEnds CallsKeepThePromise
