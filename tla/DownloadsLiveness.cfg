SPECIFICATION FairSpec
CONSTANTS
  d1 = d1
  d2 = d2
  ui = ui
  background = background
  worker1 = worker1
  worker2 = worker2
  v1 = v1
  v2 = v2
  None = None
  DownloadId <- OneDownload
  UserThread <- UiThread
  LaunchThread <- UiThread
  LaunchFirst = FALSE
  Worker <- TwoWorkers
  Names = 1
  Size = 1
  Version <- OneVersion
  Validator <- Distinct
  Faults <- Unreliable
  Announced <- NoVersion
CHECK_DEADLOCK FALSE
PROPERTIES
  CallsReturn
  TransfersSettle
