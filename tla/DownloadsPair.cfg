SPECIFICATION Spec
CONSTANTS
  d1 = d1
  d2 = d2
  ui = ui
  background = background
  worker1 = worker1
  worker2 = worker2
  v1 = v1
  v2 = v2
  None = None
  DownloadId <- TwoDownloads
  UserThread <- UiThread
  LaunchThread <- UiThread
  LaunchFirst = TRUE
  Worker <- TwoWorkers
  Names = 2
  Size = 1
  Version <- OneVersion
  Validator <- Distinct
  Faults <- NoFault
  Announced <- OneVersion
CHECK_DEADLOCK FALSE
SYMMETRY Symmetry
CONSTRAINT ShortQueue
INVARIANTS
  OneWorkerPerFile
  NamesAreDistinct
