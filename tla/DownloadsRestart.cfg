SPECIFICATION Spec
CONSTANTS
  d1 = d1
  d2 = d2
  ui = ui
  background = background
  worker1 = worker1
  worker2 = worker2
  v1 = v1
  v2 = v2
  None = None
  DownloadId <- OneDownload
  UserThread <- UiThread
  LaunchThread <- UiThread
  LaunchFirst = TRUE
  Worker <- TwoWorkers
  Names = 2
  Size = 2
  Version <- OneVersion
  Validator <- Distinct
  Faults <- NetworkAndCrash
  Announced <- OneVersion
CHECK_DEADLOCK FALSE
INVARIANTS
  OneWorkerPerFile
  CompletedIsWhole
  ActiveMeansRunning
PROPERTIES
  LifecycleSpec
