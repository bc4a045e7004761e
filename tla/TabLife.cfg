SPECIFICATION Spec
CONSTANTS
  a = a
  b = b
  NoTab = NoTab
  Tab <- TwoTabs
  Player <- OneTab
  Pinnable <- OtherTab
  MaxActive = 0
  MaxQueue = 2
  MaxLoads = 1
  MaxPosts = 1
CHECK_DEADLOCK FALSE
INVARIANTS
  AudioAgrees
  ViewsFollowTabs
  MuteReachesPage
PROPERTIES
  SuspendSparesTabsInUse
