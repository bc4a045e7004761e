SPECIFICATION FairSpec
CONSTANTS
  www = www
  news = news
  org = org
  worker = worker
  Missing = Missing
  Torn = Torn
  Versions = 2
  CacheFaults <- DiskAndInput
  Host <- Hosts
  Toggled <- OneSite
  MaxToggles = 1
  Flusher <- OneFlusher
  MaxEvents = 2
ACTION_CONSTRAINT OnePartAtATime
CHECK_DEADLOCK FALSE
INVARIANTS
  CacheMatchesLists
  LookupIsNearest
  ShellShowsSaved
PROPERTIES
  RulesArrive
