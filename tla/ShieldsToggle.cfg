SPECIFICATION Spec
CONSTANTS
  www = www
  news = news
  org = org
  worker = worker
  Missing = Missing
  Torn = Torn
  Versions = 1
  CacheFaults <- NoFaults
  Host <- Hosts
  Toggled <- NoSite
  MaxToggles = 1
  Flusher <- NoFlusher
  MaxEvents = 1
CHECK_DEADLOCK FALSE
INVARIANT
  RulesFollowSwitch
