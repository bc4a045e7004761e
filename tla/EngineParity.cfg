SPECIFICATION FairSpec
CONSTANTS
  news = news
  blog = blog
  Url <- Pages
  NoUrl = NoUrl
  NoLoad = NoLoad
  NoView = NoView
  MaxCalls = 4
CHECK_DEADLOCK FALSE
CONSTRAINT FirstIsNews
INVARIANTS
  EventContract
  HistoryIsLinear
  ViewIsAsAsked
PROPERTIES
  DropReturns
