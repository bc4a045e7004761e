SPECIFICATION Spec
CONSTANTS
  page1 = page1
  NoPage = NoPage
  Page <- OnePage
  MaxId = 4
  MaxPos = 2
INVARIANTS
  TypeOK
  Forest
PROPERTIES
  OthersKeepOrder
  MoveCompacts
