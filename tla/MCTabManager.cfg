SPECIFICATION Spec
CONSTANTS
  w1 = w1
  w2 = w2
  w3 = w3
  t1 = t1
  t2 = t2
  t3 = t3
  newtab = newtab
  page1 = page1
  WindowId <- MCWindowId
  TabId <- MCTabId
  Page <- MCPage
  NewTab = newtab
  RingSize = 2
SYMMETRY Symmetry
INVARIANTS
  TypeOK
  StructureOK
PROPERTIES
  FocusProperty
  OrderProperty
  RingProperty
  ReopenProperty
