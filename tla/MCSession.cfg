SPECIFICATION Spec
CONSTANTS
  w1 = w1
  w2 = w2
  t1 = t1
  t2 = t2
  newtab = newtab
  page1 = page1
  WindowId <- TwoWindows
  TabId <- TwoTabs
  Page <- TwoPages
  NewTab = newtab
  RingSize = 2
  KeptRows = 3
  MaxQueue = 0
SYMMETRY Symmetry
INVARIANTS
  StructureOK
  SavedUnlessDirty
PROPERTIES
  ShutdownKeepsSession
  RingsStayAgreed
