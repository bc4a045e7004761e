SPECIFICATION FairSpec
CONSTANTS
  client1 = client1
  client2 = client2
  worker = worker
  Owner = owner
  Free = free
  Client <- Clients
  Holder <- Holders
  MaxWrites = 4
CHECK_DEADLOCK FALSE
INVARIANTS
  DropDrains
PROPERTIES
  ImplementsStore
  NoCallHangs
  DropReturns
