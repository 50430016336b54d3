SPECIFICATION Spec
CONSTANTS
  c1 = c1
  c2 = c2
  c3 = c3
  MaxNumOfItems = 3
  MaxNumOfReaders = 1
  Clients <- MCClients
  MaxRows = 5
  MaxSessions = 1
INVARIANTS
  NoWrongDataToSlowClient
CHECK_DEADLOCK FALSE
