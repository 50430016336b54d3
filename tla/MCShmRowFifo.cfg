SPECIFICATION Spec
CONSTANTS
  c1 = c1
  c2 = c2
  c3 = c3
  MaxNumOfItems = 3
  MaxNumOfReaders = 2
  Clients <- MCClients
  MaxRows = 5
  MaxSessions = 3
SYMMETRY MCSymmetry
INVARIANTS
  TypeOK
  SlotExclusive
  NoSlotLeaked
  LagAccounting
  HeldRowIntact
PROPERTIES
  ImplementsBroadcast
CHECK_DEADLOCK FALSE
