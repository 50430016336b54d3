SPECIFICATION FairSpec
CONSTANTS
  c1 = c1
  c2 = c2
  c3 = c3
  MaxNumOfItems = 3
  MaxNumOfReaders = 1
  Clients <- MCClients
  MaxRows = 3
  MaxSessions = 3
PROPERTIES
  NewReaderReturns
  AnnouncedRowsTaken
CHECK_DEADLOCK FALSE
