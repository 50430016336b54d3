SPECIFICATION FairSpec
CONSTANTS
  c1 = c1
  Clients <- MCClient
  Requested <- MCRequested
  BlockIds <- MCBlockIds
  Lines <- MCLines
  InBox <- MCInBox
  Window = 2
  MaxFrames = 3
  MaxBlocks = 4
  MaxDescriptors = 2
  LateWrites = 1
  MaxSessions = 1
INVARIANTS
  TypeOK
  FrameDefNotBehind
  FramesInOrder
PROPERTIES
  DefsGoForward
  RowsTaken
  GoneClientsFreed
  FeedResumed
CHECK_DEADLOCK FALSE
