SPECIFICATION Spec
CONSTANTS
  c1 = c1
  Clients <- MCClient
  Requested <- MCRequested
  BlockIds <- MCBlockIds
  Lines <- MCLines
  InBox <- MCInBox
  Window = 2
  MaxFrames = 2
  MaxBlocks = 4
  MaxDescriptors = 1
  LateWrites = 1
  MaxSessions = 1
INVARIANTS
  FrameAnnounced
CHECK_DEADLOCK FALSE
