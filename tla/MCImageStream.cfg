SPECIFICATION Spec
CONSTANTS
  Rows <- MCRows
  XRes <- MCXRes
  Requests <- MCRequests
INVARIANTS
  TypeOK
  ImagesAreRowsSent
  LastRowLostAtMost
  PixelsInPlace
  FrameToldFirst
PROPERTIES
  StreamEnds
CHECK_DEADLOCK FALSE
