SPECIFICATION Spec
CONSTANTS
  c1 = c1
  c2 = c2
  c3 = c3
  NULL = NULL
  Clients <- MCClients
  Styles <- MCStyles
  Backlog = 1
  MaxEnding = 1
SYMMETRY MCSymmetry
CONSTRAINT UntilEarly
INVARIANTS
  TypeOK
  ListsSound
  NotLeftWaitingOneThread
CHECK_DEADLOCK FALSE
