SPECIFICATION Spec
CONSTANTS
  c1 = c1
  c2 = c2
  s1 = s1
  s2 = s2
  NULL = NULL
  Clients <- MCClients
  Streams = {s1, s2}
  Plans <- MCPlans
SYMMETRY MCSymmetry
INVARIANTS
  TypeOK
  NoDeadlock
  OneSequenceFirst
  CountCoversServed
PROPERTY OnlyTheDeadLeave
CHECK_DEADLOCK FALSE
