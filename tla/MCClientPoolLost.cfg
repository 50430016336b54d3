SPECIFICATION Spec
CONSTANTS
  c1 = c1
  c2 = c2
  c3 = c3
  NULL = NULL
  Clients <- MCTwoClients
  Styles <- MCThreads
  Backlog = 1
  MaxEnding = 1

INVARIANTS
  AllClientsFree
CHECK_DEADLOCK FALSE
