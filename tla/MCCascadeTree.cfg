SPECIFICATION Spec
CONSTANTS
  MaxKey = 6
  MaxHeight = 3
  Height <- MCHeight
  Ids = {1, 2, 3}
  NumOfDims = 2
  Boxes <- MCBoxes
  Windows <- MCWindows
  NULL = NULL
INVARIANTS
  TypeOK
  ListsSound
  CursorsAlive
  AnswerIntersects
  AnswerMissesOnlyTies
  StopsOnlyWhenEmpty
CHECK_DEADLOCK FALSE
