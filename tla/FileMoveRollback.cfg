SPECIFICATION MoveSpec
CONSTANTS
  Handlers = {h1}
  Renames = {TRUE, FALSE}
  MoveBreaks = 0
  MoveRestarts = 1
  Nil = Nil
INVARIANT
  RollbackKeepsACopy
CHECK_DEADLOCK FALSE
