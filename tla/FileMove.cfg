SPECIFICATION MoveSpec
CONSTANTS
  Handlers = {h1, h2}
  Renames = {TRUE, FALSE}
  MoveBreaks = 1
  MoveRestarts = 1
  Nil = Nil
SYMMETRY HandlerSymmetry
CONSTRAINT TwoIncidents
INVARIANTS
  CopySurvives
  CompletedMeansMoved
CHECK_DEADLOCK FALSE
