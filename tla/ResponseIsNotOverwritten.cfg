CONSTANTS
  NumFloors = 2
  HighestFloor = 2
  RunDemo = FALSE
SPECIFICATION Spec
PROPERTY ResponseIsNotOverwritten
\* The process ends.
CHECK_DEADLOCK FALSE
