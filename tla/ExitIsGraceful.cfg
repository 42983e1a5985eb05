CONSTANTS
  NumFloors = 2
  HighestFloor = 2
  RunDemo = FALSE
SPECIFICATION Spec
INVARIANT ExitIsGraceful
\* The process ends.
CHECK_DEADLOCK FALSE
