CONSTANTS
  NumFloors = 2
  HighestFloor = 2
  RunDemo = FALSE
SPECIFICATION Spec
INVARIANT SignalIsGraceful
\* The process ends.
CHECK_DEADLOCK FALSE
