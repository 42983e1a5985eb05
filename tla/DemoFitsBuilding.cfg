CONSTANTS
  NumFloors = 3
  HighestFloor = 3
  RunDemo = TRUE
SPECIFICATION Spec
INVARIANT DemoFitsBuilding
\* The process ends.
CHECK_DEADLOCK FALSE
