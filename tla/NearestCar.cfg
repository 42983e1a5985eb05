CONSTANTS
  NumFloors = 4
  NumElevators = 2
SPECIFICATION Spec
INVARIANT NearestCarAssigned
CHECK_DEADLOCK FALSE
