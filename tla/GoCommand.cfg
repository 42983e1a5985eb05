CONSTANTS
  NumFloors = 3
  NumElevators = 2
SPECIFICATION GoSpec
INVARIANTS
  GoTypeOK
  PicksCheapestCar
  IdleCarFirst
  AwayCarLast
  IdlePromiseKept
\* The command ends.
CHECK_DEADLOCK FALSE
