CONSTANTS
  NumFloors = 3
  NumElevators = 2
SPECIFICATION GoSpec
INVARIANT PromisedCarIsSent
\* The command ends.
CHECK_DEADLOCK FALSE
