CONSTANTS
  NumFloors = 8
  HighestFloor = 10
  RunDemo = TRUE
SPECIFICATION FairSpec
INVARIANTS
  TypeOK
  DemoIsSensible
PROPERTIES
  ResponseStays
  ExitIsNoticed
  SignalEndsProcess
\* The process ends.
CHECK_DEADLOCK FALSE
