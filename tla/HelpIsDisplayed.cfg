CONSTANTS
  NumFloors = 2
  HighestFloor = 2
  RunDemo = FALSE
SPECIFICATION FairSpec
PROPERTY HelpIsDisplayed
\* The process ends.
CHECK_DEADLOCK FALSE
