CONSTANTS
  MaxLines = 3
  MaxReplies = 3
SPECIFICATION FairSpec
INVARIANTS
  TypeOK
  PatientUserIsHarmless
PROPERTIES
  LeavingReturns
  ServerEndIsNoticed
\* The client and the server end.
CHECK_DEADLOCK FALSE
