CONSTANTS
  MaxLines = 2
  MaxReplies = 2
SPECIFICATION FairSpec
PROPERTY ExitReturns
\* The client and the server end.
CHECK_DEADLOCK FALSE
