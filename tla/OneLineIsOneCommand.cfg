CONSTANTS
  MaxLines = 2
  MaxReplies = 2
SPECIFICATION FairSpec
INVARIANT OneLineIsOneCommand
\* The client and the server end.
CHECK_DEADLOCK FALSE
