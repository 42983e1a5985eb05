CONSTANTS
  Users = {u1, u2, u3}
  NoUser = NoUser
  Descriptors = {4, 5}
  NoDescriptor = NoDescriptor
SPECIFICATION FairSpec
INVARIANTS
  TypeOK
  HandlersServeTheirOwn
  StoppedMeansQuiet
PROPERTY GoneIsForgotten
\* stop may wait for ever, and the clients may all have come and gone.
CHECK_DEADLOCK FALSE
