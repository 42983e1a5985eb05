CONSTANTS
  Users = {u1}
  NoUser = NoUser
  Descriptors = {4}
  NoDescriptor = NoDescriptor
SPECIFICATION FairSpec
PROPERTY ExitDisconnects
\* stop may wait for ever, and the clients may all have come and gone.
CHECK_DEADLOCK FALSE
