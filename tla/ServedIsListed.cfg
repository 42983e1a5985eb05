CONSTANTS
  Users = {u1, u2}
  NoUser = NoUser
  Descriptors = {4}
  NoDescriptor = NoDescriptor
SPECIFICATION Spec
INVARIANT ServedIsListed
\* stop may wait for ever, and the clients may all have come and gone.
CHECK_DEADLOCK FALSE
