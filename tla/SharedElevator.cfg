CONSTANTS
  NumFloors = 3
  NumElevators = 1
  RequestIds = {r1, r2}
  NoRequest = NoRequest
  Callers = {owner, other}
  Owner = owner
SYMMETRY InterchangeableRequests
SPECIFICATION Spec
INVARIANTS
  TypeOK
  OnCourse
  BrakesWithinOneFloor
  NoLostWakeup
  EachAcceptedOnce
  StartFindsNoThread
PROPERTY ServedMeansDelivered
