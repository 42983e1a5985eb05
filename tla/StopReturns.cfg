CONSTANTS
  NumFloors = 2
  NumElevators = 1
  RequestIds = {r1}
  NoRequest = NoRequest
  Callers = {owner, other}
  Owner = owner
SPECIFICATION FairSpec
PROPERTY StopReturns
