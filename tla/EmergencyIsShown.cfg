CONSTANTS
  NumFloors = 3
  NumElevators = 1
  RequestIds = {r1}
  NoRequest = NoRequest
  Callers = {owner}
  Owner = owner
SPECIFICATION Spec
INVARIANT EmergencyIsShown
