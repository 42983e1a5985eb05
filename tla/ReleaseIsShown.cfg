CONSTANTS
  NumFloors = 3
  NumElevators = 1
  RequestIds = {r1}
  NoRequest = NoRequest
  Callers = {owner, other}
  Owner = owner
SPECIFICATION Spec
INVARIANT ReleaseIsShown
