CONSTANTS
  NumFloors = 2
  NumElevators = 2
  RequestIds = {r1}
  NoRequest = NoRequest
  Clients = {client}
  Asked <- UpOnly
SPECIFICATION Spec
INVARIANT NoRequestIsDropped
