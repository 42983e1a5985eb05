CONSTANTS
  NumFloors = 2
  NumElevators = 2
  RequestIds = {r1}
  NoRequest = NoRequest
  Clients = {client}
  Asked <- EveryPair
SPECIFICATION Spec
INVARIANTS
  TypeOK
  StoppedMeansQuiet
PROPERTY ServesRequests
