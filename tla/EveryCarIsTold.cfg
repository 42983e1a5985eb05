CONSTANTS
  NumFloors = 2
  NumElevators = 2
  RequestIds = {}
  NoRequest = NoRequest
  Clients = {client, other}
  Asked <- UpOnly
SYMMETRY InterchangeableClients
SPECIFICATION Spec
INVARIANT TypeOK
PROPERTY EveryCarIsTold
