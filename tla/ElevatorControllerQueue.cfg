CONSTANTS
  NumFloors = 2
  NumElevators = 1
  RequestIds = {r1, r2}
  NoRequest = NoRequest
  Clients = {client}
  Asked <- UpOnly
SPECIFICATION FairSpec
INVARIANTS
  DispatcherIsWoken
  EachOfferedOnce
PROPERTIES
  EveryRequestSettles
  DispatcherIsJoined
