CONSTANTS
  small = small
  large = large
  Instances <- TwoInstances
  Built <- OneAndTwoCars
  ground = ground
  upper = upper
  Floors = {ground, upper}
  FloorsOf <- GroundOrBoth
  GroundFloor = ground
  Watched <- SmallDispatcher
  MaxFailures = 1
  Absent = Absent
SPECIFICATION FairSpec
INVARIANTS
  TypeOK
  FleetIsSound
  SyncHasConnection
PROPERTY FleetsConverge
