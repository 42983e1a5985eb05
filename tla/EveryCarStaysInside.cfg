CONSTANTS
  small = small
  large = large
  Instances <- TwoInstances
  Built <- OneAndTwoCars
  ground = ground
  upper = upper
  Floors = {ground, upper}
  FloorsOf <- GroundOrBoth
  GroundFloor = ground
  Watched = {}
  MaxFailures = 0
  Absent = Absent
SPECIFICATION Spec
INVARIANT EveryCarStaysInside
