CONSTANTS
  small = small
  large = large
  Instances <- TwoInstances
  Built <- OneAndTwoCars
  ground = ground
  upper = upper
  Floors = {ground, upper}
  FloorsOf <- BothFloors
  GroundFloor = ground
  Watched = {}
  MaxFailures = 0
  Absent = Absent
SPECIFICATION FairSpec
PROPERTY InstancesShareStates
