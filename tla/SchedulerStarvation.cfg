SPECIFICATION FairSpec
CONSTANTS
  j1 = j1  j2 = j2  j3 = j3  j4 = j4
  lane = lane  f = f  g = g  h = h  u = u  v = v
  SchedGroup = {g}
  User = {u, v}
  ModeWeight <- MCModeWeight
  AgeBoost <- MCAgeBoost
  Batch = {}
  JobId = {j1, j2}
  Lane = {lane}
  LaneOf <- MCLaneOf
  GroupOf <- OneGroup
  UserOf <- TwoUsers
  Units <- Oversize
  DispatchK = 8
  MaxTime = 2
  Capacities = {2}
CHECK_DEADLOCK FALSE
PROPERTIES NoJobWaitsForEver
