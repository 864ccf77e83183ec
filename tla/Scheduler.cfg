SPECIFICATION FairSpec
CONSTANTS
  j1 = j1  j2 = j2  j3 = j3  j4 = j4
  lane = lane  f = f  g = g  h = h  u = u  v = v
  SchedGroup = {f, g, h}
  User = {u, v}
  ModeWeight <- MCModeWeight
  AgeBoost <- MCAgeBoost
  Batch = {j2}
  JobId = {j1, j2, j3, j4}
  Lane = {lane}
  LaneOf <- MCLaneOf
  GroupOf <- MCGroupOf
  UserOf <- MCUserOf
  Units <- MCUnits
  DispatchK = 2
  MaxTime = 2
  Capacities = {0, 2}
CHECK_DEADLOCK FALSE
INVARIANTS TypeOK
PROPERTIES ImplementsJobPool NoPriorityInversion EveryFittingJobLeaves
