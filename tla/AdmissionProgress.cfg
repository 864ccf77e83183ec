SPECIFICATION FairSpec
CONSTANTS
  p = p  q = q  lane = lane
  Pod = {p, q}
  Lane = {lane}
  NoPod = NoPod
  LaneOf <- MCLaneOf
  GroupOf <- MCGroupOf
  DispatchK = 8
  Units <- MCUnits
  Capacity <- MCCapacity
  MaxAttempts = 2
  Bypass = {q}
  Deletable = {p}
  MaxStream = 0
  LostReply = FALSE
  NetworkError = FALSE
PROPERTIES EveryPodResolved
CHECK_DEADLOCK FALSE
