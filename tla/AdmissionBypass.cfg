SPECIFICATION Spec
CONSTANTS
  p = p  q = q  lane = lane
  Pod = {p, q}
  Lane = {lane}
  NoPod = NoPod
  LaneOf <- MCLaneOf
  GroupOf <- MCGroupOf
  DispatchK = 8
  Units <- MCUnits
  Capacity <- MCCapacity
  MaxAttempts = 2
  Bypass = {q}
  Deletable = {p, q}
  MaxStream = 0
  LostReply = FALSE
  NetworkError = FALSE
INVARIANTS UngatedPodCounted
CHECK_DEADLOCK FALSE
