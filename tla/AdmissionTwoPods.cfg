SPECIFICATION Spec
CONSTANTS
  p = p  q = q  lane = lane
  Pod = {p, q}
  Lane = {lane}
  NoPod = NoPod
  LaneOf <- MCLaneOf
  GroupOf <- MCGroupOf
  DispatchK = 8
  Units <- MCUnits
  Capacity <- MCCapacity
  MaxAttempts = 1
  Bypass = {}
  Deletable = {p, q}
  MaxStream = 0
  LostReply = TRUE
  NetworkError = FALSE
INVARIANTS CycleWithinFree
PROPERTIES OverCommitsOnlyUnread
SYMMETRY Pods
CHECK_DEADLOCK FALSE
