SPECIFICATION Spec
CONSTANTS
  p = p  q = q  lane = lane
  Pod = {p}
  Lane = {lane}
  NoPod = NoPod
  LaneOf <- MCLaneOf
  GroupOf <- MCGroupOf
  DispatchK = 8
  Units <- MCUnits
  Capacity <- MCCapacity
  MaxAttempts = 2
  Bypass = {}
  Deletable = {p}
  MaxStream = 1
  LostReply = TRUE
  NetworkError = TRUE
INVARIANTS TypeOK NoPodLostSilently ReservationDiesWithPod PatchedWithReservation
PROPERTIES ImplementsJobPool
CHECK_DEADLOCK FALSE
