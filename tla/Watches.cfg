SPECIFICATION Spec
CONSTANTS
  p = p  m = m  n = n  x = x  y = y
  Pod = {p}
  Node = {n}
  Lane = {x, y}
  NoLane = NoLane
  NoPod = NoPod
  PodLabels = {x, NoLane}
  NodeOf <- MCNodeOf
  GpuCount <- MCGpuCount
  NodeStates <- MCNodeStates
  MaxNodeEvents = 1
  MaxRelists = 1
INVARIANTS TypeOK RunningPodCounted NoOtherGhost CapacityFollowsNodes
  CompletionNotLost CompletionRecordedOnce
CHECK_DEADLOCK FALSE
