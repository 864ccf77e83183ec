SPECIFICATION Spec
CONSTANTS
  Iters = 3
  Q = 4
  Curves <- MCCurves
  Rems = {0, 3, 9}
  Units = {1, 2}
  Ranks = {1, 2}
  Frees = {0, 1}
  Requireds = {1, 2}
  MaxRunning = 2
  MaxRecords = 3
  AlphaNum = 1
  AlphaDen = 3
  Unit = 2
  Residencies <- MCResidencies
  PriorMean = 9
  PriorVar = 20
  PriorWeights = {0, 2}
  small = small  Small = Small  large = large  lane1 = lane1  lane2 = lane2
  Spelling = {small, Small, large}
  Lane = {lane1, lane2}
  NoLabel = NoLabel  NoLane = NoLane  NoPod = NoPod
  LaneOf <- MCLaneOf
  Ours = Ours
  OtherGate = OtherGate
  NoSchedule = NoSchedule  NoExecute = NoExecute
  Effect = {NoSchedule, NoExecute}
  q1 = q1  q2 = q2  q3 = q3  here = here  there = there
  Pod = {q1, q2, q3}
  Name = {here, there}
  NameOf <- MCNameOf
  QueueOf <- MCQueueOf
  Batch = {q2}
  Medians = {1, 3}
  EarlyInterval = 1
  EarlyCount = 1
  LateInterval = 2
  BatchMaxEmits = 3
  MaxTime = 4
  Never = Never
  Nobody = Nobody
INVARIANT OptimisticIsEarlier
CHECK_DEADLOCK FALSE
