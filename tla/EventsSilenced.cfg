SPECIFICATION PublisherSpec
CONSTANTS
  q1 = q1  q2 = q2  q3 = q3  here = here  there = there
  Pod = {q1, q2, q3}
  Name = {here, there}
  NameOf <- MCNameOf
  QueueOf <- MCQueueOf
  Batch = {q2}
  Medians = {1, 3}
  EarlyInterval = 1
  EarlyCount = 1
  LateInterval = 2
  BatchMaxEmits = 3
  MaxTime = 4
  Never = Never
  Nobody = Nobody
INVARIANT QueuedPodsTold
CHECK_DEADLOCK FALSE
