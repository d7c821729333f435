CONSTANTS
  w1 = w1
  w2 = w2
  p1 = p1
  p2 = p2
  c1 = c1
  m1 = m1
  a = a
  NoItem = NoItem
  NT = 1
  Workers <- OneWorker
  Capacity = 1
  Configs <- BlockConfigs
  Outcomes <- AllOutcomes
  Slow <- FastOrSlow
  MaxBatch = 3
  MaxMessages = 3
  MaxErrors = 1
  MaxStarts = 2
  Producers <- TwoProducers
  Consumers <- OneConsumer
  Managers <- OneManager
  Items <- OneItem
  BatchSizes <- Batches
  RingCapacity = 0
  DropPolicies <- Blocking
  MaxCount = 2
SPECIFICATION LiveSpec
PROPERTIES StopReturns MessagesSettle NobodyStranded
CHECK_DEADLOCK FALSE
