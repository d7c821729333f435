CONSTANTS
  p1 = p1
  p2 = p2
  c1 = c1
  c2 = c2
  m1 = m1
  a = a
  b = b
  NoItem = NoItem
  Producers <- TwoProducers
  Consumers <- TwoConsumers
  Managers <- OneManager
  Items <- TwoItems
  BatchSizes <- Batches
  Capacity = 2
  DropPolicies <- Policies
  MaxCount = 3
SPECIFICATION Spec
SYMMETRY Symmetry
INVARIANTS NoLostWakeup
PROPERTIES RefinesFifo
