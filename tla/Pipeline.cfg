CONSTANTS
  w1 = w1
  w2 = w2
  NT = 2
  Workers <- TwoWorkers
  Capacity = 0
  Configs <- LeanConfigs
  Outcomes <- AllOutcomes
  Slow <- Fast
  MaxBatch = 2
  MaxMessages = 2
  MaxErrors = 0
  MaxStarts = 2
SPECIFICATION Spec
INVARIANTS MessagesAccounted StoppedIsQuiet ShutdownDropsNothing
PROPERTIES PeerOrderKept
SYMMETRY Symmetry
CHECK_DEADLOCK FALSE
