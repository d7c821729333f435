CONSTANTS
  s1 = s1
  s2 = s2
  Senders <- TwoSenders
  Enabled = {TRUE, FALSE}
  max_attempts = 4
  initial_delay = 3
  backoff_num = 3
  backoff_den = 2
  max_delay = 5
  FrameLen = 2
  Window = 1
  MaxTries = 5
  MaxConns = 2
  MaxSends = 1
SPECIFICATION ReadersSpec
INVARIANTS FramesIntact NothingLeftOpen
PROPERTIES PolicyFollowed StopReturns AttemptsResolve
