CONSTANTS
  s1 = s1
  s2 = s2
  Senders <- TwoSenders
  RemoteMoves <- AllMoves
  max_clients = 1
  FrameLen = 2
  Window = 1
  MaxFds = 2
  MaxConns = 2
  MaxSends = 1
SPECIFICATION ReadersSpec
INVARIANTS TrafficFollowsPeers FramesIntact LifeCycleReported
PROPERTIES StopReturns
