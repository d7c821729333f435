CONSTANTS
  s1 = s1
  s2 = s2
  Senders <- OneSender
  RemoteMoves <- HalfClose
  max_clients = 1
  FrameLen = 2
  Window = 1
  MaxFds = 1
  MaxConns = 1
  MaxSends = 1
SPECIFICATION FairSpec
PROPERTIES StopUnblocksSends
