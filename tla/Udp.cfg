CONSTANTS
  a1 = a1
  a2 = a2
  a3 = a3
  s1 = s1
  Addrs <- ThreeAddrs
  Remote = a1
  SinglePeer = {TRUE, FALSE}
  max_peers = 2
  peer_timeout = 1
  EvictPeriod = 1
  Senders <- OneSender
  MaxIds = 3
  MaxSends = 1
SPECIFICATION FairSpec
PROPERTIES StopReturns EvictedWhenQuiet
INVARIANTS PeersAccounted TrafficFollowsPeers
