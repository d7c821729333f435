CONSTANTS
  s1 = s1
  m1 = m1
  m2 = m2
  k1 = k1
  k2 = k2
  w1 = w1
  w2 = w2
  a1 = a1
  p1 = p1
  Singles <- OneSingle
  Multis <- TwoMultis
  Names <- PlainNames
  Reported <- Up
  Installed = {2}
  IdSpace = 4
  Attempts = 2
  MaxIds = 6
  MaxPeers = 3
  MaxEntries = 2
  MaxChildren = 3
  Senders <- TwoSenders
  Enabled <- On
  max_attempts = 1
  initial_delay = 1
  backoff_num = 2
  backoff_den = 1
  max_delay = 1
  FrameLen = 1
  Window = 1
  MaxTries = 2
  MaxConns = 2
  MaxSends = 1
  MaxSkips = 1
  Workers <- TwoWorkers
  Apps <- OneApp
  Types = {1, 2}
  HandlerPeers <- OnePeer
  MaxRegistrations = 3
  MaxDispatches = 2
SPECIFICATION PeersSpec
INVARIANTS MapsAgree ServedPeersKnown NamesResolve NothingOutlivesPeers  RemovedStaysSilent DeliveredOnce
PROPERTIES FallbackNeedsCrowd
SYMMETRY PeersSymmetry
