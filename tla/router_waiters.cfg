SPECIFICATION Spec
CONSTANTS
  eth1 = eth1
  eth2 = eth2
  m1 = m1
  m2 = m2
  h1 = h1
  h2 = h2
  NULL = NULL
  NoMac = NoMac
  IpMax = 15
  Ip <- MCIp
  Mac = {m1, m2, h1, h2}
  Iface = {eth1, eth2}
  IfIp <- MCIfIp
  IfMac <- MCIfMac
  RTable <- HairpinRoutes
  BitAnd <- MCAnd
  Frames <- HairpinFrames
  Addr = {a1, a2}
  SR_ARPCACHE_SZ = 1
  SR_ARPCACHE_TO = 1
  ArpTries = 5
  MaxRx = 1
  MaxLag = 1
SYMMETRY AddrSymmetry
INVARIANT AllWaitersAnswered
