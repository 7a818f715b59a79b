SPECIFICATION FairSpec
CONSTANTS
  eth1 = eth1
  eth2 = eth2
  m1 = m1
  m2 = m2
  h1 = h1
  h2 = h2
  NULL = NULL
  NoMac = NoMac
  IpMax = 15
  Ip <- MCIp
  Mac = {m1, m2, h1, h2}
  Iface = {eth1, eth2}
  IfIp <- MCIfIp
  IfMac <- MCIfMac
  RTable <- OwnRoutes
  BitAnd <- MCAnd
  Frames <- RefillFrames
  Addr = {a1, a2, a3}
  SR_ARPCACHE_SZ = 1
  SR_ARPCACHE_TO = 1
  ArpTries = 2
  MaxRx = 2
  MaxLag = 0
PROPERTIES Settled RequestsEnd
