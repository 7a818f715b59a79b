SPECIFICATION Spec
CONSTANTS
  IpMax = 4
  Ip <- MCIp
  Mac = {h1, h2}
  NoMac = NoMac
  SR_ARPCACHE_SZ = 3
  SR_ARPCACHE_TO = 1
INVARIANTS TypeOK UniqueMapping
PROPERTY ImplementsMap
