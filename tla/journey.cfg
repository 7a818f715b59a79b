SPECIFICATION FairSpec
CONSTANTS
  eth1 = eth1
  eth2 = eth2
  left = left
  centre = centre
  right = right
  OctetMax = 15
  IpMax = 65535
  Ip <- MCIp
  Mac <- MCIp
  NoMac = 0
  Iface = {eth1, eth2}
  BitAnd <- MCAnd
  Routers = {left, centre, right}
  IfIps <- MCIfIps
  RTables <- MCRTables
  Peer <- MCPeer
  Hosts <- MCHosts
  Dist <- MCDist
  Datagrams <- MCDatagrams
  Noise <- MCNoise
  INIT_TTL = 15
  ICMP_DATA_SIZE = 20
  EchoSize = 2
INVARIANTS TypeOK LeavesValid NothingVanishes Intact QuotesSender EchoReturns
PROPERTY Ends
CHECK_DEADLOCK FALSE
