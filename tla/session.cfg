SPECIFICATION FairSpec
CONSTANTS
  eth1 = eth1
  eth2 = eth2
  m1 = m1
  m2 = m2
  NoMac = NoMac
  NoFile = NoFile
  Hosts = {"vrhost", "sw1"}
  IpMax = 3
  Ip <- MCIp
  Mac = {m1, m2}
  Iface = {eth1, eth2}
  BitAnd <- MCAnd
  Options <- MCOptions
  RTables <- MCRTables
  HwInfos <- MCHwInfos
  LenBytes = 2
  Lens <- MCLens
  MaxLen = 4
  MaxMsgs = 5
INVARIANTS TypeOK Framed Ready ServerTable NoAbort
PROPERTY AllHandled
CHECK_DEADLOCK FALSE
