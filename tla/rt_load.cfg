SPECIFICATION Spec
CONSTANTS
  eth1 = eth1
  eth2 = eth2
  junk = junk
  Bad = Bad
  Iface = {eth1, eth2, junk}
  Mac = {}
  NoMac = NoMac
  IpMax = 3
  Ip <- MCIp
  BitAnd <- MCAnd
  Files <- MCFiles
  Locals <- MCLocals
  Previous <- MCPrevious
INVARIANTS TypeOK OneEntryPerLine OnlyFirstBlankCounts
CHECK_DEADLOCK FALSE
