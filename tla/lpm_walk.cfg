SPECIFICATION Spec
CONSTANTS
  eth1 = eth1
  Iface = {eth1}
  Mac = {}
  NoMac = NoMac
  IpMax = 7
  Ip <- MCIp
  BitAnd <- MCAnd
  Tables <- MCTables
  Width = 3
  Block <- MCBlock
INVARIANTS TypeOK BestSoFar WalkIsBestRoute LongestPrefix
CHECK_DEADLOCK FALSE
