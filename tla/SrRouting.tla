----------------------------- MODULE SrRouting ------------------------------
(***************************************************************************)
(* What the router knows about its surroundings once the session with the  *)
(* server is up, and the pure decisions it takes from it: the interface    *)
(* list (sr_if.c), the routing table (sr_rt.c) and the lookups in both     *)
(* (sr_router.c).  Neither changes while packets are processed.            *)
(***************************************************************************)
EXTENDS SrRoutes, SequencesExt

CONSTANTS
  IfIp,         \* address of each interface
  IfMac,        \* hardware address of each interface
  RTable        \* sr->routing_table, in file order

ASSUME IfaceAssumption == /\ IfIp \in [Iface -> Ip]
                          /\ IfMac \in [Iface -> Mac]

\* sr_verify_routing_table ends the session unless every interface of the
\* table exists.
ASSUME RTableAssumption == RTable \in Seq(Route)

RouterIps == {IfIp[i] : i \in Iface}

sr_is_router_ip(ip) == ip \in RouterIps

\* What the walk of sr_find_lpm_route returns (SrLpm has the walk itself);
\* 0 stands for NULL.
sr_find_lpm_route(ip) == BestRoute(RTable, ip)

HasRoute(ip) == HasRouteIn(RTable, ip)

NextHop(ip) == HopIn(RTable, ip)

OutIface(ip) == OutIn(RTable, ip)

IfacesOf(mac) == HavingMac(IfMac, mac)

sr_find_icmp_source_iface(shost, dhost, src) ==
  IcmpSourceIn(IfMac, RTable, shost, dhost, src)

=============================================================================
