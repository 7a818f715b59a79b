------------------------------ MODULE SrRoutes ------------------------------
(***************************************************************************)
(* Routing tables (struct sr_rt of sr_rt.h) and which entry of one the     *)
(* router uses for a destination; the lookups of sr_router.c in a routing  *)
(* table and an interface list.                                            *)
(***************************************************************************)
EXTENDS SrAddresses, Sequences

CONSTANTS
  Iface,        \* names of interfaces
  BitAnd(_, _)  \* bitwise conjunction of two addresses

\* struct sr_rt; a gateway of 0 means that the destination is on the link.
Route == [dest : 0 .. IpMax, gw : Ip \cup {0}, mask : 0 .. IpMax, iface : Iface]

\* The test of sr_find_lpm_route on one entry.
Matches(rt, ip) == BitAnd(ip, rt.mask) = BitAnd(rt.dest, rt.mask)

\* Entry k is to be preferred to entry j: a numerically larger mask, or the
\* same mask and an earlier place in the table.
Prefers(table, k, j) == \/ table[j].mask < table[k].mask
                        \/ table[j].mask = table[k].mask /\ k <= j

\* The entry that is preferred to every other entry that matches, 0 if none.
BestRoute(table, ip) ==
  LET fits == {k \in DOMAIN table : Matches(table[k], ip)}
  IN  IF fits = {} THEN 0
      ELSE CHOOSE k \in fits : \A j \in fits : Prefers(table, k, j)

HasRouteIn(table, ip) == BestRoute(table, ip) # 0

\* Mutant: the gateway, also where there is none.
HopGateway(table, ip) == table[BestRoute(table, ip)].gw

\* next_hop_ip and out_iface of sr_send_routed_ip_packet.
HopIn(table, ip) ==
  LET rt == table[BestRoute(table, ip)]
  IN  IF rt.gw # 0 THEN rt.gw ELSE ip

OutIn(table, ip) == table[BestRoute(table, ip)].iface

\* sr_find_iface_by_mac, given the hardware address of each interface.
HavingMac(macs, mac) == {i \in Iface : macs[i] = mac}

\* sr_find_icmp_source_iface, as the set of its at most one result.
IcmpSourceIn(macs, table, shost, dhost, src) ==
  CASE HavingMac(macs, shost) # {} -> {CHOOSE i \in HavingMac(macs, shost) : TRUE}
    [] HavingMac(macs, shost) = {} /\ HavingMac(macs, dhost) # {} ->
         {CHOOSE i \in HavingMac(macs, dhost) : TRUE}
    [] OTHER -> IF HasRouteIn(table, src) THEN {OutIn(table, src)} ELSE {}

=============================================================================
