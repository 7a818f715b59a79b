----------------------------- MODULE MCSrRouter -----------------------------
(***************************************************************************)
(* Instances of SrRouter for TLC: a router with two interfaces and 4-bit   *)
(* addresses, in four networks.                                            *)
(*   hosts    one host behind each interface, /32 routes as in src/rtable  *)
(*   hairpin  a router reached through the same gateway from both ends, as *)
(*            with the 192.168.0.0/16 route of src/rtables/rtable2         *)
(*   gateway  that gateway, and a host behind the other interface          *)
(*   own      the same, with the router's own addresses routed through     *)
(*            them too, as in src/rtables/rtable_pa2b_lpm                  *)
(***************************************************************************)
EXTENDS SrRouterFate
LOCAL INSTANCE Bitwise

CONSTANTS eth1, eth2, m1, m2, h1, h2

AndTable == [a \in 0 .. 15, b \in 0 .. 15 |-> a & b]

MCAnd(a, b) == AndTable[a, b]

MCIp == 1 .. 15

\* Interfaces: 0001 and 0010.  Hosts: 1001 and 1010.  1100 is nowhere.
MCIfIp  == [i \in {eth1, eth2} |-> IF i = eth1 THEN 1 ELSE 2]
MCIfMac == [i \in {eth1, eth2} |-> IF i = eth1 THEN m1 ELSE m2]

HostRoutes == << [dest |-> 9,  gw |-> 9,  mask |-> 15, iface |-> eth1],
                 [dest |-> 10, gw |-> 10, mask |-> 15, iface |-> eth2] >>

\* 1000/1 through the gateway 1001.
HairpinRoutes == << [dest |-> 8, gw |-> 9, mask |-> 8, iface |-> eth1] >>

GatewayRoutes == HairpinRoutes
                 \o << [dest |-> 10, gw |-> 10, mask |-> 15, iface |-> eth2] >>

\* The gateways are also the way to the router's own addresses.
OwnRoutes == GatewayRoutes
             \o << [dest |-> 1, gw |-> 9,  mask |-> 15, iface |-> eth1],
                   [dest |-> 2, gw |-> 10, mask |-> 15, iface |-> eth2] >>

Datagram(src, dst, dhost, ttl) ==
  [type |-> "ip", src |-> src, dst |-> dst, shost |-> h1, dhost |-> dhost,
   ttl |-> ttl, proto |-> "tcp_udp", valid |-> TRUE]

Reply(sip, mac, iface) ==
  [type |-> "arp", op |-> "reply", sha |-> mac, sip |-> sip,
   tip |-> MCIfIp[iface], iface |-> iface]

Replies == {Reply(9, h1, eth1), Reply(10, h2, eth2)}

Asks == {[Reply(9, h1, eth1) EXCEPT !.op = "request"],
         [Reply(9, h1, eth1) EXCEPT !.op = "other"],
         [Reply(9, h1, eth1) EXCEPT !.op = "request", !.tip = 2],
         [Reply(9, h1, eth1) EXCEPT !.tip = 12],
         [Reply(9, h1, eth1) EXCEPT !.sip = 0]}

\* In the network with the gateway: a datagram whose sender is behind the other
\* interface, so that an error about it starts a request of its own, one that
\* goes back to where it came from, so that the error joins the request that is
\* given up, and frames for each of the other outcomes of sr_handle_ip.
Through == {Datagram(10, 11, m2, 2), Datagram(11, 12, m1, 2)}

Odd == { Datagram(11, 10, m1, 1),                           \* time exceeded
         Datagram(11, 5, m1, 2),                            \* net unreachable
         Datagram(11, 2, m1, 2),                            \* port unreachable
         [Datagram(11, 2, m1, 2) EXCEPT !.proto = "echo"],  \* ping
         [Datagram(11, 10, m1, 2) EXCEPT !.valid = FALSE],  \* bad checksum
         Datagram(5, 2, h2, 2),         \* no interface to answer from
         Datagram(5, 10, m1, 1) }       \* no route back to the source

AllFrames == Through \cup Odd \cup Replies \cup Asks

\* In the network with the router's own addresses behind the gateways; the
\* gateway 1010 never answers.
RefillFrames == {Datagram(10, 11, m2, 2), Reply(9, h1, eth1)}

\* In the other two.
TrafficFrames == {Datagram(9, 10, m1, 2), Datagram(10, 9, m2, 2)} \cup Replies
HairpinFrames == {Datagram(11, 10, m1, 2), Reply(9, h1, eth1)}

AddrSymmetry == Permutations(Addr)

=============================================================================
