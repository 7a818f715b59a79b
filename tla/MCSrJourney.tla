---------------------------- MODULE MCSrJourney -----------------------------
(***************************************************************************)
(* An instance of SrJourney for TLC, with octets of four bits, words of    *)
(* eight and addresses of two words, high.low below: the network of        *)
(* src/rtables/rtable1, rtable2 and rtable3, with two of its three leaves. *)
(*                                                                         *)
(*   4.8 --- 4.1 left 1.2 --- 1.11 centre 1.3 --- 8.2 right 8.1 --- 8.4    *)
(*                                                                         *)
(* The leaves have a route to their host (one of them without naming a     *)
(* gateway, which the code allows) and send the rest to the centre;        *)
(* the centre sends 4.* to the left and 8.* to the right.  So 4.3 and 8.3  *)
(* go to and fro between two routers, and 13.1 has no route.  The hosts    *)
(* have each other's address with the halves exchanged, and 1.11 has the   *)
(* same sum of words.                                                      *)
(***************************************************************************)
EXTENDS SrJourney

CONSTANTS eth1, eth2, left, centre, right

Address(high, low) == 256 * high + low

LeftHost  == Address(4, 8)
LeftIf    == Address(4, 1)
LeftUp    == Address(1, 2)
LeftNone  == Address(4, 3)
CentreL   == Address(1, 11)
CentreR   == Address(1, 3)
RightUp   == Address(8, 2)
RightIf   == Address(8, 1)
RightNone == Address(8, 3)
RightHost == Address(8, 4)
Nowhere   == Address(13, 1)

MCIp == {LeftHost, LeftIf, LeftUp, LeftNone, CentreL, CentreR, RightUp, RightIf,
         RightNone, RightHost, Nowhere}

\* Masks of a prefix: all of an address, its high word, nothing.
AllOf == 65535
High8 == 65280
None  == 0

AndTable ==
  [a \in MCIp \cup {None, Address(4, 0), Address(8, 0)},
   mask \in {AllOf, High8, None} |-> a - (a % (65536 - mask))]

MCAnd(a, mask) == AndTable[a, mask]

Pair(a, b) == [i \in {eth1, eth2} |-> IF i = eth1 THEN a ELSE b]

MCIfIps == [r \in {left, centre, right} |->
              CASE r = left   -> Pair(LeftIf, LeftUp)
                [] r = centre -> Pair(CentreL, CentreR)
                [] r = right  -> Pair(RightIf, RightUp)]

MCPeer == [r \in {left, centre, right} |->
             CASE r = left   -> Pair(LeftHost, CentreL)
               [] r = centre -> Pair(LeftUp, RightUp)
               [] r = right  -> Pair(RightHost, CentreR)]

Entry(dest, gw, mask, i) ==
  [dest |-> dest, gw |-> gw, mask |-> mask, iface |-> i]

MCRTables == [r \in {left, centre, right} |->
  CASE r = left   -> <<Entry(LeftHost, LeftHost, AllOf, eth1),
                       Entry(0, CentreL, None, eth2)>>
    [] r = centre -> <<Entry(Address(4, 0), LeftUp, High8, eth1),
                       Entry(Address(8, 0), RightUp, High8, eth2),
                       Entry(LeftUp, LeftUp, AllOf, eth1),
                       Entry(RightUp, RightUp, AllOf, eth2)>>
    [] r = right  -> <<Entry(RightHost, 0, AllOf, eth1),
                       Entry(0, CentreR, None, eth2)>>]

MCHosts == {LeftHost, RightHost}

MCDist == [r \in {left, centre, right} |->
  CASE r = left   -> [h \in MCHosts |-> IF h = LeftHost THEN 1 ELSE 3]
    [] r = centre -> [h \in MCHosts |-> 2]
    [] r = right  -> [h \in MCHosts |-> IF h = LeftHost THEN 3 ELSE 1]]

\* Senders store the checksums of RFC 1071, 0 among them.
Summed(d) ==
  [d EXCEPT !.sum = RfcSum(HeaderOctets([d EXCEPT !.sum = 0]))]

Echo(type, data) ==
  LET b == [type |-> type, code |-> 0, sum |-> 0, data |-> data]
  IN  [b EXCEPT !.sum = RfcSum(BodyOctets(b))]

\* Echo requests of even and odd length, one whose checksum is 0, one that is
\* too short, one with a wrong checksum; an echo reply.
Icmp == {Echo(8, <<1, 2>>), Echo(8, <<1, 2, 9>>), Echo(8, <<7, 15>>),
         Echo(8, <<1>>), [Echo(8, <<1, 2>>) EXCEPT !.sum = 1],
         Echo(0, <<1, 2>>)}

Other == [type |-> 0, code |-> 0, sum |-> 0, data |-> <<5>>]

Make(src, dst, ttl, id, p, body) ==
  Summed([fit |-> TRUE, id |-> id, ttl |-> ttl, p |-> p, sum |-> 0,
          src |-> src, dst |-> dst, body |-> body])

Ttls == {0, 1, 3, 4, 15}
Dsts == {CentreL, LeftIf, LeftHost, LeftNone, RightUp, RightHost, RightNone,
         Nowhere}

\* Pings, other protocols, all kinds of ICMP messages to a router and to a
\* host, a malformed datagram, and datagrams whose checksum is 0 at the sender
\* or at the second router.
MCDatagrams ==
       {Make(LeftHost, dst, ttl, 0, 1, Echo(8, <<1, 2>>)) :
          dst \in Dsts, ttl \in Ttls}
  \cup {Make(LeftHost, dst, ttl, 0, 6, Other) : dst \in Dsts, ttl \in Ttls}
  \cup {Make(RightHost, dst, 15, 0, p, Other) :
          dst \in {CentreL, LeftIf, LeftHost}, p \in {2, 6}}
  \cup {Make(LeftHost, dst, 15, 0, 1, body) :
          dst \in {CentreL, RightHost}, body \in Icmp}
  \cup {[Make(LeftHost, RightHost, 3, 0, 6, Other) EXCEPT !.fit = FALSE]}
  \cup {Make(LeftHost, RightHost, ttl, id, 1, Echo(8, <<1, 2>>)) :
          ttl \in {4, 15}, id \in {22, 166}}

\* The checksum shows the first address of src and of dst; the others it does
\* not show, where they replace one of the same sum.
MCNoise == [id |-> {0, 255}, ttl |-> {15}, sum |-> {0, 255},
            src |-> {LeftIf, CentreL},
            dst |-> {LeftIf, RightHost, LeftHost}]

=============================================================================
