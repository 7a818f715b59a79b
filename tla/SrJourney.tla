----------------------------- MODULE SrJourney ------------------------------
(***************************************************************************)
(* One datagram on its way through a network of routers that all run this  *)
(* code.  Every handler of the router puts at most one datagram on the     *)
(* wire, so a journey is a single frame: on a link, in the queue of a      *)
(* router that waits for an ARP reply, or over.  The datagram that travels *)
(* at the end may be another than the one that was sent: the echo reply,   *)
(* or an ICMP error about it.                                              *)
(*                                                                         *)
(* What SrRouter leaves out is here: the octets of the headers and their   *)
(* checksums, the time to live, and what the next router makes of the      *)
(* output of the last one.  What it has in detail, the ARP table and the   *)
(* two threads, is here the choice between a next hop that is known, one   *)
(* that answers in time and one that never does.                           *)
(*                                                                         *)
(* Hosts and links are not part of the repository.                         *)
(***************************************************************************)
EXTENDS SrRoutes, SrChecksum, Functions

CONSTANTS
  Routers,         \* the routers
  IfIps,           \* per router, the addresses of its interfaces
  RTables,         \* per router, sr->routing_table
  Peer,            \* per router and interface, the address at the other end
  Hosts,           \* the addresses of the hosts
  Dist,            \* per router and host, the routers from the one to the other
  Datagrams,       \* the datagrams that hosts may send
  Noise,           \* per header field, the values that a link may turn it into
  INIT_TTL,        \* time to live of the datagrams that a router makes
  ICMP_DATA_SIZE,  \* octets of a datagram that an ICMP error quotes
  EchoSize         \* octets of identifier and sequence number of an echo

\* enum sr_ip_protocol; 6 stands for TCP and UDP.
ip_protocol_icmp == 1
ip_protocol_tcp  == 6

\* What follows the IP header; for ICMP the three fields are those of
\* sr_icmp_t08_hdr and sr_icmp_t11_hdr.
Body == [type : Octet, code : Octet, sum : Word, data : Seq(Octet)]

\* struct sr_ip_hdr.  id stands for all words of the header that no handler
\* looks at, fit for the tests of sr_valid_ip_packet on version and lengths.
Datagram == [fit : BOOLEAN, id : Word, ttl : Octet, p : Octet, sum : Word,
             src : Ip, dst : Ip, body : Body]

\* The fields that a link may alter, an address in one or both of its words.
Altered == [id |-> Word, ttl |-> Octet, p |-> Octet, sum |-> Word,
            src |-> Ip, dst |-> Ip]

\* The hardware address of an interface has the number of its address.
Frame == [shost : Ip, dhost : Ip, d : Datagram]

ASSUME NetworkAssumption ==
  /\ IpMax < (WordMax + 1) * (WordMax + 1)  \* an address is two words
  /\ Mac = Ip /\ Hosts \subseteq Ip
  /\ IfIps \in [Routers -> [Iface -> Ip]]
  /\ Peer \in [Routers -> [Iface -> Ip]]
  /\ RTables \in [Routers -> Seq(Route)]
  /\ Dist \in [Routers -> [Hosts -> Nat]]
  /\ INIT_TTL \in Octet /\ EchoSize \in Nat
  /\ \A field \in DOMAIN Noise :
       field \in DOMAIN Altered /\ Noise[field] \subseteq Altered[field]

\* ICMP types fit into an octet, and an ICMP error quotes at least the header.
ASSUME SizeAssumption ==
  OctetMax >= 11 /\ ICMP_DATA_SIZE \in Nat /\ ICMP_DATA_SIZE >= 14

VARIABLES
  stage,    \* "home", "link", "queue" or "over"
  frame,    \* the frame that carries the datagram
  wait,     \* in the queue: the router, the interface and the next hop
  (* history *)
  orig,     \* the datagram as its sender made it
  fate,     \* how the journey ended
  damaged,  \* a link has altered the header
  unseen,   \* it has altered an address in a way that no checksum shows
  failed    \* a next hop did not answer ARP requests

vars == <<stage, frame, wait, orig, fate, damaged, unseen, failed>>

RouterIps == UNION {Range(IfIps[r]) : r \in Routers}

\* A host is no router and has one at the end of its link.
ASSUME HostAssumption ==
  /\ Hosts \cap RouterIps = {}
  /\ \A h \in Hosts : \E r \in Routers, i \in Iface : Peer[r][i] = h

\* The routing tables lead to the hosts, from every router within the time to
\* live of what routers send, and to a host only with what is addressed to it.
ASSUME RoutingAssumption ==
  \A r \in Routers :
    /\ \A h \in Hosts :
         /\ HasRouteIn(RTables[r], h)
         /\ 0 < Dist[r][h] /\ Dist[r][h] < INIT_TTL
         /\ \A q \in Routers, i \in Iface :
              IfIps[q][i] = HopIn(RTables[r], h) => Dist[q][h] < Dist[r][h]
    /\ \A ip \in Ip :
         HasRouteIn(RTables[r], ip) /\ HopIn(RTables[r], ip) \in Hosts =>
           HopIn(RTables[r], ip) = ip

sr_is_router_ip(r, ip) == ip \in Range(IfIps[r])

\* The router interface at the other end of a host's link.
Gateway(h) ==
  CHOOSE ip \in RouterIps :
    \E r \in Routers, i \in Iface : IfIps[r][i] = ip /\ Peer[r][i] = h

-----------------------------------------------------------------------------
(* Datagrams.                                                              *)

\* The two words of an address.
High(ip) == ip \div (WordMax + 1)
Low(ip)  == ip % (WordMax + 1)

HeaderOctets(d) == OctetsOf(d.id) \o <<d.ttl, d.p>> \o OctetsOf(d.sum)
                   \o OctetsOf(High(d.src)) \o OctetsOf(Low(d.src))
                   \o OctetsOf(High(d.dst)) \o OctetsOf(Low(d.dst))

\* Indistinguishable to a checksum: equal, or the two zeros; and addresses whose
\* words have the same sum, as an address and its halves exchanged.
SameWord(v, w)    == v % WordMax = w % WordMax
AddressSum(ip)    == High(ip) + Low(ip)
SameAddress(a, b) == SameWord(AddressSum(a), AddressSum(b))

\* Hosts send under their own address and store the checksum of RFC 1071.
ASSUME SenderAssumption ==
  /\ Datagrams \subseteq Datagram
  /\ \A d \in Datagrams : d.src \in Hosts /\ RfcValid(HeaderOctets(d))

BodyOctets(b) == <<b.type, b.code>> \o OctetsOf(b.sum) \o b.data

\* cksum over a header, or an ICMP message, whose own checksum was set to 0.
HeaderSum(d) == cksum(HeaderOctets([d EXCEPT !.sum = 0]))
IcmpSum(b)   == cksum(BodyOctets([b EXCEPT !.sum = 0]))

SumHeader[d \in Datagram] == [d EXCEPT !.sum = HeaderSum(d)]
SumIcmp[d \in Datagram]   == [d EXCEPT !.body.sum = IcmpSum(d.body)]

\* Mutant: the checksum is not compared.
ValidUnsummed(d) == d.fit

sr_valid_ip_packet(d) == d.fit /\ d.sum = HeaderSum(d)

\* memcpy of the first ICMP_DATA_SIZE octets of a datagram onto zeros.
Quote(d) ==
  SubSeq(HeaderOctets(d) \o BodyOctets(d.body)
         \o [k \in 1 .. ICMP_DATA_SIZE |-> 0], 1, ICMP_DATA_SIZE)

\* The datagram that sr_send_icmp_error makes about d, addressed to dst.
IcmpMessage(src, dst, d, type, code) ==
  SumIcmp[SumHeader[
    [fit |-> TRUE, id |-> 0, ttl |-> INIT_TTL, p |-> ip_protocol_icmp,
     sum |-> 0, src |-> src, dst |-> dst,
     body |-> [type |-> type, code |-> code, sum |-> 0, data |-> Quote(d)]]]]

\* Mutant: the error goes where the datagram was going.
IcmpErrorOnwards(src, d, type, code) == IcmpMessage(src, d.dst, d, type, code)

IcmpError(src, d, type, code) == IcmpMessage(src, d.src, d, type, code)

\* What sr_send_icmp_error hands to sr_send_routed_ip_packet, at most one
\* frame: none when the datagram in hand is not valid (any more), or when no
\* interface is found to answer from.
sr_send_icmp_error(r, f, type, code) ==
  {[shost |-> IfIps[r][i], dhost |-> f.shost,
    d |-> IcmpError(IfIps[r][i], f.d, type, code)] :
     i \in IF sr_valid_ip_packet(f.d)
           THEN IcmpSourceIn(IfIps[r], RTables[r], f.shost, f.dhost, f.d.src)
           ELSE {}}

\* Mutant: the reply is still a request.
EchoReplyUntyped(d) ==
  SumIcmp[SumHeader[[d EXCEPT !.src = d.dst, !.dst = d.src,
                              !.ttl = INIT_TTL]]]

\* The datagram that sr_send_icmp_echo_reply makes of a request.
EchoReply(d) ==
  SumIcmp[SumHeader[[d EXCEPT !.src = d.dst, !.dst = d.src, !.ttl = INIT_TTL,
                              !.body.type = 0, !.body.code = 0]]]

\* The test of sr_handle_ip on an ICMP message for the router.
IsEcho(d) == /\ d.p = ip_protocol_icmp
             /\ Len(d.body.data) >= EchoSize
             /\ d.body.type = 8
             /\ d.body.sum = IcmpSum(d.body)

\* Mutants: the header is summed before the time to live changes; the time to
\* live does not change.
DecrementLate(d) == [SumHeader[d] EXCEPT !.ttl = @ - 1]
DecrementNot(d)  == SumHeader[d]

\* What forwarding does to a datagram.
Decrement(d) == SumHeader[[d EXCEPT !.ttl = @ - 1]]

-----------------------------------------------------------------------------
(* Frames.                                                                 *)

OnLink(f) ==
  /\ stage' = "link"
  /\ frame' = f
  /\ UNCHANGED <<wait, fate>>

InQueue(f, r, i, hop) ==
  /\ stage' = "queue"
  /\ frame' = f
  /\ wait' = [router |-> r, iface |-> i, hop |-> hop]
  /\ UNCHANGED fate

End(how) ==
  /\ stage' = "over"
  /\ fate' = how
  /\ UNCHANGED <<frame, wait>>

\* The at most one frame fs of router r leaves, waits or is gone.  dying is the
\* next hop of the request that the sweeper is about to destroy, if any: a
\* packet for it joins that request and is freed with it.
sr_send_routed_ip_packet(r, fs, dying) ==
  \/ /\ \A f \in fs : ~ HasRouteIn(RTables[r], f.d.dst)
     /\ End("lost")
  \/ \E f \in fs :
       LET i   == OutIn(RTables[r], f.d.dst)
           hop == HopIn(RTables[r], f.d.dst)
           out == [f EXCEPT !.shost = IfIps[r][i]]
       IN  /\ HasRouteIn(RTables[r], f.d.dst)
           /\ \/ /\ hop # dying
                 /\ hop = Peer[r][i]
                 /\ OnLink([out EXCEPT !.dhost = hop])
              \/ hop # dying /\ InQueue(out, r, i, hop)
              \/ hop = dying /\ End("lost")

Init ==
  /\ stage = "home"
  /\ frame \in {[shost |-> d.src, dhost |-> Gateway(d.src), d |-> d] :
                  d \in Datagrams}
  /\ wait = [router |-> CHOOSE r \in Routers : TRUE,
             iface |-> CHOOSE i \in Iface : TRUE, hop |-> 0]
  /\ orig = frame.d
  /\ fate = "none"
  /\ damaged = FALSE
  /\ unseen = FALSE
  /\ failed = FALSE

-----------------------------------------------------------------------------
(* The router: sr_handle_ip, one action per way through it.                *)

\* Interface i of router r has received the frame.
Received(r, i) ==
  /\ stage = "link"
  /\ IfIps[r][i] = frame.dhost
  /\ UNCHANGED <<orig, damaged, unseen, failed>>

Accepted(r, i) == Received(r, i) /\ sr_valid_ip_packet(frame.d)

ForUs(r, i)   == Accepted(r, i) /\ sr_is_router_ip(r, frame.d.dst)
Transit(r, i) == Accepted(r, i) /\ ~ sr_is_router_ip(r, frame.d.dst)

Refuse(r, i) ==
  /\ Received(r, i)
  /\ ~ sr_valid_ip_packet(frame.d)
  /\ End("invalid")

\* The reply goes back where the request came from, whatever the routing table
\* says.
sr_send_icmp_echo_reply(r, i) ==
  /\ ForUs(r, i)
  /\ IsEcho(frame.d)
  /\ OnLink([shost |-> IfIps[r][i], dhost |-> frame.shost,
             d |-> EchoReply(frame.d)])

PortUnreachable(r, i) ==
  /\ ForUs(r, i)
  /\ frame.d.p = ip_protocol_tcp
  /\ sr_send_routed_ip_packet(r, sr_send_icmp_error(r, frame, 3, 3), 0)

\* Any other datagram for the router is ignored.
Absorb(r, i) ==
  /\ ForUs(r, i)
  /\ ~ IsEcho(frame.d) /\ frame.d.p # ip_protocol_tcp
  /\ End("absorbed")

TimeExceeded(r, i) ==
  /\ Transit(r, i)
  /\ frame.d.ttl <= 1
  /\ sr_send_routed_ip_packet(r, sr_send_icmp_error(r, frame, 11, 0), 0)

\* sr_forward_ip_packet: a datagram without a route is answered, with the time
\* to live that was left for it.
sr_forward_ip_packet(r, i) ==
  LET f == [frame EXCEPT !.d = Decrement(@)]
  IN  /\ Transit(r, i)
      /\ frame.d.ttl > 1
      /\ sr_send_routed_ip_packet(
           r, IF HasRouteIn(RTables[r], f.d.dst) THEN {f}
              ELSE sr_send_icmp_error(r, f, 3, 0), 0)

\* The next hop answers, and sr_cache_arp_mapping sends what waits for it.
Flush ==
  /\ stage = "queue"
  /\ wait.hop = Peer[wait.router][wait.iface]
  /\ OnLink([frame EXCEPT !.dhost = wait.hop,
                          !.shost = IfIps[wait.router][wait.iface]])
  /\ UNCHANGED <<orig, damaged, unseen, failed>>

\* It does not, and sr_arpcache_sweepreqs gives up.
GiveUp ==
  /\ stage = "queue"
  /\ failed' = TRUE
  /\ sr_send_routed_ip_packet(
       wait.router, sr_send_icmp_error(wait.router, frame, 3, 1), wait.hop)
  /\ UNCHANGED <<orig, damaged, unseen>>

Handle(r, i) ==
  \/ Refuse(r, i)
  \/ sr_send_icmp_echo_reply(r, i)
  \/ PortUnreachable(r, i)
  \/ Absorb(r, i)
  \/ TimeExceeded(r, i)
  \/ sr_forward_ip_packet(r, i)

-----------------------------------------------------------------------------
(* Hosts and links.                                                        *)

HostSend ==
  /\ stage = "home"
  /\ stage' = "link"
  /\ UNCHANGED <<frame, wait, orig, fate, damaged, unseen, failed>>

\* A host tests checksums as RFC 1071 says.
HostReceive ==
  LET d == frame.d
  IN  /\ stage = "link"
      /\ frame.dhost \in Hosts
      /\ IF /\ d.dst = frame.dhost
            /\ RfcValid(HeaderOctets(d))
            /\ d.p = ip_protocol_icmp => RfcValid(BodyOctets(d.body))
         THEN End("delivered")
         ELSE End("ignored")
      /\ UNCHANGED <<orig, damaged, unseen, failed>>

\* Once in a journey a link alters one field of the header.
Damage ==
  /\ stage = "link"
  /\ ~ damaged
  /\ damaged' = TRUE
  /\ \E field \in DOMAIN Noise : \E v \in Noise[field] \ {frame.d[field]} :
       /\ frame' = [frame EXCEPT !.d[field] = v]
       /\ unseen' = (field \in {"src", "dst"} /\ SameAddress(v, frame.d[field]))
  /\ UNCHANGED <<stage, wait, orig, fate, failed>>

Progress ==
  \/ \E r \in Routers, i \in Iface : Handle(r, i)
  \/ Flush
  \/ GiveUp
  \/ HostReceive

Next == HostSend \/ Progress \/ Damage

Spec == Init /\ [][Next]_vars

\* Frames on a link arrive, threads that can run do, and the sweeper wakes up
\* every second; nothing has to be sent or damaged.
FairSpec == Spec /\ WF_vars(Progress)

-----------------------------------------------------------------------------
(* Properties.                                                             *)

Fates == {"none", "delivered", "ignored", "invalid", "absorbed", "lost"}

\* The frame in hand is a frame, and a journey has a fate when it is over.
TypeOK ==
  /\ stage \in {"home", "link", "queue", "over"}
  /\ frame \in Frame
  /\ wait \in [router : Routers, iface : Iface, hop : Ip \cup {0}]
  /\ stage = "queue" => wait.hop # 0
  /\ orig \in Datagram
  /\ fate \in Fates
  /\ fate = "none" <=> stage # "over"
  /\ damaged \in BOOLEAN /\ unseen \in BOOLEAN /\ failed \in BOOLEAN

FromRouter == stage \in {"link", "queue"} /\ frame.shost \in RouterIps

\* Whatever a router sends (sr_handle_ip, sr_send_icmp_error and
\* sr_send_icmp_echo_reply after their last change to the header) has a header
\* checksum that RFC 1071 accepts and that the next router's
\* sr_valid_ip_packet accepts too; so has the ICMP message if it made one.
LeavesValid ==
  FromRouter /\ ~ damaged =>
    /\ sr_valid_ip_packet(frame.d)
    /\ RfcValid(HeaderOctets(frame.d))
    /\ frame.d.src \in RouterIps => RfcValid(BodyOctets(frame.d.body))

\* The requests and messages that a router answers.
Answerable(d) ==
  \/ d.p = ip_protocol_tcp
  \/ /\ d.p = ip_protocol_icmp /\ d.body.type = 8
     /\ Len(d.body.data) >= EchoSize
     /\ RfcValid(BodyOctets(d.body)) /\ d.body.sum # 0

\* Without damage and with next hops that answer, no datagram vanishes: it
\* arrives, or its sender gets the reply or the error.  The exceptions are the
\* malformed ones, those whose sender stored a checksum of 0 (cksum never
\* computes 0, so the comparison in sr_valid_ip_packet or sr_handle_ip fails
\* although the checksum is right), those that a router has no answer to, and
\* ICMP messages whose wrong checksum the receiving host finds.
NothingVanishes ==
  stage = "over" /\ ~ damaged /\ ~ failed =>
    \/ fate = "delivered"
    \/ fate = "invalid" /\ (~ orig.fit \/ orig.sum = 0)
    \/ fate = "ignored" /\ ~ RfcValid(BodyOctets(orig.body))
    \/ /\ fate = "absorbed"
       /\ frame.d.src = orig.src
       /\ orig.dst \in RouterIps
       /\ ~ Answerable(orig)

\* d is the datagram that was sent, apart from what routers may change.
Stems(d) ==
  /\ SameWord(d.id, orig.id)
  /\ d.ttl <= orig.ttl
  /\ d = [orig EXCEPT !.id = d.id, !.ttl = d.ttl, !.sum = d.sum]

Delivered == stage = "over" /\ fate = "delivered"

\* A datagram of a host that arrives at a host is the one that was sent to it,
\* damaged links notwithstanding: the routers repair no checksum, because
\* sr_handle_ip validates before it recomputes.  The damage that gets through is
\* the one that cksum cannot show: an address whose two words have changed and
\* still have the same sum.
Intact == Delivered /\ ~ unseen /\ frame.d.src \in Hosts => Stems(frame.d)

IsError(d) == d.src \in RouterIps /\ d.body.type \in {3, 11}

\* The header that an ICMP error quotes, with the rest taken from orig.
Quoted(q) == [orig EXCEPT !.id = Base * q[1] + q[2], !.ttl = q[3],
                          !.sum = Base * q[5] + q[6]]

\* d is an ICMP error about orig for its sender.
ErrorAbout(d) ==
  LET q == d.body.data
  IN  /\ d.dst = orig.src
      /\ Stems(Quoted(q))
      /\ q = Quote(Quoted(q))

\* d is the answer to the echo request orig.
ReplyTo(d) ==
  /\ orig.p = ip_protocol_icmp /\ orig.body.type = 8
  /\ d.src = orig.dst /\ d.dst = orig.src
  /\ d.body.type = 0
  /\ d.body.data = orig.body.data

\* An ICMP error that arrives at a host arrives at the sender of the datagram
\* it is about, and quotes that datagram; never another error, although
\* sr_send_icmp_error does not ask what it is answering.  As Intact, this is of
\* journeys without an alteration that no checksum shows.
QuotesSender ==
  Delivered /\ ~ unseen /\ IsError(frame.d) => ErrorAbout(frame.d)

\* A reply that arrives is the answer of the addressed interface to the echo
\* request that its receiver sent, with the same data; unless a link has altered
\* an address in a way that no checksum shows.
EchoReturns ==
  Delivered /\ ~ unseen /\ frame.d.src \in RouterIps /\ ~ IsError(frame.d) =>
    ReplyTo(frame.d)

\* Every journey ends: a datagram that two routers hand to each other runs out
\* of time to live, and errors about errors (sr_send_icmp_error answers those
\* too) come to an end.  The latter is due to the network: no route leads to an
\* interface of the router itself.  With a table that has such routes, as
\* rtables/rtable_pa2b_lpm, and two next hops that never answer, the errors of a
\* router about its own errors follow each other for ever (see RequestsEnd of
\* SrRouter).
Ends == stage \in {"link", "queue"} ~> stage = "over"

=============================================================================
