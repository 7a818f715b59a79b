---------------------------- MODULE SrRouterFate ----------------------------
(***************************************************************************)
(* The two threads of SrRouter implement NextHopQueue.  A datagram that    *)
(* main routes is in hand until its lookup or its queueing is over; the    *)
(* lists of the queued requests are what waits, except that the sweeper    *)
(* has already dealt with a part of the list it is answering; the list     *)
(* that main has taken off the queue is what has been released.            *)
(***************************************************************************)
EXTENDS SrRouter

\* The next hops of the routing table.
Hops == {NextHop(ip) : ip \in {x \in Ip : HasRoute(x)}}

\* The datagram that main has in hand, with its next hop.
Hand ==
  {<<pkt[t].id, NextHop(pkt[t].dst)>> :
     t \in {u \in Threads : /\ pc[u] \in {"lookup", "queue"}
                            /\ pkt[u].what = "data"}}

WaitingFor(h) == UNION {DataIds(Waiting(a)) : a \in RequestsFor(h)}

Released ==
  IF pc["main"] = "flush" THEN DataIds(heap[ptr["main"]].packets) ELSE {}

\* Reports about datagrams that were accepted; the other errors of sr_handle_ip
\* are about datagrams that never were.
Reports == [i \in 1 .. MaxRx |-> IF i \in accepted THEN told[i] ELSE 0]

Q == INSTANCE NextHopQueue WITH
       Ids      <- 1 .. MaxRx,
       Hops     <- Hops,
       known    <- {h \in Hops : Cached(entries, h)},
       hand     <- Hand,
       waiting  <- [h \in Hops |-> WaitingFor(h)],
       released <- Released,
       told     <- Reports

\* What sr_send_routed_ip_packet, sr_cache_arp_mapping and
\* sr_arpcache_sweepreqs do between them, in two threads and several locked
\* sections each, is what NextHopQueue does: a lookup and the queueing that
\* follows it act as one, a reply releases everything that waits for its sender
\* and nothing else, and giving up reports each waiting datagram once.
ImplementsQueue == Q!Spec

=============================================================================
