------------------------------ MODULE SrRouter ------------------------------
(***************************************************************************)
(* The router while it processes packets: the thread that reads frames     *)
(* from the server ("main": sr_handlepacket and what it calls) and the     *)
(* thread that sr_init starts ("sweeper": sr_arpcache_timeout), which      *)
(* share the ARP table and the queue of pending ARP requests.              *)
(*                                                                         *)
(* cache->lock is recursive.  The sweeper holds it from the moment it      *)
(* wakes up until it sleeps again; main takes it inside each sr_arpcache   *)
(* function, so a locked section of main is one step here.  Everything     *)
(* that main does to a request AFTER sr_arpcache_queuereq has returned     *)
(* happens without the lock, one memory access per step.                   *)
(*                                                                         *)
(* Requests live at addresses.  A freed address may be allocated again,    *)
(* and a read of memory that is free returns any value.                    *)
(***************************************************************************)
EXTENDS SrArpTable, SrRouting

CONSTANTS
  Frames,    \* the frames the network may deliver
  Addr,      \* addresses calloc may return for a request
  NULL,
  ArpTries,  \* ARP requests sent before giving up (5 in the code)
  MaxRx,     \* bound: IP frames received in one behaviour
  MaxLag     \* bound: seconds one sweep of the request queue may take

ASSUME BoundsAssumption == /\ ArpTries \in Nat \ {0}
                           /\ MaxRx \in Nat
                           /\ MaxLag \in Nat
ASSUME AddrAssumption == NULL \notin Addr

Threads == {"main", "sweeper"}

\* Where a thread is in sr_send_routed_ip_packet, and in what calls it.
RoutedLabels  == {"lookup", "queue", "check", "mark", "load", "store"}
MainLabels    == RoutedLabels \cup {"idle", "flush", "destroy"}
SweeperLabels == RoutedLabels \cup {"sleep", "visit", "errors", "resent", "count"}

(***************************************************************************)
(* Data.  A datagram keeps its addresses, the number of the received frame *)
(* it stems from (id) and whether it is that frame's datagram ("data") or  *)
(* the ICMP error of some kind about it.                                   *)
(***************************************************************************)
Packet == [id : Nat, what : {"data", "net", "host", "port", "ttl"},
           src : Ip, dst : Ip, shost : Mac, dhost : Mac]

\* struct sr_packet
QueuedPacket == [buf : Packet, iface : Iface]

\* The code only asks whether a request was sent at least one second before
\* the start of a sweep, so its age counts to MaxLag + 1 at most.
LongAgo == MaxLag + 1

\* struct sr_arpreq; "sent" is kept as an age.  tx is history: the number of
\* ARP requests really transmitted for it.
Request == [ip : Ip \cup {0}, age : 0 .. LongAgo, times_sent : Nat,
            packets : Seq(QueuedPacket), tx : Nat]

Blank == [ip |-> 0, age |-> LongAgo, times_sent |-> 0, packets |-> <<>>,
          tx |-> 0]

\* A received frame.  proto "echo" stands for a well-formed ICMP echo request
\* with a correct checksum, "tcp_udp" for those two protocols; valid is the
\* outcome of sr_valid_ip_packet.
IpFrame == [type : {"ip"}, src : Ip, dst : Ip, shost : Mac, dhost : Mac,
            ttl : Nat, proto : {"echo", "tcp_udp", "other"}, valid : BOOLEAN]

ArpFrame == [type : {"arp"}, op : {"request", "reply", "other"}, sha : Mac,
             sip : Ip \cup {0}, tip : Ip, iface : Iface]

ASSUME FramesAssumption == Frames \subseteq IpFrame \cup ArpFrame

VARIABLES
  entries,   \* cache->entries
  requests,  \* cache->requests, head first
  heap,      \* contents of the blocks that hold requests
  alloc,     \* addresses that are allocated
  pc,        \* where each thread is
  pkt,       \* argument of sr_send_routed_ip_packet, per thread
  ptr,       \* the request pointer each thread holds ("req")
  val,       \* register of the increment of times_sent, per thread
  cur,       \* sweeper: req of sr_arpcache_sweepreqs
  nxt,       \* sweeper: next of sr_arpcache_sweepreqs
  todo,      \* sweeper: the packets still to be answered, from pkt on
  lag,       \* sweeper: seconds since it read the clock
  slept,     \* sweeper: sleep(1) is over
  rx,        \* IP frames received
  (* history *)
  accepted,  \* ids of the datagrams routed towards their destination
  sent,      \* how often each of them was transmitted
  told,      \* how many ICMP errors were made about each received datagram
  answered,  \* packets of cur answered in this sweep
  dropped,   \* packets freed without being transmitted or answered
  stale,     \* the request main points at was freed meanwhile
  uaf        \* main has used such a pointer

tableVars == <<entries>>
queueVars == <<requests, heap, alloc>>
callVars  == <<pkt, ptr, val>>
sweepVars == <<cur, nxt, todo, lag, slept>>
fateVars  == <<accepted, sent, told, answered, dropped>>
uafVars   == <<stale, uaf>>
vars == <<tableVars, queueVars, pc, callVars, sweepVars, rx, fateVars, uafVars>>

-----------------------------------------------------------------------------
(* The lock, the request list and the packets.                             *)

\* Mutant: sr_arpcache_timeout does not hold the lock during the sweep.
CanLockAlways(t) == t \in Threads

\* The steps that take cache->lock: always possible for the sweeper, which
\* meets main only between two locked sections, and for main when the
\* sweeper sleeps.
CanLock(t) == t = "sweeper" \/ pc["sweeper"] = "sleep"

Queued == Range(requests)

\* The requests that the walks of queuereq and insert can stop at.
RequestsFor(ip) == {a \in Queued : heap[a].ip = ip}

IndexOf(q, a) == CHOOSE i \in DOMAIN q : q[i] = a

Unlink(q, a) == RemoveAt(q, IndexOf(q, a))

\* req->next
NextOf(q, a) == IF IndexOf(q, a) = Len(q) THEN NULL ELSE q[IndexOf(q, a) + 1]

\* What sr_send_icmp_error hands to sr_send_routed_ip_packet: nothing when
\* no source interface is found.  Every datagram that gets this far has a
\* correct header, so the re-validation in sr_send_icmp_error succeeds.
sr_send_icmp_error(p, kind) ==
  {[id |-> p.id, what |-> kind, src |-> IfIp[i], dst |-> p.src,
    shost |-> IfMac[i], dhost |-> p.shost] :
     i \in sr_find_icmp_source_iface(p.shost, p.dhost, p.src)}

\* A datagram without a route is answered instead of forwarded.
sr_forward_ip_packet(p) ==
  IF HasRoute(p.dst) THEN {p} ELSE sr_send_icmp_error(p, "net")

\* The decision of sr_handle_ip: the packets handed to
\* sr_send_routed_ip_packet.  (An echo reply goes straight back out of the
\* receiving interface: it touches neither the table nor the queue.)
sr_handle_ip(f, id) ==
  LET p == [id |-> id, what |-> "data", src |-> f.src, dst |-> f.dst,
            shost |-> f.shost, dhost |-> f.dhost]
  IN  CASE ~ f.valid -> {}
        [] f.valid /\ sr_is_router_ip(f.dst) ->
             IF f.proto = "tcp_udp" THEN sr_send_icmp_error(p, "port") ELSE {}
        [] f.valid /\ ~ sr_is_router_ip(f.dst) /\ f.ttl <= 1 ->
             sr_send_icmp_error(p, "ttl")
        [] f.valid /\ ~ sr_is_router_ip(f.dst) /\ f.ttl > 1 ->
             sr_forward_ip_packet(p)

\* Dropped before sr_handlepacket: requests for another address.
sr_arp_req_not_for_us(f) == f.op = "request" /\ f.tip # IfIp[f.iface]

\* An ARP frame whose sender mapping sr_handle_arp learns.
Learns(f) ==
  /\ ~ sr_arp_req_not_for_us(f)
  /\ f.sip # 0
  /\ f.op = "request" \/ (f.op = "reply" /\ sr_is_router_ip(f.tip))

\* The broadcast of an ARP request for r->ip, from main or from the sweeper.
\* Its interface is that of a route, so it exists and the frame goes out.
sr_send_arp_request(r) == [r EXCEPT !.tx = @ + 1]

sr_arpcache_send_arp_request(r) == [r EXCEPT !.tx = @ + 1]

\* Data packets of a list, by id.
DataIds(list) ==
  {list[k].buf.id : k \in {j \in DOMAIN list : list[j].buf.what = "data"}}

-----------------------------------------------------------------------------
Init ==
  /\ entries = EmptyTable
  /\ requests = <<>>
  /\ heap = [a \in Addr |-> Blank]
  /\ alloc = {}
  /\ pc = [t \in Threads |-> IF t = "main" THEN "idle" ELSE "sleep"]
  /\ pkt = [t \in Threads |-> NULL]
  /\ ptr = [t \in Threads |-> NULL]
  /\ val = [t \in Threads |-> 0]
  /\ cur = NULL
  /\ nxt = NULL
  /\ todo = <<>>
  /\ lag = 0
  /\ slept = FALSE
  /\ rx = 0
  /\ accepted = {}
  /\ sent = [i \in 1 .. MaxRx |-> 0]
  /\ told = [i \in 1 .. MaxRx |-> 0]
  /\ answered = 0
  /\ dropped = {}
  /\ stale = FALSE
  /\ uaf = FALSE

Goto(t, label) == pc' = [pc EXCEPT ![t] = label]

\* The end of sr_send_routed_ip_packet in thread t.
Return(t) ==
  /\ Goto(t, IF t = "main" THEN "idle" ELSE "errors")
  /\ pkt' = [pkt EXCEPT ![t] = NULL]
  /\ ptr' = [ptr EXCEPT ![t] = NULL]
  /\ val' = [val EXCEPT ![t] = 0]
  /\ stale' = IF t = "main" THEN FALSE ELSE stale

-----------------------------------------------------------------------------
(* main: sr_handlepacket                                                   *)

\* sr_handle_ip.
RxIp(f) ==
  LET id  == rx + 1
      out == sr_handle_ip(f, id)
  IN  /\ pc["main"] = "idle"
      /\ f.type = "ip"
      /\ rx < MaxRx
      /\ rx' = id
      /\ IF out = {}
         THEN UNCHANGED <<pc, pkt, accepted, told>>
         ELSE \E p \in out :
                /\ Goto("main", "lookup")
                /\ pkt' = [pkt EXCEPT !["main"] = p]
                /\ IF p.what = "data"
                   THEN accepted' = accepted \cup {id} /\ UNCHANGED told
                   ELSE told' = [told EXCEPT ![id] = @ + 1] /\ UNCHANGED accepted
      /\ UNCHANGED <<tableVars, queueVars, ptr, val, sweepVars, sent, answered,
                     dropped, uafVars>>

\* Mutant: insert leaves it to sr_arpreq_destroy to take the request off the
\* queue.
RxArpNoUnlink(f) ==
  /\ pc["main"] = "idle"
  /\ f.type = "arp"
  /\ Learns(f)
  /\ CanLock("main")
  /\ entries' = TableInsert(entries, f.sha, f.sip)
  /\ IF RequestsFor(f.sip) = {}
     THEN UNCHANGED <<pc, ptr>>
     ELSE \E a \in RequestsFor(f.sip) :
            /\ ptr' = [ptr EXCEPT !["main"] = a]
            /\ Goto("main", "flush")
  /\ UNCHANGED <<requests, heap, alloc, pkt, val, sweepVars, rx, fateVars, uafVars>>

\* sr_handle_arp and sr_arpcache_insert: the mapping enters the table and the
\* request that waits for it leaves the queue in one locked section.
RxArp(f) ==
  /\ pc["main"] = "idle"
  /\ f.type = "arp"
  /\ Learns(f)
  /\ CanLock("main")
  /\ entries' = TableInsert(entries, f.sha, f.sip)
  /\ IF RequestsFor(f.sip) = {}
     THEN UNCHANGED <<requests, pc, ptr>>
     ELSE \E a \in RequestsFor(f.sip) :
            /\ requests' = Unlink(requests, a)
            /\ ptr' = [ptr EXCEPT !["main"] = a]
            /\ Goto("main", "flush")
  /\ UNCHANGED <<heap, alloc, pkt, val, sweepVars, rx, fateVars, uafVars>>

\* Mutant: only the first packet of the list is sent.
FlushFirstOnly ==
  /\ pc["main"] = "flush"
  /\ Goto("main", "destroy")
  /\ sent' = [i \in DOMAIN sent |->
                IF i \in DataIds(<<Head(heap[ptr["main"]].packets)>>)
                THEN sent[i] + 1 ELSE sent[i]]
  /\ UNCHANGED <<tableVars, queueVars, callVars, sweepVars, rx, accepted, told,
                 answered, dropped, uafVars>>

\* sr_cache_arp_mapping: every packet of the request goes out, in list order.
Flush ==
  /\ pc["main"] = "flush"
  /\ Goto("main", "destroy")
  /\ sent' = [i \in DOMAIN sent |->
                IF i \in DataIds(heap[ptr["main"]].packets)
                THEN sent[i] + 1 ELSE sent[i]]
  /\ UNCHANGED <<tableVars, queueVars, callVars, sweepVars, rx, accepted, told,
                 answered, dropped, uafVars>>

\* sr_arpreq_destroy of the request that was unlinked before.
Destroy ==
  /\ pc["main"] = "destroy"
  /\ CanLock("main")
  /\ alloc' = alloc \ {ptr["main"]}
  /\ heap' = [heap EXCEPT ![ptr["main"]] = Blank]
  /\ Return("main")
  /\ UNCHANGED <<tableVars, requests, sweepVars, rx, fateVars, uaf>>

-----------------------------------------------------------------------------
(* Both threads: sr_send_routed_ip_packet                                  *)

RoutedUnroutable(t) ==
  /\ pc[t] = "lookup"
  /\ ~ HasRoute(pkt[t].dst)
  /\ Return(t)
  /\ UNCHANGED <<tableVars, queueVars, sweepVars, rx, fateVars, uaf>>

\* The next hop is in the table: the packet goes out.
RoutedHit(t) ==
  /\ pc[t] = "lookup"
  /\ HasRoute(pkt[t].dst)
  /\ CanLock(t)
  /\ Cached(entries, NextHop(pkt[t].dst))
  /\ sent' = IF pkt[t].what = "data"
             THEN [sent EXCEPT ![pkt[t].id] = @ + 1] ELSE sent
  /\ Return(t)
  /\ UNCHANGED <<tableVars, queueVars, sweepVars, rx, accepted, told, answered,
                 dropped, uaf>>

RoutedMiss(t) ==
  /\ pc[t] = "lookup"
  /\ HasRoute(pkt[t].dst)
  /\ CanLock(t)
  /\ ~ Cached(entries, NextHop(pkt[t].dst))
  /\ Goto(t, "queue")
  /\ UNCHANGED <<tableVars, queueVars, callVars, sweepVars, rx, fateVars, uafVars>>

\* Mutant: the packet is queued without the name of its interface.
OutgoingNoIface(p) ==
  [buf |-> [p EXCEPT !.shost = IfMac[OutIface(p.dst)]], iface |-> NULL]

\* The copy of the packet that is queued: its source is the outgoing interface.
Outgoing(p) == [buf   |-> [p EXCEPT !.shost = IfMac[OutIface(p.dst)]],
                iface |-> OutIface(p.dst)]

\* Mutant: new_pkt->next = req->packets is missing.
RoutedJoinDropsList(t) ==
  /\ pc[t] = "queue"
  /\ CanLock(t)
  /\ \E a \in RequestsFor(NextHop(pkt[t].dst)) :
       /\ heap' = [heap EXCEPT ![a].packets = <<Outgoing(pkt[t])>>]
       /\ ptr' = [ptr EXCEPT ![t] = a]
  /\ pkt' = [pkt EXCEPT ![t] = NULL]
  /\ Goto(t, "check")
  /\ UNCHANGED <<tableVars, requests, alloc, val, sweepVars, rx, fateVars, uafVars>>

\* sr_arpcache_queuereq finds a request for the next hop ...
RoutedJoin(t) ==
  /\ pc[t] = "queue"
  /\ CanLock(t)
  /\ \E a \in RequestsFor(NextHop(pkt[t].dst)) :
       /\ heap' = [heap EXCEPT ![a].packets = <<Outgoing(pkt[t])>> \o @]
       /\ ptr' = [ptr EXCEPT ![t] = a]
  /\ pkt' = [pkt EXCEPT ![t] = NULL]
  /\ Goto(t, "check")
  /\ UNCHANGED <<tableVars, requests, alloc, val, sweepVars, rx, fateVars, uafVars>>

\* The block at a becomes a request for the next hop of the packet in t's hands
\* and the queue becomes q.
NewRequest(t, a, q) ==
  /\ alloc' = alloc \cup {a}
  /\ heap' = [heap EXCEPT ![a] =
                [Blank EXCEPT !.ip = NextHop(pkt[t].dst),
                              !.packets = <<Outgoing(pkt[t])>>]]
  /\ requests' = q
  /\ ptr' = [ptr EXCEPT ![t] = a]
  /\ pkt' = [pkt EXCEPT ![t] = NULL]
  /\ Goto(t, "check")
  /\ UNCHANGED <<tableVars, val, sweepVars, rx, fateVars, uafVars>>

\* Mutant: requests enter at the tail.
RoutedNewAtTail(t) ==
  /\ pc[t] = "queue"
  /\ CanLock(t)
  /\ RequestsFor(NextHop(pkt[t].dst)) = {}
  /\ \E a \in Addr \ alloc : NewRequest(t, a, Append(requests, a))

\* Mutant: the queue is not searched first.
RoutedNewAlways(t) ==
  /\ pc[t] = "queue"
  /\ CanLock(t)
  /\ \E a \in Addr \ alloc : NewRequest(t, a, <<a>> \o requests)

\* ... or makes one, at the head of the list.
RoutedNew(t) ==
  /\ pc[t] = "queue"
  /\ CanLock(t)
  /\ RequestsFor(NextHop(pkt[t].dst)) = {}
  /\ \E a \in Addr \ alloc : NewRequest(t, a, <<a>> \o requests)

\* What a read of times_sent may return.
TimesSentRead(a) ==
  IF a \in alloc THEN {heap[a].times_sent} ELSE 0 .. ArpTries

\* A pointer is dereferenced by thread t; only main's can be stale.
Dereference(t) == uaf' = (uaf \/ (t = "main" /\ stale))

\* if (req && req->times_sent == 0)
RoutedFirst(t) ==
  /\ pc[t] = "check"
  /\ 0 \in TimesSentRead(ptr[t])
  /\ Goto(t, "mark")
  /\ Dereference(t)
  /\ UNCHANGED <<tableVars, queueVars, callVars, sweepVars, rx, fateVars, stale>>

RoutedNotFirst(t) ==
  /\ pc[t] = "check"
  /\ \E v \in TimesSentRead(ptr[t]) : v # 0
  /\ Return(t)
  /\ Dereference(t)
  /\ UNCHANGED <<tableVars, queueVars, sweepVars, rx, fateVars>>

\* sr_send_arp_request(...); req->sent = time(NULL)
RoutedMark(t) ==
  /\ pc[t] = "mark"
  /\ heap' = IF ptr[t] \in alloc
             THEN [heap EXCEPT ![ptr[t]] = [sr_send_arp_request(@) EXCEPT !.age = 0]]
             ELSE heap
  /\ Goto(t, "load")
  /\ Dereference(t)
  /\ UNCHANGED <<tableVars, requests, alloc, callVars, sweepVars, rx, fateVars, stale>>

\* req->times_sent++ is a load ...
RoutedLoad(t) ==
  /\ pc[t] = "load"
  /\ \E v \in TimesSentRead(ptr[t]) : val' = [val EXCEPT ![t] = v]
  /\ Goto(t, "store")
  /\ Dereference(t)
  /\ UNCHANGED <<tableVars, queueVars, pkt, ptr, sweepVars, rx, fateVars, stale>>

\* ... and a store.
RoutedStore(t) ==
  /\ pc[t] = "store"
  /\ heap' = IF ptr[t] \in alloc
             THEN [heap EXCEPT ![ptr[t]].times_sent = val[t] + 1]
             ELSE heap
  /\ Return(t)
  /\ Dereference(t)
  /\ UNCHANGED <<tableVars, requests, alloc, sweepVars, rx, fateVars>>

Routed(t) ==
  \/ RoutedUnroutable(t) \/ RoutedHit(t) \/ RoutedMiss(t)
  \/ RoutedJoin(t) \/ RoutedNew(t)
  \/ RoutedFirst(t) \/ RoutedNotFirst(t)
  \/ RoutedMark(t) \/ RoutedLoad(t) \/ RoutedStore(t)

-----------------------------------------------------------------------------
(* sweeper: sr_arpcache_timeout and sr_arpcache_sweepreqs                  *)

\* Go on with the request after the current one, or sleep again.
Advance(next) ==
  /\ cur' = next
  /\ nxt' = NULL
  /\ Goto("sweeper", IF next = NULL THEN "sleep" ELSE "visit")
  /\ lag' = IF next = NULL THEN 0 ELSE lag
  /\ slept' = FALSE

\* The sleep is over: old mappings expire and the walk starts.
SweepStart ==
  /\ pc["sweeper"] = "sleep"
  /\ slept
  /\ entries' = TableTimeout(entries)
  /\ Advance(IF requests = <<>> THEN NULL ELSE Head(requests))
  /\ UNCHANGED <<queueVars, callVars, todo, rx, fateVars, uafVars>>

\* difftime(now, req->sent) >= 1.0, for the clock read at the start.
Due(a) == heap[a].age >= lag + 1

\* Mutant: > 4 became >= 4.
GivesUpEarly(a) == heap[a].times_sent + 1 >= ArpTries

GivesUp(a) == heap[a].times_sent >= ArpTries

\* Nothing to do for this request in this sweep.
SweepPass ==
  /\ pc["sweeper"] = "visit"
  /\ ~ Due(cur) \/ (~ GivesUp(cur) /\ heap[cur].packets = <<>>)
  /\ Advance(NextOf(requests, cur))
  /\ UNCHANGED <<tableVars, queueVars, callVars, todo, rx, fateVars, uafVars>>

SweepGiveUp ==
  /\ pc["sweeper"] = "visit"
  /\ Due(cur)
  /\ GivesUp(cur)
  /\ nxt' = NextOf(requests, cur)
  /\ todo' = heap[cur].packets
  /\ answered' = 0
  /\ Goto("sweeper", "errors")
  /\ UNCHANGED <<tableVars, queueVars, callVars, cur, lag, slept, rx, accepted,
                 sent, told, dropped, uafVars>>

\* sr_send_icmp_error(sr, pkt->buf, pkt->len, 3, 1)
SweepError ==
  LET p    == Head(todo).buf
      errs == sr_send_icmp_error(p, "host")
  IN  /\ pc["sweeper"] = "errors"
      /\ todo # <<>>
      /\ todo' = Tail(todo)
      /\ answered' = answered + 1
      /\ IF errs = {}
         THEN UNCHANGED <<pc, pkt, told>>
         ELSE \E e \in errs :
                /\ Goto("sweeper", "lookup")
                /\ pkt' = [pkt EXCEPT !["sweeper"] = e]
                /\ told' = IF p.what = "data"
                           THEN [told EXCEPT ![p.id] = @ + 1] ELSE told
      /\ UNCHANGED <<tableVars, queueVars, ptr, val, cur, nxt, lag, slept, rx,
                     accepted, sent, dropped, uafVars>>

\* Mutant: the request is freed but stays on the queue.
SweepDestroyNoUnlink ==
  /\ pc["sweeper"] = "errors"
  /\ todo = <<>>
  /\ alloc' = alloc \ {cur}
  /\ heap' = [heap EXCEPT ![cur] = Blank]
  /\ stale' = (stale \/ ptr["main"] = cur)
  /\ Advance(nxt)
  /\ UNCHANGED <<tableVars, requests, callVars, todo, rx, fateVars, uaf>>

\* sr_arpreq_destroy(&(sr->cache), req): packets that joined the list after
\* the walk over it began stand in front of the answered ones.
SweepDestroy ==
  LET list == heap[cur].packets
  IN  /\ pc["sweeper"] = "errors"
      /\ todo = <<>>
      /\ requests' = Unlink(requests, cur)
      /\ alloc' = alloc \ {cur}
      /\ heap' = [heap EXCEPT ![cur] = Blank]
      /\ dropped' = dropped \cup {list[k].buf : k \in 1 .. Len(list) - answered}
      /\ stale' = (stale \/ ptr["main"] = cur)
      /\ Advance(nxt)
      /\ UNCHANGED <<tableVars, callVars, todo, rx, accepted, sent, told,
                     answered, uaf>>

\* sr_arpcache_send_arp_request(...); req->sent = now
SweepResend ==
  /\ pc["sweeper"] = "visit"
  /\ Due(cur)
  /\ ~ GivesUp(cur)
  /\ heap[cur].packets # <<>>
  /\ nxt' = NextOf(requests, cur)
  /\ heap' = [heap EXCEPT ![cur] =
                [sr_arpcache_send_arp_request(@) EXCEPT !.age = lag]]
  /\ Goto("sweeper", "resent")
  /\ UNCHANGED <<tableVars, requests, alloc, callVars, cur, todo, lag, slept, rx,
                 fateVars, uafVars>>

\* req->times_sent++
SweepLoad ==
  /\ pc["sweeper"] = "resent"
  /\ val' = [val EXCEPT !["sweeper"] = heap[cur].times_sent]
  /\ Goto("sweeper", "count")
  /\ UNCHANGED <<tableVars, queueVars, pkt, ptr, sweepVars, rx, fateVars, uafVars>>

SweepStore ==
  /\ pc["sweeper"] = "count"
  /\ heap' = [heap EXCEPT ![cur].times_sent = val["sweeper"] + 1]
  /\ val' = [val EXCEPT !["sweeper"] = 0]
  /\ Advance(nxt)
  /\ UNCHANGED <<tableVars, requests, alloc, pkt, ptr, todo, rx, fateVars, uafVars>>

Sweep ==
  \/ SweepStart \/ SweepPass \/ SweepGiveUp \/ SweepError \/ SweepDestroy
  \/ SweepResend \/ SweepLoad \/ SweepStore

-----------------------------------------------------------------------------
\* A second passes.  A sweep that has begun ends within MaxLag seconds.
Tick ==
  /\ pc["sweeper"] = "sleep" \/ lag < MaxLag
  /\ entries' = TableTick(entries)
  /\ heap' = [a \in Addr |->
                IF a \in alloc
                THEN [heap[a] EXCEPT !.age = IF @ < LongAgo THEN @ + 1 ELSE @]
                ELSE heap[a]]
  /\ lag' = IF pc["sweeper"] = "sleep" THEN 0 ELSE lag + 1
  /\ slept' = (pc["sweeper"] = "sleep")
  /\ UNCHANGED <<requests, alloc, pc, callVars, cur, nxt, todo, rx, fateVars, uafVars>>

MainStep == Flush \/ Destroy \/ Routed("main")

SweeperStep == Sweep \/ Routed("sweeper")

Next ==
  \/ \E f \in Frames : RxIp(f) \/ RxArp(f)
  \/ MainStep
  \/ SweeperStep
  \/ Tick

Spec == Init /\ [][Next]_vars

\* Both threads run and the clock advances.  main competes for the lock with
\* a thread that sleeps for a second after each release.
Fairness ==
  /\ SF_vars(MainStep)
  /\ WF_vars(SweeperStep)
  /\ WF_vars(Tick)

FairSpec == Spec /\ Fairness

-----------------------------------------------------------------------------
(* Properties                                                              *)

\* The table, the list of requests and the memory behind it.
QueueType ==
  /\ entries \in [Slots -> ArpEntry]
  /\ requests \in Seq(Addr)
  /\ heap \in [Addr -> Request]
  /\ alloc \in SUBSET Addr

\* What each thread holds inside sr_send_routed_ip_packet.
ThreadType ==
  /\ pc \in [Threads -> MainLabels \cup SweeperLabels]
  /\ pkt \in [Threads -> Packet \cup {NULL}]
  /\ ptr \in [Threads -> Addr \cup {NULL}]
  /\ val \in [Threads -> Nat]

\* The local variables of sr_arpcache_sweepreqs and the sweeper's clock.
SweepType ==
  /\ cur \in Addr \cup {NULL}
  /\ nxt \in Addr \cup {NULL}
  /\ todo \in Seq(QueuedPacket)
  /\ lag \in 0 .. MaxLag
  /\ slept \in BOOLEAN

\* The fates of the received datagrams.
HistoryType ==
  /\ rx \in 0 .. MaxRx
  /\ accepted \in SUBSET (1 .. MaxRx)
  /\ sent \in [1 .. MaxRx -> Nat]
  /\ told \in [1 .. MaxRx -> Nat]
  /\ answered \in Nat
  /\ dropped \in SUBSET Packet

GhostType == stale \in BOOLEAN /\ uaf \in BOOLEAN

\* Type invariant: every structure the two threads share, and every local of
\* either, has the type its declaration in the code gives it; in particular a
\* queued packet names its outgoing interface.
TypeOK == QueueType /\ ThreadType /\ SweepType /\ HistoryType /\ GhostType

\* What a thread carries from one locked section to the next is still true in
\* it: the next hop that the lookup missed is still missing when the packet is
\* queued, and the request that main took off the queue belongs to main alone
\* until it has freed it.
CallOK(t) ==
  /\ pc[t] \in IF t = "main" THEN MainLabels ELSE SweeperLabels
  /\ pc[t] \in {"lookup", "queue"} => pkt[t] \in Packet
  /\ pc[t] = "queue" => /\ HasRoute(pkt[t].dst)
                        /\ ~ Cached(entries, NextHop(pkt[t].dst))
  /\ pc[t] \in {"check", "mark", "load", "store"} => ptr[t] \in Addr
  /\ pc[t] \in {"flush", "destroy"} => ptr[t] \in alloc \ Queued

CallsOK == \A t \in Threads : CallOK(t)

\* The lists that the locked sections walk are well formed: no request is on
\* the queue twice, every request on it is allocated memory and has a packet
\* waiting, and no next hop has two requests (the walks of queuereq and insert
\* stop at the first one and would never reach the second).
RequestsOK ==
  /\ IsInjective(requests)
  /\ Queued \subseteq alloc
  /\ \A a \in Queued : heap[a].ip # 0 /\ heap[a].packets # <<>>
  /\ \A a, b \in Queued : heap[a].ip = heap[b].ip => a = b

\* The pointers sr_arpcache_sweepreqs keeps across its calls stay good: the
\* request it works on is on the queue, and the successor it saved BEFORE
\* sending is still the successor, although sr_send_icmp_error may queue
\* requests of its own meanwhile.
SweepPointersOK ==
  /\ pc["sweeper"] # "sleep" => cur \in Queued
  /\ pc["sweeper"] \notin {"sleep", "visit"} => nxt = NextOf(requests, cur)

\* No packet waits for a mapping that the table already has: nobody would send
\* it before the sweeper declares the next hop unreachable.  The table is read
\* in one locked section of sr_send_routed_ip_packet and the packet is queued
\* in a later one, so a mapping learned in between would strand it.
NoStranded == \A a \in Queued : ~ Cached(entries, heap[a].ip)

\* Where the datagram of received frame i can be found: in the hands of main,
\* or on the list of a request that is queued or being flushed.
ErrorPhase == pc["sweeper"] \notin {"sleep", "visit", "resent", "count"}

Waiting(a) == IF ErrorPhase /\ a = cur THEN todo ELSE heap[a].packets

Waits == Queued \cup (IF pc["main"] = "flush" THEN {ptr["main"]} ELSE {})

InHand(i) == {t \in Threads : /\ pc[t] \in {"lookup", "queue"}
                             /\ pkt[t].id = i
                             /\ pkt[t].what = "data"}

OnList(i) == UNION {{<<a, k>> : k \in {j \in DOMAIN Waiting(a) :
                                        /\ Waiting(a)[j].buf.id = i
                                        /\ Waiting(a)[j].buf.what = "data"}} :
                      a \in Waits}

\* Every datagram the router accepted for forwarding is in exactly one place,
\* or was transmitted once, or its source was told once that the next hop is
\* unreachable: none is lost, sent twice, or both sent and reported.
Conserved ==
  \A i \in accepted :
    Cardinality(InHand(i)) + Cardinality(OnList(i)) + sent[i] + told[i] = 1

\* A next hop is declared unreachable only after at least ArpTries requests
\* really went out for it, whatever the unlocked increments of times_sent in
\* the two threads do to each other (unless main wrote through a pointer to
\* freed memory, see NoUseAfterFree).
EarnedUnreachable == ErrorPhase /\ ~ uaf => heap[cur].tx >= ArpTries

\* Every accepted datagram is eventually transmitted or reported to its source.
Settled ==
  \A i \in 1 .. MaxRx : i \in accepted ~> sent[i] + told[i] = 1

\* Every request leaves the queue, by an ARP reply or when the sweeper has given
\* up on it, whatever errors are queued behind it meanwhile.  The queue as a whole
\* need not become empty: with two dead next hops that are each on the way to the
\* address from which errors about the other are sent (src/rtables/rtable_pa2b_lpm
\* routes the router's own networks like that) the errors about errors, which
\* sr_send_icmp_error does not refuse, start new requests for ever.
RequestsEnd == \A a \in Addr : a \in Queued ~> a \notin Queued

(* Claims of the repository's comments that the code does not meet.        *)

\* sr_arpcache.c:121 "A pointer to the ARP request is returned; it should not be
\* freed": main never uses a request that the sweeper has freed.
NoUseAfterFree == ~ uaf

\* sr_arpcache.h:52 "then we send ICMP host unreachable back to all packets
\* waiting on this ARP request": a request is not destroyed with a packet that
\* was neither sent nor answered.
AllWaitersAnswered == dropped = {}

=============================================================================
