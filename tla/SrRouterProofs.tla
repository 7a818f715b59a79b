--------------------------- MODULE SrRouterProofs ---------------------------
(***************************************************************************)
(* Safety of the router, for every network, every set of frames and every  *)
(* value of the bounds.  The inductive invariant is Inv below.  The second *)
(* part is about what becomes of the datagrams the router accepts: none is *)
(* lost, transmitted twice, or both transmitted and reported, and the two  *)
(* threads together implement NextHopQueue.  Both rest on Inv and on       *)
(* FateInv below.                                                          *)
(***************************************************************************)
EXTENDS SrRouterFate, SrLemmas, FiniteSetTheorems

-----------------------------------------------------------------------------
(* Routes and ICMP errors.                                                 *)

\* A destination with a route has a next hop and an outgoing interface.
LEMMA RouteTypes ==
  ASSUME NEW ip \in Ip, HasRoute(ip)
  PROVE  OutIface(ip) \in Iface /\ NextHop(ip) \in Ip
BY RouteInTypes, RTableAssumption DEF HasRoute, OutIface, NextHop

Kinds == {"net", "host", "port", "ttl"}

\* An ICMP error is a datagram with the id of the one it is about.
LEMMA ErrorType ==
  ASSUME NEW p \in Packet, NEW kind \in Kinds,
         NEW e \in sr_send_icmp_error(p, kind)
  PROVE  e \in Packet /\ e.id = p.id
<1> DEFINE src == sr_find_icmp_source_iface(p.shost, p.dhost, p.src)
<1>1. src \subseteq Iface
  <2>1. p.src \in Ip BY DEF Packet
  <2>2. QED
    BY <2>1, SourceInIface, RTableAssumption DEF sr_find_icmp_source_iface
<1>2. PICK i \in src :
        e = [id |-> p.id, what |-> kind, src |-> IfIp[i], dst |-> p.src,
             shost |-> IfMac[i], dhost |-> p.shost]
  BY DEF sr_send_icmp_error
<1>3. IfIp[i] \in Ip /\ IfMac[i] \in Mac BY <1>1, IfaceAssumption
<1>4. QED BY <1>2, <1>3 DEF Packet, Kinds

\* So is what sr_handle_ip hands on for a received frame.
LEMMA HandleType ==
  ASSUME NEW f \in Frames, f.type = "ip", NEW id \in Nat,
         NEW p \in sr_handle_ip(f, id)
  PROVE  p \in Packet /\ p.id = id
<1>1. f \in IpFrame BY FramesAssumption DEF ArpFrame
<1> DEFINE d == [id |-> id, what |-> "data", src |-> f.src, dst |-> f.dst,
                 shost |-> f.shost, dhost |-> f.dhost]
<1>2. d \in Packet /\ d.id = id BY <1>1 DEF IpFrame, Packet
<1>3. p = d \/ \E kind \in Kinds : p \in sr_send_icmp_error(d, kind)
  <2> USE DEF Kinds
  <2>1. f.valid \in BOOLEAN /\ f.ttl \in Nat BY <1>1 DEF IpFrame
  <2>2. CASE ~ f.valid BY <2>2 DEF sr_handle_ip
  <2>3. CASE f.valid /\ sr_is_router_ip(f.dst)
    BY <2>3 DEF sr_handle_ip
  <2>4. CASE f.valid /\ ~ sr_is_router_ip(f.dst) /\ f.ttl <= 1
    <3>1. ~ (f.ttl > 1) BY <2>1, <2>4
    <3>2. QED BY <2>4, <3>1 DEF sr_handle_ip
  <2>5. CASE f.valid /\ ~ sr_is_router_ip(f.dst) /\ f.ttl > 1
    <3>1. ~ (f.ttl <= 1) BY <2>1, <2>5
    <3>2. QED BY <2>5, <3>1 DEF sr_handle_ip, sr_forward_ip_packet
  <2>6. QED BY <2>1, <2>2, <2>3, <2>4, <2>5
<1>4. CASE p = d BY <1>2, <1>4
<1>5. ASSUME NEW kind \in Kinds, p \in sr_send_icmp_error(d, kind)
      PROVE  p \in Packet /\ p.id = id
  <2> HIDE DEF d
  <2> QED BY <1>2, <1>5, ErrorType
<1>6. QED BY <1>3, <1>4, <1>5

-----------------------------------------------------------------------------
(* The request list.                                                       *)

\* IndexOf finds the position of a request that is on the list.
LEMMA IndexFound ==
  ASSUME NEW q \in Seq(Addr), NEW a \in Range(q)
  PROVE  /\ IndexOf(q, a) \in 1 .. Len(q) /\ q[IndexOf(q, a)] = a
         /\ \A i \in 1 .. Len(q) : IsInjective(q) /\ q[i] = a => i = IndexOf(q, a)
<1>1. DOMAIN q = 1 .. Len(q) OBVIOUS
<1>2. \E i \in DOMAIN q : q[i] = a BY DEF Range
<1>3. IndexOf(q, a) \in DOMAIN q /\ q[IndexOf(q, a)] = a BY <1>2 DEF IndexOf
<1>4. QED BY <1>1, <1>3 DEF IsInjective

\* sr_arpcache_insert and sr_arpreq_destroy unlink one request and keep the
\* others.
LEMMA UnlinkFacts ==
  ASSUME NEW q \in Seq(Addr), IsInjective(q), NEW a \in Range(q)
  PROVE  /\ Unlink(q, a) \in Seq(Addr)
         /\ Range(Unlink(q, a)) = Range(q) \ {a}
         /\ IsInjective(Unlink(q, a))
<1>1. IndexOf(q, a) \in 1 .. Len(q) /\ q[IndexOf(q, a)] = a BY IndexFound
<1>2. QED BY <1>1, TakeOut DEF Unlink

\* The successor of a request is another request of the list, if any.
LEMMA NextFacts ==
  ASSUME NEW q \in Seq(Addr), IsInjective(q), NEW a \in Range(q)
  PROVE  NextOf(q, a) = NULL \/ NextOf(q, a) \in Range(q) \ {a}
<1> DEFINE i == IndexOf(q, a)
<1>1. i \in 1 .. Len(q) /\ q[i] = a /\ Len(q) \in Nat /\ DOMAIN q = 1 .. Len(q)
  BY IndexFound
<1>2. CASE i = Len(q) BY <1>2 DEF NextOf
<1>3. CASE i # Len(q)
  <2> HIDE DEF i
  <2>1. i + 1 \in DOMAIN q /\ i + 1 # i BY <1>1, <1>3, AfterIndex, Zenon
  <2>2. q[i + 1] # a BY <1>1, <2>1 DEF IsInjective
  <2>3. q[i + 1] \in Range(q) BY <2>1 DEF Range
  <2>4. NextOf(q, a) = q[i + 1] BY <1>3 DEF NextOf, i
  <2>5. QED BY <2>2, <2>3, <2>4
<1>4. QED BY <1>2, <1>3

\* A request pushed in front does not change the successor of another one: the
\* pointer that sr_arpcache_sweepreqs saved stays right.
LEMMA NextAfterPush ==
  ASSUME NEW q \in Seq(Addr), IsInjective(q), NEW a \in Range(q),
         NEW b \in Addr \ Range(q)
  PROVE  NextOf(<<b>> \o q, a) = NextOf(q, a)
<1> DEFINE p == <<b>> \o q
           i == IndexOf(q, a)
<1>1. i \in 1 .. Len(q) /\ q[i] = a /\ Len(q) \in Nat BY IndexFound
<1>2. /\ p \in Seq(Addr) /\ Len(p) = Len(q) + 1 /\ IsInjective(p)
      /\ \A k \in 1 .. Len(q) : p[k + 1] = q[k]
      /\ Range(p) = Range(q) \cup {b}
  BY PushFront
<1>3. IndexOf(p, a) = i + 1
  <2> HIDE DEF p, i
  <2>1. i + 1 \in 1 .. Len(p) /\ p[i + 1] = a BY <1>1, <1>2
  <2>2. a \in Range(p) BY <1>2
  <2>3. QED BY <1>2, <2>1, <2>2, IndexFound
<1>4. CASE i = Len(q)
  <2>1. IndexOf(p, a) = Len(p) BY <1>2, <1>3, <1>4
  <2>2. QED BY <1>4, <2>1 DEF NextOf
<1>5. CASE i # Len(q)
  <2>1. IndexOf(p, a) # Len(p) /\ i + 1 \in 1 .. Len(q) /\ IndexOf(p, a) + 1 = (i + 1) + 1
    <3> HIDE DEF p, i
    <3> QED BY <1>1, <1>2, <1>3, <1>5
  <2>2. p[IndexOf(p, a) + 1] = q[i + 1]
    <3> HIDE DEF p, i
    <3> QED BY <1>2, <2>1
  <2>3. QED BY <1>5, <2>1, <2>2 DEF NextOf
<1>6. QED BY <1>4, <1>5

-----------------------------------------------------------------------------
(* The inductive invariant.  NoStranded is not inductive on its own: a      *)
(* packet is queued in a later step than the lookup that missed, which      *)
(* CallsOK bridges, and the unlinking of a request removes its address      *)
(* from the queue only because RequestsOK says that it stands there once.   *)

Inv == TypeOK /\ CallsOK /\ RequestsOK /\ SweepPointersOK /\ NoStranded

\* Steps that change no request's address and packets, add no request and
\* learn no address.
Quiet ==
  /\ UNCHANGED <<requests, alloc>>
  /\ \A a \in Addr : heap'[a].ip = heap[a].ip /\ heap'[a].packets = heap[a].packets
  /\ \A x : Cached(entries', x) => Cached(entries, x)

\* A step that adds no mapping and keeps the queue and the addresses of its
\* requests keeps the queue well formed and nobody stranded.
LEMMA QuietKeeps ==
  ASSUME Inv, Quiet
  PROVE  RequestsOK' /\ NoStranded' /\ Queued' = Queued
<1>1. Queued \subseteq Addr BY DEF Inv, TypeOK, QueueType, Queued, Range
<1>2. Queued' = Queued BY DEF Quiet, Queued
<1>3. RequestsOK' BY <1>1, <1>2 DEF Quiet, Inv, RequestsOK
<1>4. NoStranded' BY <1>1, <1>2 DEF Quiet, Inv, NoStranded
<1>5. QED BY <1>2, <1>3, <1>4

\* The invariant holds when sr_init has started the sweeper.
THEOREM InitInv == Init => Inv
<1> SUFFICES ASSUME Init PROVE Inv OBVIOUS
<1>1. TypeOK
  <2>1. EmptyTable \in [Slots -> ArpEntry]
    BY TtlAssumption DEF EmptyTable, ArpEntry
  <2>2. Blank \in Request BY BoundsAssumption DEF Blank, Request, LongAgo
  <2>3. /\ pc \in [Threads -> MainLabels \cup SweeperLabels] /\ pkt \in [Threads -> Packet \cup {NULL}]
        /\ ptr \in [Threads -> Addr \cup {NULL}] /\ val \in [Threads -> Nat]
    BY DEF Init, MainLabels, SweeperLabels
  <2>4. heap \in [Addr -> Request] BY <2>2 DEF Init
  <2>5. /\ sent \in [1 .. MaxRx -> Nat] /\ told \in [1 .. MaxRx -> Nat]
        /\ lag \in 0 .. MaxLag /\ rx \in 0 .. MaxRx /\ answered \in Nat
    BY BoundsAssumption DEF Init
  <2>6. requests \in Seq(Addr) /\ todo \in Seq(QueuedPacket) BY DEF Init
  <2>7. QED BY <2>1, <2>3, <2>4, <2>5, <2>6, Zenon
    DEF Init, TypeOK, QueueType, ThreadType, SweepType, HistoryType, GhostType
<1>2. Queued = {} BY DEF Init, Queued, Range
<1>3. RequestsOK BY <1>2 DEF Init, RequestsOK, IsInjective
<1>4. CallsOK BY DEF Init, CallsOK, CallOK, Threads, MainLabels, SweeperLabels
<1>5. SweepPointersOK BY DEF Init, SweepPointersOK, Threads
<1>6. NoStranded BY <1>2 DEF NoStranded
<1>7. QED BY <1>1, <1>3, <1>4, <1>5, <1>6 DEF Inv

-----------------------------------------------------------------------------
(* What a step leaves alone.                                               *)

\* Counting one more of something.
LEMMA OneMore ==
  ASSUME NEW S, NEW f \in [S -> Nat], NEW x
  PROVE  [f EXCEPT ![x] = @ + 1] \in [S -> Nat]
<1>1. CASE x \in S BY <1>1
<1>2. CASE x \notin S BY <1>2
<1>3. QED BY <1>1, <1>2

\* Ages start at 0 and are bounded.
LEMMA AgeFacts == LongAgo \in Nat /\ 0 \in 0 .. LongAgo
BY BoundsAssumption DEF LongAgo

\* A request whose ARP request went out again is still a request.
LEMMA RequestSent ==
  ASSUME NEW r \in Request, NEW age \in 0 .. LongAgo
  PROVE  /\ [r EXCEPT !.age = age] \in Request
         /\ [sr_send_arp_request(r) EXCEPT !.age = age] \in Request
         /\ [sr_arpcache_send_arp_request(r) EXCEPT !.age = age] \in Request
<1>1. r.tx + 1 \in Nat BY DEF Request
<1>2. QED BY <1>1 DEF Request, sr_send_arp_request, sr_arpcache_send_arp_request

\* What sr_arpcache_queuereq allocates is a request.
LEMMA RequestNew ==
  ASSUME NEW ip \in Ip, NEW list \in Seq(QueuedPacket)
  PROVE  [Blank EXCEPT !.ip = ip, !.packets = list] \in Request
<1>1. Blank \in Request BY AgeFacts DEF Blank, Request
<1>2. ASSUME NEW r \in Request
      PROVE  [r EXCEPT !.ip = ip, !.packets = list] \in Request
  BY DEF Request
<1>3. QED BY <1>1, <1>2

\* A request whose times_sent was stored is still a request.
LEMMA RequestCount ==
  ASSUME NEW r \in Request, NEW n \in Nat
  PROVE  [r EXCEPT !.times_sent = n] \in Request
BY DEF Request

\* A request with another list of packets is still a request.
LEMMA RequestList ==
  ASSUME NEW r \in Request, NEW list \in Seq(QueuedPacket)
  PROVE  [r EXCEPT !.packets = list] \in Request
BY DEF Request

\* A thread that a quiet step does not move keeps what it carries.
LEMMA OtherCall ==
  ASSUME Inv, Quiet, NEW t \in Threads,
         pc'[t] = pc[t], pkt'[t] = pkt[t], ptr'[t] = ptr[t]
  PROVE  CallOK(t)'
<1>1. Queued' = Queued BY QuietKeeps
<1>2. CallOK(t) BY DEF Inv, CallsOK
<1>3. QED BY <1>1, <1>2 DEF CallOK, Quiet

\* The sweeper's pointers stay good while the list does and the sweeper stays
\* in the same part of its walk.
LEMMA SameSweep ==
  ASSUME Inv, UNCHANGED <<requests, cur, nxt>>,
         pc'["sweeper"] # "sleep" => pc["sweeper"] # "sleep",
         pc'["sweeper"] \notin {"sleep", "visit"}
           => pc["sweeper"] \notin {"sleep", "visit"}
  PROVE  SweepPointersOK'
BY DEF Inv, SweepPointersOK, Queued, NextOf, IndexOf

\* sr_send_routed_ip_packet returns.
LEMMA ReturnFacts ==
  ASSUME TypeOK, NEW t \in Threads, Return(t)
  PROVE  /\ ThreadType'
         /\ stale' \in BOOLEAN
         /\ pc'[t] = IF t = "main" THEN "idle" ELSE "errors"
         /\ \A u \in Threads \ {t} :
              pc'[u] = pc[u] /\ pkt'[u] = pkt[u] /\ ptr'[u] = ptr[u]
<1>1. ThreadType'
  BY DEF TypeOK, ThreadType, Return, Goto, MainLabels, SweeperLabels
<1>2. stale' \in BOOLEAN BY DEF TypeOK, GhostType, Return
<1>3. QED BY <1>1, <1>2 DEF TypeOK, ThreadType, Return, Goto

\* A thread that returns carries nothing.
LEMMA ReturnCalls ==
  ASSUME Inv, Quiet, NEW t \in Threads, Return(t)
  PROVE  CallsOK'
<1>1. TypeOK BY DEF Inv
<1>2. CallOK(t)'
  BY <1>1, ReturnFacts DEF CallOK, MainLabels, SweeperLabels
<1>3. ASSUME NEW u \in Threads \ {t} PROVE CallOK(u)'
  BY <1>1, ReturnFacts, OtherCall
<1>4. QED BY <1>2, <1>3 DEF CallsOK

\* A thread at pc[t] = "queue" or later in sr_send_routed_ip_packet; for the
\* sweeper this is the error phase, in which the saved pointers matter.
LEMMA RoutedSweep ==
  ASSUME Inv, NEW t \in Threads, pc[t] \in RoutedLabels,
         UNCHANGED <<requests, cur, nxt>>,
         \A u \in Threads \ {t} : pc'[u] = pc[u]
  PROVE  SweepPointersOK'
<1>1. CASE t = "sweeper" BY <1>1, SameSweep DEF RoutedLabels
<1>2. CASE t = "main"
  <2>1. pc'["sweeper"] = pc["sweeper"] BY <1>2 DEF Threads
  <2>2. QED BY <2>1, SameSweep
<1>3. QED BY <1>1, <1>2 DEF Threads

\* A thread that moves to another label leaves the other thread where it is.
LEMMA GotoFacts ==
  ASSUME TypeOK, NEW t \in Threads, NEW l, Goto(t, l)
  PROVE  pc'[t] = l /\ \A u \in Threads \ {t} : pc'[u] = pc[u]
BY DEF TypeOK, ThreadType, Goto

-----------------------------------------------------------------------------
(* sr_send_routed_ip_packet                                                *)

\* The steps that leave sr_send_routed_ip_packet without queueing anything.
LEMMA RoutedEndStep ==
  ASSUME Inv, NEW t \in Threads,
         RoutedUnroutable(t) \/ RoutedHit(t) \/ RoutedNotFirst(t)
  PROVE  Inv'
<1> USE DEF RoutedUnroutable, RoutedHit, RoutedNotFirst
<1>0. TypeOK BY DEF Inv
<1>1. /\ Return(t) /\ pc[t] \in RoutedLabels
      /\ UNCHANGED <<tableVars, queueVars, sweepVars, rx, accepted, told,
                     answered, dropped>>
  BY DEF RoutedLabels, fateVars, Dereference
<1>2. Quiet BY <1>1 DEF Quiet, queueVars, tableVars
<1>3. TypeOK'
  <2>1. QueueType' /\ SweepType'
    BY <1>0, <1>1 DEF TypeOK, QueueType, SweepType, tableVars, queueVars, sweepVars
  <2>2. sent' \in [1 .. MaxRx -> Nat]
    BY <1>0 DEF TypeOK, HistoryType, fateVars
  <2>3. HistoryType' BY <1>0, <1>1, <2>2 DEF TypeOK, HistoryType
  <2>4. uaf' \in BOOLEAN BY <1>0 DEF TypeOK, GhostType, Dereference
  <2>5. QED BY <1>0, <1>1, <2>1, <2>3, <2>4, ReturnFacts DEF TypeOK, GhostType
<1>4. CallsOK' BY <1>1, <1>2, ReturnCalls
<1>5. SweepPointersOK'
  BY <1>0, <1>1, ReturnFacts, RoutedSweep DEF queueVars, sweepVars
<1>6. QED BY <1>2, <1>3, <1>4, <1>5, QuietKeeps DEF Inv

\* The steps of one access that stay inside the function.
LEMMA RoutedGoStep ==
  ASSUME Inv, NEW t \in Threads,
         RoutedMiss(t) \/ RoutedFirst(t) \/ RoutedMark(t) \/ RoutedLoad(t)
  PROVE  Inv'
<1> USE DEF RoutedMiss, RoutedFirst, RoutedMark, RoutedLoad
<1>0. TypeOK /\ CallOK(t) BY DEF Inv, CallsOK
<1>1. /\ pc[t] \in RoutedLabels
      /\ UNCHANGED <<tableVars, requests, alloc, pkt, ptr, sweepVars, rx, fateVars, stale>>
  BY DEF RoutedLabels, queueVars, callVars, uafVars
<1>2. \E l \in {"queue", "mark", "load", "store"} : Goto(t, l) OBVIOUS
<1>3. /\ pc'[t] \in {"queue", "mark", "load", "store"}
      /\ \A u \in Threads \ {t} : pc'[u] = pc[u]
  BY <1>0, <1>2, GotoFacts
<1>4. heap' \in [Addr -> Request] /\ Quiet
  <2>1. CASE heap' = heap BY <1>0, <1>1, <2>1 DEF TypeOK, QueueType, Quiet, tableVars
  <2>2. CASE RoutedMark(t) /\ ptr[t] \in alloc
    <3> DEFINE r == [sr_send_arp_request(heap[ptr[t]]) EXCEPT !.age = 0]
    <3>1. heap \in [Addr -> Request] /\ ptr[t] \in Addr
      BY <1>0, <2>2 DEF TypeOK, QueueType
    <3>2. r \in Request BY <3>1, AgeFacts, RequestSent
    <3>3. r.ip = heap[ptr[t]].ip /\ r.packets = heap[ptr[t]].packets
      BY <3>1 DEF Request, sr_send_arp_request
    <3>4. heap' = [heap EXCEPT ![ptr[t]] = r] BY <2>2, <3>1
    <3> HIDE DEF r
    <3>5. heap' \in [Addr -> Request] BY <3>1, <3>2, <3>4
    <3>6. \A a \in Addr : heap'[a].ip = heap[a].ip /\ heap'[a].packets = heap[a].packets
      BY <3>1, <3>3, <3>4
    <3>7. QED BY <1>1, <3>5, <3>6 DEF Quiet, tableVars
  <2>3. QED BY <2>1, <2>2 DEF queueVars
<1>5. TypeOK'
  <2>1. QueueType' /\ SweepType' /\ HistoryType'
    BY <1>0, <1>1, <1>4
    DEF TypeOK, QueueType, SweepType, HistoryType, tableVars, sweepVars, fateVars
  <2>2. val' \in [Threads -> Nat]
    <3>1. \A a \in Addr : TimesSentRead(a) \subseteq Nat
      BY <1>0, BoundsAssumption DEF TypeOK, QueueType, Request, TimesSentRead
    <3>2. CASE val' = val BY <1>0, <3>2 DEF TypeOK, ThreadType
    <3>3. CASE RoutedLoad(t)
      <4>1. ptr[t] \in Addr BY <1>0, <3>3 DEF CallOK
      <4>2. QED BY <1>0, <3>1, <3>3, <4>1 DEF TypeOK, ThreadType
    <3>4. QED BY <3>2, <3>3 DEF callVars
  <2>3. pc' \in [Threads -> MainLabels \cup SweeperLabels]
    BY <1>0, <1>2 DEF TypeOK, ThreadType, Goto, MainLabels, RoutedLabels
  <2>4. ThreadType' BY <1>0, <1>1, <2>2, <2>3 DEF TypeOK, ThreadType
  <2>5. GhostType' BY <1>0, <1>1 DEF TypeOK, GhostType, Dereference, uafVars
  <2>6. QED BY <2>1, <2>4, <2>5 DEF TypeOK
<1>6. CallsOK'
  <2>1. CallOK(t)'
    <3>1. CASE RoutedMiss(t)
      <4>1. pc'[t] = "queue" /\ pkt' = pkt /\ pkt[t] \in Packet /\ entries' = entries
        BY <1>0, <1>1, <3>1, GotoFacts DEF CallOK, tableVars
      <4>2. QED BY <3>1, <4>1 DEF CallOK, MainLabels, SweeperLabels, RoutedLabels
    <3>2. CASE ~ RoutedMiss(t)
      <4>1. pc'[t] \in {"mark", "load", "store"} /\ ptr' = ptr /\ ptr[t] \in Addr
        BY <1>0, <1>1, <3>2, GotoFacts DEF CallOK
      <4>2. QED BY <4>1 DEF CallOK, MainLabels, SweeperLabels, RoutedLabels
    <3>3. QED BY <3>1, <3>2
  <2>2. ASSUME NEW u \in Threads \ {t} PROVE CallOK(u)'
    BY <1>1, <1>3, <1>4, OtherCall
  <2>3. QED BY <2>1, <2>2 DEF CallsOK
<1>7. SweepPointersOK' BY <1>1, <1>3, RoutedSweep DEF sweepVars
<1>8. QED BY <1>4, <1>5, <1>6, <1>7, QuietKeeps DEF Inv

\* The unlocked store of times_sent.
LEMMA RoutedStoreStep ==
  ASSUME Inv, NEW t \in Threads, RoutedStore(t)
  PROVE  Inv'
<1>0. TypeOK /\ CallOK(t) BY DEF Inv, CallsOK
<1>1. /\ Return(t) /\ pc[t] = "store"
      /\ UNCHANGED <<tableVars, requests, alloc, sweepVars, rx, fateVars>>
  BY DEF RoutedStore
<1>2. heap' \in [Addr -> Request] /\ Quiet
  <2>1. CASE heap' = heap BY <1>0, <1>1, <2>1 DEF TypeOK, QueueType, Quiet, tableVars
  <2>2. CASE ptr[t] \in alloc
    <3>0. heap' = [heap EXCEPT ![ptr[t]].times_sent = val[t] + 1]
      BY <2>2 DEF RoutedStore
    <3> DEFINE r == [heap[ptr[t]] EXCEPT !.times_sent = val[t] + 1]
    <3>1. heap \in [Addr -> Request] /\ ptr[t] \in Addr /\ val[t] + 1 \in Nat
      BY <1>0, <2>2 DEF TypeOK, QueueType, ThreadType
    <3>2. r \in Request BY <3>1, RequestCount
    <3>3. heap' = [heap EXCEPT ![ptr[t]] = r] BY <3>0, <3>1
    <3>4. r.ip = heap[ptr[t]].ip /\ r.packets = heap[ptr[t]].packets
      BY <3>1 DEF Request
    <3> HIDE DEF r
    <3>5. heap' \in [Addr -> Request] BY <3>1, <3>2, <3>3
    <3>6. \A a \in Addr : heap'[a].ip = heap[a].ip /\ heap'[a].packets = heap[a].packets
      BY <3>1, <3>3, <3>4
    <3>7. QED BY <1>1, <3>5, <3>6 DEF Quiet, tableVars
  <2>3. QED BY <2>1, <2>2 DEF RoutedStore
<1>3. TypeOK'
  <2>1. QueueType' /\ SweepType' /\ HistoryType'
    BY <1>0, <1>1, <1>2
    DEF TypeOK, QueueType, SweepType, HistoryType, tableVars, sweepVars, fateVars
  <2>2. uaf' \in BOOLEAN BY <1>0 DEF TypeOK, GhostType, Dereference, RoutedStore
  <2>3. QED BY <1>0, <1>1, <2>1, <2>2, ReturnFacts DEF TypeOK, GhostType
<1>4. CallsOK' BY <1>1, <1>2, ReturnCalls
<1>5. SweepPointersOK'
  BY <1>0, <1>1, ReturnFacts, RoutedSweep DEF sweepVars, RoutedLabels
<1>6. QED BY <1>2, <1>3, <1>4, <1>5, QuietKeeps DEF Inv

\* The copy of a packet that is queued has its outgoing interface.
LEMMA OutgoingType ==
  ASSUME NEW p \in Packet, HasRoute(p.dst)
  PROVE  Outgoing(p) \in QueuedPacket
<1>1. p.dst \in Ip BY DEF Packet
<1>2. OutIface(p.dst) \in Iface BY <1>1, RouteTypes
<1>3. IfMac[OutIface(p.dst)] \in Mac BY <1>2, IfaceAssumption
<1>4. [p EXCEPT !.shost = IfMac[OutIface(p.dst)]] \in Packet BY <1>3 DEF Packet
<1>5. QED BY <1>2, <1>4 DEF Outgoing, QueuedPacket

\* What queueing a packet does to the thread that queues it.
LEMMA QueueThread ==
  ASSUME Inv, NEW t \in Threads, pc[t] = "queue", NEW a \in Addr,
         ptr' = [ptr EXCEPT ![t] = a], pkt' = [pkt EXCEPT ![t] = NULL],
         Goto(t, "check"), val' = val
  PROVE  /\ ThreadType' /\ CallOK(t)'
         /\ \A u \in Threads \ {t} :
              pc'[u] = pc[u] /\ pkt'[u] = pkt[u] /\ ptr'[u] = ptr[u]
<1>0. TypeOK BY DEF Inv
<1>1. ThreadType'
  BY <1>0 DEF TypeOK, ThreadType, Goto, MainLabels, RoutedLabels
<1>2. pc'[t] = "check" /\ ptr'[t] = a BY <1>0, GotoFacts DEF TypeOK, ThreadType
<1>3. CallOK(t)' BY <1>2 DEF CallOK, MainLabels, SweeperLabels, RoutedLabels
<1>4. QED BY <1>0, <1>1, <1>3, GotoFacts DEF TypeOK, ThreadType

\* The packet joins a request: nothing but that request's list changes.
LEMMA RoutedJoinStep ==
  ASSUME Inv, NEW t \in Threads, RoutedJoin(t)
  PROVE  Inv'
<1>0. TypeOK /\ CallOK(t) BY DEF Inv, CallsOK
<1>1. PICK a \in RequestsFor(NextHop(pkt[t].dst)) :
        /\ heap' = [heap EXCEPT ![a].packets = <<Outgoing(pkt[t])>> \o @]
        /\ ptr' = [ptr EXCEPT ![t] = a]
  BY DEF RoutedJoin
<1>2. /\ pc[t] = "queue" /\ pkt' = [pkt EXCEPT ![t] = NULL] /\ Goto(t, "check")
      /\ UNCHANGED <<entries, requests, alloc, val, sweepVars, rx, fateVars, uafVars>>
  BY DEF RoutedJoin, tableVars
<1>3. Queued \subseteq Addr /\ a \in Queued /\ a \in Addr
  BY <1>0 DEF TypeOK, QueueType, Queued, Range, RequestsFor
<1>4. Queued' = Queued BY <1>2 DEF Queued
<1> DEFINE list == <<Outgoing(pkt[t])>> \o heap[a].packets
           r == [heap[a] EXCEPT !.packets = list]
<1>5. heap \in [Addr -> Request] /\ heap[a] \in Request
  BY <1>0, <1>3 DEF TypeOK, QueueType
<1>6. list \in Seq(QueuedPacket) /\ list # <<>>
  <2>1. Outgoing(pkt[t]) \in QueuedPacket BY <1>0, <1>2, OutgoingType DEF CallOK
  <2>2. heap[a].packets \in Seq(QueuedPacket) BY <1>5 DEF Request
  <2>3. /\ list \in Seq(QueuedPacket) /\ Len(list) = Len(heap[a].packets) + 1
        /\ Len(heap[a].packets) \in Nat
    BY <2>1, <2>2, PushFront
  <2>4. Len(list) # 0 BY <2>3
  <2>5. QED BY <2>3, <2>4, EmptySeq
<1>7. r \in Request /\ r.ip = heap[a].ip /\ r.packets = list
  <2> HIDE DEF list
  <2>1. r \in Request BY <1>5, <1>6, RequestList
  <2>2. QED BY <1>5, <2>1 DEF Request
<1>8. heap' = [heap EXCEPT ![a] = r] BY <1>1, <1>3, <1>5
<1> HIDE DEF list, r
<1>9. /\ heap' \in [Addr -> Request]
      /\ \A b \in Addr : heap'[b].ip = heap[b].ip
      /\ \A b \in Addr : heap'[b].packets = heap[b].packets \/ heap'[b].packets # <<>>
  BY <1>3, <1>5, <1>6, <1>7, <1>8
<1>10. /\ ThreadType' /\ CallOK(t)'
       /\ \A u \in Threads \ {t} :
            pc'[u] = pc[u] /\ pkt'[u] = pkt[u] /\ ptr'[u] = ptr[u]
  BY <1>1, <1>2, <1>3, QueueThread
<1>11. TypeOK'
  BY <1>0, <1>2, <1>9, <1>10
  DEF TypeOK, QueueType, SweepType, HistoryType, GhostType, sweepVars, fateVars, uafVars
<1>12. CallsOK'
  <2>1. ASSUME NEW u \in Threads \ {t} PROVE CallOK(u)'
    BY <1>2, <1>4, <1>10 DEF Inv, CallsOK, CallOK
  <2>2. QED BY <1>10, <2>1 DEF CallsOK
<1>13. RequestsOK' BY <1>2, <1>3, <1>4, <1>9 DEF Inv, RequestsOK
<1>14. SweepPointersOK'
  BY <1>2, <1>10, RoutedSweep DEF sweepVars, RoutedLabels
<1>15. NoStranded' BY <1>2, <1>3, <1>4, <1>9 DEF Inv, NoStranded
<1>16. QED BY <1>11, <1>12, <1>13, <1>14, <1>15 DEF Inv

\* A new request is pushed in front of the queue.
LEMMA RoutedNewStep ==
  ASSUME Inv, NEW t \in Threads, RoutedNew(t)
  PROVE  Inv'
<1>0. TypeOK /\ CallOK(t) /\ RequestsOK BY DEF Inv, CallsOK
<1> DEFINE hop == NextHop(pkt[t].dst)
           r == [Blank EXCEPT !.ip = hop, !.packets = <<Outgoing(pkt[t])>>]
<1>1. PICK a \in Addr \ alloc :
        /\ alloc' = alloc \cup {a}
        /\ heap' = [heap EXCEPT ![a] = r]
        /\ requests' = <<a>> \o requests
        /\ ptr' = [ptr EXCEPT ![t] = a]
  BY DEF RoutedNew, NewRequest
<1>2. /\ pc[t] = "queue" /\ CanLock(t) /\ RequestsFor(hop) = {}
      /\ pkt' = [pkt EXCEPT ![t] = NULL] /\ Goto(t, "check")
      /\ UNCHANGED <<entries, val, sweepVars, rx, fateVars, uafVars>>
  BY DEF RoutedNew, NewRequest, tableVars
<1>3. pkt[t] \in Packet /\ HasRoute(pkt[t].dst) /\ ~ Cached(entries, hop)
  BY <1>0, <1>2 DEF CallOK
<1>4. hop \in Ip /\ hop # 0
  <2>1. pkt[t].dst \in Ip BY <1>3 DEF Packet
  <2>2. hop \in Ip BY <1>3, <2>1, RouteTypes
  <2>3. QED BY <2>2, IpAssumption
<1>5. r \in Request /\ r.ip = hop /\ r.packets # <<>>
  <2>1. Outgoing(pkt[t]) \in QueuedPacket BY <1>3, OutgoingType
  <2>2. <<Outgoing(pkt[t])>> \in Seq(QueuedPacket) /\ <<Outgoing(pkt[t])>> # <<>>
    BY <2>1
  <2> HIDE DEF hop
  <2>3. r.ip = hop /\ r.packets = <<Outgoing(pkt[t])>> BY DEF Blank
  <2>4. r \in Request BY <1>4, <2>2, RequestNew
  <2>5. QED BY <2>2, <2>3, <2>4
<1> HIDE DEF hop, r
<1>6. /\ requests \in Seq(Addr) /\ heap \in [Addr -> Request]
      /\ Queued \subseteq alloc /\ alloc \subseteq Addr /\ IsInjective(requests)
      /\ a \in Addr /\ a \notin alloc
  BY <1>0, <1>1 DEF TypeOK, QueueType, RequestsOK
<1>7. /\ requests' \in Seq(Addr) /\ IsInjective(requests')
      /\ Queued' = Queued \cup {a}
  BY <1>1, <1>6, PushFront DEF Queued
<1>8. /\ heap' \in [Addr -> Request] /\ heap'[a] = r
      /\ \A b \in Queued : heap'[b] = heap[b]
  BY <1>1, <1>5, <1>6
<1>9. /\ ThreadType' /\ CallOK(t)'
      /\ \A u \in Threads \ {t} :
           pc'[u] = pc[u] /\ pkt'[u] = pkt[u] /\ ptr'[u] = ptr[u]
  BY <1>1, <1>2, <1>6, QueueThread
<1>10. TypeOK'
  <2>1. QueueType' BY <1>0, <1>1, <1>2, <1>7, <1>8 DEF TypeOK, QueueType
  <2>2. QED
    BY <1>0, <1>2, <1>9, <2>1
    DEF TypeOK, SweepType, HistoryType, GhostType, sweepVars, fateVars, uafVars
<1>11. CallsOK'
  <2>1. ASSUME NEW u \in Threads \ {t} PROVE CallOK(u)'
    <3>1. CallOK(u) BY DEF Inv, CallsOK
    <3>2. ptr[u] \in alloc \ Queued => ptr[u] \in alloc' \ Queued'
      BY <1>1, <1>6, <1>7
    <3>3. QED BY <1>2, <1>9, <3>1, <3>2 DEF CallOK
  <2>2. QED BY <1>9, <2>1 DEF CallsOK
<1>12. RequestsOK'
  <2>1. Queued' \subseteq alloc' BY <1>1, <1>6, <1>7
  <2>2. \A b \in Queued : heap'[b].ip # heap'[a].ip
    BY <1>2, <1>5, <1>8 DEF RequestsFor
  <2>3. \A b \in Queued' : heap'[b].ip # 0 /\ heap'[b].packets # <<>>
    BY <1>0, <1>4, <1>5, <1>7, <1>8 DEF RequestsOK
  <2>4. \A b, c \in Queued' : heap'[b].ip = heap'[c].ip => b = c
    BY <1>0, <1>7, <1>8, <2>2 DEF RequestsOK
  <2>5. QED BY <1>7, <2>1, <2>3, <2>4 DEF RequestsOK
<1>13. SweepPointersOK'
  <2>1. CASE t = "main"
    <3>1. pc'["sweeper"] = "sleep" BY <1>2, <1>9, <2>1 DEF CanLock, Threads
    <3>2. QED BY <3>1 DEF SweepPointersOK
  <2>2. CASE t = "sweeper"
    <3>1. cur \in Queued /\ nxt = NextOf(requests, cur)
      BY <1>2, <2>2 DEF Inv, SweepPointersOK
    <3>2. NextOf(requests', cur) = NextOf(requests, cur)
      BY <1>1, <1>6, <3>1, NextAfterPush DEF Queued
    <3>3. cur' = cur /\ nxt' = nxt BY <1>2 DEF sweepVars
    <3>4. cur' \in Queued' /\ nxt' = NextOf(requests', cur')
      BY <1>7, <3>1, <3>2, <3>3
    <3>5. QED BY <3>4 DEF SweepPointersOK, NextOf, IndexOf
  <2>3. QED BY <2>1, <2>2 DEF Threads
<1>14. NoStranded'
  BY <1>2, <1>3, <1>5, <1>7, <1>8 DEF Inv, NoStranded
<1>15. QED BY <1>10, <1>11, <1>12, <1>13, <1>14 DEF Inv

\* Every step of sr_send_routed_ip_packet preserves the invariant.
LEMMA RoutedStep ==
  ASSUME Inv, NEW t \in Threads, Routed(t)
  PROVE  Inv'
BY RoutedEndStep, RoutedGoStep, RoutedStoreStep, RoutedJoinStep, RoutedNewStep
DEF Routed

-----------------------------------------------------------------------------
(* sr_handlepacket                                                         *)

\* sr_handle_ip decides what to do with a datagram: only main moves.
LEMMA RxIpStep ==
  ASSUME Inv, NEW f \in Frames, RxIp(f)
  PROVE  Inv'
<1>0. TypeOK BY DEF Inv
<1> DEFINE id == rx + 1
           out == sr_handle_ip(f, id)
<1>1. /\ pc["main"] = "idle" /\ f.type = "ip" /\ rx' = id /\ id \in 1 .. MaxRx
      /\ UNCHANGED <<tableVars, queueVars, ptr, val, sweepVars, sent, answered,
                     dropped, uafVars>>
  BY <1>0, BoundsAssumption DEF RxIp, TypeOK, HistoryType
<1>2. Quiet BY <1>1 DEF Quiet, queueVars, tableVars
<1>3. QueueType' /\ SweepType' /\ GhostType'
  BY <1>0, <1>1
  DEF TypeOK, QueueType, SweepType, GhostType, tableVars, queueVars, sweepVars, uafVars
<1>4. CASE out = {}
  <2>1. UNCHANGED <<pc, pkt, accepted, told>> BY <1>4 DEF RxIp
  <2>2. ThreadType' /\ HistoryType'
    BY <1>0, <1>1, <2>1 DEF TypeOK, ThreadType, HistoryType
  <2>3. CallsOK' BY <1>1, <1>2, <2>1, OtherCall DEF CallsOK
  <2>4. SweepPointersOK' BY <1>1, <2>1, SameSweep DEF queueVars, sweepVars
  <2>5. QED BY <1>2, <1>3, <2>2, <2>3, <2>4, QuietKeeps DEF Inv, TypeOK
<1>5. CASE out # {}
  <2>1. PICK p \in out :
          /\ Goto("main", "lookup")
          /\ pkt' = [pkt EXCEPT !["main"] = p]
          /\ IF p.what = "data"
             THEN accepted' = accepted \cup {id} /\ UNCHANGED told
             ELSE told' = [told EXCEPT ![id] = @ + 1] /\ UNCHANGED accepted
    BY <1>5 DEF RxIp
  <2>2. p \in Packet BY <1>1, HandleType
  <2> HIDE DEF out
  <2>3. HistoryType'
    <3>1. id \in 0 .. MaxRx BY <1>1, BoundsAssumption
    <3>2. accepted' \in SUBSET (1 .. MaxRx)
      BY <1>0, <1>1, <2>1 DEF TypeOK, HistoryType
    <3>3. told' \in [1 .. MaxRx -> Nat]
      BY <1>0, <1>1, <2>1 DEF TypeOK, HistoryType
    <3> HIDE DEF id
    <3>4. QED BY <1>0, <1>1, <3>1, <3>2, <3>3 DEF TypeOK, HistoryType
  <2>4. ThreadType'
    BY <1>0, <1>1, <2>1, <2>2
    DEF TypeOK, ThreadType, Goto, Threads, MainLabels, RoutedLabels
  <2>5. /\ pc'["main"] = "lookup" /\ pkt'["main"] = p
        /\ pc'["sweeper"] = pc["sweeper"] /\ pkt'["sweeper"] = pkt["sweeper"]
        /\ ptr' = ptr
    BY <1>0, <1>1, <2>1 DEF TypeOK, ThreadType, Goto, Threads
  <2>6. CallOK("main")' BY <2>2, <2>5 DEF CallOK, MainLabels, RoutedLabels
  <2>7. CallOK("sweeper")' BY <1>2, <2>5, OtherCall DEF Threads
  <2>8. CallsOK' BY <2>6, <2>7 DEF CallsOK, Threads
  <2>9. SweepPointersOK' BY <1>1, <2>5, SameSweep DEF queueVars, sweepVars
  <2>10. QED BY <1>2, <1>3, <2>3, <2>4, <2>8, <2>9, QuietKeeps DEF Inv, TypeOK
<1>6. QED BY <1>4, <1>5

\* The sweeper carries nothing while main is in a locked section.
LEMMA AsleepOK ==
  ASSUME pc'["sweeper"] = "sleep"
  PROVE  CallOK("sweeper")' /\ SweepPointersOK'
BY DEF CallOK, SweepPointersOK, SweeperLabels

\* The mapping enters the table in the step in which the request that waits
\* for it leaves the queue.
LEMMA RxArpStep ==
  ASSUME Inv, NEW f \in Frames, RxArp(f)
  PROVE  Inv'
<1>0. TypeOK /\ RequestsOK BY DEF Inv
<1>1. /\ pc["main"] = "idle" /\ pc["sweeper"] = "sleep"
      /\ entries' = TableInsert(entries, f.sha, f.sip)
      /\ UNCHANGED <<heap, alloc, pkt, val, sweepVars, rx, fateVars, uafVars>>
  BY DEF RxArp, CanLock
<1>2. f.sha \in Mac /\ f.sip \in Ip
  <2>1. f \in ArpFrame BY FramesAssumption DEF RxArp, IpFrame
  <2>2. QED BY <2>1 DEF ArpFrame, RxArp, Learns
<1>3. /\ entries \in [Slots -> ArpEntry] /\ entries' \in [Slots -> ArpEntry]
      /\ \A x : Cached(entries', x) => x = f.sip \/ Cached(entries, x)
  BY <1>0, <1>1, <1>2, InsertType, TableKnows DEF TypeOK, QueueType
<1>4. SweepType' /\ HistoryType' /\ GhostType'
  BY <1>0, <1>1
  DEF TypeOK, SweepType, HistoryType, GhostType, sweepVars, fateVars, uafVars
<1>5. CASE RequestsFor(f.sip) = {}
  <2>1. UNCHANGED <<requests, pc, ptr>> BY <1>5 DEF RxArp
  <2>2. Queued' = Queued BY <2>1 DEF Queued
  <2>3. QueueType' /\ ThreadType'
    BY <1>0, <1>1, <1>3, <2>1 DEF TypeOK, QueueType, ThreadType
  <2>4. CallOK("main")' BY <1>1, <2>1 DEF CallOK, MainLabels
  <2>5. CallsOK' /\ SweepPointersOK'
    BY <1>1, <2>1, <2>4, AsleepOK DEF CallsOK, Threads
  <2>6. RequestsOK' BY <1>0, <1>1, <2>1, <2>2 DEF RequestsOK
  <2>7. NoStranded'
    BY <1>1, <1>3, <1>5, <2>2 DEF Inv, NoStranded, RequestsFor
  <2>8. QED BY <1>4, <2>3, <2>5, <2>6, <2>7 DEF Inv, TypeOK
<1>6. CASE RequestsFor(f.sip) # {}
  <2>1. PICK a \in RequestsFor(f.sip) :
          /\ requests' = Unlink(requests, a)
          /\ ptr' = [ptr EXCEPT !["main"] = a]
          /\ Goto("main", "flush")
    BY <1>6 DEF RxArp
  <2>2. /\ requests \in Seq(Addr) /\ IsInjective(requests)
        /\ a \in Queued /\ a \in alloc /\ a \in Addr /\ heap[a].ip = f.sip
    BY <1>0 DEF TypeOK, QueueType, RequestsOK, RequestsFor
  <2>3. /\ requests' \in Seq(Addr) /\ IsInjective(requests')
        /\ Queued' = Queued \ {a}
    BY <2>1, <2>2, UnlinkFacts DEF Queued
  <2>4. QueueType' BY <1>0, <1>1, <1>3, <2>3 DEF TypeOK, QueueType
  <2>5. ThreadType'
    BY <1>0, <1>1, <2>1, <2>2 DEF TypeOK, ThreadType, Goto, MainLabels
  <2>6. pc'["main"] = "flush" /\ ptr'["main"] = a /\ pc'["sweeper"] = "sleep"
    BY <1>0, <1>1, <2>1 DEF TypeOK, ThreadType, Goto, Threads
  <2>7. CallOK("main")' BY <1>1, <2>2, <2>3, <2>6 DEF CallOK, MainLabels
  <2>8. CallsOK' /\ SweepPointersOK'
    BY <2>6, <2>7, AsleepOK DEF CallsOK, Threads
  <2>9. RequestsOK' BY <1>0, <1>1, <2>3 DEF RequestsOK
  <2>10. \A b \in Queued' : heap[b].ip # f.sip BY <1>0, <2>2, <2>3 DEF RequestsOK
  <2>11. NoStranded' BY <1>1, <1>3, <2>3, <2>10 DEF Inv, NoStranded
  <2>12. QED BY <1>4, <2>4, <2>5, <2>8, <2>9, <2>11 DEF Inv, TypeOK
<1>7. QED BY <1>5, <1>6

\* The packets of a request that main has unlinked go out.
LEMMA FlushStep ==
  ASSUME Inv, Flush
  PROVE  Inv'
<1>0. TypeOK /\ CallOK("main") BY DEF Inv, CallsOK, Threads
<1>1. /\ pc["main"] = "flush" /\ Goto("main", "destroy")
      /\ UNCHANGED <<tableVars, queueVars, callVars, sweepVars, rx, accepted, told,
                     answered, dropped, uafVars>>
  BY DEF Flush
<1>2. Quiet BY <1>1 DEF Quiet, queueVars, tableVars
<1>3. /\ pc'["main"] = "destroy" /\ pc'["sweeper"] = pc["sweeper"]
      /\ pkt' = pkt /\ ptr' = ptr
  BY <1>0, <1>1 DEF TypeOK, ThreadType, Goto, Threads, callVars
<1>4. TypeOK'
  <2>1. QueueType' /\ SweepType' /\ GhostType'
    BY <1>0, <1>1
    DEF TypeOK, QueueType, SweepType, GhostType, tableVars, queueVars, sweepVars, uafVars
  <2>2. ThreadType'
    BY <1>0, <1>1 DEF TypeOK, ThreadType, Goto, MainLabels, callVars
  <2>3. sent' \in [1 .. MaxRx -> Nat] BY <1>0 DEF TypeOK, HistoryType, Flush
  <2>4. HistoryType' BY <1>0, <1>1, <2>3 DEF TypeOK, HistoryType
  <2>5. QED BY <2>1, <2>2, <2>4 DEF TypeOK
<1>5. Queued' = Queued /\ alloc' = alloc BY <1>1 DEF Queued, queueVars
<1>6. CallOK("main")' BY <1>0, <1>1, <1>3, <1>5 DEF CallOK, MainLabels
<1>7. CallOK("sweeper")' BY <1>2, <1>3, OtherCall DEF Threads
<1>8. CallsOK' BY <1>6, <1>7 DEF CallsOK, Threads
<1>9. SweepPointersOK' BY <1>1, <1>3, SameSweep DEF queueVars, sweepVars
<1>10. QED BY <1>2, <1>4, <1>8, <1>9, QuietKeeps DEF Inv

\* main frees the request that it has unlinked.
LEMMA DestroyStep ==
  ASSUME Inv, Destroy
  PROVE  Inv'
<1>0. TypeOK /\ RequestsOK /\ CallOK("main") BY DEF Inv, CallsOK, Threads
<1> DEFINE a == ptr["main"]
<1>1. /\ pc["main"] = "destroy" /\ pc["sweeper"] = "sleep"
      /\ alloc' = alloc \ {a} /\ heap' = [heap EXCEPT ![a] = Blank]
      /\ Return("main") /\ "main" \in Threads
      /\ UNCHANGED <<tableVars, requests, sweepVars, rx, fateVars, uaf>>
  BY DEF Destroy, CanLock, Threads
<1>2. a \in alloc \ Queued BY <1>0, <1>1 DEF CallOK
<1>3. Queued' = Queued /\ Queued \subseteq Addr
  BY <1>0, <1>1 DEF TypeOK, QueueType, Queued, Range
<1>4. heap' \in [Addr -> Request] /\ \A b \in Queued : heap'[b] = heap[b]
  <2>1. Blank \in Request BY AgeFacts DEF Blank, Request
  <2>2. QED BY <1>0, <1>1, <1>2, <1>3, <2>1 DEF TypeOK, QueueType
<1> HIDE DEF a
<1>5. TypeOK'
  <2>1. QueueType' BY <1>0, <1>1, <1>4 DEF TypeOK, QueueType, tableVars
  <2>2. SweepType' /\ HistoryType' /\ uaf' \in BOOLEAN
    BY <1>0, <1>1
    DEF TypeOK, SweepType, HistoryType, GhostType, sweepVars, fateVars
  <2>3. QED BY <1>0, <1>1, <2>1, <2>2, ReturnFacts DEF TypeOK, GhostType
<1>6. pc'["main"] = "idle" /\ pc'["sweeper"] = "sleep"
  BY <1>0, <1>1, ReturnFacts DEF Threads
<1>7. CallsOK' /\ SweepPointersOK'
  BY <1>6, AsleepOK DEF CallsOK, CallOK, MainLabels, Threads
<1>8. RequestsOK' BY <1>0, <1>1, <1>2, <1>3, <1>4 DEF RequestsOK
<1>9. NoStranded' BY <1>1, <1>3, <1>4 DEF Inv, NoStranded, tableVars
<1>10. QED BY <1>5, <1>7, <1>8, <1>9 DEF Inv

-----------------------------------------------------------------------------
(* sr_arpcache_timeout and sr_arpcache_sweepreqs                           *)

\* The sweeper goes on to the next request or back to sleep.
LEMMA AdvanceFacts ==
  ASSUME TypeOK, NEW next \in Addr \cup {NULL}, Advance(next), todo' = todo
  PROVE  /\ SweepType' /\ cur' = next /\ pc'["main"] = pc["main"]
         /\ pc'["sweeper"] = IF next = NULL THEN "sleep" ELSE "visit"
         /\ pc' \in [Threads -> MainLabels \cup SweeperLabels]
<1>1. slept' \in BOOLEAN /\ cur' = next /\ nxt' = NULL BY DEF Advance
<1>2. lag' \in 0 .. MaxLag BY BoundsAssumption DEF Advance, TypeOK, SweepType
<1>3. SweepType' BY <1>1, <1>2 DEF TypeOK, SweepType
<1>4. QED BY <1>1, <1>3 DEF Advance, Goto, TypeOK, ThreadType, Threads, SweeperLabels

\* A sweeper that has moved on to next carries only that pointer.
LEMMA AdvanceOK ==
  ASSUME NEW next, cur' = next, next = NULL \/ next \in Queued',
         pc'["sweeper"] = IF next = NULL THEN "sleep" ELSE "visit"
  PROVE  CallOK("sweeper")' /\ SweepPointersOK'
<1>1. CallOK("sweeper")' BY DEF CallOK, SweeperLabels, RoutedLabels
<1>2. SweepPointersOK' BY DEF SweepPointersOK
<1>3. QED BY <1>1, <1>2

\* The sweeper wakes up, or passes over a request.
LEMMA SweepMoveStep ==
  ASSUME Inv, SweepStart \/ SweepPass
  PROVE  Inv'
<1>0. TypeOK /\ RequestsOK BY DEF Inv
<1> DEFINE next == IF SweepStart
                   THEN IF requests = <<>> THEN NULL ELSE Head(requests)
                   ELSE NextOf(requests, cur)
<1>1. /\ Advance(next)
      /\ UNCHANGED <<queueVars, callVars, todo, rx, fateVars, uafVars>>
      /\ entries' = entries \/ entries' = TableTimeout(entries)
  BY DEF SweepStart, SweepPass, tableVars
<1>2. requests \in Seq(Addr) /\ IsInjective(requests) /\ Queued \subseteq Addr
  BY <1>0 DEF TypeOK, QueueType, RequestsOK, Queued, Range
<1>3. next = NULL \/ next \in Queued
  <2>1. CASE SweepStart
    <3>1. requests # <<>> => 1 \in DOMAIN requests /\ Head(requests) = requests[1]
      BY <1>2
    <3>2. QED BY <2>1, <3>1 DEF Queued, Range
  <2>2. CASE ~ SweepStart
    <3>1. cur \in Range(requests) BY <2>2 DEF SweepPass, Inv, SweepPointersOK, Queued
    <3>2. QED BY <1>2, <2>2, <3>1, NextFacts DEF Queued
  <2>3. QED BY <2>1, <2>2
<1> HIDE DEF next
<1>4. next \in Addr \cup {NULL} BY <1>2, <1>3
<1>5. /\ SweepType' /\ cur' = next /\ pc'["main"] = pc["main"]
      /\ pc'["sweeper"] = IF next = NULL THEN "sleep" ELSE "visit"
      /\ pc' \in [Threads -> MainLabels \cup SweeperLabels]
  BY <1>0, <1>1, <1>4, AdvanceFacts
<1>6. entries \in [Slots -> ArpEntry] BY <1>0 DEF TypeOK, QueueType
<1>7. Quiet BY <1>1, <1>6, TableKnows DEF Quiet, queueVars
<1>8. entries' \in [Slots -> ArpEntry]
  BY <1>1, <1>6, TimeoutType
<1>9. TypeOK'
  BY <1>0, <1>1, <1>5, <1>8
  DEF TypeOK, QueueType, ThreadType, HistoryType, GhostType, queueVars, callVars,
      fateVars, uafVars
<1>10. CallOK("main")' BY <1>1, <1>5, <1>7, OtherCall DEF Threads, callVars
<1>11. CallOK("sweeper")' /\ SweepPointersOK'
  BY <1>3, <1>5, <1>7, QuietKeeps, AdvanceOK
<1>12. QED
  BY <1>7, <1>9, <1>10, <1>11, QuietKeeps DEF Inv, CallsOK, Threads

\* The packets of a request are copied into todo, or one of them answered.
LEMMA SweepErrorsStep ==
  ASSUME Inv, SweepGiveUp \/ SweepError
  PROVE  Inv'
<1>0. TypeOK /\ RequestsOK BY DEF Inv
<1>1. /\ pc["sweeper"] \in {"visit", "errors"}
      /\ UNCHANGED <<tableVars, queueVars, ptr, val, cur, lag, slept, rx, accepted,
                     sent, dropped, uafVars>>
  BY DEF SweepGiveUp, SweepError, callVars
<1>2. Quiet BY <1>1 DEF Quiet, tableVars, queueVars
<1>3. cur \in Queued /\ cur \in Addr
  BY <1>0, <1>1 DEF Inv, SweepPointersOK, TypeOK, QueueType, Queued, Range
<1>4. QueueType' /\ GhostType'
  BY <1>0, <1>1 DEF TypeOK, QueueType, GhostType, tableVars, queueVars, uafVars
<1>5. CASE SweepGiveUp
  <2>1. /\ nxt' = NextOf(requests, cur) /\ todo' = heap[cur].packets
        /\ answered' = 0 /\ Goto("sweeper", "errors")
        /\ UNCHANGED <<callVars, told>>
    BY <1>5 DEF SweepGiveUp
  <2>2. nxt' \in Addr \cup {NULL}
    <3>1. requests \in Seq(Addr) /\ IsInjective(requests) /\ cur \in Range(requests)
      BY <1>0, <1>3 DEF TypeOK, QueueType, RequestsOK, Queued
    <3>2. Queued \subseteq Addr BY <3>1 DEF Queued, Range
    <3>3. QED BY <2>1, <3>1, <3>2, NextFacts DEF Queued
  <2>3. todo' \in Seq(QueuedPacket)
    BY <1>0, <1>3, <2>1 DEF TypeOK, QueueType, Request
  <2>4. SweepType' BY <1>0, <1>1, <2>2, <2>3 DEF TypeOK, SweepType
  <2>5. HistoryType' BY <1>0, <1>1, <2>1 DEF TypeOK, HistoryType
  <2>6. ThreadType'
    BY <1>0, <2>1 DEF TypeOK, ThreadType, Goto, callVars, SweeperLabels
  <2>7. /\ pc'["main"] = pc["main"] /\ pc'["sweeper"] = "errors"
        /\ pkt' = pkt /\ ptr' = ptr
    BY <1>0, <2>1 DEF TypeOK, ThreadType, Goto, callVars, Threads
  <2>8. CallOK("main")' BY <1>2, <2>7, OtherCall DEF Threads
  <2>9. CallOK("sweeper")' BY <2>7 DEF CallOK, SweeperLabels
  <2>10. SweepPointersOK'
    BY <1>1, <1>3, <2>1 DEF SweepPointersOK, Queued, NextOf, IndexOf, queueVars
  <2>11. QED
    BY <1>2, <1>4, <2>4, <2>5, <2>6, <2>8, <2>9, <2>10, QuietKeeps
    DEF Inv, TypeOK, CallsOK, Threads
<1>6. CASE SweepError
  <2>1. /\ pc["sweeper"] = "errors" /\ todo # <<>> /\ todo' = Tail(todo)
        /\ answered' = answered + 1 /\ nxt' = nxt
    BY <1>6 DEF SweepError
  <2>2. Head(todo) \in QueuedPacket /\ Tail(todo) \in Seq(QueuedPacket)
    BY <1>0, <2>1 DEF TypeOK, SweepType
  <2> DEFINE p == Head(todo).buf
             errs == sr_send_icmp_error(p, "host")
  <2>3. p \in Packet BY <2>2 DEF QueuedPacket
  <2>4. SweepType' BY <1>0, <1>1, <2>1, <2>2 DEF TypeOK, SweepType
  <2>5. answered' \in Nat BY <1>0, <2>1 DEF TypeOK, HistoryType
  <2>6. CASE errs = {}
    <3>1. UNCHANGED <<pc, pkt, told>> BY <1>6, <2>6 DEF SweepError
    <3>2. ThreadType' /\ HistoryType'
      BY <1>0, <1>1, <2>5, <3>1 DEF TypeOK, ThreadType, HistoryType
    <3>3. CallsOK' BY <1>1, <1>2, <3>1, OtherCall DEF CallsOK
    <3>4. SweepPointersOK' BY <1>1, <2>1, <3>1, SameSweep DEF queueVars
    <3>5. QED
      BY <1>2, <1>4, <2>4, <3>2, <3>3, <3>4, QuietKeeps DEF Inv, TypeOK
  <2>7. CASE errs # {}
    <3>1. PICK e \in errs :
            /\ Goto("sweeper", "lookup")
            /\ pkt' = [pkt EXCEPT !["sweeper"] = e]
            /\ told' = IF p.what = "data"
                       THEN [told EXCEPT ![p.id] = @ + 1] ELSE told
      BY <1>6, <2>7 DEF SweepError
    <3>2. e \in Packet BY <2>3, ErrorType DEF Kinds
    <3> HIDE DEF p, errs
    <3>3. told' \in [1 .. MaxRx -> Nat]
      <4>1. told \in [1 .. MaxRx -> Nat] BY <1>0 DEF TypeOK, HistoryType
      <4>2. QED BY <3>1, <4>1, OneMore
    <3>4. HistoryType' BY <1>0, <1>1, <2>5, <3>3 DEF TypeOK, HistoryType
    <3>5. ThreadType'
      BY <1>0, <1>1, <3>1, <3>2
      DEF TypeOK, ThreadType, Goto, SweeperLabels, RoutedLabels
    <3>6. /\ pc'["main"] = pc["main"] /\ pkt'["main"] = pkt["main"] /\ ptr' = ptr
          /\ pc'["sweeper"] = "lookup" /\ pkt'["sweeper"] = e
      BY <1>0, <1>1, <3>1 DEF TypeOK, ThreadType, Goto, Threads
    <3>7. CallOK("main")' BY <1>2, <3>6, OtherCall DEF Threads
    <3>8. CallOK("sweeper")' BY <3>2, <3>6 DEF CallOK, SweeperLabels, RoutedLabels
    <3>9. SweepPointersOK' BY <1>1, <2>1, <3>6, SameSweep DEF queueVars
    <3>10. QED
      BY <1>2, <1>4, <2>4, <3>4, <3>5, <3>7, <3>8, <3>9, QuietKeeps
      DEF Inv, TypeOK, CallsOK, Threads
  <2>8. QED BY <2>6, <2>7
<1>7. QED BY <1>5, <1>6

\* The request is unlinked and freed, and the walk goes on at its successor.
LEMMA SweepDestroyStep ==
  ASSUME Inv, SweepDestroy
  PROVE  Inv'
<1>0. TypeOK /\ RequestsOK /\ SweepPointersOK BY DEF Inv
<1> DEFINE list == heap[cur].packets
<1>1. /\ pc["sweeper"] = "errors" /\ requests' = Unlink(requests, cur)
      /\ alloc' = alloc \ {cur} /\ heap' = [heap EXCEPT ![cur] = Blank]
      /\ dropped' = dropped \cup {list[k].buf : k \in 1 .. Len(list) - answered}
      /\ stale' = (stale \/ ptr["main"] = cur)
      /\ Advance(nxt)
      /\ UNCHANGED <<entries, callVars, todo, rx, accepted, sent, told, answered, uaf>>
  BY DEF SweepDestroy, tableVars
<1>2. /\ requests \in Seq(Addr) /\ IsInjective(requests) /\ Queued \subseteq Addr
      /\ heap \in [Addr -> Request]
      /\ cur \in Queued /\ cur \in Range(requests) /\ cur \in Addr
      /\ nxt = NextOf(requests, cur)
  BY <1>0, <1>1 DEF TypeOK, QueueType, RequestsOK, SweepPointersOK, Queued, Range
<1>3. /\ requests' \in Seq(Addr) /\ IsInjective(requests')
      /\ Queued' = Queued \ {cur}
  BY <1>1, <1>2, UnlinkFacts DEF Queued
<1>4. nxt = NULL \/ nxt \in Queued'
  BY <1>2, <1>3, NextFacts DEF Queued
<1>5. heap' \in [Addr -> Request] /\ \A b \in Queued' : heap'[b] = heap[b]
  <2>1. Blank \in Request BY AgeFacts DEF Blank, Request
  <2>2. QED BY <1>1, <1>2, <1>3, <2>1
<1>6. dropped' \in SUBSET Packet
  <2>1. list \in Seq(QueuedPacket) /\ answered \in Nat
    BY <1>0, <1>2 DEF TypeOK, HistoryType, Request
  <2> HIDE DEF list
  <2>2. \A k \in 1 .. Len(list) - answered : k \in 1 .. Len(list) BY <2>1
  <2>3. \A k \in 1 .. Len(list) : list[k] \in QueuedPacket BY <2>1
  <2>4. \A k \in 1 .. Len(list) - answered : list[k].buf \in Packet
    BY <2>2, <2>3 DEF QueuedPacket
  <2>5. QED BY <1>0, <1>1, <2>4 DEF TypeOK, HistoryType
<1> HIDE DEF list
<1>7. nxt \in Addr \cup {NULL} BY <1>0 DEF TypeOK, SweepType
<1>8. /\ SweepType' /\ cur' = nxt /\ pc'["main"] = pc["main"]
      /\ pc'["sweeper"] = IF nxt = NULL THEN "sleep" ELSE "visit"
      /\ pc' \in [Threads -> MainLabels \cup SweeperLabels]
  BY <1>0, <1>1, <1>7, AdvanceFacts
<1>9. TypeOK'
  <2>1. QueueType' BY <1>0, <1>1, <1>3, <1>5 DEF TypeOK, QueueType
  <2>2. ThreadType' BY <1>0, <1>1, <1>8 DEF TypeOK, ThreadType, callVars
  <2>3. HistoryType' BY <1>0, <1>1, <1>6 DEF TypeOK, HistoryType
  <2>4. GhostType' BY <1>0, <1>1 DEF TypeOK, GhostType
  <2>5. QED BY <1>8, <2>1, <2>2, <2>3, <2>4 DEF TypeOK
<1>10. CallOK("main")'
  <2>1. CallOK("main") /\ ptr' = ptr /\ pkt' = pkt
    BY <1>1 DEF Inv, CallsOK, Threads, callVars
  <2>2. ptr["main"] \in alloc \ Queued => ptr["main"] \in alloc' \ Queued'
    BY <1>1, <1>2, <1>3
  <2>3. QED BY <1>1, <1>8, <2>1, <2>2 DEF CallOK
<1>11. CallOK("sweeper")' /\ SweepPointersOK' BY <1>4, <1>8, AdvanceOK
<1>12. RequestsOK'
  BY <1>0, <1>1, <1>3, <1>5 DEF RequestsOK
<1>13. NoStranded' BY <1>1, <1>3, <1>5 DEF Inv, NoStranded
<1>14. QED BY <1>9, <1>10, <1>11, <1>12, <1>13 DEF Inv, CallsOK, Threads

\* The ARP request is sent again: one store to sent ...
LEMMA SweepResendStep ==
  ASSUME Inv, SweepResend
  PROVE  Inv'
<1>0. TypeOK /\ RequestsOK BY DEF Inv
<1>1. /\ pc["sweeper"] = "visit" /\ nxt' = NextOf(requests, cur)
      /\ heap' = [heap EXCEPT ![cur] =
                    [sr_arpcache_send_arp_request(heap[cur]) EXCEPT !.age = lag]]
      /\ Goto("sweeper", "resent")
      /\ UNCHANGED <<entries, requests, alloc, callVars, cur, todo, lag, slept, rx,
                     fateVars, uafVars>>
  BY DEF SweepResend, tableVars
<1>2. /\ requests \in Seq(Addr) /\ IsInjective(requests) /\ Queued \subseteq Addr
      /\ heap \in [Addr -> Request] /\ cur \in Range(requests)
      /\ cur \in Queued /\ cur \in Addr /\ lag \in 0 .. LongAgo
  BY <1>0, <1>1, BoundsAssumption
  DEF Inv, TypeOK, QueueType, SweepType, RequestsOK, SweepPointersOK, Queued, Range,
      LongAgo
<1>3. heap' \in [Addr -> Request] /\ Quiet
  <2> DEFINE r == [sr_arpcache_send_arp_request(heap[cur]) EXCEPT !.age = lag]
  <2>1. r \in Request BY <1>2, RequestSent
  <2>2. heap' = [heap EXCEPT ![cur] = r] BY <1>1, <1>2
  <2>3. r.ip = heap[cur].ip /\ r.packets = heap[cur].packets
    BY <1>2 DEF Request, sr_arpcache_send_arp_request
  <2> HIDE DEF r
  <2>4. heap' \in [Addr -> Request] BY <1>2, <2>1, <2>2
  <2>5. \A a \in Addr : heap'[a].ip = heap[a].ip /\ heap'[a].packets = heap[a].packets
    BY <1>2, <2>2, <2>3
  <2>6. QED BY <1>1, <2>4, <2>5 DEF Quiet
<1>4. nxt' \in Addr \cup {NULL} BY <1>1, <1>2, NextFacts DEF Queued
<1>5. /\ pc' \in [Threads -> MainLabels \cup SweeperLabels]
      /\ pc'["main"] = pc["main"] /\ pc'["sweeper"] = "resent"
  BY <1>0, <1>1 DEF TypeOK, ThreadType, Goto, Threads, SweeperLabels
<1>6. TypeOK'
  BY <1>0, <1>1, <1>3, <1>4, <1>5
  DEF TypeOK, QueueType, ThreadType, SweepType, HistoryType, GhostType, callVars,
      fateVars, uafVars
<1>7. CallOK("main")' BY <1>1, <1>3, <1>5, OtherCall DEF Threads, callVars
<1>8. CallOK("sweeper")' BY <1>5 DEF CallOK, SweeperLabels, RoutedLabels
<1>9. SweepPointersOK'
  BY <1>1, <1>2, <1>5 DEF SweepPointersOK, Queued, NextOf, IndexOf
<1>10. QED BY <1>3, <1>6, <1>7, <1>8, <1>9, QuietKeeps DEF Inv, CallsOK, Threads

\* ... a load of times_sent ...
LEMMA SweepLoadStep ==
  ASSUME Inv, SweepLoad
  PROVE  Inv'
<1>0. TypeOK BY DEF Inv
<1>1. /\ pc["sweeper"] = "resent" /\ Goto("sweeper", "count")
      /\ val' = [val EXCEPT !["sweeper"] = heap[cur].times_sent]
      /\ UNCHANGED <<tableVars, queueVars, pkt, ptr, sweepVars, rx, fateVars, uafVars>>
  BY DEF SweepLoad
<1>2. Quiet BY <1>1 DEF Quiet, tableVars, queueVars
<1>3. heap[cur].times_sent \in Nat
  BY <1>0, <1>1 DEF Inv, SweepPointersOK, TypeOK, QueueType, Queued, Range, Request
<1>4. /\ pc' \in [Threads -> MainLabels \cup SweeperLabels]
      /\ pc'["main"] = pc["main"] /\ pc'["sweeper"] = "count"
  BY <1>0, <1>1 DEF TypeOK, ThreadType, Goto, Threads, SweeperLabels
<1>5. ThreadType' BY <1>0, <1>1, <1>3, <1>4 DEF TypeOK, ThreadType
<1>6. TypeOK'
  BY <1>0, <1>1, <1>5
  DEF TypeOK, QueueType, SweepType, HistoryType, GhostType, tableVars, queueVars,
      sweepVars, fateVars, uafVars
<1>7. CallOK("main")' BY <1>1, <1>2, <1>4, OtherCall DEF Threads
<1>8. CallOK("sweeper")' BY <1>4 DEF CallOK, SweeperLabels, RoutedLabels
<1>9. SweepPointersOK' BY <1>1, <1>4, SameSweep DEF queueVars, sweepVars
<1>10. QED BY <1>2, <1>6, <1>7, <1>8, <1>9, QuietKeeps DEF Inv, CallsOK, Threads

\* ... and the store.
LEMMA SweepStoreStep ==
  ASSUME Inv, SweepStore
  PROVE  Inv'
<1>0. TypeOK /\ RequestsOK BY DEF Inv
<1>1. /\ pc["sweeper"] = "count" /\ Advance(nxt)
      /\ heap' = [heap EXCEPT ![cur].times_sent = val["sweeper"] + 1]
      /\ val' = [val EXCEPT !["sweeper"] = 0]
      /\ UNCHANGED <<entries, requests, alloc, pkt, ptr, todo, rx, fateVars, uafVars>>
  BY DEF SweepStore, tableVars
<1>2. /\ requests \in Seq(Addr) /\ IsInjective(requests) /\ cur \in Range(requests)
      /\ cur \in Addr /\ nxt = NextOf(requests, cur) /\ nxt \in Addr \cup {NULL}
      /\ heap \in [Addr -> Request] /\ val["sweeper"] + 1 \in Nat
  BY <1>0, <1>1
  DEF Inv, TypeOK, QueueType, ThreadType, SweepType, RequestsOK, SweepPointersOK,
      Queued, Range, Threads
<1>3. heap' \in [Addr -> Request] /\ Quiet
  <2> DEFINE r == [heap[cur] EXCEPT !.times_sent = val["sweeper"] + 1]
  <2>1. r \in Request BY <1>2, RequestCount
  <2>2. heap' = [heap EXCEPT ![cur] = r] BY <1>1, <1>2
  <2>3. r.ip = heap[cur].ip /\ r.packets = heap[cur].packets BY <1>2 DEF Request
  <2> HIDE DEF r
  <2>4. heap' \in [Addr -> Request] BY <1>2, <2>1, <2>2
  <2>5. \A a \in Addr : heap'[a].ip = heap[a].ip /\ heap'[a].packets = heap[a].packets
    BY <1>2, <2>2, <2>3
  <2>6. QED BY <1>1, <2>4, <2>5 DEF Quiet
<1>4. nxt = NULL \/ nxt \in Queued BY <1>2, NextFacts DEF Queued
<1>5. /\ SweepType' /\ cur' = nxt /\ pc'["main"] = pc["main"]
      /\ pc'["sweeper"] = IF nxt = NULL THEN "sleep" ELSE "visit"
      /\ pc' \in [Threads -> MainLabels \cup SweeperLabels]
  BY <1>0, <1>1, <1>2, AdvanceFacts
<1>6. ThreadType' BY <1>0, <1>1, <1>5 DEF TypeOK, ThreadType
<1>7. TypeOK'
  BY <1>0, <1>1, <1>3, <1>5, <1>6
  DEF TypeOK, QueueType, HistoryType, GhostType, fateVars, uafVars
<1>8. CallOK("main")' BY <1>1, <1>3, <1>5, OtherCall DEF Threads
<1>9. CallOK("sweeper")' /\ SweepPointersOK'
  BY <1>3, <1>4, <1>5, QuietKeeps, AdvanceOK
<1>10. QED BY <1>3, <1>7, <1>8, <1>9, QuietKeeps DEF Inv, CallsOK, Threads

\* A second passes: only ages change.
LEMMA TickStep ==
  ASSUME Inv, Tick
  PROVE  Inv'
<1>0. TypeOK BY DEF Inv
<1>1. /\ entries' = TableTick(entries)
      /\ heap' = [a \in Addr |->
                    IF a \in alloc
                    THEN [heap[a] EXCEPT !.age = IF @ < LongAgo THEN @ + 1 ELSE @]
                    ELSE heap[a]]
      /\ UNCHANGED <<requests, alloc, pc, callVars, cur, nxt, todo, rx, fateVars, uafVars>>
  BY DEF Tick
<1>2. /\ entries \in [Slots -> ArpEntry] /\ entries' \in [Slots -> ArpEntry]
      /\ \A x : Cached(entries', x) => Cached(entries, x)
  BY <1>0, <1>1, TimeoutType, TableKnows DEF TypeOK, QueueType
<1>3. heap \in [Addr -> Request] BY <1>0 DEF TypeOK, QueueType
<1>4. ASSUME NEW a \in Addr
      PROVE  heap'[a] \in Request /\ heap'[a].ip = heap[a].ip
             /\ heap'[a].packets = heap[a].packets
  <2> DEFINE n == IF heap[a].age < LongAgo THEN heap[a].age + 1 ELSE heap[a].age
  <2>1. n \in 0 .. LongAgo BY <1>3, AgeFacts DEF Request
  <2>2. heap'[a] = IF a \in alloc THEN [heap[a] EXCEPT !.age = n] ELSE heap[a]
    BY <1>1
  <2> HIDE DEF n
  <2>3. [heap[a] EXCEPT !.age = n] \in Request BY <1>3, <2>1, RequestSent
  <2>4. QED BY <1>3, <2>2, <2>3 DEF Request
<1>5. heap' \in [Addr -> Request] BY <1>1, <1>4
<1>6. Quiet BY <1>1, <1>2, <1>4 DEF Quiet
<1>7. TypeOK'
  <2>1. lag' \in 0 .. MaxLag BY <1>0, BoundsAssumption DEF TypeOK, SweepType, Tick
  <2>2. slept' \in BOOLEAN BY DEF Tick
  <2>3. QED
    BY <1>0, <1>1, <1>2, <1>5, <2>1, <2>2
    DEF TypeOK, QueueType, ThreadType, SweepType, HistoryType, GhostType, callVars,
        fateVars, uafVars
<1>8. CallsOK' BY <1>1, <1>6, OtherCall DEF CallsOK, callVars
<1>9. SweepPointersOK' BY <1>1, SameSweep
<1>10. QED BY <1>6, <1>7, <1>8, <1>9, QuietKeeps DEF Inv

\* A step that changes nothing preserves the invariant.
LEMMA StutterStep ==
  ASSUME Inv, UNCHANGED vars
  PROVE  Inv'
<1>0. TypeOK BY DEF Inv
<1>1. UNCHANGED <<tableVars, queueVars, pc, callVars, sweepVars, rx, fateVars, uafVars>>
  BY DEF vars
<1>2. Quiet BY <1>1 DEF Quiet, tableVars, queueVars
<1>3. TypeOK'
  BY <1>0, <1>1
  DEF TypeOK, QueueType, ThreadType, SweepType, HistoryType, GhostType, tableVars,
      queueVars, callVars, sweepVars, fateVars, uafVars
<1>4. CallsOK' BY <1>1, <1>2, OtherCall DEF CallsOK, callVars
<1>5. SweepPointersOK' BY <1>1, SameSweep DEF queueVars, sweepVars
<1>6. QED BY <1>2, <1>3, <1>4, <1>5, QuietKeeps DEF Inv

-----------------------------------------------------------------------------
(* The theorems.                                                           *)

\* Every step of either thread, and of the clock, preserves the invariant.
THEOREM StepInv == Inv /\ [Next]_vars => Inv'
<1> SUFFICES ASSUME Inv, [Next]_vars PROVE Inv' OBVIOUS
<1>1. ASSUME NEW f \in Frames, RxIp(f) \/ RxArp(f) PROVE Inv'
  BY <1>1, RxIpStep, RxArpStep
<1>2. CASE MainStep
  <2>1. "main" \in Threads BY DEF Threads
  <2>2. QED BY <1>2, <2>1, FlushStep, DestroyStep, RoutedStep DEF MainStep
<1>3. CASE SweeperStep
  <2>1. "sweeper" \in Threads BY DEF Threads
  <2>2. QED
    BY <1>3, <2>1, RoutedStep, SweepMoveStep, SweepErrorsStep, SweepDestroyStep,
       SweepResendStep, SweepLoadStep, SweepStoreStep
    DEF SweeperStep, Sweep
<1>4. CASE Tick BY <1>4, TickStep
<1>5. CASE UNCHANGED vars BY <1>5, StutterStep
<1>6. QED BY <1>1, <1>2, <1>3, <1>4, <1>5 DEF Next

\* The invariant holds in every state of every behaviour of the two threads.
THEOREM Invariance == Spec => []Inv
BY InitInv, StepInv, PTL DEF Spec

\* Every variable keeps its type.
THEOREM RouterType == Spec => []TypeOK
<1>1. Inv => TypeOK BY DEF Inv
<1>2. QED BY <1>1, Invariance, PTL

\* No thread's view of the queue or of the table is out of date when it is
\* used: what main and the sweeper carry between locked sections stays true.
THEOREM RouterCalls == Spec => []CallsOK
<1>1. Inv => CallsOK BY DEF Inv
<1>2. QED BY <1>1, Invariance, PTL

\* The queue of ARP requests is well formed whatever the two threads do.
THEOREM RouterRequests == Spec => []RequestsOK
<1>1. Inv => RequestsOK BY DEF Inv
<1>2. QED BY <1>1, Invariance, PTL

\* The sweeper never follows a pointer to a request that left the queue.
THEOREM RouterSweepPointers == Spec => []SweepPointersOK
<1>1. Inv => SweepPointersOK BY DEF Inv
<1>2. QED BY <1>1, Invariance, PTL

\* No packet waits for a mapping that the table already has, although lookup
\* and queueing are two locked sections.
THEOREM RouterNoStranded == Spec => []NoStranded
<1>1. Inv => NoStranded BY DEF Inv
<1>2. QED BY <1>1, Invariance, PTL

-----------------------------------------------------------------------------
(* A next hop is declared unreachable only after ArpTries ARP requests     *)
(* were transmitted for it, although both threads count them with          *)
(* increments of times_sent that no lock protects.  The argument: every    *)
(* transmission precedes its increment, a lost update only makes the count *)
(* smaller, so times_sent plus the increments still under way never        *)
(* exceeds the number of transmissions.                                    *)

\* Where a thread uses the request pointer that sr_arpcache_queuereq returned.
Held == {"check", "mark", "load", "store"}

\* A thread has transmitted for the request at a and not yet counted it.
MainCounts(a) ==
  pc["main"] \in {"load", "store"} /\ ptr["main"] = a /\ ~ stale

SweeperCounts(a) ==
  \/ pc["sweeper"] \in {"load", "store"} /\ ptr["sweeper"] = a
  \/ pc["sweeper"] \in {"resent", "count"} /\ cur = a

InFlight(a) ==
  (IF MainCounts(a) THEN 1 ELSE 0) + (IF SweeperCounts(a) THEN 1 ELSE 0)

\* The sweeper's pointer is on the queue; main's is allocated unless the
\* sweeper has freed it.
HeldOK ==
  /\ pc["sweeper"] \in Held => ptr["sweeper"] \in Queued
  /\ pc["main"] \in Held /\ ~ stale => ptr["main"] \in alloc

\* Neither the count nor a value about to be stored claims a transmission that
\* did not happen.
CountOK ==
  /\ \A a \in alloc : heap[a].times_sent + InFlight(a) <= heap[a].tx
  /\ pc["main"] = "store" /\ ~ stale
       => val["main"] + InFlight(ptr["main"]) <= heap[ptr["main"]].tx
  /\ pc["sweeper"] = "store"
       => val["sweeper"] + InFlight(ptr["sweeper"]) <= heap[ptr["sweeper"]].tx
  /\ pc["sweeper"] = "count" => val["sweeper"] + InFlight(cur) <= heap[cur].tx
  /\ ErrorPhase => heap[cur].tx >= ArpTries

CountInv == HeldOK /\ (~ uaf => CountOK)

\* The types the arithmetic needs.
LEMMA CountTypes ==
  ASSUME Inv
  PROVE  /\ alloc \subseteq Addr /\ Queued \subseteq alloc
         /\ heap \in [Addr -> Request]
         /\ \A a \in Addr : heap[a].times_sent \in Nat /\ heap[a].tx \in Nat
         /\ val["main"] \in Nat /\ val["sweeper"] \in Nat
         /\ stale \in BOOLEAN /\ uaf \in BOOLEAN
         /\ pc["sweeper"] # "sleep" => cur \in Queued
BY DEF Inv, TypeOK, QueueType, ThreadType, GhostType, RequestsOK, SweepPointersOK,
       Request, Threads

\* A step that transmits, counts and allocates nothing, and starts no answer.
LEMMA Neutral ==
  ASSUME Inv, CountInv, HeldOK', Inv',
         alloc' \subseteq alloc,
         \A a \in alloc' : /\ heap'[a].times_sent = heap[a].times_sent
                           /\ heap'[a].tx = heap[a].tx
                           /\ MainCounts(a)' => MainCounts(a)
                           /\ SweeperCounts(a)' => SweeperCounts(a),
         pc'["main"] = "store" /\ ~ stale'
           => pc["main"] = "store" /\ ~ stale /\ ptr'["main"] = ptr["main"]
              /\ val'["main"] = val["main"],
         pc'["sweeper"] = "store"
           => pc["sweeper"] = "store" /\ ptr'["sweeper"] = ptr["sweeper"]
              /\ val'["sweeper"] = val["sweeper"],
         pc'["sweeper"] = "count"
           => pc["sweeper"] = "count" /\ cur' = cur
              /\ val'["sweeper"] = val["sweeper"],
         ErrorPhase' => ErrorPhase /\ cur' = cur,
         uaf => uaf'
  PROVE  CountInv'
<1> SUFFICES ASSUME ~ uaf' PROVE CountOK' BY DEF CountInv
<1>0. CountOK BY DEF CountInv
<1>1. \A a \in alloc' : InFlight(a)' <= InFlight(a) /\ InFlight(a) \in Nat
                        /\ InFlight(a)' \in Nat
  BY DEF InFlight
<1>2. \A a \in alloc : heap[a].times_sent \in Nat /\ heap[a].tx \in Nat
  BY CountTypes
<1>3. \A a \in alloc' : heap'[a].times_sent + InFlight(a)' <= heap'[a].tx
  BY <1>0, <1>1, <1>2 DEF CountOK
<1>4. /\ pc'["main"] \in Held /\ ~ stale' => ptr'["main"] \in alloc'
      /\ pc'["sweeper"] \in Held => ptr'["sweeper"] \in alloc'
      /\ pc'["sweeper"] # "sleep" => cur' \in alloc'
  BY CountTypes DEF HeldOK, Inv, RequestsOK, SweepPointersOK
<1>5. val["main"] \in Nat /\ val["sweeper"] \in Nat BY CountTypes
<1>6. pc'["main"] = "store" /\ ~ stale'
        => val'["main"] + InFlight(ptr["main"])' <= heap'[ptr'["main"]].tx
  BY <1>0, <1>1, <1>2, <1>4, <1>5 DEF CountOK, Held
<1>7. pc'["sweeper"] = "store"
        => val'["sweeper"] + InFlight(ptr["sweeper"])' <= heap'[ptr'["sweeper"]].tx
  BY <1>0, <1>1, <1>2, <1>4, <1>5 DEF CountOK, Held
<1>8. pc'["sweeper"] = "count"
        => val'["sweeper"] + InFlight(cur)' <= heap'[cur'].tx
  BY <1>0, <1>1, <1>2, <1>4, <1>5 DEF CountOK
<1>9. ErrorPhase' => heap'[cur'].tx >= ArpTries
  BY <1>0, <1>4 DEF CountOK, ErrorPhase
<1>10. QED BY <1>3, <1>6, <1>7, <1>8, <1>9 DEF CountOK

-----------------------------------------------------------------------------
(* The steps that leave the count alone.                                   *)

\* The two threads.
LEMMA TwoThreads ==
  /\ "main" \in Threads /\ "sweeper" \in Threads
  /\ \A t \in Threads : t = "main" \/ t = "sweeper"
BY DEF Threads

\* The steps of sr_send_routed_ip_packet up to the test of times_sent, except
\* the allocation of a request.
LEMMA RoutedNeutral ==
  ASSUME Inv, CountInv, Inv', NEW t \in Threads,
         \/ RoutedUnroutable(t) \/ RoutedHit(t) \/ RoutedMiss(t)
         \/ RoutedJoin(t) \/ RoutedFirst(t) \/ RoutedNotFirst(t)
  PROVE  CountInv'
<1> USE DEF RoutedUnroutable, RoutedHit, RoutedMiss, RoutedJoin, RoutedFirst,
            RoutedNotFirst
<1>0. TypeOK /\ heap \in [Addr -> Request] /\ alloc \subseteq Addr
  BY CountTypes DEF Inv
<1>1. /\ UNCHANGED <<requests, alloc, cur>> /\ pc[t] \in RoutedLabels
      /\ uaf => uaf'
  <2>1. UNCHANGED <<requests, alloc, cur>> /\ pc[t] \in RoutedLabels
    BY DEF queueVars, sweepVars, RoutedLabels
  <2>2. UNCHANGED uaf \/ Dereference(t) BY DEF uafVars
  <2>3. uaf => uaf' BY <2>2 DEF Dereference
  <2>4. QED BY <2>1, <2>3
<1>2. ASSUME NEW a \in alloc
      PROVE  heap'[a].times_sent = heap[a].times_sent /\ heap'[a].tx = heap[a].tx
  <2>1. CASE heap' = heap BY <2>1
  <2>2. CASE RoutedJoin(t)
    <3>1. PICK b, list : heap' = [heap EXCEPT ![b].packets = list]
      BY <2>2
    <3>2. QED BY <1>0, <3>1 DEF Request
  <2>3. QED BY <2>1, <2>2 DEF queueVars
<1>3. ASSUME NEW u \in Threads \ {t}
      PROVE  pc'[u] = pc[u] /\ ptr'[u] = ptr[u] /\ val'[u] = val[u]
  BY <1>0 DEF TypeOK, ThreadType, Return, Goto, callVars
<1>4. /\ pc'[t] \in {"idle", "errors", "queue", "check", "mark"}
      /\ pc'[t] = "check" => ptr'[t] \in Queued
      /\ pc'[t] = "mark" => pc[t] = "check" /\ ptr'[t] = ptr[t]
      /\ pc'[t] = "idle" => t = "main"
  BY <1>0 DEF TypeOK, ThreadType, Return, Goto, callVars, RequestsFor
<1>5. /\ t = "sweeper" => stale' = stale
      /\ t = "main" => stale' = stale \/ pc'["main"] = "idle"
  BY <1>0 DEF TypeOK, ThreadType, Return, Goto, uafVars
<1>6. Queued' = Queued /\ Queued \subseteq alloc
  BY <1>1, CountTypes DEF Queued
<1>7. CASE t = "main"
  <2>1. pc'["sweeper"] = pc["sweeper"] /\ ptr'["sweeper"] = ptr["sweeper"]
        /\ val'["sweeper"] = val["sweeper"]
    BY <1>3, <1>7, TwoThreads
  <2>2. HeldOK'
    BY <1>1, <1>4, <1>5, <1>6, <1>7, <2>1 DEF CountInv, HeldOK, Held
  <2>3. \A a \in alloc' : /\ MainCounts(a)' => MainCounts(a)
                          /\ SweeperCounts(a)' => SweeperCounts(a)
    BY <1>1, <1>4, <1>7, <2>1 DEF MainCounts, SweeperCounts
  <2>4. ErrorPhase' => ErrorPhase BY <2>1 DEF ErrorPhase
  <2>5. QED BY <1>1, <1>2, <1>4, <1>7, <2>1, <2>2, <2>3, <2>4, Neutral
<1>8. CASE t = "sweeper"
  <2>1. pc'["main"] = pc["main"] /\ ptr'["main"] = ptr["main"]
        /\ val'["main"] = val["main"]
    BY <1>3, <1>8, TwoThreads
  <2>2. HeldOK'
    BY <1>1, <1>4, <1>5, <1>6, <1>8, <2>1 DEF CountInv, HeldOK, Held
  <2>3. \A a \in alloc' : /\ MainCounts(a)' => MainCounts(a)
                          /\ SweeperCounts(a)' => SweeperCounts(a)
    BY <1>1, <1>4, <1>5, <1>8, <2>1 DEF MainCounts, SweeperCounts
  <2>4. ErrorPhase BY <1>1, <1>8 DEF ErrorPhase, RoutedLabels
  <2>5. QED BY <1>1, <1>2, <1>4, <1>5, <1>8, <2>1, <2>2, <2>3, <2>4, Neutral
<1>9. QED BY <1>7, <1>8, TwoThreads

\* The steps of main outside sr_send_routed_ip_packet: main owns the request it
\* frees, and the sweeper sleeps meanwhile.
LEMMA MainNeutral ==
  ASSUME Inv, CountInv, Inv',
         (\E f \in Frames : RxIp(f) \/ RxArp(f)) \/ Flush \/ Destroy
  PROVE  CountInv'
<1> USE DEF RxIp, RxArp, Flush, Destroy
<1>0. TypeOK /\ heap \in [Addr -> Request] /\ alloc \subseteq Addr
      /\ Queued \subseteq alloc
  BY CountTypes DEF Inv
<1>1. /\ pc'["sweeper"] = pc["sweeper"] /\ ptr'["sweeper"] = ptr["sweeper"]
      /\ val'["sweeper"] = val["sweeper"] /\ cur' = cur /\ uaf' = uaf
  BY <1>0 DEF TypeOK, ThreadType, Goto, Return, Threads, sweepVars, callVars, uafVars
<1>2. pc'["main"] \notin Held
  BY <1>0 DEF TypeOK, ThreadType, Goto, Return, Threads, Held
<1>3. alloc' \subseteq alloc BY DEF queueVars
<1>4. ASSUME NEW a \in alloc'
      PROVE  heap'[a].times_sent = heap[a].times_sent /\ heap'[a].tx = heap[a].tx
  BY <1>0 DEF queueVars
<1>5. HeldOK'
  <2>1. CASE pc["sweeper"] \in Held
    <3>1. requests' = requests BY <2>1 DEF CanLock, Held, queueVars
    <3>2. QED BY <1>1, <1>2, <3>1 DEF CountInv, HeldOK, Queued
  <2>2. CASE pc["sweeper"] \notin Held BY <1>1, <1>2, <2>2 DEF HeldOK
  <2>3. QED BY <2>1, <2>2
<1>6. \A a \in alloc' : /\ MainCounts(a)' => MainCounts(a)
                        /\ SweeperCounts(a)' => SweeperCounts(a)
  BY <1>1, <1>2 DEF MainCounts, SweeperCounts, Held
<1>7. ErrorPhase' => ErrorPhase BY <1>1 DEF ErrorPhase
<1>8. pc'["main"] # "store" BY <1>2 DEF Held
<1>9. QED BY <1>1, <1>3, <1>4, <1>5, <1>6, <1>7, <1>8, Neutral

\* The sweeper's steps between two requests and between two packets.
LEMMA SweepNeutral ==
  ASSUME Inv, CountInv, Inv', SweepStart \/ SweepPass \/ SweepError
  PROVE  CountInv'
<1> USE DEF SweepStart, SweepPass, SweepError
<1>0. TypeOK BY DEF Inv
<1>1. UNCHANGED <<requests, heap, alloc, ptr, val, stale, uaf>>
  BY DEF queueVars, callVars, uafVars
<1>2. pc'["main"] = pc["main"]
      /\ pc'["sweeper"] \in {"sleep", "visit", "errors", "lookup"}
  BY <1>0 DEF TypeOK, ThreadType, Goto, Advance, Threads
<1>3. HeldOK' BY <1>1, <1>2 DEF CountInv, HeldOK, Held, Queued
<1>4. \A a \in alloc' : /\ MainCounts(a)' => MainCounts(a)
                        /\ SweeperCounts(a)' => SweeperCounts(a)
  BY <1>1, <1>2 DEF MainCounts, SweeperCounts
<1>5. ErrorPhase' => ErrorPhase /\ cur' = cur
  <2>1. CASE SweepError BY <2>1 DEF ErrorPhase
  <2>2. CASE SweepStart \/ SweepPass
    <3>1. pc'["sweeper"] \in {"sleep", "visit"}
      BY <1>0, <2>2 DEF TypeOK, ThreadType, Goto, Advance, Threads
    <3>2. QED BY <3>1 DEF ErrorPhase
  <2>3. QED BY <2>1, <2>2
<1>6. QED BY <1>1, <1>2, <1>3, <1>4, <1>5, Neutral

\* sr_arpreq_destroy by the sweeper: main's pointer to that request is stale.
LEMMA SweepDestroyNeutral ==
  ASSUME Inv, CountInv, Inv', SweepDestroy
  PROVE  CountInv'
<1> USE DEF SweepDestroy
<1>0. TypeOK /\ heap \in [Addr -> Request] /\ alloc \subseteq Addr
  BY CountTypes DEF Inv
<1>1. /\ alloc' = alloc \ {cur} /\ heap' = [heap EXCEPT ![cur] = Blank]
      /\ UNCHANGED <<ptr, val, uaf>> /\ stale' = (stale \/ ptr["main"] = cur)
  BY DEF callVars
<1>2. pc'["main"] = pc["main"] /\ pc'["sweeper"] \in {"sleep", "visit"}
  BY <1>0 DEF TypeOK, ThreadType, Goto, Advance, Threads
<1>3. \A a \in alloc' : heap'[a] = heap[a] BY <1>0, <1>1
<1>4. ~ stale' => ~ stale /\ ptr["main"] # cur BY <1>1
<1>5. HeldOK' BY <1>1, <1>2, <1>4 DEF CountInv, HeldOK, Held
<1>6. \A a \in alloc' : /\ MainCounts(a)' => MainCounts(a)
                        /\ SweeperCounts(a)' => SweeperCounts(a)
  BY <1>1, <1>2, <1>4 DEF MainCounts, SweeperCounts
<1>7. ~ ErrorPhase' BY <1>2 DEF ErrorPhase
<1>8. QED BY <1>1, <1>2, <1>3, <1>4, <1>5, <1>6, <1>7, Neutral

\* A second passes, or nothing happens.
LEMMA TickNeutral ==
  ASSUME Inv, CountInv, Inv', Tick \/ UNCHANGED vars
  PROVE  CountInv'
<1>0. TypeOK /\ heap \in [Addr -> Request] /\ alloc \subseteq Addr
  BY CountTypes DEF Inv
<1>1. UNCHANGED <<requests, alloc, pc, ptr, val, cur, stale, uaf>>
  BY DEF Tick, vars, queueVars, callVars, sweepVars, uafVars
<1>2. ASSUME NEW a \in alloc
      PROVE  heap'[a].times_sent = heap[a].times_sent /\ heap'[a].tx = heap[a].tx
  <2>1. CASE heap' = heap BY <2>1
  <2>2. CASE Tick
    <3>1. PICK n : heap'[a] = [heap[a] EXCEPT !.age = n] BY <1>0, <2>2 DEF Tick
    <3>2. QED BY <1>0, <3>1 DEF Request
  <2>3. QED BY <2>1, <2>2 DEF vars, queueVars
<1>3. HeldOK' BY <1>1 DEF CountInv, HeldOK, Held, Queued
<1>4. \A a \in alloc' : /\ MainCounts(a)' => MainCounts(a)
                        /\ SweeperCounts(a)' => SweeperCounts(a)
  BY <1>1 DEF MainCounts, SweeperCounts
<1>5. ErrorPhase' => ErrorPhase BY <1>1 DEF ErrorPhase
<1>6. QED BY <1>1, <1>2, <1>3, <1>4, <1>5, Neutral

-----------------------------------------------------------------------------
(* The steps that transmit and count.                                      *)

\* A request that sr_arpcache_queuereq has just allocated has been neither
\* transmitted nor counted, and nobody else points at it.
LEMMA RoutedNewCounts ==
  ASSUME Inv, CountInv, Inv', NEW t \in Threads, RoutedNew(t)
  PROVE  CountInv'
<1>0. /\ TypeOK /\ heap \in [Addr -> Request] /\ alloc \subseteq Addr
      /\ Queued \subseteq alloc
      /\ pc["sweeper"] # "sleep" => cur \in Queued
  BY CountTypes DEF Inv
<1>1. PICK a \in Addr \ alloc : NewRequest(t, a, <<a>> \o requests)
  BY DEF RoutedNew
<1>2. /\ pc[t] = "queue" /\ CanLock(t) /\ alloc' = alloc \cup {a}
      /\ requests' = <<a>> \o requests /\ ptr' = [ptr EXCEPT ![t] = a]
      /\ Goto(t, "check") /\ UNCHANGED <<val, cur, stale, uaf>>
  BY <1>1 DEF RoutedNew, NewRequest, sweepVars, uafVars
<1>3. heap'[a].times_sent = 0 /\ heap'[a].tx = 0
  BY <1>0, <1>1 DEF NewRequest, Blank
<1>4. \A b \in alloc : heap'[b] = heap[b] BY <1>0, <1>1 DEF NewRequest
<1>5. Queued' = Queued \cup {a}
  BY <1>0, <1>2, PushFront DEF TypeOK, QueueType, Queued
<1>6. /\ pc'[t] = "check" /\ ptr'[t] = a
      /\ \A u \in Threads \ {t} : pc'[u] = pc[u] /\ ptr'[u] = ptr[u]
  BY <1>0, <1>2 DEF TypeOK, ThreadType, Goto
<1>7. HeldOK'
  <2>1. CASE t = "main"
    BY <1>2, <1>5, <1>6, <2>1, TwoThreads DEF CountInv, HeldOK, Held
  <2>2. CASE t = "sweeper"
    BY <1>2, <1>5, <1>6, <2>2, TwoThreads DEF CountInv, HeldOK, Held
  <2>3. QED BY <2>1, <2>2, TwoThreads
<1>8. /\ \A b : MainCounts(b)' => MainCounts(b) /\ t # "main"
      /\ \A b : SweeperCounts(b)' => SweeperCounts(b) /\ t # "sweeper"
      /\ ErrorPhase' => ErrorPhase
  <2>1. CASE t = "main"
    BY <1>2, <1>6, <2>1, TwoThreads DEF MainCounts, SweeperCounts, ErrorPhase
  <2>2. CASE t = "sweeper"
    BY <1>2, <1>6, <2>2, TwoThreads DEF MainCounts, SweeperCounts, ErrorPhase
  <2>3. QED BY <2>1, <2>2, TwoThreads
<1>9. ~ MainCounts(a)' /\ ~ SweeperCounts(a)'
  <2>1. ~ MainCounts(a)
    BY DEF CountInv, HeldOK, Held, MainCounts
  <2>2. ~ SweeperCounts(a)
    BY <1>0 DEF CountInv, HeldOK, Held, SweeperCounts
  <2>3. QED BY <1>8, <2>1, <2>2
<1> SUFFICES ASSUME ~ uaf' PROVE CountOK' BY <1>7 DEF CountInv
<1>10. CountOK BY <1>2 DEF CountInv
<1>11. \A b \in alloc' : InFlight(b)' <= InFlight(b) /\ InFlight(b) \in Nat
                         /\ InFlight(b)' \in Nat
  BY <1>8 DEF InFlight
<1>12. InFlight(a)' = 0 BY <1>9 DEF InFlight
<1>13. \A b \in alloc : heap[b].times_sent \in Nat /\ heap[b].tx \in Nat
  BY CountTypes
<1>14. \A b \in alloc' : heap'[b].times_sent + InFlight(b)' <= heap'[b].tx
  <2>1. ASSUME NEW b \in alloc PROVE heap'[b].times_sent + InFlight(b)' <= heap'[b].tx
    <3>1. heap[b].times_sent + InFlight(b) <= heap[b].tx BY <1>10 DEF CountOK
    <3>2. heap'[b] = heap[b] /\ b \in alloc' BY <1>2, <1>4
    <3>3. QED BY <1>11, <1>13, <3>1, <3>2
  <2>2. QED BY <1>2, <1>3, <1>12, <2>1
<1>15. val["main"] \in Nat /\ val["sweeper"] \in Nat BY CountTypes
<1>16. pc'["main"] = "store" /\ ~ stale'
         => val'["main"] + InFlight(ptr["main"])' <= heap'[ptr'["main"]].tx
  <2> SUFFICES ASSUME pc'["main"] = "store", ~ stale'
               PROVE  val'["main"] + InFlight(ptr["main"])' <= heap'[ptr'["main"]].tx
    OBVIOUS
  <2>1. pc["main"] = "store" /\ ~ stale /\ ptr'["main"] = ptr["main"]
        /\ ptr["main"] \in alloc
    BY <1>2, <1>6, TwoThreads DEF CountInv, HeldOK, Held
  <2>2. QED BY <1>2, <1>4, <1>10, <1>11, <1>13, <1>15, <2>1 DEF CountOK
<1>17. pc'["sweeper"] \notin {"store", "count"}
  BY <1>2, <1>6, TwoThreads DEF CanLock
<1>18. ErrorPhase' => heap'[cur'].tx >= ArpTries
  BY <1>0, <1>2, <1>4, <1>8, <1>10 DEF CountOK, ErrorPhase
<1>19. QED BY <1>14, <1>16, <1>17, <1>18 DEF CountOK

\* What is left to show of a step that transmits or counts: the balance of the
\* request it is about, and that nothing else got worse.
LEMMA Balanced ==
  ASSUME Inv, CountInv, HeldOK', Inv', ~ uaf, alloc' = alloc,
         \A a \in alloc :
           /\ heap'[a].times_sent + InFlight(a)' <= heap'[a].tx
           /\ InFlight(a)' + heap[a].tx <= InFlight(a) + heap'[a].tx
           /\ heap[a].tx <= heap'[a].tx,
         \/ pc'["main"] # "store" \/ stale'
         \/ val'["main"] + InFlight(ptr["main"])' <= heap'[ptr'["main"]].tx
         \/ /\ pc["main"] = "store" /\ ~ stale
            /\ ptr'["main"] = ptr["main"] /\ val'["main"] = val["main"],
         \/ pc'["sweeper"] # "store"
         \/ val'["sweeper"] + InFlight(ptr["sweeper"])' <= heap'[ptr'["sweeper"]].tx
         \/ /\ pc["sweeper"] = "store"
            /\ ptr'["sweeper"] = ptr["sweeper"] /\ val'["sweeper"] = val["sweeper"],
         \/ pc'["sweeper"] # "count"
         \/ val'["sweeper"] + InFlight(cur)' <= heap'[cur'].tx
         \/ /\ pc["sweeper"] = "count"
            /\ cur' = cur /\ val'["sweeper"] = val["sweeper"],
         ErrorPhase' => ErrorPhase /\ cur' = cur
  PROVE  CountInv'
<1> SUFFICES CountOK' BY DEF CountInv
<1>0. CountOK BY DEF CountInv
<1>1. \A a : InFlight(a) \in Nat /\ InFlight(a)' \in Nat BY DEF InFlight
<1>2. \A a \in alloc : heap[a].tx \in Nat /\ heap'[a].tx \in Nat
  BY CountTypes DEF Inv, TypeOK, QueueType, Request
<1>3. /\ pc'["main"] \in Held /\ ~ stale' => ptr'["main"] \in alloc
      /\ pc'["sweeper"] \in Held => ptr'["sweeper"] \in alloc
      /\ pc'["sweeper"] # "sleep" => cur' \in alloc
  BY CountTypes DEF HeldOK, Inv, RequestsOK, SweepPointersOK
<1>4. val["main"] \in Nat /\ val["sweeper"] \in Nat BY CountTypes
<1>5. ASSUME NEW a \in alloc, NEW v \in Nat, v + InFlight(a) <= heap[a].tx
      PROVE  v + InFlight(a)' <= heap'[a].tx
  BY <1>1, <1>2, <1>5
<1>6. pc'["main"] = "store" /\ ~ stale'
        => val'["main"] + InFlight(ptr["main"])' <= heap'[ptr'["main"]].tx
  <2> SUFFICES ASSUME pc'["main"] = "store", ~ stale', pc["main"] = "store", ~ stale,
                      ptr'["main"] = ptr["main"], val'["main"] = val["main"]
               PROVE  val'["main"] + InFlight(ptr["main"])' <= heap'[ptr'["main"]].tx
    OBVIOUS
  <2>1. ptr["main"] \in alloc BY <1>3 DEF Held
  <2>2. val["main"] + InFlight(ptr["main"]) <= heap[ptr["main"]].tx
    BY <1>0 DEF CountOK
  <2>3. QED BY <1>4, <1>5, <2>1, <2>2
<1>7. pc'["sweeper"] = "store"
        => val'["sweeper"] + InFlight(ptr["sweeper"])' <= heap'[ptr'["sweeper"]].tx
  <2> SUFFICES ASSUME pc'["sweeper"] = "store", pc["sweeper"] = "store",
                      ptr'["sweeper"] = ptr["sweeper"],
                      val'["sweeper"] = val["sweeper"]
               PROVE  val'["sweeper"] + InFlight(ptr["sweeper"])'
                        <= heap'[ptr'["sweeper"]].tx
    OBVIOUS
  <2>1. ptr["sweeper"] \in alloc BY <1>3 DEF Held
  <2>2. val["sweeper"] + InFlight(ptr["sweeper"]) <= heap[ptr["sweeper"]].tx
    BY <1>0 DEF CountOK
  <2>3. QED BY <1>4, <1>5, <2>1, <2>2
<1>8. pc'["sweeper"] = "count"
        => val'["sweeper"] + InFlight(cur)' <= heap'[cur'].tx
  <2> SUFFICES ASSUME pc'["sweeper"] = "count", pc["sweeper"] = "count",
                      cur' = cur, val'["sweeper"] = val["sweeper"]
               PROVE  val'["sweeper"] + InFlight(cur)' <= heap'[cur'].tx
    OBVIOUS
  <2>1. cur \in alloc BY <1>3
  <2>2. val["sweeper"] + InFlight(cur) <= heap[cur].tx BY <1>0 DEF CountOK
  <2>3. QED BY <1>4, <1>5, <2>1, <2>2
<1>9. ErrorPhase' => heap'[cur'].tx >= ArpTries
  <2> SUFFICES ASSUME ErrorPhase' PROVE heap'[cur].tx >= ArpTries OBVIOUS
  <2>1. heap[cur].tx >= ArpTries BY <1>0 DEF CountOK
  <2>2. cur \in alloc BY <1>3 DEF ErrorPhase
  <2>3. QED BY <1>2, <2>1, <2>2, BoundsAssumption
<1>10. QED BY <1>6, <1>7, <1>8, <1>9 DEF CountOK

\* Once main has used a stale pointer the count says nothing any more; until
\* then the pointer of a thread that uses it is good.
LEMMA GoodPointer ==
  ASSUME Inv, CountInv, NEW t \in Threads, pc[t] \in Held, Dereference(t), ~ uaf'
  PROVE  ptr[t] \in alloc /\ ~ uaf /\ (t = "main" => ~ stale)
<1>1. ~ uaf /\ ~ (t = "main" /\ stale) BY DEF Dereference
<1>2. Queued \subseteq alloc BY CountTypes
<1>3. QED BY <1>1, <1>2, TwoThreads DEF CountInv, HeldOK

\* The transmission of sr_send_routed_ip_packet.
LEMMA RoutedMarkCounts ==
  ASSUME Inv, CountInv, Inv', NEW t \in Threads, RoutedMark(t)
  PROVE  CountInv'
<1>0. /\ TypeOK /\ heap \in [Addr -> Request] /\ alloc \subseteq Addr
      /\ Queued \subseteq alloc
  BY CountTypes DEF Inv
<1>1. /\ pc[t] = "mark" /\ Goto(t, "load") /\ Dereference(t)
      /\ UNCHANGED <<requests, alloc, ptr, val, cur, stale>>
  BY DEF RoutedMark, callVars, sweepVars
<1>2. /\ pc'[t] = "load"
      /\ \A u \in Threads \ {t} : pc'[u] = pc[u]
  BY <1>0, <1>1 DEF TypeOK, ThreadType, Goto
<1>3. HeldOK'
  <2>1. Queued' = Queued BY <1>1 DEF Queued
  <2>2. \A u \in Threads : pc'[u] \in Held => pc[u] \in Held
    BY <1>1, <1>2 DEF Held
  <2>3. QED BY <1>1, <2>1, <2>2, TwoThreads DEF CountInv, HeldOK
<1> SUFFICES ASSUME ~ uaf' PROVE CountInv' BY <1>3 DEF CountInv
<1>4. ptr[t] \in alloc /\ ~ uaf /\ (t = "main" => ~ stale)
  BY <1>1, GoodPointer DEF Held
<1>a. PICK a \in alloc : a = ptr[t] BY <1>4
<1>5. heap' = [heap EXCEPT ![a] = [sr_send_arp_request(@) EXCEPT !.age = 0]]
  BY <1>4, <1>a DEF RoutedMark
<1>6. /\ heap'[a].tx = heap[a].tx + 1 /\ heap'[a].times_sent = heap[a].times_sent
      /\ \A b \in alloc \ {a} : heap'[b] = heap[b]
  BY <1>0, <1>5 DEF sr_send_arp_request, Request
<1>7. /\ InFlight(a)' = InFlight(a) + 1
      /\ \A b \in alloc \ {a} : InFlight(b)' = InFlight(b)
  <2>1. CASE t = "main"
    <3>1. /\ MainCounts(a)' /\ ~ MainCounts(a)
          /\ \A b \in alloc \ {a} : ~ MainCounts(b)' /\ ~ MainCounts(b)
          /\ \A b \in alloc : SweeperCounts(b)' <=> SweeperCounts(b)
      BY <1>1, <1>2, <1>4, <1>a, <2>1, TwoThreads DEF MainCounts, SweeperCounts
    <3>2. QED BY <3>1 DEF InFlight
  <2>2. CASE t = "sweeper"
    <3>1. /\ SweeperCounts(a)' /\ ~ SweeperCounts(a)
          /\ \A b \in alloc \ {a} : ~ SweeperCounts(b)' /\ ~ SweeperCounts(b)
          /\ \A b \in alloc : MainCounts(b)' <=> MainCounts(b)
      BY <1>1, <1>2, <1>4, <1>a, <2>2, TwoThreads DEF MainCounts, SweeperCounts
    <3>2. QED BY <3>1 DEF InFlight
  <2>3. QED BY <2>1, <2>2, TwoThreads
<1>8. \A b \in alloc : /\ heap[b].times_sent \in Nat /\ heap[b].tx \in Nat
                       /\ InFlight(b) \in Nat
                       /\ heap[b].times_sent + InFlight(b) <= heap[b].tx
  BY <1>4, CountTypes DEF CountInv, CountOK, InFlight
<1>9. \A b \in alloc :
        /\ heap'[b].times_sent + InFlight(b)' <= heap'[b].tx
        /\ InFlight(b)' + heap[b].tx <= InFlight(b) + heap'[b].tx
        /\ heap[b].tx <= heap'[b].tx
  <2>1. ASSUME NEW b \in alloc \ {a}
        PROVE  /\ heap'[b].times_sent + InFlight(b)' <= heap'[b].tx
               /\ InFlight(b)' + heap[b].tx <= InFlight(b) + heap'[b].tx
               /\ heap[b].tx <= heap'[b].tx
    BY <1>6, <1>7, <1>8
  <2>2. /\ heap'[a].times_sent + InFlight(a)' <= heap'[a].tx
        /\ InFlight(a)' + heap[a].tx <= InFlight(a) + heap'[a].tx
        /\ heap[a].tx <= heap'[a].tx
    BY <1>6, <1>7, <1>8
  <2>3. QED BY <2>1, <2>2
<1>10. /\ pc'["main"] = "store" => pc["main"] = "store"
       /\ pc'["sweeper"] = "store" => pc["sweeper"] = "store"
       /\ pc'["sweeper"] = "count" => pc["sweeper"] = "count"
       /\ ErrorPhase' => ErrorPhase
  BY <1>1, <1>2, TwoThreads DEF ErrorPhase
<1>11. QED BY <1>1, <1>3, <1>4, <1>9, <1>10, Balanced

\* The load of the increment reads a count that is not too large.
LEMMA RoutedLoadCounts ==
  ASSUME Inv, CountInv, Inv', NEW t \in Threads, RoutedLoad(t)
  PROVE  CountInv'
<1>0. TypeOK /\ Queued \subseteq alloc BY CountTypes DEF Inv
<1>1. /\ pc[t] = "load" /\ Goto(t, "store") /\ Dereference(t)
      /\ UNCHANGED <<requests, heap, alloc, ptr, cur, stale>>
  BY DEF RoutedLoad, queueVars, sweepVars
<1>2. /\ pc'[t] = "store"
      /\ \A u \in Threads \ {t} : pc'[u] = pc[u] /\ val'[u] = val[u]
  BY <1>0, <1>1 DEF TypeOK, ThreadType, Goto, RoutedLoad
<1>3. HeldOK'
  <2>1. Queued' = Queued BY <1>1 DEF Queued
  <2>2. \A u \in Threads : pc'[u] \in Held => pc[u] \in Held
    BY <1>1, <1>2 DEF Held
  <2>3. QED BY <1>1, <2>1, <2>2, TwoThreads DEF CountInv, HeldOK
<1> SUFFICES ASSUME ~ uaf' PROVE CountInv' BY <1>3 DEF CountInv
<1>4. ptr[t] \in alloc /\ ~ uaf /\ (t = "main" => ~ stale)
  BY <1>1, GoodPointer DEF Held
<1>5. val'[t] = heap[ptr[t]].times_sent
  BY <1>0, <1>4 DEF RoutedLoad, TimesSentRead, TypeOK, ThreadType
<1>6. \A b : InFlight(b)' = InFlight(b)
  <2>1. \A b : (MainCounts(b)' <=> MainCounts(b))
               /\ (SweeperCounts(b)' <=> SweeperCounts(b))
    BY <1>1, <1>2, TwoThreads DEF MainCounts, SweeperCounts
  <2>2. QED BY <2>1 DEF InFlight
<1>7. \A b \in alloc : /\ heap[b].times_sent \in Nat /\ heap[b].tx \in Nat
                       /\ InFlight(b) \in Nat
                       /\ heap[b].times_sent + InFlight(b) <= heap[b].tx
  BY <1>4, CountTypes DEF CountInv, CountOK, InFlight
<1>8. \A b \in alloc :
        /\ heap'[b].times_sent + InFlight(b)' <= heap'[b].tx
        /\ InFlight(b)' + heap[b].tx <= InFlight(b) + heap'[b].tx
        /\ heap[b].tx <= heap'[b].tx
  BY <1>1, <1>6, <1>7
<1>9. val'[t] + InFlight(ptr[t])' <= heap'[ptr'[t]].tx
  BY <1>1, <1>4, <1>5, <1>6, <1>7
<1>10. /\ pc'["sweeper"] = "count" => pc["sweeper"] = "count" /\ t = "main"
       /\ ErrorPhase' => ErrorPhase
  BY <1>1, <1>2, TwoThreads DEF ErrorPhase
<1>11. CASE t = "main"
  BY <1>1, <1>2, <1>3, <1>4, <1>8, <1>9, <1>10, <1>11, TwoThreads, Balanced
<1>12. CASE t = "sweeper"
  BY <1>1, <1>2, <1>3, <1>4, <1>8, <1>9, <1>10, <1>12, TwoThreads, Balanced
<1>13. QED BY <1>11, <1>12, TwoThreads

\* The store ends the increment: one less is under way, and the count is one
\* more than a value that was not too large.
LEMMA RoutedStoreCounts ==
  ASSUME Inv, CountInv, Inv', NEW t \in Threads, RoutedStore(t)
  PROVE  CountInv'
<1>0. /\ TypeOK /\ heap \in [Addr -> Request] /\ alloc \subseteq Addr
      /\ Queued \subseteq alloc
  BY CountTypes DEF Inv
<1>1. /\ pc[t] = "store" /\ Return(t) /\ Dereference(t)
      /\ UNCHANGED <<requests, alloc, cur>>
  BY DEF RoutedStore, sweepVars
<1>2. /\ pc'[t] \in {"idle", "errors"} /\ (pc'[t] = "idle" => t = "main")
      /\ \A u \in Threads \ {t} : /\ pc'[u] = pc[u] /\ val'[u] = val[u]
                                  /\ ptr'[u] = ptr[u]
      /\ stale' => stale
      /\ t = "sweeper" => stale' = stale
  BY <1>0, <1>1 DEF TypeOK, ThreadType, Return, Goto
<1>3. HeldOK'
  <2>1. Queued' = Queued BY <1>1 DEF Queued
  <2>2. CASE t = "main"
    BY <1>1, <1>2, <2>1, <2>2, TwoThreads DEF CountInv, HeldOK, Held
  <2>3. CASE t = "sweeper"
    BY <1>1, <1>2, <2>1, <2>3, TwoThreads DEF CountInv, HeldOK, Held
  <2>4. QED BY <2>2, <2>3, TwoThreads
<1> SUFFICES ASSUME ~ uaf' PROVE CountInv' BY <1>3 DEF CountInv
<1>4. ptr[t] \in alloc /\ ~ uaf /\ (t = "main" => ~ stale)
  BY <1>1, GoodPointer DEF Held
<1>a. PICK a \in alloc : a = ptr[t] BY <1>4
<1>5. heap' = [heap EXCEPT ![a].times_sent = val[t] + 1]
  BY <1>4, <1>a DEF RoutedStore
<1>6. /\ heap'[a].times_sent = val[t] + 1 /\ heap'[a].tx = heap[a].tx
      /\ \A b \in alloc \ {a} : heap'[b] = heap[b]
  BY <1>0, <1>5 DEF Request
<1>7. /\ InFlight(a) = InFlight(a)' + 1
      /\ \A b \in alloc \ {a} : InFlight(b)' = InFlight(b)
  <2>1. CASE t = "main"
    <3>1. /\ ~ MainCounts(a)' /\ MainCounts(a)
          /\ \A b \in alloc \ {a} : ~ MainCounts(b)' /\ ~ MainCounts(b)
          /\ \A b \in alloc : SweeperCounts(b)' <=> SweeperCounts(b)
      BY <1>1, <1>2, <1>4, <1>a, <2>1, TwoThreads DEF MainCounts, SweeperCounts
    <3>2. QED BY <3>1 DEF InFlight
  <2>2. CASE t = "sweeper"
    <3>1. /\ ~ SweeperCounts(a)' /\ SweeperCounts(a)
          /\ \A b \in alloc \ {a} : ~ SweeperCounts(b)' /\ ~ SweeperCounts(b)
          /\ \A b \in alloc : MainCounts(b)' <=> MainCounts(b)
      BY <1>1, <1>2, <1>4, <1>a, <2>2, TwoThreads DEF MainCounts, SweeperCounts
    <3>2. QED BY <3>1 DEF InFlight
  <2>3. QED BY <2>1, <2>2, TwoThreads
<1>8. \A b \in alloc : /\ heap[b].times_sent \in Nat /\ heap[b].tx \in Nat
                       /\ InFlight(b) \in Nat /\ InFlight(b)' \in Nat
                       /\ heap[b].times_sent + InFlight(b) <= heap[b].tx
  BY <1>4, CountTypes DEF CountInv, CountOK, InFlight
<1>9. val[t] \in Nat /\ val[t] + InFlight(a) <= heap[a].tx
  BY <1>0, <1>1, <1>4, <1>a, TwoThreads DEF CountInv, CountOK, TypeOK, ThreadType
<1>10. \A b \in alloc :
         /\ heap'[b].times_sent + InFlight(b)' <= heap'[b].tx
         /\ InFlight(b)' + heap[b].tx <= InFlight(b) + heap'[b].tx
         /\ heap[b].tx <= heap'[b].tx
  <2>1. ASSUME NEW b \in alloc \ {a}
        PROVE  /\ heap'[b].times_sent + InFlight(b)' <= heap'[b].tx
               /\ InFlight(b)' + heap[b].tx <= InFlight(b) + heap'[b].tx
               /\ heap[b].tx <= heap'[b].tx
    BY <1>6, <1>7, <1>8
  <2>2. /\ heap'[a].times_sent + InFlight(a)' <= heap'[a].tx
        /\ InFlight(a)' + heap[a].tx <= InFlight(a) + heap'[a].tx
        /\ heap[a].tx <= heap'[a].tx
    BY <1>6, <1>7, <1>8, <1>9
  <2>3. QED BY <2>1, <2>2
<1>11. /\ \/ pc'["main"] # "store" \/ stale'
          \/ /\ pc["main"] = "store" /\ ~ stale
             /\ ptr'["main"] = ptr["main"] /\ val'["main"] = val["main"]
       /\ \/ pc'["sweeper"] # "store"
          \/ /\ pc["sweeper"] = "store"
             /\ ptr'["sweeper"] = ptr["sweeper"] /\ val'["sweeper"] = val["sweeper"]
       /\ \/ pc'["sweeper"] # "count"
          \/ pc["sweeper"] = "count" /\ val'["sweeper"] = val["sweeper"]
       /\ ErrorPhase' => ErrorPhase
  <2>1. CASE t = "main"
    BY <1>2, <2>1, TwoThreads DEF ErrorPhase
  <2>2. CASE t = "sweeper"
    BY <1>1, <1>2, <2>2, TwoThreads DEF ErrorPhase
  <2>3. QED BY <2>1, <2>2, TwoThreads
<1>12. QED BY <1>1, <1>3, <1>4, <1>10, <1>11, Balanced

\* The sweeper transmits again ...
LEMMA SweepResendCounts ==
  ASSUME Inv, CountInv, Inv', SweepResend
  PROVE  CountInv'
<1>0. /\ TypeOK /\ heap \in [Addr -> Request] /\ alloc \subseteq Addr
      /\ Queued \subseteq alloc
  BY CountTypes DEF Inv
<1>1. /\ pc["sweeper"] = "visit" /\ Goto("sweeper", "resent")
      /\ heap' = [heap EXCEPT ![cur] =
                    [sr_arpcache_send_arp_request(@) EXCEPT !.age = lag]]
      /\ UNCHANGED <<requests, alloc, ptr, val, cur, stale, uaf>>
  BY DEF SweepResend, callVars, uafVars
<1>2. pc'["sweeper"] = "resent" /\ pc'["main"] = pc["main"]
  BY <1>0, <1>1, TwoThreads DEF TypeOK, ThreadType, Goto
<1>3. HeldOK' BY <1>1, <1>2 DEF CountInv, HeldOK, Held, Queued
<1> SUFFICES ASSUME ~ uaf' PROVE CountInv' BY <1>3 DEF CountInv
<1>4. cur \in alloc /\ ~ uaf BY <1>0, <1>1, CountTypes
<1>a. PICK a \in alloc : a = cur BY <1>4
<1>6. /\ heap'[a].tx = heap[a].tx + 1 /\ heap'[a].times_sent = heap[a].times_sent
      /\ \A b \in alloc \ {a} : heap'[b] = heap[b]
  BY <1>0, <1>1, <1>a DEF sr_arpcache_send_arp_request, Request
<1>7. /\ InFlight(a)' = InFlight(a) + 1
      /\ \A b \in alloc \ {a} : InFlight(b)' = InFlight(b)
  <2>1. /\ SweeperCounts(a)' /\ ~ SweeperCounts(a)
        /\ \A b \in alloc \ {a} : ~ SweeperCounts(b)' /\ ~ SweeperCounts(b)
        /\ \A b \in alloc : MainCounts(b)' <=> MainCounts(b)
    BY <1>1, <1>2, <1>a DEF MainCounts, SweeperCounts
  <2>2. QED BY <2>1 DEF InFlight
<1>8. \A b \in alloc : /\ heap[b].times_sent \in Nat /\ heap[b].tx \in Nat
                       /\ InFlight(b) \in Nat
                       /\ heap[b].times_sent + InFlight(b) <= heap[b].tx
  BY <1>4, CountTypes DEF CountInv, CountOK, InFlight
<1>9. \A b \in alloc :
        /\ heap'[b].times_sent + InFlight(b)' <= heap'[b].tx
        /\ InFlight(b)' + heap[b].tx <= InFlight(b) + heap'[b].tx
        /\ heap[b].tx <= heap'[b].tx
  <2>1. ASSUME NEW b \in alloc \ {a}
        PROVE  /\ heap'[b].times_sent + InFlight(b)' <= heap'[b].tx
               /\ InFlight(b)' + heap[b].tx <= InFlight(b) + heap'[b].tx
               /\ heap[b].tx <= heap'[b].tx
    BY <1>6, <1>7, <1>8
  <2>2. /\ heap'[a].times_sent + InFlight(a)' <= heap'[a].tx
        /\ InFlight(a)' + heap[a].tx <= InFlight(a) + heap'[a].tx
        /\ heap[a].tx <= heap'[a].tx
    BY <1>6, <1>7, <1>8
  <2>3. QED BY <2>1, <2>2
<1>10. ~ ErrorPhase' BY <1>2 DEF ErrorPhase
<1>11. QED BY <1>1, <1>2, <1>3, <1>4, <1>9, <1>10, Balanced

\* ... loads ...
LEMMA SweepLoadCounts ==
  ASSUME Inv, CountInv, Inv', SweepLoad
  PROVE  CountInv'
<1>0. TypeOK /\ Queued \subseteq alloc BY CountTypes DEF Inv
<1>1. /\ pc["sweeper"] = "resent" /\ Goto("sweeper", "count")
      /\ val' = [val EXCEPT !["sweeper"] = heap[cur].times_sent]
      /\ UNCHANGED <<requests, heap, alloc, ptr, cur, stale, uaf>>
  BY DEF SweepLoad, queueVars, sweepVars, uafVars
<1>2. /\ pc'["sweeper"] = "count" /\ pc'["main"] = pc["main"]
      /\ val'["sweeper"] = heap[cur].times_sent /\ val'["main"] = val["main"]
  BY <1>0, <1>1, TwoThreads DEF TypeOK, ThreadType, Goto
<1>3. HeldOK' BY <1>1, <1>2 DEF CountInv, HeldOK, Held, Queued
<1> SUFFICES ASSUME ~ uaf' PROVE CountInv' BY <1>3 DEF CountInv
<1>4. cur \in alloc /\ ~ uaf BY <1>0, <1>1, CountTypes
<1>6. \A b : InFlight(b)' = InFlight(b)
  <2>1. \A b : (MainCounts(b)' <=> MainCounts(b))
               /\ (SweeperCounts(b)' <=> SweeperCounts(b))
    BY <1>1, <1>2 DEF MainCounts, SweeperCounts
  <2>2. QED BY <2>1 DEF InFlight
<1>7. \A b \in alloc : /\ heap[b].times_sent \in Nat /\ heap[b].tx \in Nat
                       /\ InFlight(b) \in Nat
                       /\ heap[b].times_sent + InFlight(b) <= heap[b].tx
  BY <1>4, CountTypes DEF CountInv, CountOK, InFlight
<1>8. \A b \in alloc :
        /\ heap'[b].times_sent + InFlight(b)' <= heap'[b].tx
        /\ InFlight(b)' + heap[b].tx <= InFlight(b) + heap'[b].tx
        /\ heap[b].tx <= heap'[b].tx
  BY <1>1, <1>6, <1>7
<1>9. val'["sweeper"] + InFlight(cur)' <= heap'[cur'].tx
  BY <1>1, <1>2, <1>4, <1>6, <1>7
<1>10. ~ ErrorPhase' BY <1>2 DEF ErrorPhase
<1>11. QED BY <1>1, <1>2, <1>3, <1>4, <1>8, <1>9, <1>10, Balanced

\* ... and stores.
LEMMA SweepStoreCounts ==
  ASSUME Inv, CountInv, Inv', SweepStore
  PROVE  CountInv'
<1>0. /\ TypeOK /\ heap \in [Addr -> Request] /\ alloc \subseteq Addr
      /\ Queued \subseteq alloc
  BY CountTypes DEF Inv
<1>1. /\ pc["sweeper"] = "count" /\ Advance(nxt)
      /\ heap' = [heap EXCEPT ![cur].times_sent = val["sweeper"] + 1]
      /\ val' = [val EXCEPT !["sweeper"] = 0]
      /\ UNCHANGED <<requests, alloc, ptr, stale, uaf>>
  BY DEF SweepStore, uafVars
<1>2. /\ pc'["sweeper"] \in {"sleep", "visit"} /\ pc'["main"] = pc["main"]
      /\ val'["main"] = val["main"]
  BY <1>0, <1>1, TwoThreads DEF TypeOK, ThreadType, Goto, Advance
<1>3. HeldOK' BY <1>1, <1>2 DEF CountInv, HeldOK, Held, Queued
<1> SUFFICES ASSUME ~ uaf' PROVE CountInv' BY <1>3 DEF CountInv
<1>4. cur \in alloc /\ ~ uaf BY <1>0, <1>1, CountTypes
<1>a. PICK a \in alloc : a = cur BY <1>4
<1>6. /\ heap'[a].times_sent = val["sweeper"] + 1 /\ heap'[a].tx = heap[a].tx
      /\ \A b \in alloc \ {a} : heap'[b] = heap[b]
  BY <1>0, <1>1, <1>a DEF Request
<1>7. /\ InFlight(a) = InFlight(a)' + 1
      /\ \A b \in alloc \ {a} : InFlight(b)' = InFlight(b)
  <2>1. /\ ~ SweeperCounts(a)' /\ SweeperCounts(a)
        /\ \A b \in alloc \ {a} : ~ SweeperCounts(b)' /\ ~ SweeperCounts(b)
        /\ \A b \in alloc : MainCounts(b)' <=> MainCounts(b)
    BY <1>1, <1>2, <1>a DEF MainCounts, SweeperCounts
  <2>2. QED BY <2>1 DEF InFlight
<1>8. \A b \in alloc : /\ heap[b].times_sent \in Nat /\ heap[b].tx \in Nat
                       /\ InFlight(b) \in Nat /\ InFlight(b)' \in Nat
                       /\ heap[b].times_sent + InFlight(b) <= heap[b].tx
  BY <1>4, CountTypes DEF CountInv, CountOK, InFlight
<1>9. val["sweeper"] \in Nat /\ val["sweeper"] + InFlight(a) <= heap[a].tx
  BY <1>1, <1>4, <1>a, CountTypes DEF CountInv, CountOK
<1>10. \A b \in alloc :
         /\ heap'[b].times_sent + InFlight(b)' <= heap'[b].tx
         /\ InFlight(b)' + heap[b].tx <= InFlight(b) + heap'[b].tx
         /\ heap[b].tx <= heap'[b].tx
  <2>1. ASSUME NEW b \in alloc \ {a}
        PROVE  /\ heap'[b].times_sent + InFlight(b)' <= heap'[b].tx
               /\ InFlight(b)' + heap[b].tx <= InFlight(b) + heap'[b].tx
               /\ heap[b].tx <= heap'[b].tx
    BY <1>6, <1>7, <1>8
  <2>2. /\ heap'[a].times_sent + InFlight(a)' <= heap'[a].tx
        /\ InFlight(a)' + heap[a].tx <= InFlight(a) + heap'[a].tx
        /\ heap[a].tx <= heap'[a].tx
    BY <1>6, <1>7, <1>8, <1>9
  <2>3. QED BY <2>1, <2>2
<1>11. ~ ErrorPhase' BY <1>2 DEF ErrorPhase
<1>12. QED BY <1>1, <1>2, <1>3, <1>4, <1>10, <1>11, Balanced

\* The sweeper gives up on a request whose count has reached ArpTries: the count
\* is not too large, so as many transmissions went out.
LEMMA SweepGiveUpCounts ==
  ASSUME Inv, CountInv, Inv', SweepGiveUp
  PROVE  CountInv'
<1>0. TypeOK /\ Queued \subseteq alloc /\ alloc \subseteq Addr
  BY CountTypes DEF Inv
<1>1. /\ pc["sweeper"] = "visit" /\ Goto("sweeper", "errors") /\ GivesUp(cur)
      /\ UNCHANGED <<requests, heap, alloc, ptr, val, cur, stale, uaf>>
  BY DEF SweepGiveUp, queueVars, callVars, uafVars
<1>2. pc'["sweeper"] = "errors" /\ pc'["main"] = pc["main"]
  BY <1>0, <1>1, TwoThreads DEF TypeOK, ThreadType, Goto
<1>3. HeldOK' BY <1>1, <1>2 DEF CountInv, HeldOK, Held, Queued
<1> SUFFICES ASSUME ~ uaf' PROVE CountOK' BY <1>3 DEF CountInv
<1>4. cur \in alloc /\ CountOK BY <1>0, <1>1, CountTypes DEF CountInv
<1>5. \A b : InFlight(b)' = InFlight(b) /\ InFlight(b) \in Nat
  <2>1. \A b : (MainCounts(b)' <=> MainCounts(b))
               /\ (SweeperCounts(b)' <=> SweeperCounts(b))
    BY <1>1, <1>2 DEF MainCounts, SweeperCounts
  <2>2. QED BY <2>1 DEF InFlight
<1>6. heap[cur].tx >= ArpTries
  <2>1. heap[cur].times_sent + InFlight(cur) <= heap[cur].tx
    BY <1>4 DEF CountOK
  <2>2. heap[cur].times_sent >= ArpTries BY <1>1 DEF GivesUp
  <2>3. heap[cur].times_sent \in Nat /\ heap[cur].tx \in Nat
    BY <1>0, <1>4, CountTypes
  <2>4. QED BY <1>5, <2>1, <2>2, <2>3, BoundsAssumption
<1>7. QED BY <1>1, <1>2, <1>4, <1>5, <1>6 DEF CountOK

-----------------------------------------------------------------------------
(* The theorem.                                                            *)

LEMMA CountInit == Init => CountInv
<1> SUFFICES ASSUME Init PROVE CountInv OBVIOUS
<1>1. alloc = {} /\ pc["main"] = "idle" /\ pc["sweeper"] = "sleep"
  BY TwoThreads DEF Init
<1>2. QED BY <1>1 DEF CountInv, HeldOK, CountOK, Held, ErrorPhase

LEMMA CountStep ==
  ASSUME Inv, CountInv, [Next]_vars
  PROVE  CountInv'
<1>0. Inv' BY StepInv
<1>1. ASSUME NEW f \in Frames, RxIp(f) \/ RxArp(f) PROVE CountInv'
  BY <1>0, <1>1, MainNeutral
<1>2. ASSUME NEW t \in Threads, Routed(t) PROVE CountInv'
  BY <1>0, <1>2, RoutedNeutral, RoutedNewCounts, RoutedMarkCounts, RoutedLoadCounts,
     RoutedStoreCounts
  DEF Routed
<1>3. CASE MainStep BY <1>0, <1>2, <1>3, MainNeutral, TwoThreads DEF MainStep
<1>4. CASE SweeperStep
  BY <1>0, <1>2, <1>4, TwoThreads, SweepNeutral, SweepDestroyNeutral,
     SweepGiveUpCounts, SweepResendCounts, SweepLoadCounts, SweepStoreCounts
  DEF SweeperStep, Sweep
<1>5. CASE Tick \/ UNCHANGED vars BY <1>0, <1>5, TickNeutral
<1>6. QED BY <1>1, <1>3, <1>4, <1>5 DEF Next

\* sr_arpcache_sweepreqs sends host unreachable only after at least ArpTries
\* ARP requests really went out for the next hop, whatever the unlocked
\* req->times_sent++ of sr_send_routed_ip_packet and of the sweeper do to each
\* other, as long as main has not used a request that was freed.
THEOREM RouterEarnedUnreachable == Spec => []EarnedUnreachable
<1>1. CountInv => EarnedUnreachable
  BY DEF CountInv, CountOK, EarnedUnreachable
<1>2. Inv /\ CountInv /\ [Next]_vars => CountInv' BY CountStep
<1>3. QED BY <1>1, <1>2, CountInit, Invariance, PTL DEF Spec

-----------------------------------------------------------------------------
(* What becomes of the datagrams that the router accepts.                  *)

CallLabels == {"lookup", "queue"}

\* Main is routing the datagram of received frame i.
Carried(i) ==
  /\ pc["main"] \in CallLabels
  /\ pkt["main"].what = "data"
  /\ pkt["main"].id = i

\* That datagram is packet k of the list at a.
Stands(i, a, k) ==
  /\ a \in Waits
  /\ k \in DOMAIN Waiting(a)
  /\ Waiting(a)[k].buf.id = i
  /\ Waiting(a)[k].buf.what = "data"

\* The sweeper routes errors only, and sr_handle_ip hands on only datagrams that
\* have a route.
HandOK ==
  /\ pc["sweeper"] \in CallLabels => pkt["sweeper"].what # "data"
  /\ pc["main"] \in CallLabels /\ pkt["main"].what = "data"
       => HasRoute(pkt["main"].dst)

\* A queued packet carries the hardware address of an interface of the router
\* as its source, so sr_send_icmp_error finds the interface to answer from.
Answerable(list) == \A k \in DOMAIN list : IfacesOf(list[k].buf.shost) # {}

ListsOK ==
  /\ \A a \in Queued : heap[a].ip \in Hops /\ Answerable(heap[a].packets)
  /\ Answerable(todo)

\* Every accepted datagram is in one place, or has met its one fate.
FatesOK ==
  /\ accepted \subseteq 1 .. rx
  /\ \A i \in 1 .. MaxRx : i > rx => told[i] = 0
  /\ \A i \in 1 .. MaxRx : i \notin accepted => sent[i] = 0
  /\ \A i : Carried(i) => /\ i \in accepted /\ sent[i] = 0 /\ told[i] = 0
                          /\ \A a, k : ~ Stands(i, a, k)
  /\ \A i, a, k : Stands(i, a, k) =>
       /\ i \in accepted /\ sent[i] = 0 /\ told[i] = 0
       /\ \A b, l : Stands(i, b, l) => a = b /\ k = l
  /\ \A i \in accepted : \/ Carried(i)
                         \/ \E a, k : Stands(i, a, k)
                         \/ sent[i] + told[i] = 1

FateInv == HandOK /\ ListsOK /\ FatesOK

-----------------------------------------------------------------------------
(* Facts about the lists.                                                  *)

LEMMA BothThreads ==
  /\ "main" \in Threads /\ "sweeper" \in Threads
  /\ \A t \in Threads : t = "main" \/ t = "sweeper"
BY DEF Threads

\* The types the arguments need, and where the two threads' requests are.
Sorted ==
  /\ alloc \subseteq Addr /\ Queued \subseteq alloc /\ Waits \subseteq alloc
  /\ heap \in [Addr -> Request]
  /\ \A a \in Addr : heap[a].packets \in Seq(QueuedPacket)
  /\ \A a \in Addr : Waiting(a) \in Seq(QueuedPacket)
  /\ pc["sweeper"] # "sleep" => cur \in Queued
  /\ pc["main"] \in {"flush", "destroy"} => ptr["main"] \in alloc \ Queued
  /\ todo \in Seq(QueuedPacket)

LEMMA SortedNow == Inv => Sorted
<1> SUFFICES ASSUME Inv PROVE Sorted OBVIOUS
<1>1. /\ alloc \subseteq Addr /\ Queued \subseteq alloc /\ heap \in [Addr -> Request]
      /\ \A a \in Addr : heap[a].packets \in Seq(QueuedPacket)
      /\ todo \in Seq(QueuedPacket)
  BY DEF Inv, TypeOK, QueueType, SweepType, RequestsOK, Request
<1>2. /\ pc["sweeper"] # "sleep" => cur \in Queued
      /\ pc["main"] \in {"flush", "destroy"} => ptr["main"] \in alloc \ Queued
  BY BothThreads DEF Inv, SweepPointersOK, CallsOK, CallOK
<1>3. Waits \subseteq alloc BY <1>1, <1>2 DEF Waits
<1>4. \A a \in Addr : Waiting(a) \in Seq(QueuedPacket) BY <1>1 DEF Waiting
<1>5. QED BY <1>1, <1>2, <1>3, <1>4 DEF Sorted

LEMMA SortedNext == Inv' => Sorted'
BY SortedNow, PTL

\* The datagrams of a list after a packet was pushed in front of it.
LEMMA PushIds ==
  ASSUME NEW l \in Seq(QueuedPacket), NEW q \in QueuedPacket
  PROVE  /\ DataIds(<<q>> \o l) =
              DataIds(l) \cup (IF q.buf.what = "data" THEN {q.buf.id} ELSE {})
         /\ DOMAIN (<<q>> \o l) = 1 .. Len(l) + 1 /\ DOMAIN l = 1 .. Len(l)
         /\ Len(l) \in Nat
         /\ (<<q>> \o l)[1] = q
         /\ \A k \in 1 .. Len(l) : (<<q>> \o l)[k + 1] = l[k]
         /\ Answerable(l) /\ IfacesOf(q.buf.shost) # {} => Answerable(<<q>> \o l)
<1> DEFINE p == <<q>> \o l
<1>1. /\ p[1] = q /\ \A k \in 1 .. Len(l) : p[k + 1] = l[k]
      /\ DOMAIN p = 1 .. Len(l) + 1 /\ DOMAIN l = 1 .. Len(l) /\ Len(l) \in Nat
  OBVIOUS
<1> HIDE DEF p
<1>2. \A k \in DOMAIN p : k = 1 \/ (k - 1 \in DOMAIN l /\ p[k] = l[k - 1])
  BY <1>1
<1>3. \A k \in DOMAIN l : k + 1 \in DOMAIN p /\ p[k + 1] = l[k] BY <1>1
<1>4. 1 \in DOMAIN p BY <1>1
<1>5. DataIds(p) \subseteq DataIds(l) \cup (IF q.buf.what = "data" THEN {q.buf.id} ELSE {})
  BY <1>1, <1>2 DEF DataIds
<1>6. DataIds(l) \subseteq DataIds(p) BY <1>3 DEF DataIds
<1>7. q.buf.what = "data" => q.buf.id \in DataIds(p) BY <1>1, <1>4 DEF DataIds
<1>8. Answerable(l) /\ IfacesOf(q.buf.shost) # {} => Answerable(p)
  BY <1>1, <1>2 DEF Answerable
<1>9. DataIds(p) = DataIds(l) \cup (IF q.buf.what = "data" THEN {q.buf.id} ELSE {})
  BY <1>5, <1>6, <1>7
<1>10. QED BY <1>1, <1>8, <1>9 DEF p

\* The datagrams of a list after its first packet was answered.
LEMMA PopIds ==
  ASSUME NEW l \in Seq(QueuedPacket), l # <<>>
  PROVE  /\ Tail(l) \in Seq(QueuedPacket) /\ Head(l) = l[1] /\ Head(l) \in QueuedPacket
         /\ DOMAIN l = 1 .. Len(l) /\ Len(l) \in Nat \ {0}
         /\ DOMAIN Tail(l) = 1 .. Len(l) - 1
         /\ \A k \in 1 .. Len(l) - 1 : Tail(l)[k] = l[k + 1]
         /\ Answerable(l) => Answerable(Tail(l)) /\ IfacesOf(Head(l).buf.shost) # {}
<1>1. /\ Tail(l) \in Seq(QueuedPacket) /\ Head(l) = l[1] /\ Head(l) \in QueuedPacket
      /\ DOMAIN l = 1 .. Len(l) /\ Len(l) \in Nat \ {0}
      /\ DOMAIN Tail(l) = 1 .. Len(l) - 1
  OBVIOUS
<1>2. \A k \in 1 .. Len(l) - 1 : Tail(l)[k] = l[k + 1] OBVIOUS
<1>3. \A k \in 1 .. Len(l) - 1 : k + 1 \in DOMAIN l BY <1>1
<1>4. 1 \in DOMAIN l BY <1>1
<1>5. Answerable(l) => Answerable(Tail(l)) /\ IfacesOf(Head(l).buf.shost) # {}
  BY <1>1, <1>2, <1>3, <1>4 DEF Answerable
<1>6. QED BY <1>1, <1>2, <1>5

\* Only main has a datagram in hand.
MainHand ==
  IF pc["main"] \in CallLabels /\ pkt["main"].what = "data"
  THEN {<<pkt["main"].id, NextHop(pkt["main"].dst)>>} ELSE {}

LEMMA HandNow == HandOK => Hand = MainHand
<1> SUFFICES ASSUME HandOK PROVE Hand = MainHand OBVIOUS
<1>1. \A t \in Threads : pc[t] \in {"lookup", "queue"} /\ pkt[t].what = "data"
                         <=> t = "main" /\ pc["main"] \in CallLabels
                             /\ pkt["main"].what = "data"
  BY BothThreads DEF HandOK, CallLabels
<1>2. QED BY <1>1, BothThreads DEF Hand, MainHand

LEMMA HandNext == HandOK' => (Hand = MainHand)'
BY HandNow, PTL

-----------------------------------------------------------------------------
(* Steps that leave the datagrams where they are.                          *)

\* A step that moves no datagram, between two states in which the datagrams of
\* received frames are accounted for.
LEMMA FatesKept ==
  ASSUME Inv, FatesOK, rx \in Nat, rx' \in Nat, rx <= rx',
         UNCHANGED <<accepted, sent>>,
         \A i \in 1 .. rx : told'[i] = told[i],
         \A i \in 1 .. MaxRx : i > rx' => told'[i] = told[i],
         \A i : Carried(i)' <=> Carried(i),
         \A i, a, k : Stands(i, a, k)' <=> Stands(i, a, k)
  PROVE  FatesOK'
<1>1. accepted \subseteq 1 .. rx' BY DEF FatesOK
<1>2. \A i \in accepted : told'[i] = told[i] BY DEF FatesOK
<1>3. \A i \in 1 .. MaxRx : i > rx' => told'[i] = 0 BY DEF FatesOK
<1>4. QED BY <1>1, <1>2, <1>3 DEF FatesOK

\* Seen from NextHopQueue such a step forgets mappings, or nothing.
LEMMA QueueKept ==
  ASSUME \A h \in Hops : WaitingFor(h)' = WaitingFor(h),
         \A h \in Hops : Cached(entries', h) => Cached(entries, h),
         UNCHANGED <<Hand, Released, sent, Reports>>
  PROVE  Q!Forget
<1>1. [h \in Hops |-> WaitingFor(h)]' = [h \in Hops |-> WaitingFor(h)] OBVIOUS
<1>2. {h \in Hops : Cached(entries', h)} \in SUBSET {h \in Hops : Cached(entries, h)}
  OBVIOUS
<1>3. QED BY <1>1, <1>2 DEF Q!Forget

\* The reports about accepted datagrams.
LEMMA ReportsKept ==
  ASSUME FatesOK, accepted' = accepted, \A i \in 1 .. rx : told'[i] = told[i]
  PROVE  Reports' = Reports
<1>1. \A i \in accepted : told'[i] = told[i] BY DEF FatesOK
<1>2. QED BY <1>1 DEF Reports

\* The queue, the packets of its requests and the part of the sweeper's list
\* that is still to be answered stay as they are.
Lists ==
  /\ UNCHANGED <<requests, Waits>>
  /\ \A a \in Queued : heap'[a].ip = heap[a].ip /\ heap'[a].packets = heap[a].packets
  /\ \A a \in Waits : Waiting(a)' = Waiting(a)

LEMMA ListsKept ==
  ASSUME Inv, ListsOK, Lists, Answerable(todo')
  PROVE  /\ \A i, a, k : Stands(i, a, k)' <=> Stands(i, a, k)
         /\ \A h : WaitingFor(h)' = WaitingFor(h)
         /\ ListsOK'
<1>1. Queued' = Queued BY DEF Lists, Queued
<1>2. \A i, a, k : Stands(i, a, k)' <=> Stands(i, a, k) BY DEF Lists, Stands
<1>3. ASSUME NEW h PROVE WaitingFor(h)' = WaitingFor(h)
  <2>1. RequestsFor(h)' = RequestsFor(h) BY <1>1 DEF RequestsFor, Lists
  <2>2. \A a \in RequestsFor(h) : Waiting(a)' = Waiting(a)
    BY DEF RequestsFor, Lists, Waits
  <2>3. QED BY <2>1, <2>2 DEF WaitingFor
<1>4. ListsOK' BY <1>1 DEF ListsOK, Lists
<1>5. QED BY <1>2, <1>3, <1>4

\* Main carries a datagram, not an ICMP error.
CarriesData == pc["main"] \in CallLabels /\ pkt["main"].what = "data"

LEMMA MainKept ==
  ASSUME CarriesData' <=> CarriesData,
         CarriesData => pkt'["main"] = pkt["main"]
  PROVE  MainHand' = MainHand /\ \A i : Carried(i)' <=> Carried(i)
BY DEF CarriesData, MainHand, Carried

\* All of these together.
LEMMA Calm ==
  ASSUME Inv, Inv', FateInv, HandOK', Lists, Answerable(todo'), Released' = Released,
         CarriesData' <=> CarriesData,
         CarriesData => pkt'["main"] = pkt["main"],
         UNCHANGED <<accepted, sent>>, rx <= rx',
         \A i \in 1 .. MaxRx : i # rx' => told'[i] = told[i],
         rx' = rx => told' = told,
         \A h \in Hops : Cached(entries', h) => Cached(entries, h)
  PROVE  FateInv' /\ Q!Next
<1>1. /\ HandOK /\ ListsOK /\ FatesOK /\ rx \in 0 .. MaxRx /\ rx' \in 0 .. MaxRx
      /\ MaxRx \in Nat
  BY BoundsAssumption DEF FateInv, Inv, TypeOK, HistoryType
<1>2. /\ \A i, a, k : Stands(i, a, k)' <=> Stands(i, a, k)
      /\ \A h : WaitingFor(h)' = WaitingFor(h)
      /\ ListsOK'
  BY <1>1, ListsKept
<1>3. MainHand' = MainHand /\ \A i : Carried(i)' <=> Carried(i) BY MainKept
<1>4. \A i \in 1 .. rx : told'[i] = told[i]
  <2>1. CASE rx' = rx BY <2>1
  <2>2. CASE rx' # rx
    <3>1. \A i \in 1 .. rx : i \in 1 .. MaxRx /\ i # rx' BY <1>1, <2>2
    <3>2. QED BY <3>1
  <2>3. QED BY <2>1, <2>2
<1>5. \A i \in 1 .. MaxRx : i > rx' => told'[i] = told[i] BY <1>1
<1>6. FatesOK' BY <1>1, <1>2, <1>3, <1>4, <1>5, FatesKept
<1>7. Reports' = Reports BY <1>1, <1>4, ReportsKept
<1>8. Hand' = Hand BY <1>1, <1>3, HandNow, HandNext
<1>9. Q!Forget BY <1>2, <1>7, <1>8, QueueKept
<1>10. QED BY <1>2, <1>6, <1>9 DEF FateInv, Q!Next

\* The lists are kept by a step that keeps the packets of every request that
\* waits and the sweeper's place in its own.
LEMMA ListsStay ==
  ASSUME Inv, requests' = requests, Waits' = Waits,
         \A a \in Waits : heap'[a].ip = heap[a].ip /\ heap'[a].packets = heap[a].packets,
         ErrorPhase' <=> ErrorPhase,
         ErrorPhase => cur' = cur /\ todo' = todo
  PROVE  Lists
<1>1. Queued \subseteq Waits BY DEF Waits
<1>2. \A a \in Waits : Waiting(a)' = Waiting(a) BY DEF Waiting
<1>3. QED BY <1>1, <1>2 DEF Lists

\* Main keeps the request it is flushing, if any.
LEMMA FlushStays ==
  ASSUME Inv, requests' = requests,
         pc'["main"] = "flush" <=> pc["main"] = "flush",
         pc["main"] = "flush" =>
           /\ ptr'["main"] = ptr["main"]
           /\ heap'[ptr["main"]].packets = heap[ptr["main"]].packets
  PROVE  Waits' = Waits /\ Released' = Released
BY DEF Waits, Released, Queued

-----------------------------------------------------------------------------
(* The calm steps of sr_send_routed_ip_packet.                             *)

\* Which of them change packets: none.
LEMMA RoutedHeap ==
  ASSUME Inv, NEW t \in Threads,
         \/ RoutedUnroutable(t) \/ RoutedHit(t) \/ RoutedMiss(t) \/ RoutedFirst(t)
         \/ RoutedNotFirst(t) \/ RoutedMark(t) \/ RoutedLoad(t) \/ RoutedStore(t)
  PROVE  \A a \in Addr : heap'[a].ip = heap[a].ip
                         /\ heap'[a].packets = heap[a].packets
<1>0. heap \in [Addr -> Request] BY SortedNow DEF Sorted
<1>1. CASE heap' = heap BY <1>1
<1>2. ASSUME RoutedMark(t) \/ RoutedStore(t), heap' # heap
      PROVE  \E r : /\ heap' = [heap EXCEPT ![ptr[t]] = r]
                    /\ r.ip = heap[ptr[t]].ip /\ r.packets = heap[ptr[t]].packets
  <2>0. ptr[t] \in Addr BY <1>2 DEF Inv, CallsOK, CallOK, RoutedMark, RoutedStore
  <2>1. CASE RoutedMark(t)
    <3> DEFINE r == [sr_send_arp_request(heap[ptr[t]]) EXCEPT !.age = 0]
    <3>1. heap' = [heap EXCEPT ![ptr[t]] = r] BY <1>0, <1>2, <2>0, <2>1 DEF RoutedMark
    <3>2. r.ip = heap[ptr[t]].ip /\ r.packets = heap[ptr[t]].packets
      BY <1>0, <2>0 DEF sr_send_arp_request, Request
    <3>3. QED BY <3>1, <3>2
  <2>2. CASE RoutedStore(t)
    <3> DEFINE r == [heap[ptr[t]] EXCEPT !.times_sent = val[t] + 1]
    <3>1. heap' = [heap EXCEPT ![ptr[t]] = r] BY <1>0, <1>2, <2>0, <2>2 DEF RoutedStore
    <3>2. r.ip = heap[ptr[t]].ip /\ r.packets = heap[ptr[t]].packets
      BY <1>0, <2>0 DEF Request
    <3>3. QED BY <3>1, <3>2
  <2>3. QED BY <1>2, <2>1, <2>2
<1>3. CASE RoutedMark(t) \/ RoutedStore(t) BY <1>0, <1>1, <1>2, <1>3
<1>4. QED
  BY <1>1, <1>3
  DEF RoutedUnroutable, RoutedHit, RoutedMiss, RoutedFirst, RoutedNotFirst,
      RoutedLoad, queueVars

\* The thread that moves, and the one that does not.
LEMMA RoutedCalm ==
  ASSUME Inv, Inv', FateInv, NEW t \in Threads,
         \/ RoutedUnroutable(t) \/ RoutedMiss(t) \/ RoutedFirst(t)
         \/ RoutedNotFirst(t) \/ RoutedMark(t) \/ RoutedLoad(t) \/ RoutedStore(t)
         \/ RoutedHit(t) /\ pkt[t].what # "data"
  PROVE  FateInv' /\ Q!Next
<1> USE DEF RoutedUnroutable, RoutedMiss, RoutedFirst, RoutedNotFirst, RoutedMark,
            RoutedLoad, RoutedStore, RoutedHit
<1>0. TypeOK /\ HandOK /\ ListsOK BY DEF Inv, FateInv
<1>1. /\ UNCHANGED <<entries, requests, cur, todo, rx, accepted, sent, told>>
      /\ pc[t] \in RoutedLabels
  BY DEF tableVars, queueVars, sweepVars, fateVars, RoutedLabels
<1>2. \A u \in Threads \ {t} : /\ pc'[u] = pc[u] /\ pkt'[u] = pkt[u]
                               /\ ptr'[u] = ptr[u]
  BY <1>0 DEF TypeOK, ThreadType, Return, Goto, callVars
<1>3. /\ pc'[t] \in {"idle", "errors", "queue", "mark", "load", "store"}
      /\ pc'[t] = "idle" => t = "main"
      /\ pc'[t] = "queue" => pc[t] = "lookup" /\ pkt'[t] = pkt[t]
      /\ pc'[t] # "queue" /\ pc[t] \in CallLabels
           => pkt[t].what # "data" \/ ~ HasRoute(pkt[t].dst)
  BY <1>0 DEF TypeOK, ThreadType, Return, Goto, callVars, CallLabels
<1>4. \A a \in Addr : heap'[a].ip = heap[a].ip /\ heap'[a].packets = heap[a].packets
  BY RoutedHeap
<1>5. ErrorPhase' <=> ErrorPhase
  BY <1>1, <1>2, <1>3, BothThreads DEF ErrorPhase, RoutedLabels
<1>6. /\ pc'["main"] = "flush" <=> pc["main"] = "flush"
      /\ pc["main"] = "flush" => ptr'["main"] = ptr["main"]
  BY <1>1, <1>2, <1>3, BothThreads DEF RoutedLabels
<1>7. /\ CarriesData' <=> CarriesData
      /\ CarriesData => pkt'["main"] = pkt["main"]
      /\ HandOK'
  <2>1. CASE t = "main"
    BY <1>0, <1>2, <1>3, <2>1, BothThreads DEF HandOK, CarriesData, CallLabels
  <2>2. CASE t = "sweeper"
    BY <1>0, <1>2, <1>3, <2>2, BothThreads DEF HandOK, CarriesData, CallLabels
  <2>3. QED BY <2>1, <2>2, BothThreads
<1>8. Sorted BY SortedNow
<1>9. Waits' = Waits /\ Released' = Released
  BY <1>1, <1>4, <1>6, <1>8, FlushStays DEF Sorted
<1>10. Lists BY <1>1, <1>4, <1>5, <1>8, <1>9, ListsStay DEF Sorted
<1>11. Answerable(todo') BY <1>0, <1>1 DEF ListsOK
<1>12. rx <= rx' BY <1>0, <1>1 DEF TypeOK, HistoryType
<1>13. QED BY <1>1, <1>7, <1>9, <1>10, <1>11, <1>12, Calm

-----------------------------------------------------------------------------
(* The calm steps outside it.                                              *)

\* sr_handle_ip hands on the datagram itself only when it has a route.
LEMMA HandleRoute ==
  ASSUME NEW f \in Frames, f.type = "ip", NEW id \in Nat,
         NEW p \in sr_handle_ip(f, id), p.what = "data"
  PROVE  HasRoute(p.dst)
<1>1. f \in IpFrame BY FramesAssumption DEF ArpFrame
<1>2. f.valid \in BOOLEAN /\ f.ttl \in Nat BY <1>1 DEF IpFrame
<1> DEFINE d == [id |-> id, what |-> "data", src |-> f.src, dst |-> f.dst,
                 shost |-> f.shost, dhost |-> f.dhost]
<1>3. \A kind \in Kinds : \A e \in sr_send_icmp_error(d, kind) : e.what # "data"
  BY DEF sr_send_icmp_error, Kinds
<1>4. p \in sr_forward_ip_packet(d)
  <2> HIDE DEF d
  <2>1. \A kind \in Kinds : p \notin sr_send_icmp_error(d, kind) BY <1>3
  <2>2. f.ttl <= 1 <=> ~ (f.ttl > 1) BY <1>2
  <2>3. QED BY <1>2, <2>1, <2>2 DEF sr_handle_ip, Kinds, d
<1>5. p = d /\ HasRoute(d.dst) BY <1>3, <1>4 DEF sr_forward_ip_packet, Kinds
<1>6. QED BY <1>5

\* A received datagram that is dropped, or answered with an error at once.
LEMMA RxIpCalm ==
  ASSUME Inv, Inv', FateInv, NEW f \in Frames, RxIp(f), accepted' = accepted
  PROVE  FateInv' /\ Q!Next
<1> DEFINE id == rx + 1
<1>0. TypeOK /\ HandOK /\ ListsOK /\ FatesOK /\ Sorted
  BY SortedNow DEF Inv, FateInv
<1>1. /\ UNCHANGED <<entries, requests, heap, ptr, cur, todo, sent>>
      /\ pc["main"] = "idle" /\ rx' = id /\ rx \in Nat /\ id \in 1 .. MaxRx
  BY <1>0, BoundsAssumption
  DEF RxIp, tableVars, queueVars, sweepVars, TypeOK, HistoryType
<1>2. /\ pc'["sweeper"] = pc["sweeper"] /\ pkt'["sweeper"] = pkt["sweeper"]
      /\ pc'["main"] \in {"idle", "lookup"}
  BY <1>0, <1>1, BothThreads DEF RxIp, Goto, TypeOK, ThreadType
<1>3. pc'["main"] = "lookup" => pkt'["main"].what # "data"
  <2>1. CASE sr_handle_ip(f, id) = {}
    BY <1>1, <2>1 DEF RxIp
  <2>2. CASE sr_handle_ip(f, id) # {}
    <3>1. PICK p : /\ pkt' = [pkt EXCEPT !["main"] = p]
                   /\ p.what = "data" => accepted' = accepted \cup {id}
      BY <2>2 DEF RxIp
    <3>2. id \notin accepted BY <1>0, <1>1 DEF FatesOK
    <3>3. QED BY <1>0, <3>1, <3>2, BothThreads DEF TypeOK, ThreadType
  <2>3. QED BY <2>1, <2>2
<1>4. \A i \in 1 .. MaxRx : i # id => told'[i] = told[i]
  BY <1>0, <1>1 DEF RxIp, TypeOK, HistoryType
<1>5. /\ ~ CarriesData' /\ ~ CarriesData /\ HandOK'
  BY <1>0, <1>1, <1>2, <1>3 DEF CarriesData, HandOK, CallLabels
<1>6. Waits' = Waits /\ Released' = Released
  BY <1>1, <1>2, FlushStays
<1>7. ErrorPhase' <=> ErrorPhase BY <1>2 DEF ErrorPhase
<1>8. Lists BY <1>1, <1>6, <1>7, ListsStay
<1>9. Answerable(todo') BY <1>0, <1>1 DEF ListsOK
<1>10. rx <= rx' /\ rx' # rx BY <1>1
<1>11. QED BY <1>1, <1>4, <1>5, <1>6, <1>8, <1>9, <1>10, Calm

\* Main frees the request whose packets it has sent.
LEMMA DestroyCalm ==
  ASSUME Inv, Inv', FateInv, Destroy
  PROVE  FateInv' /\ Q!Next
<1>0. TypeOK /\ HandOK /\ ListsOK /\ Sorted BY SortedNow DEF Inv, FateInv
<1>1. /\ UNCHANGED <<entries, requests, cur, todo, rx, accepted, sent, told>>
      /\ pc["main"] = "destroy" /\ heap' = [heap EXCEPT ![ptr["main"]] = Blank]
  BY DEF Destroy, tableVars, sweepVars, fateVars
<1>2. /\ pc'["sweeper"] = pc["sweeper"] /\ pkt'["sweeper"] = pkt["sweeper"]
      /\ pc'["main"] = "idle"
  BY <1>0, BothThreads DEF Destroy, Return, Goto, TypeOK, ThreadType
<1>3. ~ CarriesData' /\ ~ CarriesData /\ HandOK'
  BY <1>0, <1>1, <1>2 DEF CarriesData, HandOK, CallLabels
<1>4. Waits' = Waits /\ Released' = Released BY <1>1, <1>2, FlushStays
<1>5. \A a \in Waits : heap'[a] = heap[a]
  BY <1>0, <1>1 DEF Waits, Sorted
<1>6. ErrorPhase' <=> ErrorPhase BY <1>2 DEF ErrorPhase
<1>7. Lists BY <1>1, <1>4, <1>5, <1>6, ListsStay
<1>8. Answerable(todo') BY <1>0, <1>1 DEF ListsOK
<1>9. rx <= rx' BY <1>0, <1>1 DEF TypeOK, HistoryType
<1>10. QED BY <1>1, <1>3, <1>4, <1>7, <1>8, <1>9, Calm

\* The sweeper's steps except those of the error phase; a second that passes;
\* a step that changes nothing.
LEMMA SweepHeap ==
  ASSUME Inv,
         \/ SweepStart \/ SweepPass \/ SweepGiveUp \/ SweepResend \/ SweepLoad
         \/ SweepStore \/ Tick \/ UNCHANGED vars
  PROVE  \A a \in alloc : heap'[a].ip = heap[a].ip
                          /\ heap'[a].packets = heap[a].packets
<1>0. Sorted BY SortedNow
<1>1. CASE heap' = heap BY <1>1
<1>2. ASSUME SweepResend \/ SweepStore
      PROVE  \E r : /\ heap' = [heap EXCEPT ![cur] = r]
                    /\ r.ip = heap[cur].ip /\ r.packets = heap[cur].packets
  <2>0. cur \in Addr BY <1>0, <1>2 DEF Sorted, SweepResend, SweepStore
  <2>1. CASE SweepResend
    <3> DEFINE r == [sr_arpcache_send_arp_request(heap[cur]) EXCEPT !.age = lag]
    <3>1. heap' = [heap EXCEPT ![cur] = r]
      BY <1>0, <2>0, <2>1 DEF SweepResend, Sorted
    <3>2. r.ip = heap[cur].ip /\ r.packets = heap[cur].packets
      BY <1>0, <2>0 DEF sr_arpcache_send_arp_request, Request, Sorted
    <3>3. QED BY <3>1, <3>2
  <2>2. CASE SweepStore
    <3> DEFINE r == [heap[cur] EXCEPT !.times_sent = val["sweeper"] + 1]
    <3>1. heap' = [heap EXCEPT ![cur] = r]
      BY <1>0, <2>0, <2>2 DEF SweepStore, Sorted
    <3>2. r.ip = heap[cur].ip /\ r.packets = heap[cur].packets
      BY <1>0, <2>0 DEF Request, Sorted
    <3>3. QED BY <3>1, <3>2
  <2>3. QED BY <1>2, <2>1, <2>2
<1>3. CASE SweepResend \/ SweepStore BY <1>0, <1>2, <1>3 DEF Sorted
<1>4. CASE Tick
  <2> SUFFICES ASSUME NEW a \in alloc
               PROVE  heap'[a].ip = heap[a].ip /\ heap'[a].packets = heap[a].packets
    OBVIOUS
  <2>1. PICK n : heap'[a] = [heap[a] EXCEPT !.age = n]
    BY <1>0, <1>4 DEF Tick, Sorted
  <2>2. QED BY <1>0, <2>1 DEF Sorted, Request
<1>5. QED
  BY <1>1, <1>3, <1>4
  DEF SweepStart, SweepPass, SweepGiveUp, SweepLoad, vars, queueVars

LEMMA SweepCalm ==
  ASSUME Inv, Inv', FateInv,
         \/ SweepStart \/ SweepPass \/ SweepGiveUp \/ SweepResend \/ SweepLoad
         \/ SweepStore \/ Tick \/ UNCHANGED vars
  PROVE  FateInv' /\ Q!Next
<1>0. TypeOK /\ HandOK /\ ListsOK /\ Sorted BY SortedNow DEF Inv, FateInv
<1>1. /\ UNCHANGED <<requests, pkt, ptr, rx, accepted, sent, told>>
      /\ pc'["main"] = pc["main"]
  BY <1>0, BothThreads
  DEF SweepStart, SweepPass, SweepGiveUp, SweepResend, SweepLoad, SweepStore, Tick,
      vars, queueVars, callVars, sweepVars, fateVars, Advance, Goto, TypeOK, ThreadType
<1>2. \A a \in alloc : heap'[a].ip = heap[a].ip /\ heap'[a].packets = heap[a].packets
  BY SweepHeap
<1>3. \A h : Cached(entries', h) => Cached(entries, h)
  BY <1>0, TableKnows
  DEF SweepStart, SweepPass, SweepGiveUp, SweepResend, SweepLoad, SweepStore, Tick,
      vars, tableVars, TypeOK, QueueType
<1>4. /\ pc'["sweeper"] \in CallLabels => pc["sweeper"] \in CallLabels
      /\ pc'["sweeper"] = pc["sweeper"]
         \/ pc'["sweeper"] \in {"sleep", "visit", "errors", "resent", "count"}
  BY <1>0, BothThreads
  DEF SweepStart, SweepPass, SweepGiveUp, SweepResend, SweepLoad, SweepStore, Tick,
      vars, Advance, Goto, TypeOK, ThreadType, CallLabels
<1>5. /\ CarriesData' <=> CarriesData
      /\ HandOK'
  BY <1>0, <1>1, <1>4 DEF CarriesData, HandOK
<1>6. Waits' = Waits /\ Released' = Released
  BY <1>0, <1>1, <1>2, FlushStays DEF Sorted
<1>7. Lists /\ Answerable(todo')
  <2>1. CASE SweepGiveUp
    <3>1. /\ ~ ErrorPhase /\ cur' = cur /\ todo' = heap[cur].packets /\ heap' = heap
          /\ cur \in Queued
      BY <1>0, <2>1 DEF SweepGiveUp, ErrorPhase, queueVars, Sorted
    <3>2. \A a \in Waits : Waiting(a)' = Waiting(a) BY <3>1 DEF Waiting
    <3>3. Lists BY <1>0, <1>1, <1>2, <1>6, <3>2 DEF Lists, Sorted
    <3>4. QED BY <1>0, <3>1, <3>3 DEF ListsOK
  <2>2. CASE ~ SweepGiveUp
    <3>1. /\ todo' = todo
          /\ ErrorPhase' <=> ErrorPhase
      BY <1>0, <2>2, BothThreads
      DEF SweepStart, SweepPass, SweepResend, SweepLoad, SweepStore, Tick,
          vars, sweepVars, Advance, Goto, TypeOK, ThreadType, ErrorPhase
    <3>2. ErrorPhase => cur' = cur
      BY <2>2
      DEF SweepStart, SweepPass, SweepResend, SweepLoad, SweepStore, Tick,
          vars, sweepVars, ErrorPhase
    <3>3. Lists BY <1>0, <1>1, <1>2, <1>6, <3>1, <3>2, ListsStay DEF Sorted
    <3>4. QED BY <1>0, <3>1, <3>3 DEF ListsOK
  <2>3. QED BY <2>1, <2>2
<1>8. rx <= rx' BY <1>0, <1>1 DEF TypeOK, HistoryType
<1>9. QED BY <1>1, <1>3, <1>5, <1>6, <1>7, <1>8, Calm

-----------------------------------------------------------------------------
(* The steps that accept and transmit.                                     *)

\* What waits for a next hop, one datagram at a time.
LEMMA WaitingStands ==
  ASSUME NEW h, NEW i
  PROVE  i \in WaitingFor(h) <=> \E a \in RequestsFor(h) : \E k : Stands(i, a, k)
<1>1. RequestsFor(h) \subseteq Waits BY DEF RequestsFor, Waits
<1>2. QED BY <1>1 DEF WaitingFor, DataIds, Stands

\* sr_handle_ip forwards a datagram.
LEMMA RxIpAccepts ==
  ASSUME Inv, Inv', FateInv, NEW f \in Frames, RxIp(f), accepted' # accepted
  PROVE  FateInv' /\ Q!Next
<1>0. TypeOK /\ HandOK /\ ListsOK /\ FatesOK BY DEF Inv, FateInv
<1>a. rx \in 0 .. MaxRx /\ MaxRx \in Nat /\ rx < MaxRx
  BY <1>0, BoundsAssumption DEF RxIp, TypeOK, HistoryType
<1>b. PICK id \in 1 .. MaxRx : id = rx + 1 BY <1>a
<1>1. /\ UNCHANGED <<entries, requests, heap, ptr, cur, todo, sent>>
      /\ pc["main"] = "idle" /\ rx' = id /\ f.type = "ip" /\ id \in Nat
  BY <1>b DEF RxIp, tableVars, queueVars, sweepVars
<1>2. PICK p \in sr_handle_ip(f, id) :
        /\ Goto("main", "lookup") /\ pkt' = [pkt EXCEPT !["main"] = p]
        /\ p.what = "data" /\ accepted' = accepted \cup {id} /\ told' = told
  BY <1>b DEF RxIp
<1>3. p \in Packet /\ p.id = id /\ HasRoute(p.dst)
  BY <1>1, <1>2, HandleType, HandleRoute
<1>4. /\ pc'["sweeper"] = pc["sweeper"] /\ pkt'["sweeper"] = pkt["sweeper"]
      /\ pc'["main"] = "lookup" /\ pkt'["main"] = p
  BY <1>0, <1>2, BothThreads DEF Goto, TypeOK, ThreadType
<1>5. HandOK' BY <1>0, <1>2, <1>3, <1>4 DEF HandOK
<1>6. Waits' = Waits /\ Released' = Released
  BY <1>1, <1>4, FlushStays
<1>7. ErrorPhase' <=> ErrorPhase BY <1>4 DEF ErrorPhase
<1>8. Lists BY <1>1, <1>6, <1>7, ListsStay
<1>9. Answerable(todo') BY <1>0, <1>1 DEF ListsOK
<1>10. /\ \A i, a, k : Stands(i, a, k)' <=> Stands(i, a, k)
       /\ \A h : WaitingFor(h)' = WaitingFor(h)
       /\ ListsOK'
  BY <1>0, <1>8, <1>9, ListsKept
<1>11. (\A i : Carried(i)' <=> i = id) /\ (\A i : ~ Carried(i))
  BY <1>1, <1>2, <1>3, <1>4 DEF Carried, CallLabels
<1>12. /\ id \notin accepted /\ id > rx /\ sent[id] = 0 /\ told[id] = 0
       /\ accepted' \subseteq 1 .. rx'
       /\ \A i \in 1 .. MaxRx : i > rx' => i > rx
  BY <1>0, <1>1, <1>2, <1>a, <1>b DEF FatesOK
<1>13. FatesOK'
  <2>1. \A a, k : ~ Stands(id, a, k) BY <1>0, <1>12 DEF FatesOK
  <2>2. /\ accepted' \subseteq 1 .. rx'
        /\ \A i \in 1 .. MaxRx : i > rx' => told'[i] = 0
        /\ \A i \in 1 .. MaxRx : i \notin accepted' => sent'[i] = 0
    BY <1>0, <1>1, <1>2, <1>12 DEF FatesOK
  <2>3. \A i : Carried(i)' => /\ i \in accepted' /\ sent'[i] = 0 /\ told'[i] = 0
                              /\ \A a, k : ~ Stands(i, a, k)'
    BY <1>1, <1>2, <1>10, <1>11, <1>12, <2>1
  <2>4. \A i, a, k : Stands(i, a, k)' =>
          /\ i \in accepted' /\ sent'[i] = 0 /\ told'[i] = 0
          /\ \A b, l : Stands(i, b, l)' => a = b /\ k = l
    BY <1>0, <1>1, <1>2, <1>10 DEF FatesOK
  <2>5. \A i \in accepted' : \/ Carried(i)'
                             \/ \E a, k : Stands(i, a, k)'
                             \/ sent'[i] + told'[i] = 1
    BY <1>0, <1>1, <1>2, <1>10, <1>11 DEF FatesOK
  <2>6. QED BY <2>2, <2>3, <2>4, <2>5 DEF FatesOK
<1>14. Q!Next
  <2> DEFINE h == NextHop(p.dst)
  <2>1. h \in Hops BY <1>3 DEF Hops, Packet
  <2>2. Hand = {} /\ Hand' = {<<id, h>>}
    BY <1>0, <1>1, <1>2, <1>3, <1>4, <1>5, HandNow, HandNext
    DEF MainHand, CallLabels
  <2>3. Reports' = Reports /\ Reports[id] = 0
    BY <1>2, <1>12 DEF Reports
  <2>4. Released = {} BY <1>1 DEF Released
  <2>5. \A g : id \notin WaitingFor(g)
    BY <1>0, <1>12, WaitingStands DEF FatesOK
  <2>6. Q!Unused(id) BY <1>12, <2>2, <2>3, <2>4, <2>5 DEF Q!Unused
  <2>7. [g \in Hops |-> WaitingFor(g)]' = [g \in Hops |-> WaitingFor(g)] BY <1>10
  <2>8. Q!Accept(id, h)
    BY <1>1, <1>6, <2>2, <2>3, <2>6, <2>7 DEF Q!Accept
  <2>9. QED BY <2>1, <2>8 DEF Q!Next
<1>15. QED BY <1>5, <1>10, <1>13, <1>14 DEF FateInv

\* The lookup hits: main transmits the datagram.
LEMMA RoutedHitSends ==
  ASSUME Inv, Inv', FateInv, NEW t \in Threads, RoutedHit(t), pkt[t].what = "data"
  PROVE  FateInv' /\ Q!Next
<1>0. TypeOK /\ HandOK /\ ListsOK /\ FatesOK BY DEF Inv, FateInv
<1>1. /\ UNCHANGED <<entries, requests, heap, cur, todo, rx, accepted, told>>
      /\ pc[t] = "lookup" /\ Return(t) /\ HasRoute(pkt[t].dst)
      /\ Cached(entries, NextHop(pkt[t].dst))
      /\ sent' = [sent EXCEPT ![pkt[t].id] = @ + 1]
  BY DEF RoutedHit, tableVars, queueVars, sweepVars
<1>2. t = "main" BY <1>0, <1>1, BothThreads DEF HandOK, CallLabels
<1>3. PICK i : i = pkt["main"].id OBVIOUS
<1>4. /\ Carried(i) /\ i \in accepted /\ sent[i] = 0 /\ told[i] = 0
      /\ i \in 1 .. MaxRx /\ \A a, k : ~ Stands(i, a, k)
      /\ \A j : Carried(j) => j = i
  <2>1. /\ Carried(i) /\ \A j : Carried(j) => j = i
    BY <1>1, <1>2, <1>3 DEF Carried, CallLabels
  <2>2. QED BY <1>0, <2>1 DEF FatesOK, TypeOK, HistoryType
<1>5. /\ pc'["sweeper"] = pc["sweeper"] /\ pkt'["sweeper"] = pkt["sweeper"]
      /\ pc'["main"] = "idle"
  BY <1>0, <1>1, <1>2, BothThreads DEF Return, Goto, TypeOK, ThreadType
<1>6. HandOK' BY <1>0, <1>5 DEF HandOK, CallLabels
<1>7. Waits' = Waits /\ Released' = Released
  BY <1>1, <1>2, <1>5, FlushStays
<1>8. ErrorPhase' <=> ErrorPhase BY <1>5 DEF ErrorPhase
<1>9. Lists BY <1>1, <1>7, <1>8, ListsStay
<1>10. Answerable(todo') BY <1>0, <1>1 DEF ListsOK
<1>11. /\ \A j, a, k : Stands(j, a, k)' <=> Stands(j, a, k)
       /\ \A h : WaitingFor(h)' = WaitingFor(h)
       /\ ListsOK'
  BY <1>0, <1>9, <1>10, ListsKept
<1>12. \A j : ~ Carried(j)' BY <1>5 DEF Carried, CallLabels
<1>13. /\ sent'[i] = 1 /\ \A j \in 1 .. MaxRx : j # i => sent'[j] = sent[j]
       /\ sent' = [sent EXCEPT ![i] = @ + 1]
  BY <1>0, <1>1, <1>2, <1>3, <1>4 DEF TypeOK, HistoryType
<1>14. accepted \subseteq 1 .. MaxRx BY <1>0 DEF TypeOK, HistoryType
<1>15. FatesOK'
  <2>1. \A j, a, k : Stands(j, a, k) => j # i BY <1>4
  <2>2. \A j \in 1 .. MaxRx : j \notin accepted' => sent'[j] = 0
    BY <1>0, <1>1, <1>4, <1>13 DEF FatesOK
  <2>3. \A j, a, k : Stands(j, a, k)' =>
          /\ j \in accepted' /\ sent'[j] = 0 /\ told'[j] = 0
          /\ \A b, l : Stands(j, b, l)' => a = b /\ k = l
    BY <1>0, <1>1, <1>11, <1>13, <1>14, <2>1 DEF FatesOK
  <2>4. \A j \in accepted' : \/ Carried(j)'
                             \/ \E a, k : Stands(j, a, k)'
                             \/ sent'[j] + told'[j] = 1
    <3> TAKE j \in accepted'
    <3>1. CASE j = i BY <1>1, <1>4, <1>13, <3>1
    <3>2. CASE j # i
      BY <1>0, <1>1, <1>4, <1>11, <1>13, <1>14, <3>2 DEF FatesOK
    <3>3. QED BY <3>1, <3>2
  <2>5. QED BY <1>0, <1>1, <1>12, <2>2, <2>3, <2>4 DEF FatesOK
<1>16. Q!Next
  <2> DEFINE h == NextHop(pkt["main"].dst)
  <2>1. h \in Hops
    <3>1. pkt["main"] \in Packet BY <1>1, <1>2, BothThreads DEF Inv, CallsOK, CallOK
    <3>2. QED BY <1>1, <1>2, <3>1 DEF Hops, Packet
  <2>2. Hand = {<<i, h>>} /\ Hand' = {}
    BY <1>0, <1>1, <1>2, <1>3, <1>5, <1>6, HandNow, HandNext
    DEF MainHand, CallLabels
  <2>3. Reports' = Reports BY <1>1 DEF Reports
  <2>4. [g \in Hops |-> WaitingFor(g)]' = [g \in Hops |-> WaitingFor(g)] BY <1>11
  <2>5. h \in {g \in Hops : Cached(entries, g)} BY <1>1, <1>2, <2>1
  <2>6. Q!Forward(i, h)
    BY <1>1, <1>7, <1>13, <2>2, <2>3, <2>4, <2>5 DEF Q!Forward
  <2>7. QED BY <1>4, <2>1, <2>6 DEF Q!Next
<1>17. QED BY <1>6, <1>11, <1>15, <1>16 DEF FateInv

-----------------------------------------------------------------------------
(* A packet joins a list.                                                  *)

LEMMA WaitingStandsAll ==
  \A h, i : i \in WaitingFor(h) <=> \E a \in RequestsFor(h) : \E k : Stands(i, a, k)
BY WaitingStands

LEMMA WaitingStandsNext ==
  (\A h, i : i \in WaitingFor(h) <=> \E a \in RequestsFor(h) : \E k : Stands(i, a, k))'
BY WaitingStandsAll, PTL

\* A step that transmits and reports nothing but may shift the packets of a list
\* and may put the datagram in hand on the list at c.
LEMMA FatesMoved ==
  ASSUME FatesOK, UNCHANGED <<accepted, sent, told, rx>>, NEW c,
         \A i, b, k : Stands(i, b, k)' =>
           (\E m : Stands(i, b, m)) \/ (Carried(i) /\ b = c),
         \A i, b, k, l : Stands(i, b, k)' /\ Stands(i, b, l)' => k = l,
         \A i, b, k : Stands(i, b, k) => \E m : Stands(i, b, m)',
         \A i : Carried(i)' => Carried(i) /\ \A b, k : ~ Stands(i, b, k)',
         \A i : Carried(i) => Carried(i)' \/ \E b, k : Stands(i, b, k)'
  PROVE  FatesOK'
<1>1. /\ accepted' \subseteq 1 .. rx'
      /\ \A i \in 1 .. MaxRx : i > rx' => told'[i] = 0
      /\ \A i \in 1 .. MaxRx : i \notin accepted' => sent'[i] = 0
  BY DEF FatesOK
<1>2. \A i : Carried(i)' => /\ i \in accepted' /\ sent'[i] = 0 /\ told'[i] = 0
                            /\ \A a, k : ~ Stands(i, a, k)'
  BY DEF FatesOK
<1>3. ASSUME NEW i, NEW a, NEW k, Stands(i, a, k)'
      PROVE  i \in accepted' /\ sent'[i] = 0 /\ told'[i] = 0
  BY <1>3 DEF FatesOK
<1>4. ASSUME NEW i, NEW a, NEW k, NEW b, NEW l, Stands(i, a, k)', Stands(i, b, l)'
      PROVE  a = b /\ k = l
  <2>1. a = b BY <1>4 DEF FatesOK
  <2>2. QED BY <1>4, <2>1
<1>5. \A i \in accepted' : \/ Carried(i)'
                           \/ \E a, k : Stands(i, a, k)'
                           \/ sent'[i] + told'[i] = 1
  BY DEF FatesOK
<1>6. QED BY <1>1, <1>2, <1>3, <1>4, <1>5 DEF FatesOK

\* What sr_arpcache_queuereq does for thread t: the packet becomes the first of
\* the list of the request at a, which was queued before or is made now.
Pushes(t, a) ==
  /\ pc[t] = "queue" /\ CanLock(t) /\ Goto(t, "check")
  /\ pkt' = [pkt EXCEPT ![t] = NULL] /\ ptr' = [ptr EXCEPT ![t] = a]
  /\ UNCHANGED <<entries, cur, todo, rx, accepted, sent, told>>
  /\ \A b \in Addr \ {a} : heap'[b] = heap[b]
  /\ Queued' = Queued \cup {a}
  /\ heap'[a].ip = NextHop(pkt[t].dst)
  /\ \/ /\ a \in Queued /\ heap[a].ip = NextHop(pkt[t].dst)
        /\ heap'[a].packets = <<Outgoing(pkt[t])>> \o heap[a].packets
     \/ /\ a \notin alloc /\ RequestsFor(NextHop(pkt[t].dst)) = {}
        /\ heap'[a].packets = <<Outgoing(pkt[t])>> \o <<>>

LEMMA JoinPushes ==
  ASSUME Inv, NEW t \in Threads, RoutedJoin(t)
  PROVE  \E a \in Addr : Pushes(t, a)
<1>1. PICK a \in RequestsFor(NextHop(pkt[t].dst)) :
        /\ heap' = [heap EXCEPT ![a].packets = <<Outgoing(pkt[t])>> \o @]
        /\ ptr' = [ptr EXCEPT ![t] = a]
  BY DEF RoutedJoin
<1>2. /\ Sorted /\ a \in Queued /\ heap[a].ip = NextHop(pkt[t].dst)
  BY <1>1, SortedNow DEF RequestsFor
<1>3. a \in Addr /\ heap \in [Addr -> Request] BY <1>2 DEF Sorted
<1> DEFINE list == <<Outgoing(pkt[t])>> \o heap[a].packets
           r == [heap[a] EXCEPT !.packets = list]
<1>4. heap' = [heap EXCEPT ![a] = r] BY <1>1, <1>3
<1>5. r.ip = heap[a].ip /\ r.packets = list
  <2> HIDE DEF list
  <2>1. QED BY <1>3 DEF Request
<1>6. Queued' = Queued \cup {a} BY <1>2 DEF RoutedJoin, Queued
<1>7. /\ heap'[a].ip = NextHop(pkt[t].dst) /\ heap'[a].packets = list
      /\ \A b \in Addr \ {a} : heap'[b] = heap[b]
  <2> HIDE DEF r
  <2>1. QED BY <1>2, <1>3, <1>4, <1>5
<1>8. /\ pc[t] = "queue" /\ CanLock(t) /\ Goto(t, "check")
      /\ pkt' = [pkt EXCEPT ![t] = NULL]
      /\ UNCHANGED <<entries, cur, todo, rx, accepted, sent, told>>
  BY DEF RoutedJoin, tableVars, sweepVars, fateVars
<1>9. QED BY <1>1, <1>2, <1>3, <1>6, <1>7, <1>8 DEF Pushes

LEMMA NewPushes ==
  ASSUME Inv, NEW t \in Threads, RoutedNew(t)
  PROVE  \E a \in Addr : Pushes(t, a)
<1> DEFINE list == <<Outgoing(pkt[t])>>
           r == [Blank EXCEPT !.ip = NextHop(pkt[t].dst), !.packets = list]
<1>1. PICK a \in Addr \ alloc : NewRequest(t, a, <<a>> \o requests) BY DEF RoutedNew
<1>2. heap \in [Addr -> Request] /\ requests \in Seq(Addr)
  BY DEF Inv, TypeOK, QueueType
<1>3. r.ip = NextHop(pkt[t].dst) /\ r.packets = list
  <2> HIDE DEF list
  <2>1. QED BY DEF Blank
<1>4. heap' = [heap EXCEPT ![a] = r] BY <1>1 DEF NewRequest
<1>5. /\ heap'[a].ip = NextHop(pkt[t].dst) /\ heap'[a].packets = list
      /\ \A b \in Addr \ {a} : heap'[b] = heap[b]
  <2> HIDE DEF r
  <2>1. QED BY <1>2, <1>3, <1>4
<1>6. Queued' = Queued \cup {a} BY <1>1, <1>2, PushFront DEF NewRequest, Queued
<1>7. list = <<Outgoing(pkt[t])>> \o <<>> OBVIOUS
<1>8. /\ pc[t] = "queue" /\ CanLock(t) /\ RequestsFor(NextHop(pkt[t].dst)) = {}
  BY DEF RoutedNew
<1>9. /\ pkt' = [pkt EXCEPT ![t] = NULL] /\ ptr' = [ptr EXCEPT ![t] = a]
      /\ Goto(t, "check")
      /\ UNCHANGED <<entries, cur, todo, rx, accepted, sent, told>>
  BY <1>1 DEF NewRequest, tableVars, sweepVars, fateVars
<1> HIDE DEF list
<1>10. QED BY <1>1, <1>5, <1>6, <1>7, <1>8, <1>9 DEF Pushes

\* What is pushed keeps the id and the kind of the packet in hand, and carries
\* the hardware address of the outgoing interface.
LEMMA OutgoingFacts ==
  ASSUME NEW p \in Packet, HasRoute(p.dst)
  PROVE  /\ Outgoing(p) \in QueuedPacket
         /\ Outgoing(p).buf.id = p.id /\ Outgoing(p).buf.what = p.what
         /\ IfacesOf(Outgoing(p).buf.shost) # {}
         /\ NextHop(p.dst) \in Hops
<1>1. p.dst \in Ip BY DEF Packet
<1>2. OutIface(p.dst) \in Iface BY <1>1, RouteTypes
<1>3. /\ Outgoing(p).buf.id = p.id /\ Outgoing(p).buf.what = p.what
      /\ Outgoing(p).buf.shost = IfMac[OutIface(p.dst)]
  BY DEF Outgoing, Packet
<1>4. IfacesOf(IfMac[OutIface(p.dst)]) # {} BY <1>2 DEF IfacesOf, HavingMac
<1>5. NextHop(p.dst) \in Hops BY <1>1 DEF Hops
<1>6. QED BY <1>3, <1>4, <1>5, OutgoingType

\* The thread that pushes.
LEMMA PushThread ==
  ASSUME Inv, FateInv, NEW t \in Threads, NEW a \in Addr, Pushes(t, a)
  PROVE  /\ pkt[t] \in Packet /\ HasRoute(pkt[t].dst)
         /\ ~ Cached(entries, NextHop(pkt[t].dst))
         /\ ErrorPhase' <=> ErrorPhase
         /\ ErrorPhase /\ a = cur => a \in Queued
         /\ Waits' = Waits \cup {a} /\ Released' = Released
         /\ a \in Waits <=> a \in Queued
         /\ HandOK'
         /\ t = "sweeper" => /\ pc'["main"] = pc["main"] /\ pkt'["main"] = pkt["main"]
                             /\ pkt[t].what # "data"
         /\ t = "main" => pc'["main"] = "check" /\ ~ ErrorPhase
<1>0. Sorted /\ TypeOK /\ HandOK BY SortedNow DEF Inv, FateInv
<1>1. /\ pkt[t] \in Packet /\ HasRoute(pkt[t].dst)
      /\ ~ Cached(entries, NextHop(pkt[t].dst))
  BY DEF Pushes, Inv, CallsOK, CallOK
<1>2. /\ pc'[t] = "check" /\ pc[t] = "queue"
      /\ \A u \in Threads \ {t} : /\ pc'[u] = pc[u] /\ pkt'[u] = pkt[u]
                                  /\ ptr'[u] = ptr[u]
  BY <1>0 DEF Pushes, Goto, TypeOK, ThreadType
<1>3. ErrorPhase' <=> ErrorPhase BY <1>2, BothThreads DEF ErrorPhase
<1>4. ErrorPhase /\ a = cur => a \in Queued BY <1>0 DEF Sorted, ErrorPhase
<1>5. a \in Queued \/ a \notin alloc BY DEF Pushes
<1>6. /\ pc'["main"] = "flush" <=> pc["main"] = "flush"
      /\ pc["main"] = "flush" => ptr'["main"] = ptr["main"] /\ t = "sweeper"
  BY <1>2, BothThreads
<1>7. pc["main"] = "flush" => ptr["main"] # a /\ heap'[ptr["main"]] = heap[ptr["main"]]
  BY <1>0, <1>5 DEF Sorted, Pushes
<1>8. Waits' = Waits \cup {a} BY <1>6 DEF Waits, Pushes
<1>9. Released' = Released BY <1>6, <1>7 DEF Released
<1>10. a \in Waits <=> a \in Queued BY <1>7 DEF Waits
<1>11. HandOK'
  <2>1. CASE t = "main" BY <1>0, <1>2, <2>1, BothThreads DEF HandOK, CallLabels
  <2>2. CASE t = "sweeper" BY <1>0, <1>2, <2>2, BothThreads DEF HandOK, CallLabels
  <2>3. QED BY <2>1, <2>2, BothThreads
<1>12. t = "sweeper" => /\ pc'["main"] = pc["main"] /\ pkt'["main"] = pkt["main"]
                        /\ pkt[t].what # "data"
  BY <1>0, <1>2, BothThreads DEF HandOK, CallLabels
<1>13. t = "main" => pc'["main"] = "check" /\ ~ ErrorPhase
  BY <1>2, BothThreads DEF Pushes, CanLock, ErrorPhase
<1>14. QED
  BY <1>1, <1>3, <1>4, <1>8, <1>9, <1>10, <1>11, <1>12, <1>13

\* Where the datagrams of the lists stand afterwards: the list at a has shifted
\* by one place, unless the sweeper is answering it.
LEMMA PushStands ==
  ASSUME Inv, Inv', FateInv, NEW t \in Threads, NEW a \in Addr, Pushes(t, a)
  PROVE  /\ \A i, b, k : b # a \/ (ErrorPhase /\ a = cur)
              => (Stands(i, b, k)' <=> Stands(i, b, k))
         /\ ~ (ErrorPhase /\ a = cur) =>
              /\ \A i, k : Stands(i, a, k)' =>
                   \/ k = 1 /\ pkt[t].what = "data" /\ pkt[t].id = i
                   \/ k \in Nat /\ Stands(i, a, k - 1)
              /\ \A i, k : Stands(i, a, k) => Stands(i, a, k + 1)' /\ k \in Nat
              /\ \A i : pkt[t].what = "data" /\ pkt[t].id = i => Stands(i, a, 1)'
         /\ ListsOK'
<1>0. /\ pkt[t] \in Packet /\ HasRoute(pkt[t].dst)
      /\ ErrorPhase' <=> ErrorPhase
      /\ ErrorPhase /\ a = cur => a \in Queued
      /\ Waits' = Waits \cup {a}
      /\ a \in Waits <=> a \in Queued
      /\ cur' = cur /\ todo' = todo
  BY PushThread DEF Pushes
<1>1. Sorted /\ ListsOK /\ Waits \subseteq Addr
  BY SortedNow DEF FateInv, Sorted
<1> DEFINE q == Outgoing(pkt[t])
<1>2. /\ q \in QueuedPacket /\ q.buf.id = pkt[t].id /\ q.buf.what = pkt[t].what
      /\ IfacesOf(q.buf.shost) # {} /\ NextHop(pkt[t].dst) \in Hops
  BY <1>0, OutgoingFacts
<1> HIDE DEF q
<1>3. PICK w \in Seq(QueuedPacket) :
        /\ heap'[a].packets = <<q>> \o w
        /\ a \in Queued => w = heap[a].packets
        /\ a \notin Queued => w = <<>>
        /\ Answerable(w)
  <2>1. CASE a \in Queued
    <3>1. heap'[a].packets = <<q>> \o heap[a].packets
      BY <1>1, <2>1 DEF Pushes, q, Sorted
    <3>2. heap[a].packets \in Seq(QueuedPacket) /\ Answerable(heap[a].packets)
      BY <1>1, <2>1 DEF Sorted, ListsOK
    <3>3. QED BY <2>1, <3>1, <3>2
  <2>2. CASE a \notin Queued
    <3>1. heap'[a].packets = <<q>> \o <<>> BY <2>2 DEF Pushes, q
    <3>2. <<>> \in Seq(QueuedPacket) /\ Answerable(<<>>) BY DEF Answerable
    <3>3. QED BY <2>2, <3>1, <3>2
  <2>3. QED BY <2>1, <2>2
<1> DEFINE p == <<q>> \o w
<1>4. /\ DOMAIN p = 1 .. Len(w) + 1 /\ DOMAIN w = 1 .. Len(w) /\ Len(w) \in Nat
      /\ p[1] = q /\ \A k \in 1 .. Len(w) : p[k + 1] = w[k]
      /\ Answerable(p)
  BY <1>2, <1>3, PushIds
<1> HIDE DEF p
<1>5. \A b \in Waits \ {a} : Waiting(b)' = Waiting(b)
  BY <1>0, <1>1 DEF Waiting, Pushes
<1>6. \A i, b, k : b # a => (Stands(i, b, k)' <=> Stands(i, b, k))
  BY <1>0, <1>5 DEF Stands
<1>7. ASSUME ErrorPhase, a = cur
      PROVE  \A i, k : Stands(i, a, k)' <=> Stands(i, a, k)
  <2>1. Waiting(a)' = Waiting(a) BY <1>0, <1>7 DEF Waiting
  <2>2. QED BY <1>0, <1>7, <2>1 DEF Stands
<1>8. ASSUME ~ (ErrorPhase /\ a = cur)
      PROVE  /\ \A i, k : Stands(i, a, k)' =>
                   \/ k = 1 /\ pkt[t].what = "data" /\ pkt[t].id = i
                   \/ k \in Nat /\ Stands(i, a, k - 1)
             /\ \A i, k : Stands(i, a, k) => Stands(i, a, k + 1)' /\ k \in Nat
             /\ \A i : pkt[t].what = "data" /\ pkt[t].id = i => Stands(i, a, 1)'
  <2>1. Waiting(a)' = p BY <1>0, <1>3, <1>8 DEF Waiting, p
  <2>2. a \in Queued => Waiting(a) = w BY <1>3, <1>8 DEF Waiting
  <2>3. \A i, k : Stands(i, a, k)' <=>
          k \in DOMAIN p /\ p[k].buf.id = i /\ p[k].buf.what = "data"
    BY <1>0, <2>1 DEF Stands
  <2>4. \A i, k : Stands(i, a, k) <=>
          k \in DOMAIN w /\ w[k].buf.id = i /\ w[k].buf.what = "data"
    <3>1. CASE a \in Queued BY <1>0, <2>2, <3>1 DEF Stands
    <3>2. CASE a \notin Queued
      <4>1. DOMAIN w = {} BY <1>3, <3>2
      <4>2. QED BY <1>0, <3>2, <4>1 DEF Stands
    <3>3. QED BY <3>1, <3>2
  <2>5. ASSUME NEW i, NEW k, Stands(i, a, k)', k # 1
        PROVE  k \in Nat /\ Stands(i, a, k - 1)
    <3>1. k \in 2 .. Len(w) + 1 BY <1>4, <2>3, <2>5
    <3>2. k \in Nat /\ k - 1 \in 1 .. Len(w) /\ (k - 1) + 1 = k BY <1>4, <3>1
    <3>3. p[k] = w[k - 1] BY <1>4, <3>2
    <3>4. QED BY <1>4, <2>3, <2>4, <2>5, <3>2, <3>3
  <2>6. ASSUME NEW i, Stands(i, a, 1)' PROVE pkt[t].what = "data" /\ pkt[t].id = i
    BY <1>2, <1>4, <2>3, <2>6
  <2>7. ASSUME NEW i, NEW k, Stands(i, a, k) PROVE Stands(i, a, k + 1)' /\ k \in Nat
    <3>1. k \in 1 .. Len(w) /\ k \in Nat /\ k + 1 \in 1 .. Len(w) + 1
      BY <1>4, <2>4, <2>7
    <3>2. QED BY <1>4, <2>3, <2>4, <2>7, <3>1
  <2>8. \A i : pkt[t].what = "data" /\ pkt[t].id = i => Stands(i, a, 1)'
    <3>1. 1 \in DOMAIN p BY <1>4
    <3>2. QED BY <1>2, <1>4, <2>3, <3>1
  <2>9. QED BY <2>5, <2>6, <2>7, <2>8
<1>9. ListsOK'
  <2>1. \A b \in Queued' \ {a} : heap'[b] = heap[b] /\ b \in Queued
    BY <1>1 DEF Pushes, Sorted
  <2>2. heap'[a].ip \in Hops /\ Answerable(heap'[a].packets)
    BY <1>2, <1>3, <1>4 DEF Pushes, p
  <2>3. \A b \in Queued' : heap'[b].ip \in Hops /\ Answerable(heap'[b].packets)
    BY <1>1, <2>1, <2>2 DEF ListsOK
  <2>4. QED BY <1>0, <1>1, <2>3 DEF ListsOK
<1>10. QED BY <1>6, <1>7, <1>8, <1>9

\* Main puts the datagram it carries on the list of its next hop.
LEMMA PushData ==
  ASSUME Inv, Inv', FateInv, NEW t \in Threads, NEW a \in Addr, Pushes(t, a),
         pkt[t].what = "data"
  PROVE  FateInv' /\ Q!Next
<1>0. TypeOK /\ HandOK /\ FatesOK /\ Sorted BY SortedNow DEF Inv, FateInv
<1>1. /\ pkt[t] \in Packet /\ HasRoute(pkt[t].dst)
      /\ ~ Cached(entries, NextHop(pkt[t].dst))
      /\ Released' = Released /\ HandOK'
      /\ t = "main" /\ pc'["main"] = "check" /\ ~ ErrorPhase
      /\ UNCHANGED <<entries, rx, accepted, sent, told>> /\ pc["main"] = "queue"
  BY PushThread, BothThreads DEF Pushes
<1>2. /\ \A i, b, k : b # a => (Stands(i, b, k)' <=> Stands(i, b, k))
      /\ \A i, k : Stands(i, a, k)' =>
                   \/ k = 1 /\ pkt[t].id = i
                   \/ k \in Nat /\ Stands(i, a, k - 1)
      /\ \A i, k : Stands(i, a, k) => Stands(i, a, k + 1)' /\ k \in Nat
      /\ \A i : pkt[t].id = i => Stands(i, a, 1)'
      /\ ListsOK'
  BY <1>1, PushStands
<1>3. PICK j, h : j = pkt["main"].id /\ h = NextHop(pkt["main"].dst) OBVIOUS
<1>4. (\A i : Carried(i) <=> i = j) /\ (\A i : ~ Carried(i)')
  BY <1>1, <1>3 DEF Carried, CallLabels
<1>5. \A b, k : ~ Stands(j, b, k) BY <1>0, <1>4 DEF FatesOK
<1>6. FatesOK'
  <2>1. \A i, b, k : Stands(i, b, k)' =>
          (\E m : Stands(i, b, m)) \/ (Carried(i) /\ b = a)
    BY <1>1, <1>2, <1>3, <1>4
  <2>2. ASSUME NEW i, NEW b, NEW k, NEW l, Stands(i, b, k)', Stands(i, b, l)'
        PROVE  k = l
    <3>1. CASE b # a BY <1>0, <1>2, <2>2, <3>1 DEF FatesOK
    <3>2. CASE b = a /\ i = j BY <1>1, <1>2, <1>3, <1>5, <2>2, <3>2
    <3>3. CASE b = a /\ i # j
      <4>1. /\ k \in Nat /\ l \in Nat
            /\ Stands(i, a, k - 1) /\ Stands(i, a, l - 1)
        BY <1>1, <1>2, <1>3, <2>2, <3>3
      <4>2. k - 1 = l - 1 BY <1>0, <4>1 DEF FatesOK
      <4>3. QED BY <4>1, <4>2
    <3>4. QED BY <3>1, <3>2, <3>3
  <2>3. \A i, b, k : Stands(i, b, k) => \E m : Stands(i, b, m)' BY <1>2
  <2>4. \A i : Carried(i) => \E b, k : Stands(i, b, k)' BY <1>1, <1>2, <1>3, <1>4
  <2>5. QED BY <1>0, <1>1, <1>4, <2>1, <2>2, <2>3, <2>4, FatesMoved
<1>7. h \in Hops BY <1>1, <1>3, OutgoingFacts
<1>8. /\ RequestsFor(h)' = RequestsFor(h) \cup {a}
      /\ \A g : g # h => RequestsFor(g)' = RequestsFor(g)
  <2>1. /\ \A b \in Addr \ {a} : heap'[b] = heap[b]
        /\ Queued' = Queued \cup {a} /\ Queued \subseteq Addr
        /\ heap'[a].ip = h
        /\ a \in Queued => heap[a].ip = h
    BY <1>0, <1>1, <1>3 DEF Pushes, Sorted
  <2>2. QED BY <2>1 DEF RequestsFor
<1>9. /\ WaitingFor(h)' = WaitingFor(h) \cup {j}
      /\ \A g : g # h => WaitingFor(g)' = WaitingFor(g)
  <2>0. \A b, k : Stands(j, b, k)' => b = a BY <1>2, <1>5
  <2>1. ASSUME NEW i PROVE i \in WaitingFor(h)' <=> i \in WaitingFor(h) \cup {j}
    <3>1. CASE i = j
      <4>1. Stands(j, a, 1)' /\ a \in RequestsFor(h)' BY <1>1, <1>2, <1>3, <1>8
      <4>2. QED BY <3>1, <4>1, WaitingStandsNext
    <3>2. CASE i # j
      <4>1. ASSUME i \in WaitingFor(h) PROVE i \in WaitingFor(h)'
        <5>1. PICK b \in RequestsFor(h) : \E k : Stands(i, b, k)
          BY <4>1, WaitingStandsAll
        <5>2. \E m : Stands(i, b, m)' BY <1>2, <5>1
        <5>3. QED BY <1>8, <5>1, <5>2, WaitingStandsNext
      <4>2. ASSUME i \in WaitingFor(h)' PROVE i \in WaitingFor(h)
        <5>1. PICK b \in RequestsFor(h)' : \E k : Stands(i, b, k)'
          BY <4>2, WaitingStandsNext
        <5>2. \E m : Stands(i, b, m) BY <1>1, <1>2, <1>3, <3>2, <5>1
        <5>3. b \in RequestsFor(h)
          <6>1. b \in Queued \/ b \notin alloc
            BY <1>0, <1>8, <5>1 DEF RequestsFor, Pushes
          <6>2. b \in Waits BY <5>2 DEF Stands
          <6>3. b \in Queued BY <1>0, <6>1, <6>2 DEF Sorted
          <6>4. b = a => heap[b].ip = h
            BY <1>0, <1>1, <1>3, <6>3 DEF Pushes, Sorted
          <6>5. QED BY <1>8, <5>1, <6>3, <6>4 DEF RequestsFor
        <5>4. QED BY <5>2, <5>3, WaitingStandsAll
      <4>3. QED BY <3>2, <4>1, <4>2
    <3>3. QED BY <3>1, <3>2
  <2>2. ASSUME NEW g, g # h PROVE WaitingFor(g)' = WaitingFor(g)
    <3>1. a \notin RequestsFor(g)' BY <1>1, <1>3, <2>2 DEF RequestsFor, Pushes
    <3>2. \A i : i \in WaitingFor(g)' <=> i \in WaitingFor(g)
      BY <1>2, <1>8, <2>2, <3>1, WaitingStandsAll, WaitingStandsNext
    <3>3. QED BY <3>2
  <2>3. QED BY <2>1, <2>2
<1>10. Hand = {<<j, h>>} /\ Hand' = {}
  BY <1>0, <1>1, <1>3, HandNow, HandNext DEF MainHand, CallLabels
<1>11. Reports' = Reports BY <1>1 DEF Reports
<1>12. [g \in Hops |-> WaitingFor(g)]' =
         [[g \in Hops |-> WaitingFor(g)] EXCEPT ![h] = @ \cup {j}]
  BY <1>7, <1>9
<1>13. h \notin {g \in Hops : Cached(entries, g)} BY <1>1, <1>3
<1>14. Q!Wait(j, h) BY <1>1, <1>10, <1>11, <1>12, <1>13 DEF Q!Wait
<1>15. j \in 1 .. MaxRx BY <1>0, <1>4 DEF FatesOK, TypeOK, HistoryType
<1>16. QED BY <1>1, <1>2, <1>6, <1>7, <1>14, <1>15 DEF FateInv, Q!Next

\* An ICMP error is put on a list: no datagram moves.
LEMMA PushError ==
  ASSUME Inv, Inv', FateInv, NEW t \in Threads, NEW a \in Addr, Pushes(t, a),
         pkt[t].what # "data"
  PROVE  FateInv' /\ Q!Next
<1>0. TypeOK /\ HandOK /\ FatesOK /\ Sorted BY SortedNow DEF Inv, FateInv
<1>1. /\ Released' = Released /\ HandOK'
      /\ t = "sweeper" => pc'["main"] = pc["main"] /\ pkt'["main"] = pkt["main"]
      /\ t = "main" => pc'["main"] = "check" /\ pc["main"] = "queue"
      /\ UNCHANGED <<entries, rx, accepted, sent, told>>
  BY PushThread DEF Pushes
<1>2. /\ \A i, b, k : b # a \/ (ErrorPhase /\ a = cur)
              => (Stands(i, b, k)' <=> Stands(i, b, k))
      /\ ~ (ErrorPhase /\ a = cur) =>
           /\ \A i, k : Stands(i, a, k)' => k \in Nat /\ Stands(i, a, k - 1)
           /\ \A i, k : Stands(i, a, k) => Stands(i, a, k + 1)' /\ k \in Nat
      /\ ListsOK'
  BY PushStands
<1>3. /\ CarriesData' <=> CarriesData
      /\ CarriesData => pkt'["main"] = pkt["main"]
  <2>1. CASE t = "main" BY <1>1, <2>1 DEF CarriesData, CallLabels
  <2>2. CASE t = "sweeper" BY <1>1, <2>2 DEF CarriesData
  <2>3. QED BY <2>1, <2>2, BothThreads
<1>4. MainHand' = MainHand /\ \A i : Carried(i)' <=> Carried(i) BY <1>3, MainKept
<1>5. /\ \A i, b, k : Stands(i, b, k)' => \E m : Stands(i, b, m)
      /\ \A i, b, k : Stands(i, b, k) => \E m : Stands(i, b, m)'
  BY <1>2
<1>6. FatesOK'
  <2>1. ASSUME NEW i, NEW b, NEW k, NEW l, Stands(i, b, k)', Stands(i, b, l)'
        PROVE  k = l
    <3>1. CASE b # a \/ (ErrorPhase /\ a = cur)
      BY <1>0, <1>2, <2>1, <3>1 DEF FatesOK
    <3>2. CASE b = a /\ ~ (ErrorPhase /\ a = cur)
      <4>1. /\ k \in Nat /\ l \in Nat
            /\ Stands(i, a, k - 1) /\ Stands(i, a, l - 1)
        BY <1>2, <2>1, <3>2
      <4>2. k - 1 = l - 1 BY <1>0, <4>1 DEF FatesOK
      <4>3. QED BY <4>1, <4>2
    <3>3. QED BY <3>1, <3>2
  <2>2. \A i : Carried(i) => \A b, k : ~ Stands(i, b, k) BY <1>0 DEF FatesOK
  <2>3. QED BY <1>0, <1>1, <1>4, <1>5, <2>1, <2>2, FatesMoved
<1>7. ASSUME NEW g PROVE WaitingFor(g)' = WaitingFor(g)
  <2>1. ASSUME NEW b, NEW i, NEW k, Stands(i, b, k)
        PROVE  b \in RequestsFor(g)' <=> b \in RequestsFor(g)
    <3>0. b \in Waits /\ b \in alloc /\ b \in Addr
      BY <1>0, <2>1 DEF Stands, Sorted
    <3>1. CASE b = a
      <4>1. /\ a \in Queued /\ heap[a].ip = NextHop(pkt[t].dst)
            /\ heap'[a].ip = NextHop(pkt[t].dst) /\ Queued' = Queued \cup {a}
        BY <3>0, <3>1 DEF Pushes
      <4>2. QED BY <3>1, <4>1 DEF RequestsFor
    <3>2. CASE b # a
      <4>1. heap'[b] = heap[b] /\ Queued' = Queued \cup {a}
        BY <3>0, <3>2 DEF Pushes
      <4>2. QED BY <3>2, <4>1 DEF RequestsFor
    <3>3. QED BY <3>1, <3>2
  <2>2. \A i : i \in WaitingFor(g)' <=> i \in WaitingFor(g)
    BY <1>5, <2>1, WaitingStandsAll, WaitingStandsNext
  <2>3. QED BY <2>2
<1>8. Hand' = Hand BY <1>0, <1>1, <1>4, HandNow, HandNext
<1>9. Reports' = Reports BY <1>1 DEF Reports
<1>10. Q!Forget BY <1>1, <1>7, <1>8, <1>9, QueueKept
<1>11. QED BY <1>1, <1>2, <1>6, <1>10 DEF FateInv, Q!Next

LEMMA RoutedQueue ==
  ASSUME Inv, Inv', FateInv, NEW t \in Threads, RoutedJoin(t) \/ RoutedNew(t)
  PROVE  FateInv' /\ Q!Next
<1>1. PICK a \in Addr : Pushes(t, a) BY JoinPushes, NewPushes
<1>2. QED BY <1>1, PushData, PushError

-----------------------------------------------------------------------------
(* The error phase of the sweeper.                                         *)

\* What the sweeper does to the list it answers, one packet at a time.
LEMMA ErrorFacts ==
  ASSUME Inv, FateInv, SweepError
  PROVE  /\ UNCHANGED <<entries, requests, heap, ptr, cur, rx, accepted, sent>>
         /\ pc'["main"] = pc["main"] /\ pkt'["main"] = pkt["main"]
         /\ ErrorPhase /\ ErrorPhase' /\ cur \in Queued
         /\ HandOK' /\ ListsOK'
         /\ todo' = Tail(todo) /\ todo # <<>>
         /\ Head(todo).buf.what = "data" =>
              told' = [told EXCEPT ![Head(todo).buf.id] = @ + 1]
         /\ Head(todo).buf.what # "data" => told' = told
<1>0. TypeOK /\ HandOK /\ ListsOK /\ Sorted BY SortedNow DEF Inv, FateInv
<1>1. /\ UNCHANGED <<entries, requests, heap, ptr, cur, rx, accepted, sent>>
      /\ pc["sweeper"] = "errors" /\ todo' = Tail(todo) /\ todo # <<>>
  BY DEF SweepError, tableVars, queueVars
<1> DEFINE p == Head(todo).buf
<1>2. /\ Answerable(Tail(todo)) /\ IfacesOf(p.shost) # {}
  BY <1>0, <1>1, PopIds DEF ListsOK, Sorted
<1>3. sr_find_icmp_source_iface(p.shost, p.dhost, p.src) # {}
  <2> HIDE DEF p
  <2>1. QED BY <1>2 DEF sr_find_icmp_source_iface, IcmpSourceIn, IfacesOf
<1>4. sr_send_icmp_error(p, "host") # {}
  <2> HIDE DEF p
  <2>1. QED BY <1>3 DEF sr_send_icmp_error
<1>5. PICK e \in sr_send_icmp_error(p, "host") :
        /\ Goto("sweeper", "lookup") /\ pkt' = [pkt EXCEPT !["sweeper"] = e]
        /\ told' = IF p.what = "data" THEN [told EXCEPT ![p.id] = @ + 1] ELSE told
  BY <1>4 DEF SweepError
<1>6. e.what = "host"
  <2> HIDE DEF p
  <2>1. QED BY DEF sr_send_icmp_error
<1>7. /\ pc'["main"] = pc["main"] /\ pkt'["main"] = pkt["main"]
      /\ pc'["sweeper"] = "lookup" /\ pkt'["sweeper"] = e
  BY <1>0, <1>5, BothThreads DEF Goto, TypeOK, ThreadType
<1>8. HandOK' BY <1>0, <1>6, <1>7 DEF HandOK
<1>9. ListsOK' BY <1>0, <1>1, <1>2 DEF ListsOK, Queued
<1>10. ErrorPhase /\ ErrorPhase' /\ cur \in Queued
  BY <1>0, <1>1, <1>7 DEF ErrorPhase, Sorted
<1>11. QED BY <1>1, <1>5, <1>7, <1>8, <1>9, <1>10

LEMMA ErrorStands ==
  ASSUME Inv, FateInv, SweepError
  PROVE  /\ Waits' = Waits /\ Released' = Released
         /\ \A i, b, k : b # cur => (Stands(i, b, k)' <=> Stands(i, b, k))
         /\ \A a, i, k : a = cur /\ Stands(i, a, k)' => k \in Nat /\ Stands(i, a, k + 1)
         /\ \A a, i, k : a = cur /\ Stands(i, a, k) =>
              /\ k \in Nat
              /\ k = 1 \/ Stands(i, a, k - 1)'
         /\ \A a, i : a = cur => (Stands(i, a, 1) <=>
              Head(todo).buf.what = "data" /\ Head(todo).buf.id = i)
<1>0. /\ UNCHANGED <<requests, heap, ptr, cur>>
      /\ pc'["main"] = pc["main"]
      /\ ErrorPhase /\ ErrorPhase' /\ cur \in Queued
      /\ todo' = Tail(todo) /\ todo # <<>>
  BY ErrorFacts
<1>1. Waits' = Waits /\ Released' = Released BY <1>0, FlushStays
<1>2. \A b : b # cur => Waiting(b)' = Waiting(b) BY <1>0 DEF Waiting
<1>3. \A i, b, k : b # cur => (Stands(i, b, k)' <=> Stands(i, b, k))
  BY <1>1, <1>2 DEF Stands
<1>4. PICK a : a = cur OBVIOUS
<1>5. Waiting(a) = todo /\ Waiting(a)' = Tail(todo) /\ a \in Waits
  BY <1>0, <1>4 DEF Waiting, Waits
<1>6. \A i, k : Stands(i, a, k) <=>
        k \in DOMAIN todo /\ todo[k].buf.id = i /\ todo[k].buf.what = "data"
  BY <1>5 DEF Stands
<1>7. \A i, k : Stands(i, a, k)' <=>
        /\ k \in DOMAIN Tail(todo)
        /\ Tail(todo)[k].buf.id = i /\ Tail(todo)[k].buf.what = "data"
  BY <1>1, <1>5 DEF Stands
<1>8. /\ DOMAIN todo = 1 .. Len(todo) /\ Len(todo) \in Nat \ {0}
      /\ Head(todo) = todo[1]
      /\ DOMAIN Tail(todo) = 1 .. Len(todo) - 1
      /\ \A k \in 1 .. Len(todo) - 1 : Tail(todo)[k] = todo[k + 1]
  BY <1>0, SortedNow, PopIds DEF Sorted
<1>9. ASSUME NEW i, NEW k, Stands(i, a, k)' PROVE k \in Nat /\ Stands(i, a, k + 1)
  <2>1. k \in 1 .. Len(todo) - 1 /\ k \in Nat /\ k + 1 \in 1 .. Len(todo)
    BY <1>7, <1>8, <1>9
  <2>2. QED BY <1>6, <1>7, <1>8, <1>9, <2>1
<1>10. ASSUME NEW i, NEW k, Stands(i, a, k)
       PROVE  k \in Nat /\ (k = 1 \/ Stands(i, a, k - 1)')
  <2>1. k \in 1 .. Len(todo) /\ k \in Nat BY <1>6, <1>8, <1>10
  <2>2. k # 1 => k - 1 \in 1 .. Len(todo) - 1 /\ (k - 1) + 1 = k BY <1>8, <2>1
  <2>3. k # 1 => Tail(todo)[k - 1] = todo[k] BY <1>8, <2>2
  <2>4. QED BY <1>6, <1>7, <1>8, <1>10, <2>1, <2>2, <2>3
<1>11. 1 \in DOMAIN todo BY <1>8
<1>12. \A i : Stands(i, a, 1) <=>
         Head(todo).buf.what = "data" /\ Head(todo).buf.id = i
  BY <1>6, <1>8, <1>11
<1>13. QED BY <1>1, <1>3, <1>4, <1>9, <1>10, <1>12

\* The sweeper reports a datagram.
LEMMA ErrorData ==
  ASSUME Inv, Inv', FateInv, SweepError, Head(todo).buf.what = "data"
  PROVE  FateInv' /\ Q!Next
<1>0. TypeOK /\ HandOK /\ ListsOK /\ FatesOK /\ RequestsOK BY DEF Inv, FateInv
<1>1. PICK j, a, h : j = Head(todo).buf.id /\ a = cur /\ h = heap[cur].ip OBVIOUS
<1>2. /\ UNCHANGED <<entries, requests, heap, rx, accepted, sent>>
      /\ pc'["main"] = pc["main"] /\ pkt'["main"] = pkt["main"]
      /\ HandOK' /\ ListsOK' /\ a \in Queued
      /\ told' = [told EXCEPT ![j] = @ + 1]
  BY <1>1, ErrorFacts
<1>3. /\ Released' = Released
      /\ \A i, b, k : b # a => (Stands(i, b, k)' <=> Stands(i, b, k))
      /\ \A i, k : Stands(i, a, k)' => k \in Nat /\ Stands(i, a, k + 1)
      /\ \A i, k : Stands(i, a, k) => k \in Nat /\ (k = 1 \/ Stands(i, a, k - 1)')
      /\ \A i : Stands(i, a, 1) <=> j = i
  BY <1>1, ErrorStands
<1>4. /\ j \in accepted /\ sent[j] = 0 /\ told[j] = 0 /\ ~ Carried(j)
      /\ \A b, k : Stands(j, b, k) => b = a /\ k = 1
      /\ j \in 1 .. MaxRx
  <2>1. Stands(j, a, 1) BY <1>3
  <2>2. QED BY <1>0, <2>1 DEF FatesOK, TypeOK, HistoryType
<1>5. told'[j] = 1 /\ \A i \in 1 .. MaxRx : i # j => told'[i] = told[i]
  BY <1>0, <1>2, <1>4 DEF TypeOK, HistoryType
<1>6. \A b, k : ~ Stands(j, b, k)'
  <2> SUFFICES ASSUME NEW b, NEW k, Stands(j, b, k)' PROVE FALSE OBVIOUS
  <2>1. b = a BY <1>3, <1>4
  <2>2. k \in Nat /\ Stands(j, a, k + 1) BY <1>3, <2>1
  <2>3. k + 1 = 1 /\ k = 0 BY <1>4, <2>2
  <2>4. k \in DOMAIN Waiting(a)' BY <2>1 DEF Stands
  <2>5. Waiting(a)' \in Seq(QueuedPacket)
    BY <1>2, SortedNow, SortedNext DEF Sorted
  <2>6. 0 \notin DOMAIN Waiting(a)' BY <2>5
  <2>7. QED BY <2>3, <2>4, <2>6
<1>7. MainHand' = MainHand /\ \A i : Carried(i)' <=> Carried(i)
  BY <1>2, MainKept DEF CarriesData
<1>8. FatesOK'
  <2>0. accepted \subseteq 1 .. MaxRx BY <1>0 DEF TypeOK, HistoryType
  <2>1. /\ accepted' \subseteq 1 .. rx'
        /\ \A i \in 1 .. MaxRx : i \notin accepted' => sent'[i] = 0
    BY <1>0, <1>2 DEF FatesOK
  <2>2. \A i \in 1 .. MaxRx : i > rx' => told'[i] = 0
    <3>0. rx \in Nat BY <1>0 DEF TypeOK, HistoryType
    <3>1. j \in 1 .. rx BY <1>0, <1>4 DEF FatesOK
    <3>2. \A i \in 1 .. MaxRx : i > rx => i # j BY <3>0, <3>1
    <3>3. QED BY <1>0, <1>2, <1>5, <3>2 DEF FatesOK
  <2>3. ASSUME NEW i, NEW b, NEW k, Stands(i, b, k)'
        PROVE  i # j /\ \E m : Stands(i, b, m)
    BY <1>3, <1>6, <2>3
  <2>4. \A i : Carried(i)' => /\ i \in accepted' /\ sent'[i] = 0 /\ told'[i] = 0
                              /\ \A b, k : ~ Stands(i, b, k)'
    <3> TAKE i
    <3> HAVE Carried(i)'
    <3>1. Carried(i) /\ i # j BY <1>4, <1>7
    <3>2. /\ i \in accepted /\ sent[i] = 0 /\ told[i] = 0
          /\ \A b, k : ~ Stands(i, b, k)
      BY <1>0, <3>1 DEF FatesOK
    <3>3. QED BY <1>2, <1>5, <2>0, <2>3, <3>1, <3>2
  <2>5. ASSUME NEW i, NEW b, NEW k, Stands(i, b, k)'
        PROVE  i \in accepted' /\ sent'[i] = 0 /\ told'[i] = 0
    BY <1>0, <1>2, <1>5, <2>0, <2>3, <2>5 DEF FatesOK
  <2>6. ASSUME NEW i, NEW b, NEW k, NEW c, NEW l, Stands(i, b, k)', Stands(i, c, l)'
        PROVE  b = c /\ k = l
    <3>1. b = c BY <1>0, <2>3, <2>6 DEF FatesOK
    <3>2. CASE b # a BY <1>0, <1>3, <2>6, <3>1, <3>2 DEF FatesOK
    <3>3. CASE b = a
      <4>1. /\ k \in Nat /\ l \in Nat
            /\ Stands(i, a, k + 1) /\ Stands(i, a, l + 1)
        BY <1>3, <2>6, <3>1, <3>3
      <4>2. k + 1 = l + 1 BY <1>0, <4>1 DEF FatesOK
      <4>3. QED BY <3>1, <4>1, <4>2
    <3>4. QED BY <3>1, <3>2, <3>3
  <2>7. \A i \in accepted' : \/ Carried(i)'
                             \/ \E b, k : Stands(i, b, k)'
                             \/ sent'[i] + told'[i] = 1
    <3> TAKE i \in accepted'
    <3>1. CASE i = j BY <1>2, <1>4, <1>5, <3>1
    <3>2. CASE i # j /\ (\E b, k : Stands(i, b, k))
      <4>1. PICK b, k : Stands(i, b, k) BY <3>2
      <4>2. CASE b # a BY <1>3, <4>1, <4>2
      <4>3. CASE b = a BY <1>3, <3>2, <4>1, <4>3
      <4>4. QED BY <4>2, <4>3
    <3>3. CASE i # j /\ ~ (\E b, k : Stands(i, b, k))
      BY <1>0, <1>2, <1>5, <1>7, <2>0, <3>3 DEF FatesOK
    <3>4. QED BY <3>1, <3>2, <3>3
  <2>8. QED BY <2>1, <2>2, <2>4, <2>5, <2>6, <2>7 DEF FatesOK
<1>9. /\ WaitingFor(h)' = WaitingFor(h) \ {j} /\ j \in WaitingFor(h)
      /\ \A g : g # h => WaitingFor(g)' = WaitingFor(g)
  <2>1. \A g : RequestsFor(g)' = RequestsFor(g) BY <1>2 DEF RequestsFor, Queued
  <2>2. a \in RequestsFor(h) /\ \A g : g # h => a \notin RequestsFor(g)
    BY <1>1, <1>2 DEF RequestsFor
  <2>3. ASSUME NEW i, i # j, NEW b
        PROVE  (\E k : Stands(i, b, k)') <=> (\E k : Stands(i, b, k))
    BY <1>3, <2>3
  <2>4. j \in WaitingFor(h)
    <3>1. Stands(j, a, 1) BY <1>3
    <3>2. QED BY <2>2, <3>1, WaitingStandsAll
  <2>5. \A g : j \notin WaitingFor(g)' BY <1>6, WaitingStandsNext
  <2>6. \A g : g # h => j \notin WaitingFor(g) BY <1>4, <2>2, WaitingStandsAll
  <2>7. \A i, g : i # j => (i \in WaitingFor(g)' <=> i \in WaitingFor(g))
    BY <2>1, <2>3, WaitingStandsAll, WaitingStandsNext
  <2>8. WaitingFor(h)' = WaitingFor(h) \ {j} BY <2>5, <2>7
  <2>9. ASSUME NEW g, g # h PROVE WaitingFor(g)' = WaitingFor(g)
    BY <2>5, <2>6, <2>7, <2>9
  <2>10. QED BY <2>4, <2>8, <2>9
<1>10. h \in Hops BY <1>0, <1>1, <1>2 DEF ListsOK
<1>11. Hand' = Hand BY <1>0, <1>2, <1>7, HandNow, HandNext
<1>12. Reports' = [Reports EXCEPT ![j] = @ + 1]
  <2>1. \A i \in 1 .. MaxRx : Reports'[i] = [Reports EXCEPT ![j] = @ + 1][i]
    BY <1>2, <1>4, <1>5 DEF Reports
  <2>2. QED BY <2>1 DEF Reports
<1>13. [g \in Hops |-> WaitingFor(g)]' =
         [[g \in Hops |-> WaitingFor(g)] EXCEPT ![h] = @ \ {j}]
  BY <1>9, <1>10
<1>14. Q!Report(j, h)
  BY <1>2, <1>3, <1>9, <1>10, <1>11, <1>12, <1>13 DEF Q!Report
<1>15. QED BY <1>2, <1>4, <1>8, <1>10, <1>14 DEF FateInv, Q!Next

\* The sweeper answers a packet that is itself an ICMP error.
LEMMA ErrorOther ==
  ASSUME Inv, Inv', FateInv, SweepError, Head(todo).buf.what # "data"
  PROVE  FateInv' /\ Q!Next
<1>0. HandOK /\ FatesOK BY DEF FateInv
<1>1. PICK a : a = cur OBVIOUS
<1>2. /\ UNCHANGED <<entries, requests, heap, rx, accepted, sent, told>>
      /\ pc'["main"] = pc["main"] /\ pkt'["main"] = pkt["main"]
      /\ HandOK' /\ ListsOK'
  BY ErrorFacts
<1>3. /\ Released' = Released
      /\ \A i, b, k : b # a => (Stands(i, b, k)' <=> Stands(i, b, k))
      /\ \A i, k : Stands(i, a, k)' => k \in Nat /\ Stands(i, a, k + 1)
      /\ \A i, k : Stands(i, a, k) => Stands(i, a, k - 1)'
  BY <1>1, ErrorStands
<1>4. MainHand' = MainHand /\ \A i : Carried(i)' <=> Carried(i)
  BY <1>2, MainKept DEF CarriesData
<1>5. \A i, b : (\E k : Stands(i, b, k)') <=> (\E k : Stands(i, b, k))
  BY <1>3
<1>6. FatesOK'
  <2>1. ASSUME NEW i, NEW b, NEW k, NEW l, Stands(i, b, k)', Stands(i, b, l)'
        PROVE  k = l
    <3>1. CASE b # a BY <1>0, <1>3, <2>1, <3>1 DEF FatesOK
    <3>2. CASE b = a
      <4>1. /\ k \in Nat /\ l \in Nat
            /\ Stands(i, a, k + 1) /\ Stands(i, a, l + 1)
        BY <1>3, <2>1, <3>2
      <4>2. k + 1 = l + 1 BY <1>0, <4>1 DEF FatesOK
      <4>3. QED BY <4>1, <4>2
    <3>3. QED BY <3>1, <3>2
  <2>2. \A i : Carried(i) => \A b, k : ~ Stands(i, b, k) BY <1>0 DEF FatesOK
  <2>3. QED BY <1>0, <1>2, <1>4, <1>5, <2>1, <2>2, FatesMoved
<1>7. ASSUME NEW g PROVE WaitingFor(g)' = WaitingFor(g)
  <2>1. RequestsFor(g)' = RequestsFor(g) BY <1>2 DEF RequestsFor, Queued
  <2>2. \A i : i \in WaitingFor(g)' <=> i \in WaitingFor(g)
    BY <1>5, <2>1, WaitingStandsAll, WaitingStandsNext
  <2>3. QED BY <2>2
<1>8. Hand' = Hand BY <1>0, <1>2, <1>4, HandNow, HandNext
<1>9. Reports' = Reports BY <1>2 DEF Reports
<1>10. Q!Forget BY <1>2, <1>3, <1>7, <1>8, <1>9, QueueKept
<1>11. QED BY <1>2, <1>6, <1>10 DEF FateInv, Q!Next

\* The sweeper destroys a request when it has answered all the datagrams that
\* stood on its list.
LEMMA DestroyAnswered ==
  ASSUME Inv, Inv', FateInv, SweepDestroy
  PROVE  FateInv' /\ Q!Next
<1>0. TypeOK /\ HandOK /\ ListsOK /\ FatesOK /\ RequestsOK /\ Sorted
  BY SortedNow DEF Inv, FateInv
<1>1. PICK a : a = cur OBVIOUS
<1>2. /\ UNCHANGED <<entries, pkt, ptr, todo, rx, accepted, sent, told>>
      /\ pc["sweeper"] = "errors" /\ todo = <<>> /\ requests' = Unlink(requests, a)
      /\ heap' = [heap EXCEPT ![a] = Blank]
  BY <1>1 DEF SweepDestroy, tableVars, callVars
<1>3. /\ pc'["main"] = pc["main"] /\ pc'["sweeper"] \in {"sleep", "visit"}
  BY <1>0, BothThreads DEF SweepDestroy, Advance, Goto, TypeOK, ThreadType
<1>4. a \in Queued /\ Queued' = Queued \ {a}
  <2>1. a \in Queued BY <1>0, <1>1, <1>2 DEF Sorted
  <2>2. QED BY <1>0, <1>2, <2>1, UnlinkFacts
        DEF Queued, RequestsOK, TypeOK, QueueType
<1>5. \A b \in Addr \ {a} : heap'[b] = heap[b] BY <1>0, <1>2 DEF Sorted
<1>6. /\ pc["main"] = "flush" => ptr["main"] # a /\ ptr["main"] \in Addr
      /\ Waits \subseteq Addr
  BY <1>0, <1>4 DEF Sorted
<1>7. Waits' = Waits \ {a} /\ Released' = Released
  BY <1>2, <1>3, <1>4, <1>5, <1>6 DEF Waits, Released
<1>8. ErrorPhase /\ ~ ErrorPhase' BY <1>2, <1>3 DEF ErrorPhase
<1>9. Waiting(a) = <<>> /\ \A b \in Waits \ {a} : Waiting(b)' = Waiting(b)
  BY <1>1, <1>2, <1>5, <1>6, <1>8 DEF Waiting
<1>10. \A i, k : ~ Stands(i, a, k) BY <1>9 DEF Stands
<1>11. \A i, b, k : Stands(i, b, k)' <=> Stands(i, b, k)
  BY <1>7, <1>9, <1>10 DEF Stands
<1>12. HandOK' BY <1>0, <1>2, <1>3 DEF HandOK, CallLabels
<1>13. ListsOK' BY <1>0, <1>2, <1>4, <1>5, <1>6 DEF ListsOK, Sorted
<1>14. MainHand' = MainHand /\ \A i : Carried(i)' <=> Carried(i)
  BY <1>2, <1>3, MainKept DEF CarriesData
<1>15. FatesOK'
  <2>1. rx \in Nat /\ rx <= rx BY <1>0 DEF TypeOK, HistoryType
  <2>2. QED BY <1>0, <1>2, <1>11, <1>14, <2>1, FatesKept
<1>16. ASSUME NEW g PROVE WaitingFor(g)' = WaitingFor(g)
  <2>1. RequestsFor(g)' = RequestsFor(g) \ {a}
    <3>1. Queued \subseteq Addr BY <1>0 DEF Sorted
    <3>2. QED BY <1>4, <1>5, <3>1 DEF RequestsFor
  <2>2. \A i : i \in WaitingFor(g)' <=> i \in WaitingFor(g)
    BY <1>10, <1>11, <2>1, WaitingStandsAll, WaitingStandsNext
  <2>3. QED BY <2>2
<1>17. Hand' = Hand BY <1>0, <1>12, <1>14, HandNow, HandNext
<1>18. Reports' = Reports BY <1>2 DEF Reports
<1>19. Q!Forget BY <1>2, <1>7, <1>16, <1>17, <1>18, QueueKept
<1>20. QED BY <1>12, <1>13, <1>15, <1>19 DEF FateInv, Q!Next

-----------------------------------------------------------------------------
(* A reply arrives.                                                        *)

\* sr_handle_arp: the request that waits for the sender leaves the queue.
LEMMA RxArpLearns ==
  ASSUME Inv, Inv', FateInv, NEW f \in Frames, RxArp(f)
  PROVE  FateInv' /\ Q!Next
<1>0. TypeOK /\ HandOK /\ ListsOK /\ FatesOK /\ RequestsOK /\ Sorted
  BY SortedNow DEF Inv, FateInv
<1>1. /\ pc["main"] = "idle" /\ pc["sweeper"] = "sleep"
      /\ entries' = TableInsert(entries, f.sha, f.sip)
      /\ UNCHANGED <<heap, pkt, cur, todo, rx, accepted, sent, told>>
  BY DEF RxArp, CanLock, sweepVars, fateVars
<1>2. PICK h : h = f.sip OBVIOUS
<1>3. /\ \A x : Cached(entries', x) => x = h \/ Cached(entries, x)
      /\ \A x : x # h /\ Cached(entries, x) => Cached(entries', x)
  BY <1>0, <1>1, <1>2, TableKnows, TableKeeps DEF TypeOK, QueueType
<1>4. /\ pc'["sweeper"] = "sleep" /\ pc'["main"] \in {"idle", "flush"}
      /\ Queued' = Queued \ RequestsFor(h)
      /\ Waits' = Queued
      /\ Released' = WaitingFor(h)
  <2>0. \A b : Waiting(b) = heap[b].packets BY <1>1 DEF Waiting, ErrorPhase
  <2>1. CASE RequestsFor(h) = {}
    <3>1. requests' = requests /\ pc' = pc BY <1>2, <2>1 DEF RxArp
    <3>2. WaitingFor(h) = {} BY <2>1 DEF WaitingFor
    <3>3. QED BY <1>1, <2>1, <3>1, <3>2 DEF Queued, Waits, Released
  <2>2. CASE RequestsFor(h) # {}
    <3>1. PICK a \in RequestsFor(h) :
            /\ requests' = Unlink(requests, a) /\ ptr' = [ptr EXCEPT !["main"] = a]
            /\ Goto("main", "flush")
      BY <1>2, <2>2 DEF RxArp
    <3>2. /\ pc'["sweeper"] = "sleep" /\ pc'["main"] = "flush" /\ ptr'["main"] = a
      BY <1>0, <1>1, <3>1, BothThreads DEF Goto, TypeOK, ThreadType
    <3>3. RequestsFor(h) = {a} /\ a \in Queued
      BY <1>0, <3>1 DEF RequestsFor, RequestsOK
    <3>4. Queued' = Queued \ {a}
      BY <1>0, <3>1, <3>3, UnlinkFacts DEF Queued, RequestsOK, TypeOK, QueueType
    <3>5. WaitingFor(h) = DataIds(heap[a].packets) BY <2>0, <3>3 DEF WaitingFor
    <3>6. QED BY <1>1, <3>2, <3>3, <3>4, <3>5 DEF Waits, Released
  <2>3. QED BY <2>1, <2>2
<1>5. Waits = Queued /\ Released = {} BY <1>1 DEF Waits, Released
<1>6. \A b : Waiting(b)' = Waiting(b) BY <1>1, <1>4 DEF Waiting, ErrorPhase
<1>7. \A i, b, k : Stands(i, b, k)' <=> Stands(i, b, k)
  BY <1>4, <1>5, <1>6 DEF Stands
<1>8. HandOK' /\ ~ CarriesData' /\ ~ CarriesData
  BY <1>1, <1>4 DEF HandOK, CallLabels, CarriesData
<1>9. MainHand' = MainHand /\ \A i : Carried(i)' <=> Carried(i)
  BY <1>8, MainKept
<1>10. ListsOK' BY <1>0, <1>1, <1>4 DEF ListsOK
<1>11. FatesOK'
  <2>1. rx \in Nat /\ rx <= rx BY <1>0 DEF TypeOK, HistoryType
  <2>2. QED BY <1>0, <1>1, <1>7, <1>9, <2>1, FatesKept
<1>12. /\ WaitingFor(h)' = {}
       /\ \A g : g # h => WaitingFor(g)' = WaitingFor(g)
  <2>1. /\ RequestsFor(h)' = {}
        /\ \A g : g # h => RequestsFor(g)' = RequestsFor(g)
    BY <1>1, <1>4 DEF RequestsFor
  <2>2. QED BY <1>6, <2>1 DEF WaitingFor
<1>13. Hand' = Hand BY <1>0, <1>8, <1>9, HandNow, HandNext
<1>14. Reports' = Reports BY <1>1 DEF Reports
<1>15. Q!Next
  <2>1. CASE h \in Hops
    <3>1. {g \in Hops : Cached(entries', g)} \in
            {{g \in Hops : Cached(entries, g)},
             {g \in Hops : Cached(entries, g)} \cup {h}}
      <4>1. CASE Cached(entries', h)
        <5>1. {g \in Hops : Cached(entries', g)} =
                {g \in Hops : Cached(entries, g)} \cup {h}
          BY <1>3, <2>1, <4>1
        <5>2. QED BY <5>1
      <4>2. CASE ~ Cached(entries', h)
        <5>1. ~ Cached(entries, h)
          BY <1>0, <1>1, <1>2, <4>2, InsertKnown DEF TypeOK, QueueType
        <5>2. {g \in Hops : Cached(entries', g)} = {g \in Hops : Cached(entries, g)}
          BY <1>3, <4>2, <5>1
        <5>3. QED BY <5>2
      <4>3. QED BY <4>1, <4>2
    <3>2. [g \in Hops |-> WaitingFor(g)]' =
            [[g \in Hops |-> WaitingFor(g)] EXCEPT ![h] = {}]
      BY <1>12, <2>1
    <3>3. Q!Learn(h)
      BY <1>1, <1>4, <1>5, <1>13, <1>14, <2>1, <3>1, <3>2 DEF Q!Learn
    <3>4. QED BY <2>1, <3>3 DEF Q!Next
  <2>2. CASE h \notin Hops
    <3>1. RequestsFor(h) = {} BY <1>0, <2>2 DEF ListsOK, RequestsFor
    <3>2. WaitingFor(h) = {} BY <3>1 DEF WaitingFor
    <3>3. \A g \in Hops : WaitingFor(g)' = WaitingFor(g) BY <1>12, <2>2
    <3>4. \A g \in Hops : Cached(entries', g) => Cached(entries, g) BY <1>3, <2>2
    <3>5. Q!Forget
      BY <1>1, <1>4, <1>5, <1>13, <1>14, <3>2, <3>3, <3>4, QueueKept
    <3>6. QED BY <3>5 DEF Q!Next
  <2>3. QED BY <2>1, <2>2
<1>16. QED BY <1>8, <1>10, <1>11, <1>15 DEF FateInv

\* sr_cache_arp_mapping: all the packets of that request go out.
LEMMA FlushSends ==
  ASSUME Inv, Inv', FateInv, Flush
  PROVE  FateInv' /\ Q!Next
<1>0. TypeOK /\ HandOK /\ ListsOK /\ FatesOK /\ Sorted
  BY SortedNow DEF Inv, FateInv
<1>1. PICK a, w : a = ptr["main"] /\ w = DataIds(heap[ptr["main"]].packets) OBVIOUS
<1>2. /\ UNCHANGED <<entries, requests, heap, pkt, ptr, cur, todo, rx, accepted, told>>
      /\ pc["main"] = "flush"
      /\ sent' = [i \in DOMAIN sent |-> IF i \in w THEN sent[i] + 1 ELSE sent[i]]
  BY <1>1 DEF Flush, tableVars, queueVars, callVars, sweepVars
<1>3. pc'["main"] = "destroy" /\ pc'["sweeper"] = pc["sweeper"]
  BY <1>0, BothThreads DEF Flush, Goto, TypeOK, ThreadType
<1>4. /\ Released = w /\ Released' = {} /\ Waits = Queued \cup {a} /\ Waits' = Queued
      /\ a \notin Queued
  BY <1>0, <1>1, <1>2, <1>3 DEF Released, Waits, Queued, Sorted
<1>5. ErrorPhase' <=> ErrorPhase BY <1>3 DEF ErrorPhase
<1>6. Waiting(a) = heap[a].packets /\ \A b : Waiting(b)' = Waiting(b)
  <2>1. ErrorPhase => cur # a BY <1>0, <1>4 DEF Sorted, ErrorPhase
  <2>2. QED BY <1>2, <1>5, <2>1 DEF Waiting
<1>7. \A i, b, k : Stands(i, b, k)' <=> Stands(i, b, k) /\ b # a
  BY <1>4, <1>6 DEF Stands
<1>8. \A i : i \in w <=> \E k : Stands(i, a, k)
  BY <1>1, <1>4, <1>6 DEF Stands, DataIds
<1>9. HandOK' /\ ~ CarriesData' /\ ~ CarriesData
  BY <1>0, <1>2, <1>3 DEF HandOK, CallLabels, CarriesData
<1>10. MainHand' = MainHand /\ \A i : Carried(i)' <=> Carried(i)
  BY <1>9, MainKept
<1>11. ListsOK' BY <1>0, <1>2 DEF ListsOK, Queued
<1>12. /\ DOMAIN sent = 1 .. MaxRx /\ accepted \subseteq 1 .. MaxRx
       /\ \A i \in 1 .. MaxRx : sent[i] \in Nat /\ told[i] \in Nat
  BY <1>0 DEF TypeOK, HistoryType
<1>13. FatesOK'
  <2>1. \A i \in 1 .. MaxRx : sent'[i] = IF i \in w THEN sent[i] + 1 ELSE sent[i]
    BY <1>2, <1>12
  <2>2. \A i \in w : i \in accepted /\ sent[i] = 0 /\ told[i] = 0
    BY <1>0, <1>8 DEF FatesOK
  <2>3. /\ accepted' \subseteq 1 .. rx'
        /\ \A i \in 1 .. MaxRx : i > rx' => told'[i] = 0
    BY <1>0, <1>2 DEF FatesOK
  <2>4. \A i \in 1 .. MaxRx : i \notin accepted' => sent'[i] = 0
    BY <1>0, <1>2, <2>1, <2>2 DEF FatesOK
  <2>5. \A i : ~ Carried(i)' BY <1>9 DEF Carried, CarriesData
  <2>6. ASSUME NEW i, NEW b, NEW k, Stands(i, b, k)'
        PROVE  /\ i \in accepted' /\ sent'[i] = 0 /\ told'[i] = 0
               /\ \A c, l : Stands(i, c, l)' => b = c /\ k = l
    <3>1. Stands(i, b, k) /\ b # a BY <1>7, <2>6
    <3>2. i \notin w BY <1>0, <1>8, <3>1 DEF FatesOK
    <3>3. i \in accepted /\ sent[i] = 0 /\ told[i] = 0 /\ i \in 1 .. MaxRx
      BY <1>0, <1>12, <3>1 DEF FatesOK
    <3>4. \A c, l : Stands(i, c, l)' => b = c /\ k = l
      BY <1>0, <1>7, <3>1 DEF FatesOK
    <3>5. QED BY <1>2, <2>1, <3>2, <3>3, <3>4
  <2>7. \A i \in accepted' : \/ Carried(i)'
                             \/ \E b, k : Stands(i, b, k)'
                             \/ sent'[i] + told'[i] = 1
    <3> TAKE i \in accepted'
    <3>0. i \in accepted /\ i \in 1 .. MaxRx BY <1>2, <1>12
    <3>1. CASE i \in w
      <4>1. sent'[i] = 1 /\ told'[i] = 0 BY <1>2, <2>1, <2>2, <3>0, <3>1
      <4>2. QED BY <4>1
    <3>2. CASE i \notin w
      <4>1. sent'[i] = sent[i] /\ told'[i] = told[i] BY <1>2, <2>1, <3>0, <3>2
      <4>2. \A b, k : Stands(i, b, k) => Stands(i, b, k)' BY <1>7, <1>8, <3>2
      <4>3. QED BY <1>0, <1>10, <3>0, <4>1, <4>2 DEF FatesOK
    <3>3. QED BY <3>1, <3>2
  <2>8. QED BY <2>3, <2>4, <2>5, <2>6, <2>7 DEF FatesOK
<1>14. \A g : WaitingFor(g)' = WaitingFor(g)
  <2>1. \A g : RequestsFor(g)' = RequestsFor(g) BY <1>2 DEF RequestsFor, Queued
  <2>2. QED BY <1>6, <2>1 DEF WaitingFor
<1>15. Hand' = Hand BY <1>0, <1>9, <1>10, HandNow, HandNext
<1>16. Reports' = Reports BY <1>2 DEF Reports
<1>17. [g \in Hops |-> WaitingFor(g)]' = [g \in Hops |-> WaitingFor(g)] BY <1>14
<1>18. Q!Release
  BY <1>2, <1>4, <1>12, <1>15, <1>16, <1>17 DEF Q!Release
<1>19. QED BY <1>9, <1>11, <1>13, <1>18 DEF FateInv, Q!Next

-----------------------------------------------------------------------------
(* The invariant, and what it gives.                                       *)

LEMMA FateInit == Init => FateInv /\ Q!Init
<1> SUFFICES ASSUME Init PROVE FateInv /\ Q!Init OBVIOUS
<1>1. /\ pc["main"] = "idle" /\ pc["sweeper"] = "sleep" /\ Queued = {} /\ todo = <<>>
      /\ rx = 0 /\ accepted = {} /\ MaxRx \in Nat
  BY BothThreads, BoundsAssumption DEF Init, Queued, Range
<1>2. Waits = {} BY <1>1 DEF Waits
<1>3. HandOK BY <1>1 DEF HandOK, CallLabels
<1>4. ListsOK BY <1>1 DEF ListsOK, Answerable
<1>5. FatesOK
  BY <1>1, <1>2 DEF FatesOK, Carried, Stands, CallLabels, Init
<1>6. Q!Init
  <2>1. {h \in Hops : Cached(entries, h)} = {}
    BY DEF Init, Cached, Hits, EmptyTable
  <2>2. Hand = {} BY <1>1, <1>3, HandNow DEF MainHand, CallLabels
  <2>3. \A h : WaitingFor(h) = {} BY <1>1 DEF WaitingFor, RequestsFor
  <2>4. Released = {} BY <1>1 DEF Released
  <2>5. Reports = [i \in 1 .. MaxRx |-> 0] BY <1>1 DEF Reports
  <2>6. sent = [i \in 1 .. MaxRx |-> 0] BY DEF Init
  <2>7. [h \in Hops |-> WaitingFor(h)] = [h \in Hops |-> {}] BY <2>3
  <2>8. QED BY <2>1, <2>2, <2>4, <2>5, <2>6, <2>7 DEF Q!Init, Q!Nobody
<1>7. QED BY <1>3, <1>4, <1>5, <1>6 DEF FateInv

\* Every step of either thread preserves the invariant and is a step of
\* NextHopQueue.
LEMMA FateStep ==
  ASSUME Inv, Inv', FateInv, [Next]_vars
  PROVE  FateInv' /\ Q!Next
<1>1. ASSUME NEW f \in Frames, RxIp(f) PROVE FateInv' /\ Q!Next
  BY <1>1, RxIpCalm, RxIpAccepts
<1>2. ASSUME NEW f \in Frames, RxArp(f) PROVE FateInv' /\ Q!Next
  BY <1>2, RxArpLearns
<1>3. CASE Flush BY <1>3, FlushSends
<1>4. CASE Destroy BY <1>4, DestroyCalm
<1>5. ASSUME NEW t \in Threads, Routed(t) PROVE FateInv' /\ Q!Next
  BY <1>5, RoutedCalm, RoutedHitSends, RoutedQueue DEF Routed
<1>6. CASE SweepError BY <1>6, ErrorData, ErrorOther
<1>7. CASE SweepDestroy BY <1>7, DestroyAnswered
<1>8. CASE \/ SweepStart \/ SweepPass \/ SweepGiveUp \/ SweepResend \/ SweepLoad
           \/ SweepStore \/ Tick \/ UNCHANGED vars
  BY <1>8, SweepCalm
<1>9. QED
  BY <1>1, <1>2, <1>3, <1>4, <1>5, <1>6, <1>7, <1>8, BothThreads
  DEF Next, MainStep, SweeperStep, Sweep

LEMMA RouterFateInv == Spec => []FateInv
<1>1. Init => FateInv BY FateInit
<1>2. Inv /\ Inv' /\ FateInv /\ [Next]_vars => FateInv' BY FateStep
<1>3. QED BY <1>1, <1>2, Invariance, PTL DEF Spec

LEMMA FateConserves == Inv /\ FateInv => Conserved
<1> SUFFICES ASSUME Inv, FateInv, NEW i \in accepted
             PROVE  Cardinality(InHand(i)) + Cardinality(OnList(i)) + sent[i] + told[i] = 1
  BY DEF Conserved
<1>0. FatesOK /\ HandOK /\ sent[i] \in Nat /\ told[i] \in Nat
  BY DEF FateInv, Inv, TypeOK, HistoryType
<1>1. InHand(i) = IF Carried(i) THEN {"main"} ELSE {}
  <2>1. \A t \in Threads : t \in InHand(i) <=> t = "main" /\ Carried(i)
    BY <1>0, BothThreads DEF InHand, Carried, HandOK, CallLabels
  <2>2. InHand(i) \subseteq Threads BY DEF InHand
  <2>3. QED BY <2>1, <2>2, BothThreads
<1>2. \A x : x \in OnList(i) <=> \E a, k : x = <<a, k>> /\ Stands(i, a, k)
  BY DEF OnList, Stands
<1>3. Cardinality({}) = 0 /\ \A x : Cardinality({x}) = 1
  BY FS_EmptySet, FS_Singleton
<1>4. CASE Carried(i)
  <2>1. /\ sent[i] = 0 /\ told[i] = 0 /\ OnList(i) = {}
    BY <1>0, <1>2, <1>4 DEF FatesOK
  <2>2. InHand(i) = {"main"} BY <1>1, <1>4
  <2>3. Cardinality(InHand(i)) = 1 BY <1>3, <2>2
  <2>4. Cardinality(OnList(i)) = 0 BY <1>3, <2>1
  <2>5. QED BY <2>1, <2>3, <2>4
<1>5. CASE ~ Carried(i) /\ \E a, k : Stands(i, a, k)
  <2>1. PICK a, k : Stands(i, a, k) BY <1>5
  <2>2. sent[i] = 0 /\ told[i] = 0 BY <1>0, <2>1 DEF FatesOK
  <2>3. OnList(i) = {<<a, k>>}
    <3>1. \A b, l : Stands(i, b, l) => b = a /\ l = k BY <1>0, <2>1 DEF FatesOK
    <3>2. QED BY <1>2, <2>1, <3>1
  <2>4. InHand(i) = {} BY <1>1, <1>5
  <2>5. Cardinality(OnList(i)) = 1 BY <1>3, <2>3, Zenon
  <2>6. Cardinality(InHand(i)) = 0 BY <1>3, <2>4
  <2>7. QED BY <2>2, <2>5, <2>6
<1>6. CASE ~ Carried(i) /\ ~ \E a, k : Stands(i, a, k)
  <2>1. sent[i] + told[i] = 1 BY <1>0, <1>6 DEF FatesOK
  <2>2. InHand(i) = {} /\ OnList(i) = {} BY <1>1, <1>2, <1>6
  <2>3. QED BY <1>0, <1>3, <2>1, <2>2
<1>7. QED BY <1>4, <1>5, <1>6

\* No datagram that sr_handle_ip accepts for forwarding is lost, transmitted
\* twice, reported twice, or both transmitted and reported, however the thread
\* that reads frames and the thread that sweeps the request queue interleave.
THEOREM RouterConserved == Spec => []Conserved
BY RouterFateInv, Invariance, FateConserves, PTL

\* sr_send_routed_ip_packet, sr_cache_arp_mapping and sr_arpcache_sweepreqs,
\* in two threads and several locked sections each, implement the queue of
\* datagrams per next hop that NextHopQueue describes.
THEOREM RouterImplementsQueue == Spec => ImplementsQueue
<1>1. Init => Q!Init BY FateInit
<1>2. Inv /\ Inv' /\ FateInv /\ [Next]_vars => [Q!Next]_(Q!vars) BY FateStep
<1>3. QED BY <1>1, <1>2, Invariance, RouterFateInv, PTL DEF Spec, ImplementsQueue, Q!Spec

=============================================================================
