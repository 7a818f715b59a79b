# TLA+ models of the simple router

The repository is a user-space IPv4 router (`sr`) that receives Ethernet frames
from a VNS/POX server over one TCP connection, answers ARP and ping, forwards
datagrams by a static routing table and keeps a small ARP cache with a queue of
unresolved next hops. This directory holds TLA+ models of it, TLC
configurations that check them on small instances, and TLAPS proofs of what
holds for every instance.

## The system and its parts

| part | source | state | operations |
|---|---|---|---|
| packet processing | `sr_router.c` | none of its own; a request pointer across an unlock | `sr_handlepacket`, `sr_handle_arp`, `sr_handle_ip`, `sr_send_icmp_error`, `sr_send_routed_ip_packet` |
| ARP table | `sr_arpcache.c` | `cache->entries`, 100 slots | lookup, insert, expiry |
| ARP request queue | `sr_arpcache.c` | `cache->requests`, each with a list of packets | `queuereq`, `insert` (unlinks), `arpreq_destroy` |
| sweeper thread | `sr_arpcache.c` | `req`, `next`, the clock it read | `sr_arpcache_timeout` once a second, which calls `sr_arpcache_sweepreqs` |
| routing table | `sr_rt.c`, `sr_router.c` | list of entries, read from a file | load, `sr_find_lpm_route` |
| interface list | `sr_if.c` | list of interfaces | add, set addresses, find by name |
| VNS session | `sr_vns_comm.c` | socket, what was received | connect, authenticate, HWINFO, read loop, `sr_send_packet`, `sr_log_packet` |
| start-up | `sr_main.c` | the `sr_instance` | options, connect, load routes, init, loop |
| utilities | `sr_utils.c` | none | `cksum`, printing |
| packet log | `sr_dumper.c` | a file | append a frame |

How they interact. `sr_main` connects, and from then on one thread (here
*main*) reads a message at a time and calls `sr_handlepacket` for each frame.
`sr_init` starts the second thread, the *sweeper*. The two share the ARP table
and the request queue under `cache->lock`, a recursive mutex. The sweeper holds
it during a whole sweep, in which it calls `sr_send_icmp_error`, which routes
the error through the same functions main uses. main takes the lock only inside
each `sr_arpcache_*` function, so it holds no lock between the lookup, the
queueing and the three accesses it then makes to the request it got back.

What is hard: those gaps; the pointer `next` that the sweep keeps while its own
calls push requests on the list; the ICMP errors of the sweep being queued on
the very request that is about to be freed; the increments of `times_sent` in
both threads; a full table; mappings that expire between two steps; and the
question whether every packet is eventually sent or answered. No lock at all
covers the socket and the log, to which both threads write: a message that has
to wait for room in the socket's buffer, or a record between its two parts, can
be cut in two by the other thread. And a router is never alone: what it sends
has to pass the tests of the next one, which answers errors with errors and
knows the way back only as its own table says.

What makes each part correct:

* queue and threads: the lists stay well formed, a packet accepted for
  forwarding is sent once or its source is told once, a next hop is declared
  dead only after five requests, nothing waits for ever or for a mapping that is
  already there;
* ARP table: it is a map with expiry, whatever the slots look like;
* routing: the longest matching prefix decides, the first of equals (the
  repository's README speaks of exact matches, the code and its tests of
  prefixes);
* session: however the stream is cut, messages are handled whole, once and in
  order; a frame is processed only when authentication, routing table,
  interfaces and ARP subsystem are all there, and the routing table is the
  server's when it should be;
* loading a routing table: the entries are the lines, and nothing else;
* checksums, time to live, ICMP: a datagram arrives as it was sent or its sender
  hears of it, through any number of routers, and no datagram travels for ever;
* sending and logging: the result of `sr_send_packet` is true, the log is ahead
  of the wire, and messages stay whole as long as the buffer has room.

## Modules

| module | what it models |
|---|---|
| `SrAddresses` | the sets of IP and hardware addresses |
| `SrArpTable` | the table as a value: lookup, the slot insert picks, expiry, the passing of a second |
| `SrArpCache` | the table as a machine, one step per locked section; refines `ArpMap` |
| `ArpMap` | abstract specification: a finite map of bounded size with ages |
| `SrRoutes` | routing-table entries, the order in which they are preferred, the entry to use; next hop, outgoing and ICMP source interface for any table and interface list |
| `SrLpm` | the loop of `sr_find_lpm_route`, one entry per step |
| `SrRouting` | the interfaces and the routing table of one router as constants, and the lookups of `SrRoutes` in them |
| `SrRouter` | the two threads: table, queue, memory, program counters |
| `NextHopQueue` | abstract specification: datagrams wait for next hops, are released together or reported one by one |
| `SrRouterFate` | the mapping under which `SrRouter` refines `NextHopQueue` |
| `SrVnsSession` | `main` and the client side of the session, from loading the table to the last message |
| `SrRtLoad` | the loop of `sr_load_rt`, one line per step |
| `SrChecksum` | `cksum`, and RFC 1071 to compare it with |
| `SrJourney` | one datagram in a network of routers: headers, checksums, time to live, ICMP; uses the lookups of `SrRoutes` with the table of each router |
| `SrSendPacket` | `sr_send_packet` and `sr_log_packet` in both threads, the socket, the log, the end of `main` |
| `MCSrArpCache`, `MCSrLpm`, `MCSrRouter`, `MCSrVnsSession`, `MCSrRtLoad`, `MCSrJourney`, `MCSrSendPacket` | instances for TLC |
| `SrLemmas` | facts about numbers, sequences, the ARP table and route lookups that the proofs share |
| `SrRouterProofs`, `SrArpCacheProofs`, `SrLpmProofs`, `SrRtLoadProofs`, `SrVnsSessionProofs`, `SrSendPacketProofs`, `SrJourneyProofs` | proofs (`SrRouterProofs` has those about `SrRouterFate` too) |

`SrVnsSession` and `SrRouter` meet in two places: `Ready` states what `SrRouter`
and `SrRouting` assume of the interfaces and routes when a frame is received,
and `sr_load_rt_wrap` uses the result of `sr_load_rt` that `OneEntryPerLine`
describes (the table of the file, or the old table when the file has no line).

`SrRouter`, `SrJourney` and `SrSendPacket` cut one piece of code three ways.
`SrRouter` has the two threads, the table and the queue of one router, and takes
the outcome of `sr_valid_ip_packet` and the transmission of a frame as given.
`SrJourney` has the octets and several routers; waiting for a next hop is there
a choice of three outcomes (known, answers, never answers), the ones that
`Settled` says are all there are. `SrSendPacket` has what a transmission is.

### SrRouter

State. `entries` and `requests` are the table and the list of requests (a
sequence of addresses, head first); `heap` maps an address to the request
stored there and `alloc` says which addresses are allocated. `pc`, `pkt`, `ptr`
and `val` are, per thread, where it is in `sr_send_routed_ip_packet` and its
callers, the packet argument, the variable `req` and the register of an
increment. `cur`, `nxt` and `todo` are `req`, `next` and `pkt` of
`sr_arpcache_sweepreqs`. Times are ages: `heap[a].age` counts the seconds since
`req->sent`, `lag` the seconds since the sweeper read the clock. The other
variables are history used by the properties (`tx`, `accepted`, `sent`, `told`,
`answered`, `dropped`, `stale`, `uaf`).

Steps. A locked section of main is one step, possible only while the sweeper
sleeps (`CanLock`); what main does after `sr_arpcache_queuereq` has returned is
one step per memory access (`check`, `mark`, `load`, `store`). The sweeper's
sweep is a step per access too, since main's unlocked accesses can fall between
any two of them. Both threads run the same `Routed...` actions. A write through
a pointer to freed memory hits whatever was allocated there since, or nothing;
a read of free memory returns any count up to `ArpTries`.

Frames. A received IP frame carries what the decisions look at: addresses, TTL,
protocol and whether `sr_valid_ip_packet` accepts it. Echo and ARP replies go
straight out of the receiving interface and change no state, so they have no
action. Allocation failure is not modelled. `RTableAssumption` says that the
interface of every route exists, which `sr_verify_routing_table` checks before
any frame is processed.

Refinement. `NextHopQueue` has neither threads nor lists. `SrRouterFate` maps
the packet in main's hands to `hand`, the lists of queued requests to `waiting`
(for the request that the sweeper gives up on, only what it has not yet
answered) and the list that main took off the queue to `released`. Only data
packets count: ICMP errors that join a dying request are freed with it
(`router_waiters`). `Wait` requires that the hop is unknown when the datagram is
queued, which the code decides one locked section earlier.

### SrVnsSession

`opt` is the command line: whether there is a template (`-T`), the host to be
(`-v`) and the routing table file (`-r`). `files` has the default file and one
file per host: `sr_handle_rtable` writes the file of the host that the message
names, which is the one asked for with `-v`, while `main` reads the file of `-r`.
So the routes of a session with a template are the server's if `-r` names the
file of that host (`ServerTable`); with `-v sw1 -r rtable.vrhost` they are what an
earlier session has left there, although `main` says that it reads what it has
received (`ReceivedTable`, run `session_stale`). `pc` says where `main` is; while
`sr_connect_to_server` waits for a command it is the name of that command. `stream` holds the bytes on their way, each marked
with its message and its place in it, and `got` those that the two read loops
have stored. `recv` and `read` return any non-empty part of what is asked for.
Interrupted calls, and calls at the end of the stream (which the code repeats
for ever), change nothing. A message is handled in one step together with the
reading loop's return value. The server is external: it asks for
authentication, accepts or refuses it, sends the routing table of a template,
announces interfaces (perhaps twice) before it passes on frames, and may send a
banner, close, vanish or reset at any time. `Framed` says what is pending
(`Pending`) byte by byte: it begins with the first byte of the first message not
handled, each byte is followed by the next one sent (`NextByte`), and what comes
after the last (`Due`) is the beginning of a new message unless the server is
gone. A banner before the main loop is
an unexpected command and ends the program. Lengths below that of the length
field itself, failing allocations and unknown commands are not sent.

### SrRtLoad

`buf` is the four local buffers. What is on the stack before the first line is
any member of `Locals`; a word is a number, an interface or something
`inet_aton` refuses. A blank line, whose words `sscanf` does not replace, repeats
the entry above it, which changes no decision; a blank first line has none above
it and stands for what is on the stack (`OnlyFirstBlankCounts` says that this is
the only blank line that matters). That the table is cleared at the first line that converts,
and not at the start, is why a file without lines keeps the old one.

### SrJourney

Every handler puts at most one datagram on the wire, so the state is one frame
(`frame`) and where it is (`stage`, `wait`). A datagram is a record of the
fields that are read or written; `HeaderOctets` and `BodyOctets` are what
`cksum` runs over; an address is two words of the header, as in `sr_ip_hdr`.
Version, lengths and the like are `fit` (do they pass
`sr_valid_ip_packet`) and `id` (all other words of the header). There is one
action per way through `sr_handle_ip`, plus `Flush` and `GiveUp` for the queue.
A datagram that the sweeper's ICMP error sends to the dying next hop is lost, as
in `SrRouter`. Hosts, links, and the one alteration of a header that a link may
make, are external; hosts check what RFC 1071 makes them check.

A link alters one field, an address perhaps in both of its words. If the words
then still have the same sum (an address with its halves exchanged, one word one
more and the other one less), no checksum shows it and the datagram goes
on under the altered address. `unseen` remembers such an alteration, and
`Intact`, `QuotesSender` and `EchoReturns` are about journeys without one. With
any other alteration of one field, the two zeros of a word apart, a datagram gets
no further than the next router or host.

The model shows one consequence of `sr_utils.c:19` that `NothingVanishes` names
as an exception: `cksum` never yields 0, but a sender that follows RFC 1071
stores 0 when that is the complement of the sum. The comparisons in
`sr_valid_ip_packet` and `sr_handle_ip` then fail, and one correct header, or
echo request, in 65536 is dropped in silence. What routers themselves send is
not affected: they store 0xffff, which both tests accept (`LeavesValid`).

That errors about errors end (`Ends`) is true of the modelled network, where no
route leads to an interface of the router itself, and not of the code: two dead
next hops, each on the way to the address from which the router reports the
other, keep an error about an error coming every few seconds. The repository's
own `rtables/rtable_pa2b_lpm` is a table with which this can happen. For the same
reason the queue of `SrRouter` need not become empty; what holds of it with such a
table too is that each request leaves it (`RequestsEnd`, run `router_live`).

### SrSendPacket

`pc` says, per thread, whether it is between calls, before the first or the
second `fwrite` of a record, at the check of the addresses or in `write`. `wire`
holds the pieces written to the socket, of which the server has read the first
`read`; `Room` pieces fit in between. A write takes what fits and sleeps, and
meanwhile the other thread may write. When the connection is lost, a sleeping
write returns what it has taken, one that took nothing returns -1 or raises
SIGPIPE, which nothing handles. (`write(...) < total_len` compares signed with
unsigned; where `ssize_t` is wider than `int`, as on 64-bit systems, -1 is less.)
`full` remembers that a write had to wait: until then messages are whole
(`WholeUnlessFull`), from then on they may interleave on the wire. Records may
interleave in the log at any time, since each is two calls of `fwrite`; there is
no property about that, and the mending is the same for both, a lock.

## Runs

| run | result | what it shows |
|---|---|---|
| `router` | pass | all kinds of frames, two IP frames per behaviour, five tries as in the code, source and destination perhaps behind the same dead gateway: the queue, the pointers, the view of each thread, the fate of each datagram, unreachable reported only after five transmissions, and the refinement of `NextHopQueue` |
| `router_live` | pass | every accepted datagram is sent or reported and every request leaves the queue, where routes lead to the router's own addresses, one gateway may answer and one never does, and errors about errors may refill the queue for ever |
| `arp_table` | pass | one slot per address; the slots implement `ArpMap` |
| `lpm_walk` | pass | the walk finds the longest prefix |
| `session` | pass | messages are framed, the router is ready when it gets a frame, the assertion of `sr_arp_req_not_for_us` holds; with a template and the file of the host of `-v`, the routes used are those the server sent in this session; every message is handled, or the program ends, or the server is gone |
| `rt_load` | pass | the table is the file's lines; blank lines change no decision, unless the first line is blank |
| `journey` | pass | a datagram across three routers: checksums, time to live, damage (apart from what no checksum shows), echo replies, ICMP errors, and the end of every journey on this network |
| `send` | pass | what reaches the server and the log when two threads send without a lock |
| `router_uaf` | violation | main uses a request the sweeper has freed (`sr_router.c:560-563` against `sr_arpcache.c:121`) |
| `router_waiters` | violation | an ICMP error is freed with the request it joined (`sr_arpcache.h:52`) |
| `arp_table_full` | violation | a mapping that arrives at a full table is not stored (`sr_arpcache.c:167`, `:271`) |
| `session_stale` | violation | the table read after connecting is not the one received (`sr_main.c:150`) |

Each property of a passing run has a mutant: a plausible bug in one definition
(marked "Mutant:" where it is defined) under which TLC finds it violated.

Bounds. Two interfaces and 4-bit addresses suffice because the code compares
addresses only for equality and under masks. `MaxRx` of 2 or 3 lets two
datagrams wait on one request, wait on two, or wait on one while an error joins.
`ArpTries` is 5 where the number matters and 2 where only "again" and "enough"
do (in `router_live`). `MaxLag` of 1 lets a second pass during a sweep, so that a request marked by
main can look younger than the sweep's clock. The lifetime of a mapping is 1
second instead of 15: only "expired" and "not yet" are told apart. Three
addresses for requests allow a freed one to be reused while another is queued;
they are symmetric, and the symmetry is used in safety runs only.
In `router_live`, where the temporal properties and the errors about errors make
the state graph expensive, `MaxLag` is 0 and there is one kind of datagram; errors that join a
dying request are left to the safety run. `MCSrArpCache`
has three slots and four addresses, so the table fills up. `MCSrLpm` walks all
tables of up to three entries over four destinations, the four contiguous 3-bit
masks and one that is not.
`MCSrVnsSession` has a length field of two bytes, so that it can be split, and
messages of three and four bytes, or seven, which is too long. There are two
hosts, the one of `-v` and the default one, and `-r` names the file of either. Five messages
are the shortest session with a template that reaches a frame, and without one
leave room for a banner or a second announcement. `MCSrRtLoad` loads all files
of up to three lines out of eighteen.

`MCSrJourney` has octets of four bits, words of eight and addresses of two words,
so that sums carry and come to both zeros within a header; `cksum` does not
depend on the width. The addresses of the two hosts are each other's halves
exchanged, and an interface of the middle router has the same sum, so that a
link can replace each by another without a trace. The
network is that of `rtables/` with two leaves: the leaves' default routes and
the centre's prefixes overlap, which makes a loop for two destinations, and one
destination has no route at all. An ICMP error that has to go back over a dead
next hop makes an error about an error. `INIT_TTL` is 15, more than the longest
way (`Dist`). One alteration per journey is enough: a second could undo the first.
`MCSrSendPacket` has messages of two pieces and room for three, so that the
second message of two is cut. Two calls per thread put a whole message, or
record, between the parts of another.

Fairness (`FairSpec`). The clock ticks and the sweeper, which only waits for
sleeping to end, runs: weak fairness. main's locked sections are enabled only
while the sweeper sleeps; it sleeps a full second after every sweep, so a
waiting main gets the lock in one of infinitely many such seconds: strong
fairness of main's steps, the reception of frames excluded.

In `SrVnsSession` the program runs (weak fairness of its steps); nothing is
assumed of the server, which may stop at any point. In `SrJourney` frames on a
link arrive, and a waiting datagram is sent or given up, which is what `Settled`
shows of the queue. In `SrSendPacket` threads inside a call run, and the server
reads what has been sent. Without that a full buffer blocks the sweeper, which
holds the cache's lock, and with it main: `Returns` says nothing of a server that
stops reading. New calls need not come.

Stopping. A journey that is over, a table that is loaded, a client that has
ended or waits for a server that is gone, and threads without further frames
have nothing left to do; the runs about them do not check for deadlock.

## Proofs

Every theorem holds for every value of the constants that the named assumptions
allow: natural bounds, addresses different from 0 and at most `IpMax`, `NULL` not
an address, interfaces with addresses, well-typed routes, frames and messages,
messages longer than their length field. Nothing is assumed of `BitAnd`, except
for `LpmLongestPrefix` that under a contiguous mask it clears the bits after the
prefix (`AndAssumption`). The theorems about journeys have further assumptions,
which are discussed below.

| theorem | states | inductive invariant |
|---|---|---|
| `RouterType`, `RouterCalls`, `RouterRequests`, `RouterSweepPointers`, `RouterNoStranded` | `TypeOK`, `CallsOK`, `RequestsOK`, `SweepPointersOK`, `NoStranded` | their conjunction `Inv` |
| `RouterEarnedUnreachable` | `EarnedUnreachable` | `Inv` and `CountInv` |
| `RouterConserved` | `Conserved` | `Inv` and `FateInv` |
| `RouterImplementsQueue` | `SrRouter` implements `NextHopQueue` | `Inv` and `FateInv` |
| `ArpTableType`, `ArpTableUnique` | `TypeOK`, `UniqueMapping` | the two together |
| `ArpTableIsMap` | `SrArpCache` implements `ArpMap` | the same |
| `LpmType`, `LpmBestSoFar`, `LpmCorrect`, `LpmLongestPrefix` | `TypeOK`, `BestSoFar`, `WalkIsBestRoute`, `LongestPrefix` | `TypeOK` and `BestSoFar` |
| `LoadType`, `LoadOneEntryPerLine`, `LoadBlankLines` | `TypeOK`, `OneEntryPerLine`, `OnlyFirstBlankCounts` | `TypeInv` and `LoopInv` |
| `SessionFramed` | `Framed` | `FrameInv` |
| `SessionServerTable` | `ServerTable` | `FrameInv` and `TableInv` |
| `SessionTypes` | `TypeOK` | `FrameInv`, `MsgsOK` and `DataOK` |
| `SessionReady`, `SessionNoAbort` | `Ready`, `NoAbort` | these and `ReadyInv` |
| `SendTypes`, `SendAccounted` | `TypeOK`, `Accounted` | `TypeInv`, `SentInv` |
| `SendLogFirst`, `SendWholeUnlessFull` | `LogFirst`, `WholeUnlessFull` | `TypeInv` with `LogInv`, `WholeInv` |
| `JourneyTypes`, `JourneyLeavesValid`, `JourneyIntact`, `JourneyQuotesSender`, `JourneyEchoReturns` | `TypeOK`, `LeavesValid`, `Intact`, `QuotesSender`, `EchoReturns` | `JourneyInv` |
| `JourneyNothingVanishes` | `NothingVanishes` | `JourneyInv` and `FateInv` |

The two threads. `NoStranded` alone is not inductive: the packet is queued in a
later step than the lookup that missed, and `CallsOK` says that the miss still
holds then (only main inserts, and it is not inserting; the sweeper has the
lock). That a mapping learned removes the only request for its address needs
uniqueness from `RequestsOK`; uniqueness of list elements is needed for the
successor in `SweepPointersOK`, which in turn shows that the sweeper only
destroys what is queued. There is one lemma per group of actions and one step
per conjunct.

Counting. `times_sent` is incremented by both threads without a lock.
`CountInv` says that the count, or the value about to be stored, plus the
increments under way never exceeds the number of transmissions: a transmission
comes before its increment and a lost update only makes the count smaller. So
five counted requests are at least five transmitted ones. They may be more: a
lost update, or a check by main that comes late (`sr_router.c:560-563`), lets a
sixth request go out, which `sr_arpcache.h:51` ("until we send 5 ARP requests")
does not expect. As long as main has
not used a freed request (`uaf`): such a write may land in a new one.

Fates. `FateInv` says where each accepted datagram stands: in main's hands, at
one place of one list, or sent or reported once. It needs two facts that are
not about fates. Every queued packet carries the hardware address of an
interface as its source (`ListsOK`), or else the error would not be sent; and
the sweeper carries errors only (`HandOK`). With `FateInv` every step of
`SrRouter` is a step of `NextHopQueue` under the mapping of `SrRouterFate`, or a
stutter.

The ARP table. An insertion writes over the mapping of the same address if there
is one, so an address never gets a second slot; then the first hit and the last
hit of the three scans are the same slot, and the array is a map.

Routes. The walk ends at `BestRoute`, by the loop invariant `BestSoFar`.
`SrRouting` defines the lookup by `BestRoute`, so the two-thread model uses
exactly what the loop computes. `LongestPrefix` says what that is worth: masks
are compared as numbers, and among contiguous masks, whose blocks of addresses
halve with every bit (`BlockShrinks`), the larger number is the longer prefix.
Contiguity is a hypothesis of the property because the code does not ask for it.
For the loader, `LoopInv` adds to
`OneEntryPerLine` that the buffers hold the last word of each kind, which decides
how a short line is completed, and that the flag `clear_routing_table` says
whether a line has been read. A blank line thus repeats the entry above it, or
the stack at the beginning, and of equal entries `BestRoute` is the first.

The session. `FrameInv` is `Framed` with the types. All actions do one of five
things to the stream (`SessionSteps`): a message is sent, the end is cut off,
bytes are taken, a message is handled, nothing. The lemma that matters is
`LengthRight`: when the length field is complete it holds the length of the
first message not handled, because the bytes stored are the first bytes of that
message (`FirstMessage`, by the smallest place where they would not be).
`TableInv`, for a command line whose `-r` names the file of the host of `-v`, says
that no table is loaded before the one the server sent is in that file, and from
then on the table in use is one of those the server has sent.

What `sr_handle_hwinfo` leaves (`HwResult`) is proved entry by entry: were the
list wrong after some entry, it would be wrong after a first one, and no entry
makes a right list wrong. It rests on `HwAssumption`, which is about the server:
both addresses of an interface come before the next interface is named. (Nothing
in the code checks this; with an address left out, the router would have an
interface without one.) `ReadyInv` then collects what main has established by
each place of its start-up, and says that the list has every interface of the
announcements handled so far. Since messages are handled in the order in which
they were sent, the announcement that a frame depends on is among them.

Sending. `SentInv` adds that a thread inside `write` has put out exactly the
pieces before its position; `LogInv` that the record of a frame is complete
before its addresses are checked; `WholeInv` that while the buffer has never been
full the wire ends with a whole message.

Checksums. `cksum` is proved right for every width of an octet, in four steps.
`SumOf` and `Carry` are what their recursive definitions say (`SumsIs`,
`CarryIs`; the carry ends because each turn makes the sum smaller). A carried
sum is a word that differs from the sum by a multiple of `WordMax`, and is 0 only
for 0; so a header passes the test of RFC 1071 exactly if the sum of its words is
a positive multiple of `WordMax` (`ValidIsMultiple`), and one with
its `cksum` in place does (`SummedHeader`, `SummedBody`). Last, a change of a
field of one word changes the sum by less than `WordMax`, or by `WordMax` itself
between the two zeros of a word: two valid headers that differ in one field
differ in nothing but the zeros of `id` or of the checksum, or in an address whose
two words have the same sum up to a multiple of `WordMax` (`OneField`).

Journeys. `JourneyInv` says what is true of the frame under way. A datagram
whose header checksum is right, damaged or not, has a history (`Honest`), unless
the damage is `unseen`: it stems from the one that was sent, or a router made it, and then it is an error
about that one for its sender, an error about an error, which is addressed to a
router, or the echo reply. The properties about what hosts receive follow, since
a host receives only what is addressed to it with a right checksum (`Arrived`).
Two facts keep `Honest` inductive. Forwarding changes no field but the time to
live and the checksum, and keeps what an error quotes (`DecrementFacts`,
`StemsOn`, `QuoteFacts`); a wrong checksum is never put right, because
`sr_valid_ip_packet` comes first. And the datagram that a link damages was valid
until then (`Undamaged`), so that `OneField` applies: if it is still valid, no
more than its checksum or the zero of `id` has changed, or the damage is `unseen`. That an error about a
datagram in the queue is sent at all needs that the datagram is valid (`Placed`).

`FateInv` follows an undamaged journey whose next hops answer. `Track` says that
the datagram is on the way: the next hop is a host only if it is the
destination, and what a router made is addressed to the sender of the original
and has more time to live than there are routers left (`Dist`). So errors and
replies never run out of time, never meet a router without a route, and no error
about an error arises; what remains are the exceptions that `NothingVanishes`
names.

Assumptions. `NetworkAssumption`: an address is two words. `SizeAssumption`: octets
hold the ICMP types and an error quotes at least the header of the model, 14
octets (in the code 28, the header being 20). `HostAssumption`: hosts are not routers
and each has one at the end of its link. `SenderAssumption`: hosts send under
their own address with the checksum of RFC 1071. `RoutingAssumption`, which only
`JourneyNothingVanishes` uses: every table leads to every host, each hop nearer,
within `INIT_TTL`. It is about the network and not the code, and nothing is
assumed of destinations that are no hosts: their routes may loop or be missing.
TLC evaluates all of them on the network of the run.

Every invariant and refinement that a passing run checks is also proved. Only
model-checked are the liveness properties (`Settled`, `RequestsEnd`, `AllHandled`,
`Ends`, `Returns`), which are beyond the prover, and the runs that end in a
violation.

## Not modelled

SHA-1 is third-party code and the printing functions of `sr_utils.c`, `sr_if.c`
and `sr_rt.c` are output. The Python tests drive the router from outside. What a
log record says (time, lengths) and failing writes to the log are left out, and
so are failing allocations. A use of the log after `sr_destroy_instance` has
closed it is in the model (nothing is written, or the process ends) but no
property is about it; the same goes for the endless loop at the end of the
stream, since no document says what should happen. The order of packets that
wait for one next hop is reversed when they are sent; IP promises no order.
