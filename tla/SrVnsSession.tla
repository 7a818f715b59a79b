---------------------------- MODULE SrVnsSession ----------------------------
(***************************************************************************)
(* The program from its start to its end as the server sees it: main of    *)
(* sr_main.c loads a routing table, connects, authenticates, opens the     *)
(* topology, starts the ARP subsystem and then handles one message after   *)
(* the other (sr_vns_comm.c).                                              *)
(*                                                                         *)
(* Messages arrive as a stream of bytes.  recv returns any non-empty part  *)
(* of what is asked for; a call that a signal interrupts changes nothing;  *)
(* at the end of the stream recv returns 0 and the loops ask again, which  *)
(* changes nothing either.                                                 *)
(*                                                                         *)
(* The server is external.  It announces the interfaces before it passes   *)
(* on frames, perhaps more than once; it may send a banner, close the      *)
(* session, vanish or reset the connection at any time.                    *)
(***************************************************************************)
EXTENDS SrRoutes, SequencesExt

CONSTANTS
  Options,    \* the command lines
  Hosts,      \* names of virtual hosts
  RTables,    \* the routing tables that a file or the server may hold
  NoFile,     \* a file that cannot be read or does not parse
  HwInfos,    \* the interface lists that the server may announce
  LenBytes,   \* bytes of the length field (4 in the code)
  Lens,       \* for each command, the lengths of its messages
  MaxLen,     \* longest message that is read (10000 in the code)
  MaxMsgs     \* bound: messages the server sends

\* The file that sr_handle_rtable writes for a host: "rtable." and its name.
RtableOf(host) == <<"rtable.", host>>

DEFAULT_RTABLE == <<"rtable">>

Files == {DEFAULT_RTABLE} \cup {RtableOf(h) : h \in Hosts}

\* Whether a topology template is asked for (-T), the host to be (-v), and the
\* routing table file (-r).
Option == [template : BOOLEAN, host : Hosts, rtable : Files]

Commands == {"VNS_AUTH_REQUEST", "VNS_AUTH_STATUS", "VNS_RTABLE", "VNSHWINFO",
             "VNSPACKET", "VNSBANNER", "VNSCLOSE"}

\* Entries of a VNSHWINFO message; HWMASK stands for all that have no effect.
HwEntry ==      [key : {"HWINTERFACE"}, value : Iface]
           \cup [key : {"HWETHER"}, value : Mac]
           \cup [key : {"HWETHIP"}, value : Ip]
           \cup [key : {"HWMASK"}, value : Nat]

\* The server names an interface before it gives its addresses, and gives them
\* both before it names another.
ASSUME HwAssumption ==
  \A h \in HwInfos :
    /\ h \in Seq(HwEntry)
    /\ h # <<>>
    /\ h[1].key = "HWINTERFACE"
    /\ \A k \in DOMAIN h : \A key \in {"HWETHIP", "HWETHER"} :
         h[k].key = "HWINTERFACE" =>
           \E j \in DOMAIN h : /\ k < j /\ h[j].key = key
                              /\ \A i \in k + 1 .. j : h[i].key # "HWINTERFACE"
ASSUME SessionAssumption == /\ Options \subseteq Option
                            /\ RTables \subseteq Seq(Route)
                            /\ NoFile \notin RTables
                            /\ LenBytes \in Nat \ {0}
                            /\ MaxLen \in Nat
                            /\ MaxMsgs \in Nat
                            /\ \A c \in Commands : \A n \in Lens[c] :
                                 n \in Nat /\ n > LenBytes

\* The commands that sr_read_from_server_expect may be told to expect; in the
\* main loop it expects none.
Expects == {"VNS_AUTH_REQUEST", "VNS_AUTH_STATUS", "VNS_RTABLE"}

VARIABLES
  (* server and network *)
  srv,        \* what the server does next
  msgs,       \* the messages it has sent
  stream,     \* bytes on their way: byte k of message m is <<m, k>>
  out,        \* the messages it has been sent
  (* program *)
  opt,        \* the command line
  pc,         \* where main is; a command while it waits for that command
  got,        \* bytes of the message being read
  files,      \* contents of the routing table files
  if_list, routing_table,
  started,    \* sr_init has run
  (* history *)
  handled,    \* numbers of the messages handled
  handed      \* sr_handlepacket has been called

serverVars  == <<srv, msgs, stream>>
dataVars    == <<opt, files, if_list, routing_table, started>>
historyVars == <<handled, handed>>
vars == <<serverVars, out, pc, got, dataVars, historyVars>>

\* sr_init_instance.  Only one file is ever read, so nothing is lost by starting
\* without the other files.
Init ==
  /\ srv = "listening"
  /\ msgs = <<>>
  /\ stream = <<>>
  /\ out = <<>>
  /\ opt \in Options
  /\ pc = "load"
  /\ got = <<>>
  /\ \E t \in RTables \cup {NoFile} :
       files = [f \in Files |-> IF f = opt.rtable THEN t ELSE NoFile]
  /\ if_list = <<>>
  /\ routing_table = <<>>
  /\ started = FALSE
  /\ handled = <<>>
  /\ handed = FALSE

-----------------------------------------------------------------------------
(* The server                                                              *)

BytesOf(m) == [k \in 1 .. msgs[m].len |-> <<m, k>>]

\* The server sends a message and goes on to state next.
Send(type, arg, next) ==
  /\ Len(msgs) < MaxMsgs
  /\ \E len \in Lens[type] :
       /\ msgs' = Append(msgs, [type |-> type, len |-> len, arg |-> arg])
       /\ stream' = stream \o [k \in 1 .. len |-> <<Len(msgs) + 1, k>>]
  /\ srv' = next
  /\ UNCHANGED <<out, pc, got, dataVars, historyVars>>

Talking == srv \notin {"listening", "closed", "eof", "reset"}

SrvAuthRequest == srv = "connected" /\ Send("VNS_AUTH_REQUEST", TRUE, "asked")

SrvAuthStatus ==
  /\ srv = "asked"
  /\ "VNS_AUTH_REPLY" \in Range(out)
  /\ \E ok \in BOOLEAN : Send("VNS_AUTH_STATUS", ok, "authenticated")

\* VNS_OPEN_TEMPLATE names the host, and the answer names it again.
SrvRtable ==
  /\ srv = "authenticated"
  /\ "VNS_OPEN_TEMPLATE" \in Range(out)
  /\ \E t \in RTables : Send("VNS_RTABLE", [host |-> opt.host, table |-> t], "open")

SrvHwinfo ==
  /\ \/ srv = "authenticated" /\ "VNSOPEN" \in Range(out)
     \/ srv \in {"open", "up"}
  /\ \E h \in HwInfos : Send("VNSHWINFO", h, "up")

\* A frame received on an interface that the server has announced.
Announced ==
  UNION {{msgs[m].arg[k].value : k \in {j \in DOMAIN msgs[m].arg :
                                          msgs[m].arg[j].key = "HWINTERFACE"}} :
           m \in {n \in DOMAIN msgs : msgs[n].type = "VNSHWINFO"}}

SrvPacket ==
  /\ srv = "up"
  /\ \E i \in Announced : Send("VNSPACKET", i, "up")

SrvBanner == Talking /\ Send("VNSBANNER", TRUE, srv)

SrvClose == Talking /\ Send("VNSCLOSE", TRUE, "closed")

\* The server vanishes: what it sent last may never arrive.
SrvGone ==
  /\ Talking
  /\ srv' \in {"eof", "reset"}
  /\ \E n \in 0 .. Len(stream) : stream' = SubSeq(stream, 1, n)
  /\ UNCHANGED <<msgs, out, pc, got, dataVars, historyVars>>

Server ==
  \/ SrvAuthRequest \/ SrvAuthStatus \/ SrvRtable \/ SrvHwinfo \/ SrvPacket
  \/ SrvBanner \/ SrvClose \/ SrvGone

-----------------------------------------------------------------------------
(* main: from the start to the main loop                                   *)

\* Mutant: the result of sr_load_rt is ignored.
LoadUnchecked(next) ==
  /\ routing_table' = IF files[opt.rtable] = <<>> THEN routing_table ELSE files[opt.rtable]
  /\ pc' = next

\* sr_load_rt_wrap: a table without entries leaves the old one in place (see
\* SrRtLoad), a file that cannot be loaded ends the program.
sr_load_rt_wrap(next) ==
  IF files[opt.rtable] = NoFile
  THEN pc' = "exit" /\ UNCHANGED routing_table
  ELSE /\ routing_table' = IF files[opt.rtable] = <<>> THEN routing_table
                                                   ELSE files[opt.rtable]
       /\ pc' = next

\* Mutant: the table is loaded with a template too.
LoadAlways ==
  /\ pc = "load"
  /\ IF files[opt.rtable] = NoFile THEN pc' = "connect" /\ UNCHANGED routing_table
                               ELSE sr_load_rt_wrap("connect")
  /\ UNCHANGED <<serverVars, out, got, opt, files, if_list, started, historyVars>>

\* With a template the table is not loaded before the session is open.
Load ==
  /\ pc = "load"
  /\ IF opt.template THEN pc' = "connect" /\ UNCHANGED routing_table
                 ELSE sr_load_rt_wrap("connect")
  /\ UNCHANGED <<serverVars, out, got, opt, files, if_list, started, historyVars>>

Connect ==
  /\ pc = "connect"
  /\ \/ pc' = "VNS_AUTH_REQUEST" /\ srv' = "connected"
     \/ pc' = "exit" /\ UNCHANGED srv
  /\ UNCHANGED <<msgs, stream, out, got, dataVars, historyVars>>

\* The end of sr_connect_to_server: VNSOPEN, or VNS_OPEN_TEMPLATE, after which
\* the server must send its routing table.
Open ==
  /\ pc = "open"
  /\ \/ /\ out' = Append(out, IF opt.template THEN "VNS_OPEN_TEMPLATE" ELSE "VNSOPEN")
        /\ pc' = IF opt.template THEN "VNS_RTABLE" ELSE "reload"
     \/ pc' = "exit" /\ UNCHANGED out
  /\ UNCHANGED <<serverVars, got, dataVars, historyVars>>

\* Whatever the host and the options, the file of -r is the one that is read.
Reload ==
  /\ pc = "reload"
  /\ sr_load_rt_wrap("init")
  /\ UNCHANGED <<serverVars, out, got, opt, files, if_list, started, historyVars>>

\* sr_init
Start ==
  /\ pc = "init"
  /\ started' = TRUE
  /\ pc' = "loop"
  /\ UNCHANGED <<serverVars, out, got, opt, files, if_list, routing_table, historyVars>>

-----------------------------------------------------------------------------
(* sr_read_from_server_expect: reading one message                         *)

Reading == pc \in Expects \cup {"loop"}

\* The number in the length field.  Bytes that are not the length field of one
\* message are taken to make a number that is too large.
LengthRead ==
  LET m == got[1][1]
  IN  IF SubSeq(got, 1, LenBytes) = SubSeq(BytesOf(m), 1, LenBytes)
      THEN msgs[m].len ELSE MaxLen + 1

\* Mutant: every part of the length field is stored at its beginning.
ConsumeAtStart(upto) ==
  \E n \in 1 .. Len(stream) :
    /\ Len(got) + n <= upto
    /\ got' = SubSeq(stream, 1, n)
    /\ stream' = SubSeq(stream, n + 1, Len(stream))

\* recv and read return some of the bytes still wanted.
Consume(upto) ==
  \E n \in 1 .. Len(stream) :
    /\ Len(got) + n <= upto
    /\ got' = got \o SubSeq(stream, 1, n)
    /\ stream' = SubSeq(stream, n + 1, Len(stream))

ReadLength ==
  /\ Reading
  /\ Len(got) < LenBytes
  /\ Consume(LenBytes)
  /\ UNCHANGED <<srv, msgs, out, pc, dataVars, historyVars>>

ReadTooLong ==
  /\ Reading
  /\ Len(got) = LenBytes
  /\ LengthRead > MaxLen
  /\ pc' = "exit"
  /\ UNCHANGED <<serverVars, out, got, dataVars, historyVars>>

\* Mutant: the length is taken for that of the rest of the message.
ReadBodyTooFar ==
  /\ Reading
  /\ Len(got) >= LenBytes
  /\ LengthRead <= MaxLen
  /\ Consume(LengthRead + LenBytes)
  /\ UNCHANGED <<srv, msgs, out, pc, dataVars, historyVars>>

ReadBody ==
  /\ Reading
  /\ Len(got) >= LenBytes
  /\ LengthRead <= MaxLen
  /\ Consume(LengthRead)
  /\ UNCHANGED <<srv, msgs, out, pc, dataVars, historyVars>>

\* recv or read fails.
ReadError ==
  /\ Reading
  /\ srv = "reset"
  /\ pc' = "exit"
  /\ UNCHANGED <<serverVars, out, got, dataVars, historyVars>>

\* A message is complete.
Complete == Reading /\ Len(got) >= LenBytes /\ Len(got) = LengthRead

Command == msgs[got[1][1]]

\* What follows when sr_read_from_server_expect returns 1, or something else.
After == [c \in Expects \cup {"loop"} |->
            CASE c = "VNS_AUTH_REQUEST" -> "VNS_AUTH_STATUS"
              [] c = "VNS_AUTH_STATUS"  -> "open"
              [] c = "VNS_RTABLE"       -> "reload"
              [] c = "loop"             -> "loop"]

Return(one) ==
  /\ pc' = IF one THEN After[pc] ELSE "exit"
  /\ handled' = Append(handled, got[1][1])
  /\ got' = <<>>
  /\ UNCHANGED serverVars

\* The command is the one expected, if one is.
Arrives(type) ==
  /\ Complete
  /\ Command.type = type
  /\ pc \in {type, "loop"}

Unexpected ==
  /\ Complete
  /\ pc # "loop"
  /\ Command.type \notin {pc, "VNSCLOSE"}
  /\ Return(FALSE)
  /\ UNCHANGED <<out, dataVars, handed>>

-----------------------------------------------------------------------------
(* sr_read_from_server_expect: handling it                                 *)

HandleClose ==
  /\ Complete
  /\ Command.type = "VNSCLOSE"
  /\ Return(FALSE)
  /\ UNCHANGED <<out, dataVars, handed>>

HandleBanner ==
  /\ Arrives("VNSBANNER")
  /\ Return(TRUE)
  /\ UNCHANGED <<out, dataVars, handed>>

\* The reply needs the file auth_key and a send that succeeds.
sr_handle_auth_request ==
  /\ Arrives("VNS_AUTH_REQUEST")
  /\ \/ out' = Append(out, "VNS_AUTH_REPLY") /\ Return(TRUE)
     \/ Return(FALSE) /\ UNCHANGED out
  /\ UNCHANGED <<dataVars, handed>>

sr_handle_auth_status ==
  /\ Arrives("VNS_AUTH_STATUS")
  /\ Return(Command.arg)
  /\ UNCHANGED <<out, dataVars, handed>>

\* The table is written to the file of the host that the message names, if that
\* can be done.
sr_handle_rtable ==
  /\ Arrives("VNS_RTABLE")
  /\ \/ /\ files' = [files EXCEPT ![RtableOf(Command.arg.host)] = Command.arg.table]
        /\ Return(TRUE)
     \/ Return(FALSE) /\ UNCHANGED files
  /\ UNCHANGED <<out, opt, if_list, routing_table, started, handed>>

\* Mutant: the special case of the empty list is taken always.
AddInterfaceAlone(list, name) == <<[name |-> name, ip |-> 0, mac |-> NoMac]>>

\* The addresses of the new record are not set (0 and NoMac say so).
sr_add_interface(list, name) ==
  Append(list, [name |-> name, ip |-> 0, mac |-> NoMac])

sr_set_ether_ip(list, ip) == [list EXCEPT ![Len(list)].ip = ip]

sr_set_ether_addr(list, mac) == [list EXCEPT ![Len(list)].mac = mac]

HwEffect(list, e) ==
  CASE e.key = "HWINTERFACE" -> sr_add_interface(list, e.value)
    [] e.key = "HWETHIP"     -> sr_set_ether_ip(list, e.value)
    [] e.key = "HWETHER"     -> sr_set_ether_addr(list, e.value)
    [] e.key = "HWMASK"      -> list

\* The interface list after each of the entries.
Filled(list, entries) ==
  LET filled[k \in 0 .. Len(entries)] ==
        IF k = 0 THEN list ELSE HwEffect(filled[k - 1], entries[k])
  IN  filled

sr_handle_hwinfo(list, entries) == Filled(list, entries)[Len(entries)]

Names(list) == {list[k].name : k \in DOMAIN list}

\* Mutant: it is enough that one interface of the table exists.
VerifyAny(table, list) ==
  /\ list # <<>>
  /\ table # <<>>
  /\ \E k \in DOMAIN table : table[k].iface \in Names(list)

\* sr_verify_routing_table returns 0.
sr_verify_routing_table(table, list) ==
  /\ list # <<>>
  /\ table # <<>>
  /\ \A k \in DOMAIN table : table[k].iface \in Names(list)

HandleHwinfo ==
  /\ Arrives("VNSHWINFO")
  /\ if_list' = sr_handle_hwinfo(if_list, Command.arg)
  /\ Return(sr_verify_routing_table(routing_table, if_list'))
  /\ UNCHANGED <<out, opt, files, routing_table, started, handed>>

\* sr_arp_req_not_for_us asserts that the interface exists (unless the frame is
\* shorter than an ARP packet); the frames that it keeps from sr_handlepacket
\* are told apart in SrRouter.
HandlePacket ==
  /\ Arrives("VNSPACKET")
  /\ IF Command.arg \in Names(if_list)
     THEN handed' \in {handed, TRUE} /\ Return(TRUE)
     ELSE pc' = "abort" /\ UNCHANGED <<serverVars, got, historyVars>>
  /\ UNCHANGED <<out, dataVars>>

Client ==
  \/ Load \/ Connect \/ Open \/ Reload \/ Start
  \/ ReadLength \/ ReadTooLong \/ ReadBody \/ ReadError
  \/ Unexpected \/ HandleClose \/ HandleBanner
  \/ sr_handle_auth_request \/ sr_handle_auth_status \/ sr_handle_rtable
  \/ HandleHwinfo \/ HandlePacket

Next == Server \/ Client

Spec == Init /\ [][Next]_vars

\* The program runs; the server owes nothing.
FairSpec == Spec /\ WF_vars(Client)

-----------------------------------------------------------------------------
(* Properties                                                              *)

\* The type invariant of the session.
TypeOK ==
  /\ srv \in {"listening", "connected", "asked", "authenticated", "open", "up",
              "closed", "eof", "reset"}
  /\ Len(msgs) <= MaxMsgs
  /\ \A m \in DOMAIN msgs : msgs[m].type \in Commands /\ msgs[m].len \in Lens[msgs[m].type]
  /\ Range(out) \subseteq {"VNS_AUTH_REPLY", "VNSOPEN", "VNS_OPEN_TEMPLATE"}
  /\ pc \in Expects \cup {"load", "connect", "open", "reload", "init", "loop",
                         "exit", "abort"}
  /\ opt \in Options
  /\ files \in [Files -> RTables \cup {NoFile}]
  /\ routing_table \in RTables \cup {<<>>}
  /\ \A k \in DOMAIN if_list :
       if_list[k] \in [name : Iface, ip : Ip \cup {0}, mac : Mac \cup {NoMac}]
  /\ started \in BOOLEAN
  /\ handed \in BOOLEAN

\* The bytes that main has not handled yet, stored or on their way.
Pending == got \o stream

\* The byte that the server sent after byte b.
NextByte(b) == IF b[2] < msgs[b[1]].len THEN <<b[1], b[2] + 1>> ELSE <<b[1] + 1, 1>>

\* The byte that comes after the pending ones.
Due == IF Pending = <<>> THEN <<Len(handled) + 1, 1>> ELSE NextByte(Last(Pending))

\* However the stream is cut by recv and read, the messages are handled one by
\* one, each once and whole: no byte is lost, read twice or taken for part of
\* another message (the two loops of sr_read_from_server_expect).
Framed ==
  /\ handled = [k \in 1 .. Len(handled) |-> k]
  /\ \A k \in DOMAIN got : got[k] = <<Len(handled) + 1, k>>
  /\ \A k \in DOMAIN Pending : Pending[k][1] \in DOMAIN msgs
  /\ Pending # <<>> => Pending[1] = <<Len(handled) + 1, 1>>
  /\ \A k \in 1 .. Len(Pending) - 1 : Pending[k + 1] = NextByte(Pending[k])
  /\ srv \notin {"eof", "reset"} => Due = <<Len(msgs) + 1, 1>>

\* The record that sr_get_interface finds.
sr_get_interface(list, name) ==
  list[CHOOSE k \in DOMAIN list :
         /\ list[k].name = name
         /\ \A j \in DOMAIN list : list[j].name = name => k <= j]

\* A frame reaches sr_handlepacket only in a router that is authenticated, has
\* started its ARP subsystem and has a routing table of which every interface
\* exists and has its addresses: what sr_router.c takes for granted, although
\* it is established by main, by the file and by four kinds of messages.
Ready ==
  handed =>
    /\ started
    /\ \E m \in Range(handled) : msgs[m].type = "VNS_AUTH_STATUS" /\ msgs[m].arg
    /\ routing_table # <<>>
    /\ \A k \in DOMAIN routing_table :
         /\ routing_table[k].iface \in Names(if_list)
         /\ LET i == sr_get_interface(if_list, routing_table[k].iface)
            IN  i.ip # 0 /\ i.mac # NoMac

\* The table in use is one that the server has sent in this session.
FromServer ==
  \E m \in Range(handled) :
    msgs[m].type = "VNS_RTABLE" /\ msgs[m].arg.table = routing_table

\* With a template, and -r naming the file of the host that -v names, frames are
\* routed by the table that the server sent in this session, never by one that
\* an earlier session has left in the file.
ServerTable ==
  handed /\ opt.template /\ opt.rtable = RtableOf(opt.host) => FromServer

\* Violated.  sr_main.c:150 says that with a template and the file rtable.vrhost
\* "we've recv'd the rtable now, so read it in".  With another host in -v the
\* table that was received is in another file, and the one that is read, and
\* used, is what an earlier session has left in rtable.vrhost.
ReceivedTable ==
  handed /\ opt.template /\ opt.rtable = RtableOf("vrhost") => FromServer

\* The assertion of sr_arp_req_not_for_us never fails: the interfaces a server
\* has announced are all in the list when a frame for one of them is handled.
NoAbort == pc # "abort"

\* A message that was sent is handled, unless the program has ended or the
\* server is gone: the loops of sr_read_from_server_expect neither wait for
\* bytes that are not due nor skip the end of a message.
AllHandled ==
  Len(handled) < Len(msgs) ~> \/ Len(handled) = Len(msgs)
                              \/ pc = "exit"
                              \/ srv \in {"eof", "reset"}

=============================================================================
