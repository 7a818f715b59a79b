---------------------------- MODULE SrSendPacket ----------------------------
(***************************************************************************)
(* How frames get to the server and into the log: sr_send_packet and       *)
(* sr_log_packet of sr_vns_comm.c, sr_dump of sr_dumper.c and the end of   *)
(* main.  The thread that reads from the server and the sweeper call these *)
(* functions at the same time: no lock covers the socket or the log.       *)
(*                                                                         *)
(* A frame is logged with two calls of fwrite and goes to the server with  *)
(* one call of write, which sleeps while the socket's buffer is full: the  *)
(* other thread can write then.  Lengths count pieces, the unit in which   *)
(* the buffer takes bytes; every message has one more, for its header.     *)
(*                                                                         *)
(* The server and the socket are not part of the repository.               *)
(***************************************************************************)
EXTENDS Naturals, SequencesExt

CONSTANTS
  Frames,    \* what the callers may pass: [len, sane] records
  Received,  \* the frames that the server may deliver
  Room,      \* pieces that the socket's buffer holds
  MaxCalls   \* bound: frames that each thread sends or receives

\* len 0 is a frame shorter than an Ethernet header; sane is the outcome of
\* sr_ether_addrs_match_interface.
ASSUME FramesAssumption == Frames \cup Received \subseteq [len : Nat, sane : BOOLEAN]
ASSUME RoomAssumption   == Room \in Nat \ {0} /\ MaxCalls \in Nat

Threads == {"main", "sweeper"}
Labels  == {"idle", "header", "data", "check", "write", "exit"}

\* What a thread remembers of a frame.
Entry == [len : Nat, sane : BOOLEAN, task : {"send", "receive"}]

\* The n-th frame of a thread.
Id == Threads \X (1 .. MaxCalls)

VARIABLES
  pc,       \* where each thread is
  pos,      \* pieces of the message in hand that write has taken, 0 after it
  wire,     \* the pieces written to the socket: [id, k] records
  read,     \* how many of them the server has read
  conn,     \* the connection: "up" or "reset"
  log,      \* what the log holds: [id, part] records
  logfile,  \* sr->logfile: "none" (NULL), "open" or "closed" (dangling)
  made,     \* per thread, the frames it has had in hand, the last one now
  (* history *)
  result,   \* per thread, what became of them
  full      \* a write had to wait for room

vars == <<pc, made, pos, wire, read, conn, log, logfile, result, full>>

logVars  == <<log, logfile>>
wireVars == <<pos, wire, full>>
peerVars == <<read, conn>>

\* The frame that thread t has in hand, and its number.
frame(t)   == Last(made[t])
Current(t) == <<t, Len(made[t])>>

Goto(t, label) == pc' = [pc EXCEPT ![t] = label]

\* The call in hand returns.
Return(t, how) ==
  /\ Goto(t, "idle")
  /\ result' = [result EXCEPT ![t] = Append(@, how)]

\* main has opened the log, if it was asked to; sr_dump_open writes the header
\* of the file, which belongs to no frame.
Init ==
  /\ pc = [t \in Threads |-> "idle"]
  /\ pos = [t \in Threads |-> 0]
  /\ wire = <<>>
  /\ read = 0
  /\ conn = "up"
  /\ log = <<>>
  /\ logfile \in {"none", "open"}
  /\ made = [t \in Threads |-> <<>>]
  /\ result = [t \in Threads |-> <<>>]
  /\ full = FALSE

Take(t, f, what) ==
  /\ pc[t] = "idle"
  /\ Len(made[t]) < MaxCalls
  /\ made' = [made EXCEPT ![t] =
                Append(@, [len |-> f.len, sane |-> f.sane, task |-> what])]

\* Mutant: the frame is not logged.
CallUnlogged(t, f) ==
  /\ Take(t, f, "send")
  /\ IF f.len = 0 THEN Return(t, "error")
     ELSE Goto(t, "check") /\ UNCHANGED result
  /\ UNCHANGED <<wireVars, logVars, peerVars>>

\* sr_send_packet is called.  It refuses a frame that is far too short, and
\* otherwise makes the message and logs the frame first.
Call(t, f) ==
  /\ Take(t, f, "send")
  /\ IF f.len = 0 THEN Return(t, "error")
     ELSE Goto(t, IF logfile = "none" THEN "check" ELSE "header")
          /\ UNCHANGED result
  /\ UNCHANGED <<wireVars, logVars, peerVars>>

\* The main loop logs a frame that it has received.
Receive(f) ==
  /\ Take("main", f, "receive")
  /\ IF logfile = "none" THEN Return("main", "received")
     ELSE Goto("main", "header") /\ UNCHANGED result
  /\ UNCHANGED <<wireVars, logVars, peerVars>>

-----------------------------------------------------------------------------
(* The log.                                                                *)

\* fwrite of one part.  Main closes the log before the process ends, but does
\* not clear sr->logfile: what the sweeper writes then is lost, or anything
\* happens.  (An abort of the process is the action Exit.)
Dump(t, part) ==
  log' = IF logfile = "open" THEN Append(log, [id |-> Current(t), part |-> part])
         ELSE log

\* sr_dump writes the header of a record ...
DumpHeader(t) ==
  /\ pc[t] = "header"
  /\ Dump(t, "header")
  /\ Goto(t, "data")
  /\ UNCHANGED <<wireVars, peerVars, logfile, made, result>>

\* Where a thread goes when its record is complete: on with sr_send_packet, or
\* back to the main loop.
AfterLog(t) ==
  IF frame(t).task = "send" THEN Goto(t, "check") /\ UNCHANGED result
  ELSE Return(t, "received")

\* ... and then the frame, and sr_log_packet flushes both.
DumpData(t) ==
  /\ pc[t] = "data"
  /\ Dump(t, "data")
  /\ AfterLog(t)
  /\ UNCHANGED <<wireVars, peerVars, logfile, made>>

-----------------------------------------------------------------------------
(* The socket.                                                             *)

\* Mutant: the return after the error message is missing.
CheckFallsThrough(t) ==
  /\ pc[t] = "check"
  /\ Goto(t, "write")
  /\ result' = IF frame(t).sane THEN result
               ELSE [result EXCEPT ![t] = Append(@, "error")]
  /\ UNCHANGED <<wireVars, peerVars, logVars, made>>

\* sr_ether_addrs_match_interface
Check(t) ==
  /\ pc[t] = "check"
  /\ IF frame(t).sane THEN Goto(t, "write") /\ UNCHANGED result
     ELSE Return(t, "error")
  /\ UNCHANGED <<wireVars, peerVars, logVars, made>>

Free == Room - (Len(wire) - read)

\* Pieces a .. b of the message of thread t.
Pieces(t, a, b) == [k \in 1 .. b - a |-> [id |-> Current(t), k |-> a + k]]

Total(f) == f.len + 1

\* write appends what fits, and sleeps when that is not everything.
Enqueue(t, upto) ==
  LET n == IF upto - pos[t] <= Free THEN upto ELSE pos[t] + Free
  IN  /\ wire' = wire \o Pieces(t, pos[t], n)
      /\ pos' = [pos EXCEPT ![t] = n % Total(frame(t))]
      /\ full' = (full \/ n < upto)
      /\ IF n = Total(frame(t)) THEN Return(t, "ok")
         ELSE UNCHANGED <<pc, result>>

\* Mutant: the header of the message and the frame in two calls of write.
WriteTwice(t) ==
  /\ pc[t] = "write" /\ conn = "up" /\ Free > 0
  /\ Enqueue(t, IF pos[t] = 0 THEN 1 ELSE Total(frame(t)))
  /\ UNCHANGED <<peerVars, logVars, made>>

Write(t) ==
  /\ pc[t] = "write" /\ conn = "up" /\ Free > 0
  /\ Enqueue(t, Total(frame(t)))
  /\ UNCHANGED <<peerVars, logVars, made>>

\* Mutants: only a negative result counts as an error, a short one as success;
\* or a short write waits for the rest.
FailWhenNothing(t) ==
  /\ pc[t] = "write" /\ conn = "reset"
  /\ Return(t, IF pos[t] = 0 THEN "error" ELSE "ok")
  /\ pos' = [pos EXCEPT ![t] = 0]
  /\ UNCHANGED <<wire, full, peerVars, logVars, made>>

FailResumes(t) ==
  /\ pc[t] = "write" /\ conn = "reset" /\ pos[t] = 0
  /\ Return(t, "error")
  /\ UNCHANGED <<wireVars, peerVars, logVars, made>>

\* The connection is lost: write returns what it has taken so far, or -1.
\* Both are less than total_len.
WriteFails(t) ==
  /\ pc[t] = "write" /\ conn = "reset"
  /\ Return(t, "error")
  /\ pos' = [pos EXCEPT ![t] = 0]
  /\ UNCHANGED <<wire, full, peerVars, logVars, made>>

\* Nothing handles SIGPIPE, which a write after the first failure raises.
Sigpipe(t) ==
  /\ pc[t] = "write" /\ conn = "reset" /\ pos[t] = 0
  /\ pc' = [u \in Threads |-> "exit"]
  /\ UNCHANGED <<wireVars, peerVars, logVars, made, result>>

-----------------------------------------------------------------------------
(* The end of main, and the server.                                        *)

\* sr_destroy_instance, after the last message of the server.
sr_destroy_instance ==
  /\ pc["main"] = "idle"
  /\ Goto("main", "exit")
  /\ logfile' = IF logfile = "open" THEN "closed" ELSE logfile
  /\ UNCHANGED <<wireVars, peerVars, log, made, result>>

\* The process ends with main, wherever the sweeper is.
Exit ==
  /\ pc["main"] = "exit"
  /\ pc["sweeper"] # "exit"
  /\ Goto("sweeper", "exit")
  /\ UNCHANGED <<wireVars, peerVars, logVars, made, result>>

ServerReads ==
  /\ read < Len(wire)
  /\ read' = read + 1
  /\ UNCHANGED <<pc, wireVars, conn, logVars, made, result>>

\* The connection is lost with what is under way.
Reset ==
  /\ conn = "up"
  /\ conn' = "reset"
  /\ read' = Len(wire)
  /\ UNCHANGED <<pc, wireVars, logVars, made, result>>

Step(t) ==
  \/ DumpHeader(t)
  \/ DumpData(t)
  \/ Check(t)
  \/ Write(t)
  \/ WriteFails(t)
  \/ Sigpipe(t)

Next ==
  \/ \E t \in Threads :
       \/ Step(t)
       \/ \E f \in Frames : Call(t, f)
  \/ \E f \in Received : Receive(f)
  \/ sr_destroy_instance
  \/ Exit
  \/ ServerReads
  \/ Reset

Spec == Init /\ [][Next]_vars

\* A thread that can run does, and the server reads what there is to read.
FairSpec == /\ Spec
            /\ \A t \in Threads : WF_vars(Step(t))
            /\ WF_vars(ServerReads)

-----------------------------------------------------------------------------
(* Properties.                                                             *)

\* The variables have their types, and the buffer holds no more than it can.
TypeOK ==
  /\ pc \in [Threads -> Labels]
  /\ wire \in Seq([id : Id, k : Nat \ {0}])
  /\ read \in 0 .. Len(wire) /\ Len(wire) - read <= Room
  /\ conn \in {"up", "reset"}
  /\ log \in Seq([id : Id, part : {"header", "data"}])
  /\ logfile \in {"none", "open", "closed"}
  /\ \A t \in Threads :
       /\ made[t] \in Seq(Entry) /\ Len(made[t]) <= MaxCalls
       /\ result[t] \in Seq({"ok", "error", "received"})
       /\ pc[t] # "exit" =>
            Len(result[t]) = Len(made[t]) - (IF pc[t] = "idle" THEN 0 ELSE 1)
       /\ pos[t] \in Nat
       /\ pc[t] = "write" => pos[t] < Total(frame(t))
  /\ full \in BOOLEAN

\* The pieces of a message that are on the wire.
SentOf(id) == {wire[j].k : j \in {i \in DOMAIN wire : wire[i].id = id}}

\* sr_send_packet returns 0 only if the socket took the whole message, each
\* piece once and in order, and -1 only if it did not, whatever the other thread
\* wrote in between: the comparison with total_len catches short writes too.
Accounted ==
  /\ \A i, j \in DOMAIN wire :
       i < j /\ wire[i].id = wire[j].id => wire[i].k < wire[j].k
  /\ \A t \in Threads : \A n \in DOMAIN result[t] :
       LET sent  == SentOf(<<t, n>>)
           total == Total(made[t][n])
       IN  CASE result[t][n] = "ok"       -> sent = 1 .. total
             [] result[t][n] = "error"    -> \E m \in 0 .. total - 1 : sent = 1 .. m
             [] result[t][n] = "received" -> sent = {}

PartsOf(id) == {log[k].part : k \in {j \in DOMAIN log : log[j].id = id}}

\* While the log is open it is ahead of the wire: nothing of a frame goes out
\* before its record is complete, and when a call returns, also with an error
\* ("check log"), its frame is there to be looked at.
LogFirst ==
  logfile = "open" =>
    /\ \A k \in DOMAIN wire : PartsOf(wire[k].id) = {"header", "data"}
    /\ \A t \in Threads : \A n \in DOMAIN result[t] :
         made[t][n].len > 0 => PartsOf(<<t, n>>) = {"header", "data"}

\* As long as no write has had to wait for room, the server can tell the
\* messages apart although the threads share no lock: each is one call of
\* write, and its pieces follow one another.  Not any more once a write slept on a
\* full buffer: the other thread's message may then lie in the middle of its own.
WholeUnlessFull ==
  ~ full =>
    \A k \in 1 .. Len(wire) - 1 :
      LET p == wire[k]
          q == wire[k + 1]
      IN  \/ p.id = q.id /\ q.k = p.k + 1
          \/ q.k = 1 /\ p.k = Total(made[p.id[1]][p.id[2]])

\* Every call returns, or the process ends: a full buffer is drained, if only the
\* server reads (the fairness of FairSpec), and a lost connection is not waited for.
Returns ==
  \A t \in Threads :
    pc[t] \in {"header", "data", "check", "write"} ~> pc[t] \in {"idle", "exit"}

=============================================================================
