------------------------ MODULE SrSendPacketProofs --------------------------
(***************************************************************************)
(* Proofs about the frames that the two threads log and send at the same   *)
(* time, for every set of frames, every size of the socket's buffer and    *)
(* every number of calls.                                                  *)
(***************************************************************************)
EXTENDS SrSendPacket, SequenceTheorems, TLAPS

\* The types as the proofs need them, and what links the calls that a thread
\* has made to those that have returned.
Typed ==
  /\ pc \in [Threads -> Labels]
  /\ pos \in [Threads -> Nat]
  /\ made \in [Threads -> Seq(Entry)]
  /\ result \in [Threads -> Seq({"ok", "error", "received"})]
  /\ conn \in {"up", "reset"}
  /\ logfile \in {"none", "open", "closed"}
  /\ full \in BOOLEAN

\* A thread outside sr_send_packet has nothing of a message in hand.
CallOK(t) ==
  /\ Len(made[t]) <= MaxCalls
  /\ Len(result[t]) <= Len(made[t])
  /\ pc[t] = "idle" => Len(result[t]) = Len(made[t])
  /\ pc[t] \notin {"idle", "exit"} => Len(result[t]) = Len(made[t]) - 1
  /\ pc[t] = "write" => pos[t] < Total(frame(t))
  /\ pc[t] \notin {"write", "exit"} => pos[t] = 0

\* The socket's buffer.
WireOK ==
  /\ wire \in Seq([id : Id, k : Nat \ {0}])
  /\ read \in 0 .. Len(wire)
  /\ Len(wire) - read <= Room

LogOK == log \in Seq([id : Id, part : {"header", "data"}])

TypeInv == Typed /\ WireOK /\ LogOK /\ \A t \in Threads : CallOK(t)

-----------------------------------------------------------------------------
(* What the steps do.                                                      *)

LEMMA BothThreads ==
  /\ "main" \in Threads /\ "sweeper" \in Threads /\ "main" # "sweeper"
  /\ \A t \in Threads : t = "main" \/ t = "sweeper"
<1>1. Threads = {"main", "sweeper"} /\ "main" # "sweeper" BY DEF Threads
<1>2. QED BY <1>1

\* A message that was written up to its end starts again from 0.
LEMMA Wraps ==
  ASSUME NEW T \in Nat \ {0}, NEW n \in 0 .. T
  PROVE  n % T = IF n = T THEN 0 ELSE n
<1>1. CASE n = T BY <1>1
<1>2. CASE n # T BY <1>2
<1>3. QED BY <1>1, <1>2

\* The frame in hand.
LEMMA InHand ==
  ASSUME TypeInv, NEW t \in Threads, pc[t] \notin {"idle", "exit"}
  PROVE  /\ made[t] \in Seq(Entry)
         /\ Len(made[t]) \in 1 .. MaxCalls /\ Len(result[t]) = Len(made[t]) - 1
         /\ frame(t) \in Entry /\ frame(t) = made[t][Len(made[t])]
         /\ frame(t).len \in Nat /\ Total(frame(t)) \in Nat \ {0}
         /\ Current(t) = <<t, Len(made[t])>> /\ Current(t) \in Id
<1>1. made[t] \in Seq(Entry) /\ result[t] \in Seq({"ok", "error", "received"})
  BY DEF TypeInv, Typed
<1>2. /\ Len(made[t]) \in Nat /\ Len(result[t]) \in Nat
      /\ Len(made[t]) <= MaxCalls /\ Len(result[t]) = Len(made[t]) - 1
  <2>1. CallOK(t) BY DEF TypeInv
  <2>2. Len(made[t]) \in Nat /\ Len(result[t]) \in Nat BY <1>1
  <2>3. pc[t] # "exit" /\ pc[t] # "idle" OBVIOUS
  <2>4. Len(made[t]) <= MaxCalls /\ Len(result[t]) = Len(made[t]) - 1
    BY <2>1, <2>3 DEF CallOK
  <2>5. QED BY <2>2, <2>4
<1>3. Len(made[t]) \in 1 .. MaxCalls BY <1>2, RoomAssumption
<1>4. frame(t) = made[t][Len(made[t])] /\ frame(t) \in Entry
  BY <1>1, <1>3 DEF frame, Last
<1>5. frame(t).len \in Nat /\ Total(frame(t)) \in Nat \ {0}
  BY <1>4 DEF Entry, Total
<1>6. QED BY <1>1, <1>2, <1>3, <1>4, <1>5 DEF Current, Id

\* Pieces of a message.
LEMMA PiecesFacts ==
  ASSUME NEW t \in Threads, Current(t) \in Id, NEW a \in Nat, NEW b \in Nat, a <= b
  PROVE  /\ Pieces(t, a, b) \in Seq([id : Id, k : Nat \ {0}])
         /\ Len(Pieces(t, a, b)) = b - a
         /\ \A j \in 1 .. b - a : Pieces(t, a, b)[j] = [id |-> Current(t), k |-> a + j]
<1> DEFINE c == Current(t)
           s == [j \in 1 .. b - a |-> [id |-> c, k |-> a + j]]
<1>1. b - a \in Nat OBVIOUS
<1> HIDE DEF c
<1>2. \A j \in 1 .. b - a : [id |-> c, k |-> a + j] \in [id : Id, k : Nat \ {0}]
  BY DEF c
<1>3. s \in Seq([id : Id, k : Nat \ {0}]) BY <1>1, <1>2
<1>4. Len(s) = b - a BY <1>1, <1>3
<1>5. Pieces(t, a, b) = s BY DEF Pieces, c
<1>6. QED BY <1>3, <1>4, <1>5 DEF c

\* A frame is taken in hand: by a call of sr_send_packet or by the main loop.
Takes(t, e) ==
  /\ pc[t] = "idle" /\ Len(made[t]) < MaxCalls
  /\ made' = [made EXCEPT ![t] = Append(@, e)]
  /\ UNCHANGED <<wire, pos, full, log, logfile, read, conn>>
  /\ \/ /\ pc' = [pc EXCEPT ![t] = "idle"]
        /\ \E r \in {"error", "received"} : result' = [result EXCEPT ![t] = Append(@, r)]
        /\ e.len > 0 => logfile = "none"
     \/ /\ pc' = [pc EXCEPT ![t] = "check"] /\ result' = result /\ logfile = "none"
     \/ /\ pc' = [pc EXCEPT ![t] = "header"] /\ result' = result

LEMMA CallTakes ==
  ASSUME NEW t \in Threads, NEW f \in Frames, Call(t, f)
  PROVE  \E e \in Entry : Takes(t, e)
<1> DEFINE e == [len |-> f.len, sane |-> f.sane, task |-> "send"]
<1>1. e \in Entry /\ e.len = f.len BY FramesAssumption DEF Entry
<1>2. e.len > 0 => f.len # 0 BY <1>1
<1>3. /\ pc[t] = "idle" /\ Len(made[t]) < MaxCalls
      /\ made' = [made EXCEPT ![t] = Append(@, e)]
      /\ UNCHANGED <<wire, pos, full, log, logfile, read, conn>>
  BY DEF Call, Take, wireVars, logVars, peerVars
<1> HIDE DEF e
<1>4. CASE f.len = 0
  <2>1. /\ pc' = [pc EXCEPT ![t] = "idle"]
        /\ result' = [result EXCEPT ![t] = Append(@, "error")]
    BY <1>4 DEF Call, Return, Goto
  <2>2. QED BY <1>1, <1>2, <1>3, <1>4, <2>1 DEF Takes
<1>5. CASE f.len # 0
  <2>1. result' = result /\ pc' = [pc EXCEPT ![t] = IF logfile = "none" THEN "check" ELSE "header"]
    BY <1>5 DEF Call, Goto
  <2>2. QED BY <1>1, <1>3, <2>1 DEF Takes
<1>6. QED BY <1>4, <1>5

LEMMA ReceiveTakes ==
  ASSUME NEW f \in Received, Receive(f)
  PROVE  \E e \in Entry : Takes("main", e)
<1> DEFINE e == [len |-> f.len, sane |-> f.sane, task |-> "receive"]
<1>1. e \in Entry BY FramesAssumption DEF Entry
<1>2. /\ pc["main"] = "idle" /\ Len(made["main"]) < MaxCalls
      /\ made' = [made EXCEPT !["main"] = Append(@, e)]
      /\ UNCHANGED <<wire, pos, full, log, logfile, read, conn>>
  BY DEF Receive, Take, wireVars, logVars, peerVars
<1> HIDE DEF e
<1>3. CASE logfile = "none"
  <2>1. /\ pc' = [pc EXCEPT !["main"] = "idle"]
        /\ result' = [result EXCEPT !["main"] = Append(@, "received")]
    BY <1>3 DEF Receive, Return, Goto
  <2>2. QED BY <1>1, <1>2, <1>3, <2>1 DEF Takes
<1>4. CASE logfile # "none"
  <2>1. result' = result /\ pc' = [pc EXCEPT !["main"] = "header"]
    BY <1>4 DEF Receive, Goto
  <2>2. QED BY <1>1, <1>2, <2>1 DEF Takes
<1>5. QED BY <1>3, <1>4

\* A step of thread t that takes it to label l, or lets it return, and writes
\* nothing to the socket.
Moves(t, l) ==
  /\ \/ pc[t] = "header" /\ l = "data"
     \/ pc[t] = "data" /\ l \in {"check", "idle"}
     \/ pc[t] = "check" /\ l \in {"write", "idle"}
     \/ pc[t] = "write" /\ l = "idle"
  /\ pc' = [pc EXCEPT ![t] = l] /\ pos' = [pos EXCEPT ![t] = 0]
  /\ UNCHANGED <<made, wire, full, read, conn, logfile>>
  /\ log' = IF logfile = "open" /\ pc[t] \in {"header", "data"}
            THEN Append(log, [id |-> Current(t), part |-> pc[t]]) ELSE log
  /\ IF l # "idle" THEN result' = result
     ELSE \E r \in {"error", "received"} :
            /\ result' = [result EXCEPT ![t] = Append(@, r)]
            /\ r = "received" => pc[t] = "data"

\* The process ends, or main closes the log and leaves.
Exits ==
  /\ pc' \in [Threads -> Labels] /\ \A t \in Threads : pc'[t] \in {pc[t], "exit"}
  /\ UNCHANGED <<made, result, pos, wire, full, read, conn, log>>
  /\ logfile' \in {logfile, "closed"} /\ (logfile # "open" => logfile' = logfile)
  /\ pc'["main"] = "exit"
  /\ pc'["sweeper"] = "exit" \/ logfile' # "open"

\* The server reads, the connection is lost, or nothing happens.
Reads ==
  /\ read \in 0 .. Len(wire) => read' \in read .. Len(wire)
  /\ conn' \in {conn, "reset"}
  /\ UNCHANGED <<pc, made, result, pos, wire, full, log, logfile>>

\* What write takes of a message: pieces up to n.
Writes(t, n) ==
  /\ pc[t] = "write" /\ pos[t] < n /\ n <= Total(frame(t))
  /\ n - pos[t] <= Room - (Len(wire) - read)
  /\ wire' = wire \o Pieces(t, pos[t], n)
  /\ UNCHANGED <<made, read, conn, log, logfile>>
  /\ \/ /\ n = Total(frame(t)) /\ pos' = [pos EXCEPT ![t] = 0] /\ full' = full
        /\ pc' = [pc EXCEPT ![t] = "idle"]
        /\ result' = [result EXCEPT ![t] = Append(@, "ok")]
     \/ /\ n < Total(frame(t)) /\ pos' = [pos EXCEPT ![t] = n] /\ full' = TRUE
        /\ UNCHANGED <<pc, result>>

LEMMA WriteFacts ==
  ASSUME TypeInv, NEW t \in Threads, Write(t)
  PROVE  \E n \in Nat : Writes(t, n)
<1> DEFINE T == Total(frame(t))
           n == IF T - pos[t] <= Free THEN T ELSE pos[t] + Free
<1>1. /\ pc[t] = "write" /\ Free > 0 /\ wire' = wire \o Pieces(t, pos[t], n)
      /\ pos' = [pos EXCEPT ![t] = n % T] /\ full' = (full \/ n < T)
      /\ IF n = T THEN Return(t, "ok") ELSE UNCHANGED <<pc, result>>
      /\ UNCHANGED <<made, read, conn, log, logfile>>
  BY DEF Write, Enqueue, peerVars, logVars
<1>2. T \in Nat \ {0} /\ pos[t] \in Nat /\ pos[t] < T /\ full \in BOOLEAN
  BY <1>1, InHand DEF TypeInv, Typed, CallOK
<1>3. Free \in Int /\ Free = Room - (Len(wire) - read)
  BY RoomAssumption DEF Free, TypeInv, WireOK
<1> HIDE DEF T
<1>4. n \in Nat /\ pos[t] < n /\ n <= T /\ n - pos[t] <= Free
  <2>1. Free > 0 BY <1>1
  <2>2. QED BY <1>2, <1>3, <2>1
<1> HIDE DEF n
<1>a. n % T = IF n = T THEN 0 ELSE n
  <2>1. n \in 0 .. T BY <1>2, <1>4
  <2>2. QED BY <1>2, <2>1, Wraps
<1>5. CASE n = T
  <2>1. n % T = 0 BY <1>5, <1>a
  <2>2. ~ (n < T) BY <1>2, <1>4, <1>5
  <2>3. full' = full BY <1>1, <1>2, <2>2
  <2>4. /\ pc' = [pc EXCEPT ![t] = "idle"]
        /\ result' = [result EXCEPT ![t] = Append(@, "ok")]
    BY <1>1, <1>5 DEF Return, Goto
  <2>5. Writes(t, n) BY <1>1, <1>3, <1>4, <1>5, <2>1, <2>3, <2>4 DEF Writes, T
  <2>6. QED BY <1>4, <2>5
<1>6. CASE n # T
  <2>1. n % T = n BY <1>6, <1>a
  <2>2. n < T BY <1>2, <1>4, <1>6
  <2>3. full' = TRUE BY <1>1, <2>2
  <2>4. Writes(t, n) BY <1>1, <1>3, <1>4, <1>6, <2>1, <2>2, <2>3 DEF Writes, T
  <2>5. QED BY <1>4, <2>4
<1>7. QED BY <1>5, <1>6

LEMMA StepMoves ==
  ASSUME TypeInv, NEW t \in Threads,
         DumpHeader(t) \/ DumpData(t) \/ Check(t) \/ WriteFails(t)
  PROVE  \E l : Moves(t, l)
<1>1. pos \in [Threads -> Nat]
      /\ (pc[t] \notin {"write", "exit"} => pos[t] = 0)
  BY DEF TypeInv, Typed, CallOK
<1>2. pc[t] \notin {"write", "exit"} => pos = [pos EXCEPT ![t] = 0] BY <1>1
<1>3. CASE DumpHeader(t)
  <2>1. /\ pc[t] = "header" /\ pc' = [pc EXCEPT ![t] = "data"]
        /\ UNCHANGED <<made, wire, full, read, conn, logfile, pos, result>>
        /\ log' = IF logfile = "open"
                  THEN Append(log, [id |-> Current(t), part |-> "header"]) ELSE log
    BY <1>3 DEF DumpHeader, Dump, Goto, wireVars, peerVars
  <2>2. Moves(t, "data") BY <1>2, <2>1 DEF Moves
  <2>3. QED BY <2>2
<1>4. CASE DumpData(t)
  <2>1. /\ pc[t] = "data"
        /\ UNCHANGED <<made, wire, full, read, conn, logfile, pos>>
        /\ log' = IF logfile = "open"
                  THEN Append(log, [id |-> Current(t), part |-> "data"]) ELSE log
    BY <1>4 DEF DumpData, Dump, wireVars, peerVars
  <2>3. CASE frame(t).task = "send"
    <3>1. result' = result /\ pc' = [pc EXCEPT ![t] = "check"]
      BY <1>4, <2>3 DEF DumpData, AfterLog, Goto
    <3>2. Moves(t, "check") BY <1>2, <2>1, <3>1 DEF Moves
    <3>3. QED BY <3>2
  <2>4. CASE frame(t).task # "send"
    <3>1. /\ pc' = [pc EXCEPT ![t] = "idle"]
          /\ result' = [result EXCEPT ![t] = Append(@, "received")]
      BY <1>4, <2>4 DEF DumpData, AfterLog, Return, Goto
    <3>2. Moves(t, "idle") BY <1>2, <2>1, <3>1 DEF Moves
    <3>3. QED BY <3>2
  <2>5. QED BY <2>3, <2>4
<1>5. CASE Check(t)
  <2>1. /\ pc[t] = "check"
        /\ UNCHANGED <<made, wire, full, read, conn, logfile, pos, log>>
    BY <1>5 DEF Check, wireVars, peerVars, logVars
  <2>3. CASE frame(t).sane
    <3>1. result' = result /\ pc' = [pc EXCEPT ![t] = "write"]
      BY <1>5, <2>3 DEF Check, Goto
    <3>2. Moves(t, "write") BY <1>2, <2>1, <3>1 DEF Moves
    <3>3. QED BY <3>2
  <2>4. CASE ~ frame(t).sane
    <3>1. /\ pc' = [pc EXCEPT ![t] = "idle"]
          /\ result' = [result EXCEPT ![t] = Append(@, "error")]
      BY <1>5, <2>4 DEF Check, Return, Goto
    <3>2. Moves(t, "idle") BY <1>2, <2>1, <3>1 DEF Moves
    <3>3. QED BY <3>2
  <2>5. QED BY <2>3, <2>4
<1>6. CASE WriteFails(t)
  <2>1. /\ pc[t] = "write" /\ pos' = [pos EXCEPT ![t] = 0]
        /\ UNCHANGED <<made, wire, full, read, conn, logfile, log>>
        /\ pc' = [pc EXCEPT ![t] = "idle"]
        /\ result' = [result EXCEPT ![t] = Append(@, "error")]
    BY <1>6 DEF WriteFails, Return, Goto, peerVars, logVars
  <2>2. Moves(t, "idle") BY <2>1 DEF Moves
  <2>3. QED BY <2>2
<1>7. QED BY <1>3, <1>4, <1>5, <1>6

LEMMA EndExits ==
  ASSUME TypeInv, (\E t \in Threads : Sigpipe(t)) \/ sr_destroy_instance \/ Exit
  PROVE  Exits
<1>1. pc \in [Threads -> Labels] /\ "exit" \in Labels BY DEF TypeInv, Typed, Labels
<1>2. ASSUME NEW t \in Threads, Sigpipe(t) PROVE Exits
  <2>1. /\ pc' = [u \in Threads |-> "exit"]
        /\ UNCHANGED <<made, result, pos, wire, full, read, conn, log, logfile>>
    BY <1>2 DEF Sigpipe, wireVars, peerVars, logVars
  <2>2. QED BY <1>1, <2>1, BothThreads DEF Exits
<1>3. CASE sr_destroy_instance
  <2>1. /\ pc' = [pc EXCEPT !["main"] = "exit"]
        /\ UNCHANGED <<made, result, pos, wire, full, read, conn, log>>
        /\ logfile' = IF logfile = "open" THEN "closed" ELSE logfile
    BY <1>3 DEF sr_destroy_instance, Goto, wireVars, peerVars
  <2>2. QED BY <1>1, <2>1, BothThreads DEF Exits
<1>4. CASE Exit
  <2>1. /\ pc' = [pc EXCEPT !["sweeper"] = "exit"] /\ pc["main"] = "exit"
        /\ UNCHANGED <<made, result, pos, wire, full, read, conn, log, logfile>>
    BY <1>4 DEF Exit, Goto, wireVars, peerVars, logVars
  <2>2. QED BY <1>1, <2>1, BothThreads DEF Exits
<1>5. QED BY <1>2, <1>3, <1>4

\* Every step is of one of these kinds.
LEMMA KindsOfSteps ==
  ASSUME TypeInv, [Next]_vars
  PROVE  \/ \E t \in Threads, e \in Entry : Takes(t, e)
         \/ \E t \in Threads : \E l : Moves(t, l)
         \/ \E t \in Threads, n \in Nat : Writes(t, n)
         \/ Exits \/ Reads
<1>0. Len(wire) \in Nat /\ read \in Nat /\ read <= Len(wire)
  BY DEF TypeInv, WireOK
<1>1. ASSUME ServerReads \/ Reset \/ UNCHANGED vars PROVE Reads
  <2>1. UNCHANGED <<pc, made, result, pos, wire, full, log, logfile>>
    BY <1>1 DEF ServerReads, Reset, vars, wireVars, logVars
  <2>2. read' \in read .. Len(wire) /\ conn' \in {conn, "reset"}
    BY <1>0, <1>1 DEF ServerReads, Reset, vars
  <2>3. QED BY <2>1, <2>2 DEF Reads
<1>2. CASE \E t \in Threads : Step(t)
  BY <1>2, StepMoves, WriteFacts, EndExits DEF Step
<1>3. QED
  BY <1>1, <1>2, CallTakes, ReceiveTakes, EndExits, BothThreads DEF Next

-----------------------------------------------------------------------------
(* Types.                                                                  *)

\* One of the sequences per thread grows by one element.
LEMMA Grown ==
  ASSUME NEW S, NEW f \in [Threads -> Seq(S)], NEW t \in Threads, NEW x \in S,
         NEW g, g = [f EXCEPT ![t] = Append(@, x)]
  PROVE  /\ g \in [Threads -> Seq(S)]
         /\ \A u \in Threads : u # t => g[u] = f[u]
         /\ Len(f[t]) \in Nat /\ Len(g[t]) = Len(f[t]) + 1
         /\ \A u \in Threads : \A n \in 1 .. Len(f[u]) :
              g[u][n] = f[u][n] /\ n \in 1 .. Len(g[u])
         /\ g[t][Len(f[t]) + 1] = x
         /\ DOMAIN g[t] = 1 .. Len(f[t]) + 1 /\ DOMAIN f[t] = 1 .. Len(f[t])
<1>1. /\ Append(f[t], x) \in Seq(S) /\ Len(f[t]) \in Nat
      /\ Len(Append(f[t], x)) = Len(f[t]) + 1
      /\ \A n \in 1 .. Len(f[t]) : Append(f[t], x)[n] = f[t][n]
      /\ Append(f[t], x)[Len(f[t]) + 1] = x
  OBVIOUS
<1>2. g[t] = Append(f[t], x) /\ \A u \in Threads : u # t => g[u] = f[u] OBVIOUS
<1>3. g \in [Threads -> Seq(S)] BY <1>1
<1>4. \A n \in 1 .. Len(f[t]) : n \in 1 .. Len(f[t]) + 1 BY <1>1
<1>5. DOMAIN g[t] = 1 .. Len(f[t]) + 1 /\ DOMAIN f[t] = 1 .. Len(f[t])
  BY <1>1, <1>2
<1>6. QED BY <1>1, <1>2, <1>3, <1>4, <1>5

LEMMA TypeInit == Init => TypeInv
<1> SUFFICES ASSUME Init PROVE TypeInv OBVIOUS
<1>1. Typed
  <2>1. pc \in [Threads -> Labels] /\ pos \in [Threads -> Nat] BY DEF Init, Labels
  <2>2. made \in [Threads -> Seq(Entry)] BY DEF Init
  <2>3. result \in [Threads -> Seq({"ok", "error", "received"})] BY DEF Init
  <2>4. full \in BOOLEAN BY DEF Init
  <2>5. conn \in {"up", "reset"} /\ logfile \in {"none", "open", "closed"} BY DEF Init
  <2>6. QED BY <2>1, <2>2, <2>3, <2>4, <2>5 DEF Typed
<1>2. WireOK BY RoomAssumption DEF Init, WireOK
<1>3. LogOK BY DEF Init, LogOK
<1>4. ASSUME NEW t \in Threads PROVE CallOK(t)
  <2>1. /\ pc[t] = "idle" /\ pos[t] = 0 /\ made[t] = <<>> /\ result[t] = <<>>
    BY DEF Init
  <2>2. Len(made[t]) = 0 /\ Len(result[t]) = 0 BY <2>1
  <2>3. QED BY <2>1, <2>2, RoomAssumption DEF CallOK
<1>5. QED BY <1>1, <1>2, <1>3, <1>4 DEF TypeInv

LEMMA OtherCallKept ==
  ASSUME NEW u \in Threads, CallOK(u), pc'[u] = pc[u], pos'[u] = pos[u],
         made'[u] = made[u], result'[u] = result[u]
  PROVE  CallOK(u)'
BY DEF CallOK, frame

LEMMA TakeTyped ==
  ASSUME TypeInv, NEW t \in Threads, NEW e \in Entry, Takes(t, e)
  PROVE  TypeInv'
<1>0. Typed /\ CallOK(t) /\ \A u \in Threads : CallOK(u) BY DEF TypeInv
<1>1. /\ made' \in [Threads -> Seq(Entry)]
      /\ \A u \in Threads : u # t => made'[u] = made[u]
      /\ Len(made[t]) \in Nat /\ Len(made'[t]) = Len(made[t]) + 1
  BY <1>0, Grown DEF Takes, Typed
<1>2. /\ pc' \in [Threads -> Labels]
      /\ \A u \in Threads : u # t => pc'[u] = pc[u]
      /\ pc'[t] \in {"idle", "check", "header"} /\ pc[t] = "idle"
      /\ Len(made[t]) < MaxCalls
  BY <1>0 DEF Takes, Typed, Labels
<1>3. /\ result' \in [Threads -> Seq({"ok", "error", "received"})]
      /\ \A u \in Threads : u # t => result'[u] = result[u]
      /\ Len(result[t]) \in Nat
      /\ pc'[t] = "idle" => Len(result'[t]) = Len(result[t]) + 1
      /\ pc'[t] # "idle" => Len(result'[t]) = Len(result[t])
  <2>1. CASE pc'[t] = "idle"
    <3>1. PICK r \in {"ok", "error", "received"} :
            result' = [result EXCEPT ![t] = Append(@, r)]
      BY <1>0, <2>1 DEF Takes, Typed
    <3>2. QED BY <1>0, <2>1, <3>1, Grown DEF Typed
  <2>2. CASE pc'[t] # "idle"
    <3>1. result' = result BY <1>0, <2>2 DEF Takes, Typed
    <3>2. Len(result[t]) \in Nat BY <1>0 DEF Typed
    <3>3. QED BY <1>0, <2>2, <3>1, <3>2 DEF Typed
  <2>3. QED BY <2>1, <2>2
<1>4. Typed' BY <1>0, <1>1, <1>2, <1>3 DEF Typed, Takes
<1>5. WireOK' /\ LogOK' BY DEF TypeInv, WireOK, LogOK, Takes
<1>6. ASSUME NEW u \in Threads PROVE CallOK(u)'
  <2>1. CASE u # t
    BY <1>0, <1>1, <1>2, <1>3, <2>1, OtherCallKept DEF Takes
  <2>2. CASE u = t
    <3>1. Len(result[t]) = Len(made[t]) /\ pos[t] = 0 /\ pos'[t] = 0
      BY <1>0, <1>1, <1>2, <1>3 DEF CallOK, Takes
    <3>2. Len(made'[t]) <= MaxCalls BY <1>1, <1>2, RoomAssumption
    <3>3. /\ pc'[t] = "idle" => Len(result'[t]) = Len(made'[t])
          /\ pc'[t] # "idle" => Len(result'[t]) = Len(made'[t]) - 1
          /\ Len(result'[t]) <= Len(made'[t])
      BY <1>1, <1>3, <3>1
    <3>4. QED BY <1>2, <2>2, <3>1, <3>2, <3>3 DEF CallOK
  <2>3. QED BY <2>1, <2>2
<1>7. QED BY <1>4, <1>5, <1>6 DEF TypeInv

\* What a move leaves behind.
LEMMA MoveThreads ==
  ASSUME TypeInv, NEW t \in Threads, NEW l, Moves(t, l)
  PROVE  /\ pc[t] \notin {"idle", "exit"} /\ l \in Labels \ {"exit", "header"}
         /\ pc'[t] = l /\ pos'[t] = 0
         /\ \A u \in Threads : u # t => /\ pc'[u] = pc[u] /\ pos'[u] = pos[u]
                                        /\ result'[u] = result[u]
         /\ made' = made /\ wire' = wire /\ logfile' = logfile
         /\ Len(result[t]) \in Nat
         /\ result' \in [Threads -> Seq({"ok", "error", "received"})]
         /\ \A u \in Threads : \A n \in 1 .. Len(result[u]) :
              result'[u][n] = result[u][n] /\ n \in 1 .. Len(result'[u])
         /\ l = "idle" => /\ Len(result'[t]) = Len(result[t]) + 1
                          /\ result'[t][Len(result[t]) + 1] \in {"error", "received"}
                          /\ result'[t][Len(result[t]) + 1] = "received" => pc[t] = "data"
         /\ l # "idle" => result' = result
<1>0. Typed BY DEF TypeInv
<1>1. /\ pc[t] \notin {"idle", "exit"} /\ l \in Labels \ {"exit", "header"}
      /\ made' = made /\ wire' = wire /\ logfile' = logfile
  BY DEF Moves, Labels
<1>2. /\ pc'[t] = l /\ pos'[t] = 0
      /\ \A u \in Threads : u # t => pc'[u] = pc[u] /\ pos'[u] = pos[u]
  BY <1>0 DEF Moves, Typed
<1>3. Len(result[t]) \in Nat BY <1>0 DEF Typed
<1>4. CASE l = "idle"
  <2>1. PICK r \in {"error", "received"} :
          /\ result' = [result EXCEPT ![t] = Append(@, r)]
          /\ r = "received" => pc[t] = "data"
    BY <1>4 DEF Moves
  <2>2. r \in {"ok", "error", "received"} BY <2>1
  <2>3. /\ result' \in [Threads -> Seq({"ok", "error", "received"})]
        /\ \A u \in Threads : u # t => result'[u] = result[u]
        /\ Len(result'[t]) = Len(result[t]) + 1
        /\ \A u \in Threads : \A n \in 1 .. Len(result[u]) :
             result'[u][n] = result[u][n] /\ n \in 1 .. Len(result'[u])
        /\ result'[t][Len(result[t]) + 1] = r
    BY <1>0, <2>1, <2>2, Grown DEF Typed
  <2>4. QED BY <1>1, <1>2, <1>3, <1>4, <2>1, <2>3
<1>5. CASE l # "idle"
  <2>1. result' = result BY <1>5 DEF Moves
  <2>2. QED BY <1>0, <1>1, <1>2, <1>3, <1>5, <2>1 DEF Typed
<1>6. QED BY <1>4, <1>5

LEMMA MoveTyped ==
  ASSUME TypeInv, NEW t \in Threads, NEW l, Moves(t, l)
  PROVE  TypeInv'
<1>0. Typed /\ CallOK(t) /\ \A u \in Threads : CallOK(u) BY DEF TypeInv
<1>1. /\ Current(t) \in Id /\ Len(made[t]) \in 1 .. MaxCalls
      /\ Len(result[t]) = Len(made[t]) - 1 /\ Total(frame(t)) \in Nat \ {0}
  BY InHand, MoveThreads
<1>2. Typed'
  <2>1. pc' \in [Threads -> Labels] /\ pos' \in [Threads -> Nat]
    BY <1>0, MoveThreads DEF Moves, Typed
  <2>3. QED BY <1>0, <2>1, MoveThreads DEF Typed, Moves
<1>3. WireOK' BY DEF TypeInv, WireOK, Moves
<1>4. LogOK'
  <2>1. pc[t] \in {"header", "data"} =>
          [id |-> Current(t), part |-> pc[t]] \in [id : Id, part : {"header", "data"}]
    BY <1>1
  <2>2. log \in Seq([id : Id, part : {"header", "data"}]) BY DEF TypeInv, LogOK
  <2>3. CASE logfile = "open" /\ pc[t] \in {"header", "data"}
    <3>1. log' = Append(log, [id |-> Current(t), part |-> pc[t]])
      BY <2>3 DEF Moves
    <3>2. QED BY <2>1, <2>2, <2>3, <3>1 DEF LogOK
  <2>4. CASE ~ (logfile = "open" /\ pc[t] \in {"header", "data"})
    <3>1. log' = log BY <2>4 DEF Moves
    <3>2. QED BY <2>2, <3>1 DEF LogOK
  <2>5. QED BY <2>3, <2>4
<1>5. ASSUME NEW u \in Threads PROVE CallOK(u)'
  <2>1. CASE u # t BY <1>0, <2>1, MoveThreads, OtherCallKept
  <2>2. CASE u = t
    <3>1. /\ pc'[t] = l /\ pos'[t] = 0 /\ made' = made /\ l # "exit"
          /\ Len(result[t]) \in Nat
          /\ l = "idle" => Len(result'[t]) = Len(result[t]) + 1
          /\ l # "idle" => Len(result'[t]) = Len(result[t])
      BY MoveThreads
    <3>2. /\ pc'[t] = "idle" => Len(result'[t]) = Len(made'[t])
          /\ pc'[t] # "idle" => Len(result'[t]) = Len(made'[t]) - 1
          /\ Len(result'[t]) <= Len(made'[t])
      BY <1>1, <3>1
    <3>3. Len(made'[t]) <= MaxCalls BY <1>1, <3>1, RoomAssumption
    <3>4. Total(frame(t))' = Total(frame(t)) BY <3>1 DEF frame, Total
    <3>5. pos'[t] < Total(frame(t))' BY <1>1, <3>1, <3>4
    <3>6. QED BY <2>2, <3>1, <3>2, <3>3, <3>5 DEF CallOK
  <2>3. QED BY <2>1, <2>2
<1>6. QED BY <1>2, <1>3, <1>4, <1>5 DEF TypeInv

\* What write leaves on the wire.
LEMMA WireGrows ==
  ASSUME TypeInv, NEW t \in Threads, NEW n \in Nat, Writes(t, n)
  PROVE  /\ wire' \in Seq([id : Id, k : Nat \ {0}])
         /\ Len(wire) \in Nat /\ Len(wire') = Len(wire) + (n - pos[t])
         /\ DOMAIN wire = 1 .. Len(wire) /\ DOMAIN wire' = 1 .. Len(wire')
         /\ \A j \in 1 .. Len(wire) : wire'[j] = wire[j]
         /\ \A j \in Len(wire) + 1 .. Len(wire') :
              wire'[j] = [id |-> Current(t), k |-> pos[t] + (j - Len(wire))]
         /\ pos[t] \in Nat /\ pos[t] < n
<1>0. WireOK /\ pos[t] \in Nat BY DEF TypeInv, Typed
<1>1. pos[t] < n /\ pos[t] <= n /\ Current(t) \in Id
  <2>1. pc[t] = "write" /\ pos[t] < n BY DEF Writes
  <2>2. pos[t] <= n BY <1>0, <2>1
  <2>3. Current(t) \in Id BY <2>1, InHand
  <2>4. QED BY <2>1, <2>2, <2>3
<1>2. PICK s : s = Pieces(t, pos[t], n) OBVIOUS
<1>3. /\ s \in Seq([id : Id, k : Nat \ {0}]) /\ Len(s) = n - pos[t]
      /\ \A j \in 1 .. n - pos[t] : s[j] = [id |-> Current(t), k |-> pos[t] + j]
  BY <1>0, <1>1, <1>2, PiecesFacts
<1>4. wire' = wire \o s /\ wire \in Seq([id : Id, k : Nat \ {0}])
  BY <1>0, <1>2 DEF Writes, WireOK
<1>5. /\ wire' \in Seq([id : Id, k : Nat \ {0}]) /\ Len(wire) \in Nat
      /\ Len(wire') = Len(wire) + Len(s)
      /\ DOMAIN wire = 1 .. Len(wire) /\ DOMAIN wire' = 1 .. Len(wire')
      /\ \A j \in 1 .. Len(wire) : wire'[j] = wire[j]
      /\ \A j \in Len(wire) + 1 .. Len(wire) + Len(s) : wire'[j] = s[j - Len(wire)]
  BY <1>3, <1>4
<1>6. \A j \in Len(wire) + 1 .. Len(wire') :
        wire'[j] = [id |-> Current(t), k |-> pos[t] + (j - Len(wire))]
  <2> TAKE j \in Len(wire) + 1 .. Len(wire')
  <2>1. j - Len(wire) \in 1 .. n - pos[t] BY <1>0, <1>1, <1>3, <1>5
  <2>2. QED BY <1>3, <1>5, <2>1
<1>7. QED BY <1>0, <1>1, <1>3, <1>5, <1>6

\* What write does to the threads.
LEMMA WriteTypes ==
  ASSUME TypeInv, NEW t \in Threads, NEW n \in Nat, Writes(t, n)
  PROVE  /\ pc' \in [Threads -> Labels] /\ pos' \in [Threads -> Nat]
         /\ result' \in [Threads -> Seq({"ok", "error", "received"})]
         /\ full' \in BOOLEAN
<1>1. /\ pc \in [Threads -> Labels] /\ pos \in [Threads -> Nat]
      /\ result \in [Threads -> Seq({"ok", "error", "received"})]
      /\ full \in BOOLEAN
  BY DEF TypeInv, Typed
<1>2. CASE /\ n = Total(frame(t)) /\ pos' = [pos EXCEPT ![t] = 0] /\ full' = full
           /\ pc' = [pc EXCEPT ![t] = "idle"]
           /\ result' = [result EXCEPT ![t] = Append(@, "ok")]
  <2>1. pos' \in [Threads -> Nat] /\ pc' \in [Threads -> Labels]
    BY <1>1, <1>2 DEF Labels
  <2>2. result' \in [Threads -> Seq({"ok", "error", "received"})]
    BY <1>1, <1>2, Grown
  <2>3. full' \in BOOLEAN BY <1>1, <1>2
  <2>4. QED BY <2>1, <2>2, <2>3
<1>3. CASE /\ n < Total(frame(t)) /\ pos' = [pos EXCEPT ![t] = n] /\ full' = TRUE
           /\ UNCHANGED <<pc, result>>
  BY <1>1, <1>3
<1>4. QED BY <1>2, <1>3 DEF Writes

LEMMA WriteResults ==
  ASSUME TypeInv, NEW t \in Threads, NEW n \in Nat, Writes(t, n)
  PROVE  /\ \A u \in Threads : \A m \in 1 .. Len(result[u]) :
              result'[u][m] = result[u][m] /\ m \in 1 .. Len(result'[u])
         /\ pc'[t] = "idle" => /\ n = Total(frame(t))
                               /\ result'[t][Len(result[t]) + 1] = "ok"
<1>1. /\ pc \in [Threads -> Labels] /\ pc[t] = "write"
      /\ result \in [Threads -> Seq({"ok", "error", "received"})]
  BY DEF TypeInv, Typed, Writes
<1>2. CASE /\ n = Total(frame(t)) /\ pos' = [pos EXCEPT ![t] = 0] /\ full' = full
           /\ pc' = [pc EXCEPT ![t] = "idle"]
           /\ result' = [result EXCEPT ![t] = Append(@, "ok")]
  <2>1. /\ \A u \in Threads : \A m \in 1 .. Len(result[u]) :
             result'[u][m] = result[u][m] /\ m \in 1 .. Len(result'[u])
        /\ result'[t][Len(result[t]) + 1] = "ok"
    BY <1>1, <1>2, Grown
  <2>2. QED BY <1>2, <2>1
<1>3. CASE /\ n < Total(frame(t)) /\ pos' = [pos EXCEPT ![t] = n] /\ full' = TRUE
           /\ UNCHANGED <<pc, result>>
  BY <1>1, <1>3
<1>4. QED BY <1>2, <1>3 DEF Writes

LEMMA WriteOthers ==
  ASSUME TypeInv, NEW t \in Threads, NEW n \in Nat, Writes(t, n),
         NEW u \in Threads, u # t
  PROVE  pc'[u] = pc[u] /\ pos'[u] = pos[u] /\ result'[u] = result[u]
<1>1. /\ pc \in [Threads -> Labels] /\ pos \in [Threads -> Nat]
      /\ result \in [Threads -> Seq({"ok", "error", "received"})]
  BY DEF TypeInv, Typed
<1>2. QED BY <1>1 DEF Writes

LEMMA WriteSelf ==
  ASSUME TypeInv, NEW t \in Threads, NEW n \in Nat, Writes(t, n)
  PROVE  /\ pc'[t] \in {"idle", "write"} /\ Len(result[t]) \in Nat
         /\ pc'[t] = "idle" => pos'[t] = 0 /\ Len(result'[t]) = Len(result[t]) + 1
         /\ pc'[t] = "write" => /\ n < Total(frame(t)) /\ pos'[t] = n
                                /\ Len(result'[t]) = Len(result[t])
<1>1. /\ pc \in [Threads -> Labels] /\ pos \in [Threads -> Nat]
      /\ result \in [Threads -> Seq({"ok", "error", "received"})]
      /\ pc[t] = "write"
  BY DEF TypeInv, Typed, Writes
<1>2. Len(result[t]) \in Nat BY <1>1
<1>3. CASE /\ n = Total(frame(t)) /\ pos' = [pos EXCEPT ![t] = 0] /\ full' = full
           /\ pc' = [pc EXCEPT ![t] = "idle"]
           /\ result' = [result EXCEPT ![t] = Append(@, "ok")]
  BY <1>1, <1>2, <1>3
<1>4. CASE /\ n < Total(frame(t)) /\ pos' = [pos EXCEPT ![t] = n] /\ full' = TRUE
           /\ UNCHANGED <<pc, result>>
  BY <1>1, <1>2, <1>4
<1>5. QED BY <1>3, <1>4 DEF Writes

LEMMA WriteTyped ==
  ASSUME TypeInv, NEW t \in Threads, NEW n \in Nat, Writes(t, n)
  PROVE  TypeInv'
<1>0. Typed /\ WireOK /\ LogOK /\ \A u \in Threads : CallOK(u) BY DEF TypeInv
<1>1. /\ made' = made /\ read' = read /\ conn' = conn /\ log' = log
      /\ logfile' = logfile
      /\ n - pos[t] <= Room - (Len(wire) - read) /\ pos[t] < n
  BY DEF Writes
<1>2. Typed'
  <2>1. /\ pc' \in [Threads -> Labels] /\ pos' \in [Threads -> Nat]
        /\ result' \in [Threads -> Seq({"ok", "error", "received"})]
        /\ full' \in BOOLEAN
    BY WriteTypes
  <2>3. QED BY <1>0, <1>1, <2>1 DEF Typed
<1>3. WireOK'
  <2>1. /\ wire' \in Seq([id : Id, k : Nat \ {0}])
        /\ Len(wire) \in Nat /\ Len(wire') = Len(wire) + (n - pos[t]) /\ pos[t] \in Nat
    BY WireGrows
  <2>2. read \in 0 .. Len(wire) /\ Room \in Nat BY <1>0, RoomAssumption DEF WireOK
  <2>3. read' \in 0 .. Len(wire') /\ Len(wire') - read' <= Room
    BY <1>1, <2>1, <2>2
  <2>4. QED BY <2>1, <2>3 DEF WireOK
<1>4. LogOK' BY <1>0, <1>1 DEF LogOK
<1>5. ASSUME NEW u \in Threads PROVE CallOK(u)'
  <2>1. CASE u # t
    <3>1. pc'[u] = pc[u] /\ pos'[u] = pos[u] /\ result'[u] = result[u]
      BY <2>1, WriteOthers
    <3>2. QED BY <1>0, <1>1, <2>1, <3>1, OtherCallKept
  <2>2. CASE u = t
    <3>1. Len(made[t]) \in 1 .. MaxCalls /\ Len(result[t]) = Len(made[t]) - 1
      BY InHand DEF Writes
    <3>2. /\ pc'[t] \in {"idle", "write"} /\ Len(result[t]) \in Nat
          /\ pc'[t] = "idle" => pos'[t] = 0 /\ Len(result'[t]) = Len(result[t]) + 1
          /\ pc'[t] = "write" => /\ n < Total(frame(t)) /\ pos'[t] = n
                                 /\ Len(result'[t]) = Len(result[t])
      BY WriteSelf
    <3>3. /\ pc'[t] = "idle" => Len(result'[t]) = Len(made'[t])
          /\ pc'[t] # "idle" => Len(result'[t]) = Len(made'[t]) - 1
          /\ Len(result'[t]) <= Len(made'[t])
      BY <1>1, <3>1, <3>2
    <3>4. Len(made'[t]) <= MaxCalls BY <1>1, <3>1, RoomAssumption
    <3>5. Total(frame(t))' = Total(frame(t)) BY <1>1 DEF frame, Total
    <3>6. QED BY <2>2, <3>2, <3>3, <3>4, <3>5 DEF CallOK
  <2>3. QED BY <2>1, <2>2
<1>6. QED BY <1>2, <1>3, <1>4, <1>5 DEF TypeInv

LEMMA QuietTyped ==
  ASSUME TypeInv, Exits \/ Reads
  PROVE  TypeInv'
<1>0. Typed /\ WireOK /\ LogOK /\ \A u \in Threads : CallOK(u) BY DEF TypeInv
<1>1. /\ UNCHANGED <<made, result, pos, wire, full, log>>
      /\ pc' \in [Threads -> Labels] /\ \A t \in Threads : pc'[t] \in {pc[t], "exit"}
      /\ logfile' \in {logfile, "closed"} /\ conn' \in {conn, "reset"}
  BY <1>0 DEF Exits, Reads, Typed
<1>2. Typed'
  <2>1. conn' \in {"up", "reset"} /\ logfile' \in {"none", "open", "closed"}
    BY <1>0, <1>1 DEF Typed
  <2>2. full' \in BOOLEAN BY <1>0, <1>1 DEF Typed
  <2>3. QED BY <1>0, <1>1, <2>1, <2>2 DEF Typed
<1>3. WireOK'
  <2>1. /\ wire' \in Seq([id : Id, k : Nat \ {0}]) /\ Len(wire) \in Nat
        /\ read \in 0 .. Len(wire) /\ Len(wire) - read <= Room
    BY <1>0, <1>1 DEF WireOK
  <2>2. read' \in read .. Len(wire) BY <2>1 DEF Exits, Reads
  <2>3. read' \in 0 .. Len(wire) /\ Len(wire) - read' <= Room
    BY <2>1, <2>2, RoomAssumption
  <2>4. QED BY <1>1, <2>1, <2>3 DEF WireOK
<1>4. LogOK' BY <1>0, <1>1 DEF LogOK
<1>5. ASSUME NEW u \in Threads PROVE CallOK(u)'
  <2>1. pc'[u] = pc[u] \/ pc'[u] = "exit" BY <1>1
  <2>2. Total(frame(u))' = Total(frame(u)) BY <1>1 DEF frame, Total
  <2>3. CallOK(u) BY <1>0
  <2>4. QED BY <1>1, <2>1, <2>2, <2>3 DEF CallOK
<1>6. QED BY <1>2, <1>3, <1>4, <1>5 DEF TypeInv

LEMMA TypeStep == TypeInv /\ [Next]_vars => TypeInv'
BY KindsOfSteps, TakeTyped, MoveTyped, WriteTyped, QuietTyped

LEMMA TypeHolds == Spec => []TypeInv
BY TypeInit, TypeStep, PTL DEF Spec

\* sr_send_packet never leaves the thread's place in the message, its frames and
\* its results out of step, and never puts more into the socket than there is
\* room for, whatever the other thread does meanwhile.
THEOREM SendTypes == Spec => []TypeOK
<1>1. TypeInv => TypeOK
  <2> SUFFICES ASSUME TypeInv PROVE TypeOK OBVIOUS
  <2>1. Typed /\ WireOK /\ LogOK /\ \A t \in Threads : CallOK(t) BY DEF TypeInv
  <2>2. ASSUME NEW t \in Threads
        PROVE  /\ made[t] \in Seq(Entry) /\ Len(made[t]) <= MaxCalls
               /\ result[t] \in Seq({"ok", "error", "received"})
               /\ pc[t] # "exit" =>
                    Len(result[t]) = Len(made[t]) - (IF pc[t] = "idle" THEN 0 ELSE 1)
               /\ pos[t] \in Nat
               /\ pc[t] = "write" => pos[t] < Total(frame(t))
    <3>1. /\ made[t] \in Seq(Entry) /\ result[t] \in Seq({"ok", "error", "received"})
          /\ pos[t] \in Nat
      BY <2>1 DEF Typed
    <3>2. /\ Len(made[t]) <= MaxCalls
          /\ pc[t] = "write" => pos[t] < Total(frame(t))
      BY <2>1 DEF CallOK
    <3>3. CASE pc[t] = "idle"
      <4>1. Len(result[t]) = Len(made[t]) - 0 BY <2>1, <3>1, <3>3 DEF CallOK
      <4>2. QED BY <3>1, <3>2, <3>3, <4>1
    <3>4. CASE pc[t] # "idle"
      <4>1. pc[t] # "exit" => Len(result[t]) = Len(made[t]) - 1
        BY <2>1, <3>4 DEF CallOK
      <4>2. QED BY <3>1, <3>2, <3>4, <4>1
    <3>5. QED BY <3>3, <3>4
  <2>3. QED BY <2>1, <2>2 DEF TypeOK, Typed, WireOK, LogOK
<1>2. QED BY <1>1, TypeHolds, PTL

-----------------------------------------------------------------------------
(* Every message is accounted for.                                         *)

\* What is on the wire of the message of a call that has not returned.
SentOK ==
  /\ \A j \in DOMAIN wire : wire[j].id[2] <= Len(made[wire[j].id[1]])
  /\ \A t \in Threads :
       pc[t] \notin {"idle", "exit"} => SentOf(Current(t)) = 1 .. pos[t]

\* The pieces of one message are on the wire in their order.
Ordered ==
  \A i, j \in DOMAIN wire :
    i < j /\ wire[i].id = wire[j].id => wire[i].k < wire[j].k

\* The outcome of a call says what went out.
Fate(how, sent, total) ==
  /\ how = "ok" => sent = 1 .. total
  /\ how = "error" => \E m \in 0 .. total - 1 : sent = 1 .. m
  /\ how = "received" => sent = {}

FatesOK ==
  \A t \in Threads : \A n \in 1 .. Len(result[t]) :
    Fate(result[t][n], SentOf(<<t, n>>), Total(made[t][n]))

SentInv == SentOK /\ Ordered /\ FatesOK

LEMMA AccountedParts == TypeInv => (Accounted <=> Ordered /\ FatesOK)
<1> SUFFICES ASSUME TypeInv PROVE Accounted <=> Ordered /\ FatesOK OBVIOUS
<1>1. \A t \in Threads : /\ DOMAIN result[t] = 1 .. Len(result[t])
                         /\ \A n \in 1 .. Len(result[t]) :
                              result[t][n] \in {"ok", "error", "received"}
  BY DEF TypeInv, Typed
<1>2. ASSUME NEW t \in Threads, NEW n \in 1 .. Len(result[t])
      PROVE  Fate(result[t][n], SentOf(<<t, n>>), Total(made[t][n])) <=>
               LET sent  == SentOf(<<t, n>>)
                   total == Total(made[t][n])
               IN  CASE result[t][n] = "ok"       -> sent = 1 .. total
                     [] result[t][n] = "error"    -> \E m \in 0 .. total - 1 : sent = 1 .. m
                     [] result[t][n] = "received" -> sent = {}
  <2>1. result[t][n] \in {"ok", "error", "received"} BY <1>1, <1>2
  <2>2. CASE result[t][n] = "ok" BY <2>2 DEF Fate
  <2>3. CASE result[t][n] = "error" BY <2>3 DEF Fate
  <2>4. CASE result[t][n] = "received" BY <2>4 DEF Fate
  <2>5. QED BY <2>1, <2>2, <2>3, <2>4
<1>3. QED BY <1>1, <1>2 DEF Accounted, Ordered, FatesOK

LEMMA PieceId ==
  ASSUME TypeInv, NEW j \in DOMAIN wire
  PROVE  \E u \in Threads, m \in 1 .. MaxCalls : wire[j].id = <<u, m>>
<1>1. wire \in Seq([id : Id, k : Nat \ {0}]) BY DEF TypeInv, WireOK
<1>2. wire[j] \in [id : Id, k : Nat \ {0}]
  <2>1. DOMAIN wire = 1 .. Len(wire) BY <1>1
  <2>2. QED BY <1>1, <2>1, ElementOfSeq
<1>3. wire[j].id \in Id BY <1>2
<1>4. QED BY <1>3 DEF Id

\* Nothing is on the wire of a message that has not been made.
LEMMA NotMade ==
  ASSUME TypeInv, SentOK, NEW t \in Threads, NEW n \in Nat, n > Len(made[t])
  PROVE  SentOf(<<t, n>>) = {}
<1>1. Len(made[t]) \in Nat BY DEF TypeInv, Typed
<1>2. \A j \in DOMAIN wire : wire[j].id[2] <= Len(made[wire[j].id[1]]) BY DEF SentOK
<1>3. ASSUME NEW j \in DOMAIN wire, wire[j].id = <<t, n>> PROVE FALSE
  <2>1. wire[j].id[1] = t /\ wire[j].id[2] = n BY <1>3
  <2>2. n <= Len(made[t]) BY <1>2, <2>1
  <2>3. QED BY <1>1, <2>2
<1>4. QED BY <1>3 DEF SentOf

LEMMA SameWire ==
  ASSUME wire' = wire
  PROVE  /\ \A id : SentOf(id)' = SentOf(id)
         /\ Ordered => Ordered'
BY DEF SentOf, Ordered

LEMMA TakeSent ==
  ASSUME TypeInv, TypeInv', SentOK, Ordered, FatesOK,
         NEW t \in Threads, NEW e \in Entry, Takes(t, e)
  PROVE  SentOK' /\ Ordered' /\ FatesOK'
<1>0. Typed /\ CallOK(t) BY DEF TypeInv
<1>1. /\ made' \in [Threads -> Seq(Entry)]
      /\ \A u \in Threads : u # t => made'[u] = made[u]
      /\ Len(made[t]) \in Nat /\ Len(made'[t]) = Len(made[t]) + 1
      /\ \A u \in Threads : \A n \in 1 .. Len(made[u]) :
           made'[u][n] = made[u][n] /\ n \in 1 .. Len(made'[u])
      /\ made'[t][Len(made[t]) + 1] = e
  BY <1>0, Grown DEF Takes, Typed
<1>2. /\ wire' = wire /\ pos' = pos /\ pc[t] = "idle"
      /\ pc'[t] \in {"idle", "check", "header"} /\ pos[t] = 0
      /\ \A u \in Threads : u # t => pc'[u] = pc[u]
      /\ Len(result[t]) = Len(made[t])
  BY <1>0 DEF Takes, Typed, CallOK
<1>3. \A u \in Threads : Len(made[u]) \in Nat /\ Len(made[u]) <= Len(made'[u])
  <2> TAKE u \in Threads
  <2>1. Len(made[u]) \in Nat BY <1>0 DEF Typed
  <2>2. QED BY <1>1, <2>1
<1>4. \A id : SentOf(id)' = SentOf(id) BY <1>2, SameWire
<1>5. SentOf(<<t, Len(made[t]) + 1>>) = {} BY <1>1, NotMade
<1>6. \A j \in DOMAIN wire' : wire'[j].id[2] <= Len(made'[wire'[j].id[1]])
  <2> TAKE j \in DOMAIN wire'
  <2>1. wire'[j] = wire[j] /\ j \in DOMAIN wire
        /\ wire[j].id[2] <= Len(made[wire[j].id[1]])
    BY <1>2 DEF SentOK
  <2>2. PICK u \in Threads, m \in 1 .. MaxCalls : wire[j].id = <<u, m>>
    BY <2>1, PieceId
  <2>3. m <= Len(made[u]) BY <2>1, <2>2
  <2>4. Len(made'[u]) \in Nat /\ m \in Nat BY <1>1, RoomAssumption
  <2>5. m <= Len(made'[u]) BY <1>3, <2>3, <2>4
  <2>6. QED BY <2>1, <2>2, <2>5
<1>7. ASSUME NEW u \in Threads, pc'[u] \notin {"idle", "exit"}
      PROVE  SentOf(Current(u))' = 1 .. pos'[u]
  <2>0. PICK c : c = <<u, Len(made'[u])>> OBVIOUS
  <2>1. Current(u)' = c BY <2>0 DEF Current
  <2>2. SentOf(Current(u))' = SentOf(c) BY <1>4, <2>1 DEF SentOf
  <2>3. CASE u = t
    <3>1. c = <<t, Len(made[t]) + 1>> BY <1>1, <2>0, <2>3
    <3>2. SentOf(c) = {} BY <1>5, <3>1
    <3>3. pos'[u] = 0 /\ 1 .. 0 = {} BY <1>2, <2>3
    <3>4. QED BY <2>2, <3>2, <3>3
  <2>4. CASE u # t
    <3>1. SentOf(Current(u)) = 1 .. pos[u] BY <1>2, <1>7, <2>4 DEF SentOK
    <3>2. Current(u) = c BY <1>1, <2>0, <2>4 DEF Current
    <3>3. QED BY <1>2, <2>2, <3>1, <3>2
  <2>5. QED BY <2>3, <2>4
<1>8. SentOK' BY <1>6, <1>7 DEF SentOK
<1>9. ASSUME NEW u \in Threads, NEW n \in 1 .. Len(result'[u])
      PROVE  Fate(result'[u][n], SentOf(<<u, n>>)', Total(made'[u][n]))
  <2>0. /\ result' \in [Threads -> Seq({"ok", "error", "received"})]
        /\ Len(result[u]) \in Nat /\ Len(result[u]) <= Len(made[u])
    BY <1>0 DEF TypeInv, Typed, CallOK
  <2>1. CASE n \in 1 .. Len(result[u])
    <3>1. n \in 1 .. Len(made[u]) BY <1>3, <2>0, <2>1
    <3>2. made'[u][n] = made[u][n] BY <1>1, <3>1
    <3>3. result'[u][n] = result[u][n]
      <4>1. CASE result' = result BY <4>1
      <4>2. ASSUME NEW r \in {"error", "received"},
                   result' = [result EXCEPT ![t] = Append(@, r)]
            PROVE  result'[u][n] = result[u][n]
        BY <1>0, <2>1, <4>2, Grown DEF Typed
      <4>3. QED BY <4>1, <4>2 DEF Takes
    <3>4. Fate(result[u][n], SentOf(<<u, n>>), Total(made[u][n])) BY <2>1 DEF FatesOK
    <3>5. QED BY <1>4, <3>2, <3>3, <3>4
  <2>2. CASE n \notin 1 .. Len(result[u])
    <3>1. result' # result BY <2>2
    <3>2. PICK r \in {"error", "received"} :
            result' = [result EXCEPT ![t] = Append(@, r)]
      BY <3>1 DEF Takes
    <3>3. r \in {"ok", "error", "received"} BY <3>2
    <3>4. /\ \A v \in Threads : v # t => result'[v] = result[v]
          /\ Len(result'[t]) = Len(result[t]) + 1
          /\ result'[t][Len(result[t]) + 1] = r
      BY <1>0, <3>2, <3>3, Grown DEF Typed
    <3>5. u = t BY <2>2, <3>4
    <3>6. n = Len(result[t]) + 1 BY <2>0, <2>2, <3>4, <3>5
    <3>7. result'[u][n] = r /\ SentOf(<<u, n>>)' = {} /\ made'[u][n] = e
      BY <1>1, <1>2, <1>4, <1>5, <3>4, <3>5, <3>6
    <3>8. Total(e) \in Nat \ {0} BY DEF Total, Entry
    <3>9. Fate(r, {}, Total(e))
      <4>1. {} = 1 .. 0 OBVIOUS
      <4>2. 0 \in 0 .. Total(e) - 1 BY <3>8
      <4>3. QED BY <3>2, <4>1, <4>2 DEF Fate
    <3>10. QED BY <3>7, <3>9
  <2>3. QED BY <2>1, <2>2
<1>10. FatesOK' BY <1>9 DEF FatesOK
<1>11. Ordered' BY <1>2, SameWire
<1>12. QED BY <1>8, <1>10, <1>11

LEMMA MoveSent ==
  ASSUME TypeInv, TypeInv', SentOK, Ordered, FatesOK,
         NEW t \in Threads, NEW l, Moves(t, l)
  PROVE  SentOK' /\ Ordered' /\ FatesOK'
<1>0. Typed /\ CallOK(t) BY DEF TypeInv
<1>1. /\ made' = made /\ wire' = wire /\ pc'[t] = l /\ pos'[t] = 0
      /\ pc[t] \notin {"idle", "exit"}
  BY MoveThreads
<1>2. ASSUME NEW u \in Threads, u # t
      PROVE  pc'[u] = pc[u] /\ pos'[u] = pos[u]
  BY <1>2, MoveThreads
<1>3. \A id : SentOf(id)' = SentOf(id) BY <1>1, SameWire
<1>4. /\ Len(made[t]) \in 1 .. MaxCalls /\ Len(result[t]) = Len(made[t]) - 1
      /\ Total(frame(t)) \in Nat \ {0} /\ frame(t) = made[t][Len(made[t])]
      /\ Current(t) = <<t, Len(made[t])>>
  BY <1>1, InHand
<1>5. SentOf(Current(t)) = 1 .. pos[t] BY <1>1 DEF SentOK
<1>6. pos[t] \in Nat /\ pos[t] < Total(frame(t)) /\ (pc[t] # "write" => pos[t] = 0)
  BY <1>0, <1>1, <1>4 DEF Typed, CallOK
<1>7. \A u \in Threads : Current(u)' = Current(u) BY <1>1 DEF Current
<1>8. SentOK'
  <2>1. \A j \in DOMAIN wire' : wire'[j].id[2] <= Len(made'[wire'[j].id[1]])
    BY <1>1 DEF SentOK
  <2>2. ASSUME NEW u \in Threads, pc'[u] \notin {"idle", "exit"}
        PROVE  SentOf(Current(u))' = 1 .. pos'[u]
    <3>1. SentOf(Current(u))' = SentOf(Current(u))
      BY <1>1, <1>7 DEF SentOf
    <3>2. CASE u # t BY <1>2, <2>2, <3>1, <3>2 DEF SentOK
    <3>3. CASE u = t
      <4>1. pc[t] # "write" BY <1>1, <2>2, <3>3 DEF Moves
      <4>2. pos[t] = 0 /\ pos'[t] = 0 BY <1>1, <1>6, <4>1
      <4>3. QED BY <1>5, <3>1, <3>3, <4>2
    <3>4. QED BY <3>2, <3>3
  <2>3. QED BY <2>1, <2>2 DEF SentOK
<1>9. ASSUME NEW u \in Threads, NEW n \in 1 .. Len(result'[u])
      PROVE  Fate(result'[u][n], SentOf(<<u, n>>)', Total(made'[u][n]))
  <2>1. SentOf(<<u, n>>)' = SentOf(<<u, n>>) /\ made'[u][n] = made[u][n]
    BY <1>1, <1>3
  <2>2. CASE n \in 1 .. Len(result[u])
    <3>1. result'[u][n] = result[u][n] BY <2>2, MoveThreads
    <3>2. Fate(result[u][n], SentOf(<<u, n>>), Total(made[u][n])) BY <2>2 DEF FatesOK
    <3>3. QED BY <2>1, <3>1, <3>2
  <2>3. CASE n \notin 1 .. Len(result[u])
    <3>1. u = t /\ l = "idle" BY <2>3, MoveThreads
    <3>2. /\ Len(result[t]) \in Nat /\ Len(result'[t]) = Len(result[t]) + 1
          /\ result'[t][Len(result[t]) + 1] \in {"error", "received"}
          /\ result'[t][Len(result[t]) + 1] = "received" => pc[t] = "data"
      BY <3>1, MoveThreads
    <3>3. n = Len(result[t]) + 1 BY <2>3, <3>1, <3>2
    <3>4. n = Len(made[t]) BY <1>4, <3>2, <3>3
    <3>5. PICK p : p = pos[t] OBVIOUS
    <3>6. SentOf(<<u, n>>) = 1 .. p /\ made[u][n] = frame(t)
      BY <1>4, <1>5, <3>1, <3>4, <3>5
    <3>7. p \in 0 .. Total(frame(t)) - 1 BY <1>4, <1>6, <3>5
    <3>8. result'[u][n] = "received" => 1 .. p = {}
      <4>1. result'[u][n] = "received" => p = 0 BY <1>6, <3>1, <3>2, <3>3, <3>5
      <4>2. 1 .. 0 = {} OBVIOUS
      <4>3. QED BY <4>1, <4>2
    <3>9. result'[u][n] # "ok" BY <3>1, <3>2, <3>3
    <3>10. QED BY <2>1, <3>6, <3>7, <3>8, <3>9 DEF Fate
  <2>4. QED BY <2>2, <2>3
<1>10. FatesOK' BY <1>9 DEF FatesOK
<1>11. Ordered' BY <1>1, SameWire
<1>12. QED BY <1>8, <1>10, <1>11

\* write adds pieces of one message, after those that are there.
LEMMA WriteSentOf ==
  ASSUME TypeInv, SentOK, NEW t \in Threads, NEW n \in Nat, Writes(t, n)
  PROVE  /\ SentOf(Current(t))' = 1 .. n
         /\ \A id : id # Current(t) => SentOf(id)' = SentOf(id)
<1>0. PICK c : c = Current(t) OBVIOUS
<1>1. /\ Len(wire) \in Nat /\ Len(wire') = Len(wire) + (n - pos[t])
      /\ DOMAIN wire = 1 .. Len(wire) /\ DOMAIN wire' = 1 .. Len(wire')
      /\ \A j \in 1 .. Len(wire) : wire'[j] = wire[j]
      /\ \A j \in Len(wire) + 1 .. Len(wire') :
           wire'[j] = [id |-> c, k |-> pos[t] + (j - Len(wire))]
      /\ pos[t] \in Nat /\ pos[t] < n
  BY <1>0, WireGrows
<1>2. PICK L \in Nat, p \in Nat : L = Len(wire) /\ p = pos[t] BY <1>1
<1>3. Len(wire') = L + (n - p) /\ p < n /\ Len(wire') \in Nat BY <1>1, <1>2
<1>4. \A j \in 1 .. L : j \in 1 .. Len(wire') /\ wire'[j] = wire[j] BY <1>1, <1>2, <1>3
<1>5. \A j \in 1 .. Len(wire') : j \notin 1 .. L => j \in L + 1 .. Len(wire')
  BY <1>2, <1>3
<1>6. \A j \in L + 1 .. Len(wire') : wire'[j].id = c /\ wire'[j].k = p + (j - L)
  <2> TAKE j \in L + 1 .. Len(wire')
  <2>1. wire'[j] = [id |-> c, k |-> p + (j - L)] BY <1>1, <1>2
  <2>2. QED BY <2>1
<1>7. SentOf(c) = 1 .. p
  <2>1. pc[t] = "write" BY DEF Writes
  <2>2. QED BY <1>0, <1>2, <2>1 DEF SentOK
<1>8. Current(t)' = c BY <1>0 DEF Current, Writes
<1>9. \A id, x : x \in SentOf(id) <=> \E j \in 1 .. L : wire[j].id = id /\ wire[j].k = x
  BY <1>1, <1>2 DEF SentOf
<1>10. \A id, x : x \in SentOf(id)' <=>
                    \E j \in 1 .. Len(wire') : wire'[j].id = id /\ wire'[j].k = x
  BY <1>1 DEF SentOf
<1>11. \A x : x \in SentOf(c)' <=> x \in 1 .. n
  <2> TAKE x
  <2>1. ASSUME NEW j \in 1 .. Len(wire'), wire'[j].id = c, wire'[j].k = x
        PROVE  x \in 1 .. n
    <3>1. CASE j \in 1 .. L
      <4>1. x \in 1 .. p BY <1>4, <1>7, <1>9, <2>1, <3>1
      <4>2. QED BY <1>3, <4>1
    <3>2. CASE j \in L + 1 .. Len(wire')
      <4>1. x = p + (j - L) BY <1>6, <2>1, <3>2
      <4>2. PICK W \in Nat : W = Len(wire') BY <1>3
      <4>3. W = L + (n - p) /\ j \in L + 1 .. W BY <1>3, <3>2, <4>2
      <4>4. QED BY <4>1, <4>3
    <3>3. QED BY <1>5, <3>1, <3>2
  <2>2. ASSUME x \in 1 .. n
        PROVE  \E j \in 1 .. Len(wire') : wire'[j].id = c /\ wire'[j].k = x
    <3>1. CASE x \in 1 .. p
      <4>1. PICK j \in 1 .. L : wire[j].id = c /\ wire[j].k = x BY <1>7, <1>9, <3>1
      <4>2. QED BY <1>4, <4>1
    <3>2. CASE x \notin 1 .. p
      <4>1. L + (x - p) \in L + 1 .. Len(wire') /\ L + (x - p) \in 1 .. Len(wire')
        BY <1>2, <1>3, <2>2, <3>2
      <4>2. p + ((L + (x - p)) - L) = x BY <1>2, <2>2
      <4>3. QED BY <1>6, <4>1, <4>2
    <3>3. QED BY <3>1, <3>2
  <2>3. QED BY <1>10, <2>1, <2>2
<1>12. ASSUME NEW id, id # c PROVE SentOf(id)' = SentOf(id)
  <2>1. \A x : x \in SentOf(id)' <=> x \in SentOf(id)
    BY <1>4, <1>5, <1>6, <1>9, <1>10, <1>12
  <2>2. QED BY <2>1 DEF SentOf
<1>13. SentOf(Current(t))' = 1 .. n
  <2>1. SentOf(c)' = 1 .. n BY <1>11 DEF SentOf
  <2>2. QED BY <1>8, <2>1 DEF SentOf
<1>14. QED BY <1>0, <1>12, <1>13

LEMMA WriteOrdered ==
  ASSUME TypeInv, SentOK, Ordered, NEW t \in Threads, NEW n \in Nat, Writes(t, n)
  PROVE  Ordered'
<1>0. PICK c : c = Current(t) OBVIOUS
<1>1. /\ Len(wire) \in Nat /\ Len(wire') = Len(wire) + (n - pos[t])
      /\ DOMAIN wire = 1 .. Len(wire) /\ DOMAIN wire' = 1 .. Len(wire')
      /\ \A j \in 1 .. Len(wire) : wire'[j] = wire[j]
      /\ \A j \in Len(wire) + 1 .. Len(wire') :
           wire'[j] = [id |-> c, k |-> pos[t] + (j - Len(wire))]
      /\ pos[t] \in Nat /\ pos[t] < n
  BY <1>0, WireGrows
<1>2. PICK L \in Nat, p \in Nat : L = Len(wire) /\ p = pos[t] BY <1>1
<1>3. Len(wire') \in Nat BY <1>1
<1>4. SentOf(c) = 1 .. p
  <2>1. pc[t] = "write" BY DEF Writes
  <2>2. QED BY <1>0, <1>2, <2>1 DEF SentOK
<1>5. ASSUME NEW i \in 1 .. Len(wire'), NEW j \in 1 .. Len(wire'), i < j,
             wire'[i].id = wire'[j].id
      PROVE  wire'[i].k < wire'[j].k
  <2>1. CASE j \in 1 .. L
    <3>1. i \in 1 .. L BY <1>3, <1>5, <2>1
    <3>2. wire'[i] = wire[i] /\ wire'[j] = wire[j] /\ i \in DOMAIN wire /\ j \in DOMAIN wire
      BY <1>1, <1>2, <2>1, <3>1
    <3>3. QED BY <1>5, <3>2 DEF Ordered
  <2>2. CASE j \notin 1 .. L
    <3>1. j \in L + 1 .. Len(wire') BY <1>2, <1>3, <2>2
    <3>2. wire'[j] = [id |-> c, k |-> p + (j - L)] BY <1>1, <1>2, <3>1
    <3>3. wire'[j].id = c /\ wire'[j].k = p + (j - L) BY <3>2
    <3>4. CASE i \in 1 .. L
      <4>1. wire'[i] = wire[i] /\ i \in DOMAIN wire BY <1>1, <1>2, <3>4
      <4>2. wire[i].k \in SentOf(c) BY <1>5, <3>3, <4>1 DEF SentOf
      <4>3. wire'[i].k \in 1 .. p BY <1>4, <4>1, <4>2
      <4>4. QED BY <1>2, <3>1, <3>3, <4>3
    <3>5. CASE i \notin 1 .. L
      <4>1. i \in L + 1 .. Len(wire') BY <1>2, <1>3, <3>5
      <4>2. wire'[i] = [id |-> c, k |-> p + (i - L)] BY <1>1, <1>2, <4>1
      <4>3. wire'[i].k = p + (i - L) BY <4>2
      <4>4. QED BY <1>2, <1>5, <3>1, <3>3, <4>1, <4>3
    <3>6. QED BY <3>4, <3>5
  <2>3. QED BY <2>1, <2>2
<1>6. QED BY <1>1, <1>5 DEF Ordered

LEMMA WriteSent ==
  ASSUME TypeInv, TypeInv', SentOK, Ordered, FatesOK,
         NEW t \in Threads, NEW n \in Nat, Writes(t, n)
  PROVE  SentOK' /\ Ordered' /\ FatesOK'
<1>0. PICK c : c = Current(t) OBVIOUS
<1>1. /\ made' = made /\ pc[t] = "write" BY DEF Writes
<1>2. /\ Len(made[t]) \in 1 .. MaxCalls /\ Len(result[t]) = Len(made[t]) - 1
      /\ frame(t) = made[t][Len(made[t])] /\ c = <<t, Len(made[t])>>
  BY <1>0, <1>1, InHand
<1>3. SentOf(c)' = 1 .. n /\ \A id : id # c => SentOf(id)' = SentOf(id)
  <2>1. Current(t)' = c BY <1>0, <1>1 DEF Current
  <2>2. SentOf(Current(t))' = SentOf(c)' BY <2>1 DEF SentOf
  <2>3. QED BY <1>0, <2>2, WriteSentOf
<1>4. \A u \in Threads : Current(u)' = Current(u) BY <1>1 DEF Current
<1>5. \A j \in DOMAIN wire' : wire'[j].id[2] <= Len(made'[wire'[j].id[1]])
  <2>1. /\ Len(wire) \in Nat
        /\ DOMAIN wire = 1 .. Len(wire) /\ DOMAIN wire' = 1 .. Len(wire')
        /\ \A j \in 1 .. Len(wire) : wire'[j] = wire[j]
        /\ \A j \in Len(wire) + 1 .. Len(wire') :
             wire'[j] = [id |-> c, k |-> pos[t] + (j - Len(wire))]
    BY <1>0, WireGrows
  <2> TAKE j \in DOMAIN wire'
  <2>2. Len(wire') \in Nat BY DEF TypeInv, WireOK
  <2>3. CASE j \in 1 .. Len(wire) BY <1>1, <2>1, <2>3 DEF SentOK
  <2>4. CASE j \notin 1 .. Len(wire)
    <3>1. j \in Len(wire) + 1 .. Len(wire') BY <2>1, <2>2, <2>4
    <3>2. wire'[j] = [id |-> c, k |-> pos[t] + (j - Len(wire))] BY <2>1, <3>1
    <3>3. wire'[j].id = <<t, Len(made[t])>> BY <1>2, <3>2
    <3>4. wire'[j].id[1] = t /\ wire'[j].id[2] = Len(made[t]) BY <3>3
    <3>5. Len(made[t]) <= Len(made[t]) BY <1>2
    <3>6. QED BY <1>1, <3>4, <3>5
  <2>5. QED BY <2>3, <2>4
<1>6. ASSUME NEW u \in Threads, pc'[u] \notin {"idle", "exit"}
      PROVE  SentOf(Current(u))' = 1 .. pos'[u]
  <2>1. CASE u = t
    <3>1. pc'[t] = "write" BY <1>6, <2>1, WriteSelf
    <3>2. pos'[t] = n BY <3>1, WriteSelf
    <3>3. QED BY <2>1, <3>2, WriteSentOf
  <2>2. CASE u # t
    <3>1. pc'[u] = pc[u] /\ pos'[u] = pos[u] BY <2>2, WriteOthers
    <3>2. PICK d : d = Current(u) OBVIOUS
    <3>3. d # c BY <1>2, <2>2, <3>2 DEF Current
    <3>4. Current(u)' = d BY <1>4, <3>2
    <3>5. SentOf(Current(u))' = SentOf(d)' BY <3>4 DEF SentOf
    <3>6. SentOf(d) = 1 .. pos[u] BY <1>6, <3>1, <3>2 DEF SentOK
    <3>7. QED BY <1>3, <3>1, <3>3, <3>5, <3>6
  <2>3. QED BY <2>1, <2>2
<1>7. SentOK' BY <1>5, <1>6 DEF SentOK
<1>8. ASSUME NEW u \in Threads, NEW m \in 1 .. Len(result'[u])
      PROVE  Fate(result'[u][m], SentOf(<<u, m>>)', Total(made'[u][m]))
  <2>1. CASE m \in 1 .. Len(result[u])
    <3>1. result'[u][m] = result[u][m] BY <2>1, WriteResults
    <3>2. <<u, m>> # c
      <4>1. u = t => m # Len(made[t]) BY <1>2, <2>1
      <4>2. QED BY <1>2, <4>1
    <3>3. Fate(result[u][m], SentOf(<<u, m>>), Total(made[u][m])) BY <2>1 DEF FatesOK
    <3>4. QED BY <1>1, <1>3, <3>1, <3>2, <3>3
  <2>2. CASE m \notin 1 .. Len(result[u])
    <3>1. u = t BY <2>2, WriteOthers
    <3>2. pc'[t] = "idle"
      <4>1. Len(result'[t]) # Len(result[t]) BY <2>2, <3>1
      <4>2. QED BY <4>1, WriteSelf
    <3>3. /\ n = Total(frame(t)) /\ Len(result[t]) \in Nat
          /\ Len(result'[t]) = Len(result[t]) + 1
          /\ result'[t][Len(result[t]) + 1] = "ok"
      BY <3>2, WriteResults, WriteSelf
    <3>4. m = Len(result[t]) + 1 BY <2>2, <3>1, <3>3
    <3>5. m = Len(made[t]) BY <1>2, <3>3, <3>4
    <3>6. result'[u][m] = "ok" BY <3>1, <3>3, <3>4
    <3>7. SentOf(<<u, m>>)' = 1 .. n BY <1>2, <1>3, <3>1, <3>5
    <3>8. made'[u][m] = frame(t) BY <1>1, <1>2, <3>1, <3>5
    <3>9. QED BY <3>3, <3>6, <3>7, <3>8 DEF Fate
  <2>3. QED BY <2>1, <2>2
<1>9. FatesOK' BY <1>8 DEF FatesOK
<1>10. QED BY <1>7, <1>9, WriteOrdered

LEMMA QuietSent ==
  ASSUME TypeInv, SentOK, Ordered, FatesOK, Exits \/ Reads
  PROVE  SentOK' /\ Ordered' /\ FatesOK'
<1>1. /\ made' = made /\ result' = result /\ pos' = pos /\ wire' = wire
      /\ \A t \in Threads : pc'[t] \in {pc[t], "exit"}
  BY DEF Exits, Reads
<1>2. \A id : SentOf(id)' = SentOf(id) BY <1>1, SameWire
<1>3. \A t \in Threads : SentOf(Current(t))' = SentOf(Current(t))
  BY <1>1 DEF SentOf, Current
<1>4. SentOK' BY <1>1, <1>3 DEF SentOK
<1>5. FatesOK' BY <1>1, <1>2 DEF FatesOK
<1>6. QED BY <1>1, <1>4, <1>5, SameWire

LEMMA SentInit == Init => SentOK /\ Ordered /\ FatesOK
<1> SUFFICES ASSUME Init PROVE SentOK /\ Ordered /\ FatesOK OBVIOUS
<1>1. wire = <<>> /\ \A t \in Threads : pc[t] = "idle" /\ result[t] = <<>>
  BY DEF Init
<1>2. DOMAIN wire = {} /\ \A t \in Threads : 1 .. Len(result[t]) = {} BY <1>1
<1>3. QED BY <1>1, <1>2 DEF SentOK, Ordered, FatesOK

LEMMA SentHolds == Spec => [](TypeInv /\ SentInv)
<1>1. Init => TypeInv /\ SentInv BY TypeInit, SentInit DEF SentInv
<1>2. TypeInv /\ SentInv /\ [Next]_vars => TypeInv' /\ SentInv'
  <2> SUFFICES ASSUME TypeInv, SentInv, [Next]_vars PROVE TypeInv' /\ SentInv' OBVIOUS
  <2>1. TypeInv' BY TypeStep
  <2>2. SentOK /\ Ordered /\ FatesOK BY DEF SentInv
  <2>3. SentOK' /\ Ordered' /\ FatesOK'
    BY <2>1, <2>2, KindsOfSteps, TakeSent, MoveSent, WriteSent, QuietSent
  <2>4. QED BY <2>1, <2>3 DEF SentInv
<1>3. QED BY <1>1, <1>2, PTL DEF Spec

\* What the log or the server says of a call of sr_send_packet can be relied on:
\* it returns 0 when, and only when, every piece of its message is on the wire,
\* once and in order, although the other thread writes to the same socket with
\* no lock, and -1 when a lost connection cut the message short.
THEOREM SendAccounted == Spec => []Accounted
<1>1. TypeInv /\ SentInv => Accounted BY AccountedParts DEF SentInv
<1>2. QED BY <1>1, SentHolds, PTL

-----------------------------------------------------------------------------
(* The log is ahead of the wire.                                           *)

Whole(id) == PartsOf(id) = {"header", "data"}

\* The log of a message that has a part keeps it.
LEMMA PartsKept ==
  ASSUME TypeInv, TypeInv',
         \/ log' = log
         \/ \E r : log' = Append(log, r)
  PROVE  \A id : /\ PartsOf(id) \subseteq PartsOf(id)'
                 /\ Whole(id) => Whole(id)'
<1>1. /\ log \in Seq([id : Id, part : {"header", "data"}])
      /\ log' \in Seq([id : Id, part : {"header", "data"}])
  BY DEF TypeInv, LogOK
<1>2. /\ DOMAIN log = 1 .. Len(log) /\ DOMAIN log' = 1 .. Len(log')
      /\ Len(log) \in Nat /\ Len(log') \in Nat
  BY <1>1
<1>3. \A k \in 1 .. Len(log) : k \in 1 .. Len(log') /\ log'[k] = log[k]
  <2>1. CASE log' = log BY <1>2, <2>1
  <2>2. ASSUME NEW r, log' = Append(log, r)
        PROVE  \A k \in 1 .. Len(log) : k \in 1 .. Len(log') /\ log'[k] = log[k]
    <3>1. Len(log') = Len(log) + 1 /\ \A k \in 1 .. Len(log) : log'[k] = log[k]
      BY <1>1, <2>2
    <3>2. QED BY <1>2, <3>1
  <2>3. QED BY <2>1, <2>2
<1>4. \A k \in 1 .. Len(log') : log'[k].part \in {"header", "data"}
  <2> TAKE k \in 1 .. Len(log')
  <2>1. log'[k] \in [id : Id, part : {"header", "data"}] BY <1>1, ElementOfSeq
  <2>2. QED BY <2>1
<1>5. ASSUME NEW id
      PROVE  /\ PartsOf(id) \subseteq PartsOf(id)'
             /\ Whole(id) => Whole(id)'
  <2>1. PartsOf(id) \subseteq PartsOf(id)' BY <1>2, <1>3 DEF PartsOf
  <2>2. PartsOf(id)' \subseteq {"header", "data"} BY <1>2, <1>4 DEF PartsOf
  <2>3. QED BY <2>1, <2>2 DEF Whole
<1>6. QED BY <1>5

\* A call that has returned, or whose frame is on the wire, is in the log.
Recorded ==
  /\ \A j \in DOMAIN wire : Whole(wire[j].id)
  /\ \A t \in Threads : \A n \in 1 .. Len(result[t]) :
       made[t][n].len > 0 => Whole(<<t, n>>)

\* The record of a frame is complete before the frame is looked at again.
Recording ==
  \A t \in Threads :
    /\ pc[t] = "data" => "header" \in PartsOf(Current(t))
    /\ pc[t] \in {"check", "write"} => Whole(Current(t))

LogInv == logfile = "open" => Recording /\ Recorded

LEMMA TakeLogged ==
  ASSUME TypeInv, TypeInv', Recording, Recorded, logfile = "open",
         NEW t \in Threads, NEW e \in Entry, Takes(t, e)
  PROVE  Recording' /\ Recorded'
<1>0. Typed /\ CallOK(t) BY DEF TypeInv
<1>1. /\ made' \in [Threads -> Seq(Entry)]
      /\ \A u \in Threads : u # t => made'[u] = made[u]
      /\ \A u \in Threads : \A n \in 1 .. Len(made[u]) : made'[u][n] = made[u][n]
      /\ made'[t][Len(made[t]) + 1] = e
  BY <1>0, Grown DEF Takes, Typed
<1>2. /\ wire' = wire /\ log' = log /\ pc[t] = "idle" /\ Len(result[t]) = Len(made[t])
      /\ pc'[t] \in {"idle", "header"}
      /\ \A u \in Threads : u # t => pc'[u] = pc[u]
  BY <1>0 DEF Takes, Typed, CallOK
<1>3. \A id : PartsOf(id)' = PartsOf(id) /\ Whole(id)' = Whole(id)
  BY <1>2 DEF PartsOf, Whole
<1>4. ASSUME NEW u \in Threads
      PROVE  /\ pc'[u] = "data" => "header" \in PartsOf(Current(u))'
             /\ pc'[u] \in {"check", "write"} => Whole(Current(u))'
  <2>1. CASE u = t BY <1>2, <2>1
  <2>2. CASE u # t
    <3>1. pc'[u] = pc[u] /\ Current(u)' = Current(u) BY <1>1, <1>2, <2>2 DEF Current
    <3>2. PartsOf(Current(u))' = PartsOf(Current(u)) BY <1>2, <3>1 DEF PartsOf
    <3>3. QED BY <3>1, <3>2 DEF Recording, Whole
  <2>3. QED BY <2>1, <2>2
<1>5. ASSUME NEW u \in Threads, NEW n \in 1 .. Len(result'[u]), made'[u][n].len > 0
      PROVE  Whole(<<u, n>>)'
  <2>1. CallOK(u) /\ Len(result[u]) \in Nat /\ Len(made[u]) \in Nat
    BY <1>0 DEF TypeInv, Typed
  <2>2. CASE n \in 1 .. Len(result[u])
    <3>1. n \in 1 .. Len(made[u]) BY <2>1, <2>2 DEF CallOK
    <3>2. made'[u][n] = made[u][n] BY <1>1, <3>1
    <3>3. QED BY <1>3, <1>5, <2>2, <3>2 DEF Recorded
  <2>3. CASE n \notin 1 .. Len(result[u])
    <3>1. PICK r \in {"error", "received"} :
            result' = [result EXCEPT ![t] = Append(@, r)] /\ (e.len > 0 => logfile = "none")
      BY <2>3 DEF Takes
    <3>2. r \in {"ok", "error", "received"} BY <3>1
    <3>3. /\ \A v \in Threads : v # t => result'[v] = result[v]
          /\ Len(result'[t]) = Len(result[t]) + 1
      BY <1>0, <3>1, <3>2, Grown DEF Typed
    <3>4. u = t BY <2>3, <3>3
    <3>5. n = Len(result[t]) + 1 BY <2>1, <2>3, <3>3, <3>4
    <3>6. made'[u][n] = e BY <1>1, <1>2, <3>4, <3>5
    <3>7. QED BY <1>5, <3>1, <3>6
  <2>4. QED BY <2>2, <2>3
<1>6. \A j \in DOMAIN wire' : Whole(wire[j].id)'
  <2> TAKE j \in DOMAIN wire'
  <2>1. wire'[j].id = wire[j].id /\ j \in DOMAIN wire BY <1>2
  <2>2. PartsOf(wire[j].id)' = PartsOf(wire[j].id) BY <1>2 DEF PartsOf
  <2>3. QED BY <2>1, <2>2 DEF Recorded, Whole
<1>7. QED BY <1>4, <1>5, <1>6 DEF Recording, Recorded

\* The fwrite of a part puts it there.
LEMMA PartAdded ==
  ASSUME TypeInv, NEW t \in Threads, NEW l, Moves(t, l), logfile = "open",
         pc[t] \in {"header", "data"}
  PROVE  pc[t] \in PartsOf(Current(t))'
<1>0. PICK c, p : c = Current(t) /\ p = pc[t] OBVIOUS
<1>1. log' = Append(log, [id |-> c, part |-> p]) /\ made' = made
  BY <1>0 DEF Moves
<1>2. log \in Seq([id : Id, part : {"header", "data"}]) BY DEF TypeInv, LogOK
<1>3. /\ Len(log) \in Nat /\ DOMAIN log' = 1 .. Len(log) + 1
      /\ log'[Len(log) + 1] = [id |-> c, part |-> p]
  BY <1>1, <1>2
<1>4. PICK k : k = Len(log) + 1 OBVIOUS
<1>5. k \in DOMAIN log' /\ log'[k].id = c /\ log'[k].part = p BY <1>3, <1>4
<1>6. Current(t)' = c BY <1>0, <1>1 DEF Current
<1>7. QED BY <1>0, <1>5, <1>6 DEF PartsOf

LEMMA MoveLogged ==
  ASSUME TypeInv, TypeInv', Recording, Recorded, logfile = "open",
         NEW t \in Threads, NEW l, Moves(t, l)
  PROVE  Recording' /\ Recorded'
<1>0. PICK c : c = Current(t) OBVIOUS
<1>1. /\ made' = made /\ wire' = wire /\ pc'[t] = l /\ pc[t] \notin {"idle", "exit"}
  BY MoveThreads
<1>2. ASSUME NEW u \in Threads, u # t PROVE pc'[u] = pc[u]
  BY <1>2, MoveThreads
<1>3. \A id : PartsOf(id) \subseteq PartsOf(id)' /\ (Whole(id) => Whole(id)')
  BY PartsKept DEF Moves
<1>4. \A u \in Threads : Current(u)' = Current(u) BY <1>1 DEF Current
<1>5. /\ pc[t] = "header" => "header" \in PartsOf(c)'
      /\ pc[t] # "header" => Whole(c)'
  <2>1. PartsOf(Current(t))' = PartsOf(c)' BY <1>0, <1>4 DEF PartsOf
  <2>2. CASE pc[t] = "header" BY <2>1, <2>2, PartAdded
  <2>3. CASE pc[t] = "data"
    <3>1. "data" \in PartsOf(c)' BY <2>1, <2>3, PartAdded
    <3>2. "header" \in PartsOf(c)' BY <1>0, <1>3, <2>3 DEF Recording
    <3>3. PartsOf(c)' \subseteq {"header", "data"}
      <4>1. log' \in Seq([id : Id, part : {"header", "data"}]) BY DEF TypeInv, LogOK
      <4>2. \A k \in DOMAIN log' : log'[k].part \in {"header", "data"}
        <5> TAKE k \in DOMAIN log'
        <5>1. DOMAIN log' = 1 .. Len(log') BY <4>1
        <5>2. log'[k] \in [id : Id, part : {"header", "data"}] BY <4>1, <5>1, ElementOfSeq
        <5>3. QED BY <5>2
      <4>3. QED BY <4>2 DEF PartsOf
    <3>4. QED BY <2>3, <3>1, <3>2, <3>3 DEF Whole
  <2>4. CASE pc[t] \in {"check", "write"}
    BY <1>0, <1>3, <2>4 DEF Recording
  <2>5. QED BY <2>2, <2>3, <2>4 DEF Moves
<1>6. ASSUME NEW u \in Threads
      PROVE  /\ pc'[u] = "data" => "header" \in PartsOf(Current(u))'
             /\ pc'[u] \in {"check", "write"} => Whole(Current(u))'
  <2>0. PICK d : d = Current(u) OBVIOUS
  <2>1. PartsOf(Current(u))' = PartsOf(d)' /\ Whole(Current(u))' = Whole(d)'
    BY <1>4, <2>0 DEF PartsOf, Whole
  <2>2. CASE u = t
    <3>1. /\ pc'[t] = "data" => pc[t] = "header"
          /\ pc'[t] \in {"check", "write"} => pc[t] # "header"
      BY <1>1 DEF Moves
    <3>2. QED BY <1>0, <1>5, <2>0, <2>1, <2>2, <3>1
  <2>3. CASE u # t
    <3>1. pc'[u] = pc[u] BY <1>2, <2>3
    <3>2. QED BY <1>3, <2>0, <2>1, <3>1 DEF Recording
  <2>4. QED BY <2>2, <2>3
<1>7. ASSUME NEW u \in Threads, NEW n \in 1 .. Len(result'[u]), made'[u][n].len > 0
      PROVE  Whole(<<u, n>>)'
  <2>1. CASE n \in 1 .. Len(result[u]) BY <1>1, <1>3, <1>7, <2>1 DEF Recorded
  <2>2. CASE n \notin 1 .. Len(result[u])
    <3>1. u = t /\ l = "idle" BY <2>2, MoveThreads
    <3>2. Len(result[t]) \in Nat /\ Len(result'[t]) = Len(result[t]) + 1
      BY <3>1, MoveThreads
    <3>3. Len(made[t]) \in 1 .. MaxCalls /\ Len(result[t]) = Len(made[t]) - 1
          /\ c = <<t, Len(made[t])>>
      BY <1>0, <1>1, InHand
    <3>4. n = Len(made[t]) BY <2>2, <3>1, <3>2, <3>3
    <3>5. pc[t] # "header" BY <3>1 DEF Moves
    <3>6. <<u, n>> = c BY <3>1, <3>3, <3>4
    <3>7. QED BY <1>5, <3>5, <3>6
  <2>3. QED BY <2>1, <2>2
<1>8. ASSUME NEW j \in DOMAIN wire' PROVE Whole(wire[j].id)'
  <2>0. PICK d : d = wire[j].id OBVIOUS
  <2>1. wire'[j].id = d /\ Whole(d) BY <1>1, <2>0 DEF Recorded
  <2>2. PartsOf(wire[j].id)' = PartsOf(d)' BY <2>1 DEF PartsOf
  <2>3. Whole(d)' BY <1>3, <2>1
  <2>4. QED BY <2>2, <2>3 DEF Whole
<1>9. QED BY <1>6, <1>7, <1>8 DEF Recording, Recorded

LEMMA WriteLogged ==
  ASSUME TypeInv, TypeInv', Recording, Recorded,
         NEW t \in Threads, NEW n \in Nat, Writes(t, n)
  PROVE  Recording' /\ Recorded'
<1>0. PICK c : c = Current(t) OBVIOUS
<1>1. made' = made /\ log' = log /\ pc[t] = "write" BY DEF Writes
<1>2. \A id : PartsOf(id)' = PartsOf(id) /\ Whole(id)' = Whole(id)
  BY <1>1 DEF PartsOf, Whole
<1>3. Whole(c) BY <1>0, <1>1 DEF Recording
<1>4. ASSUME NEW u \in Threads
      PROVE  /\ pc'[u] = "data" => "header" \in PartsOf(Current(u))'
             /\ pc'[u] \in {"check", "write"} => Whole(Current(u))'
  <2>1. Current(u)' = Current(u) BY <1>1 DEF Current
  <2>2. PartsOf(Current(u))' = PartsOf(Current(u)) BY <1>1, <2>1 DEF PartsOf
  <2>3. pc'[u] = pc[u] \/ pc'[u] = "idle" BY <1>1, WriteOthers, WriteSelf
  <2>4. QED BY <2>2, <2>3 DEF Recording, Whole
<1>5. ASSUME NEW u \in Threads, NEW m \in 1 .. Len(result'[u]), made'[u][m].len > 0
      PROVE  Whole(<<u, m>>)'
  <2>1. CASE m \in 1 .. Len(result[u]) BY <1>1, <1>2, <1>5, <2>1 DEF Recorded
  <2>2. CASE m \notin 1 .. Len(result[u])
    <3>1. u = t BY <2>2, WriteOthers
    <3>2. Len(result'[t]) # Len(result[t]) BY <2>2, <3>1
    <3>3. Len(result[t]) \in Nat /\ Len(result'[t]) = Len(result[t]) + 1
      BY <3>2, WriteSelf
    <3>4. Len(made[t]) \in 1 .. MaxCalls /\ Len(result[t]) = Len(made[t]) - 1
          /\ c = <<t, Len(made[t])>>
      BY <1>0, <1>1, InHand
    <3>5. m = Len(made[t]) BY <2>2, <3>1, <3>3, <3>4
    <3>6. QED BY <1>2, <1>3, <3>1, <3>4, <3>5
  <2>3. QED BY <2>1, <2>2
<1>6. ASSUME NEW j \in DOMAIN wire' PROVE Whole(wire[j].id)'
  <2>1. /\ Len(wire) \in Nat /\ Len(wire') \in Nat
        /\ DOMAIN wire = 1 .. Len(wire) /\ DOMAIN wire' = 1 .. Len(wire')
        /\ \A i \in 1 .. Len(wire) : wire'[i] = wire[i]
        /\ \A i \in Len(wire) + 1 .. Len(wire') :
             wire'[i] = [id |-> c, k |-> pos[t] + (i - Len(wire))]
    <3>1. Len(wire') \in Nat BY DEF TypeInv, WireOK
    <3>2. QED BY <1>0, <3>1, WireGrows
  <2>2. PICK d : d = wire'[j].id OBVIOUS
  <2>3. Whole(d)
    <3>1. CASE j \in 1 .. Len(wire) BY <2>1, <2>2, <3>1 DEF Recorded
    <3>2. CASE j \notin 1 .. Len(wire)
      <4>1. j \in Len(wire) + 1 .. Len(wire') BY <2>1, <3>2
      <4>2. wire'[j] = [id |-> c, k |-> pos[t] + (j - Len(wire))] BY <2>1, <4>1
      <4>3. d = c BY <2>2, <4>2
      <4>4. QED BY <1>3, <4>3
    <3>3. QED BY <3>1, <3>2
  <2>4. PartsOf(wire[j].id)' = PartsOf(d)' BY <2>2 DEF PartsOf
  <2>5. Whole(d)' BY <1>2, <2>3
  <2>6. QED BY <2>4, <2>5 DEF Whole
<1>7. QED BY <1>4, <1>5, <1>6 DEF Recording, Recorded

LEMMA QuietLogged ==
  ASSUME TypeInv, Recording, Recorded, Exits \/ Reads
  PROVE  Recording' /\ Recorded'
<1>1. /\ made' = made /\ result' = result /\ wire' = wire /\ log' = log
      /\ \A t \in Threads : pc'[t] \in {pc[t], "exit"}
  BY DEF Exits, Reads
<1>2. \A t \in Threads : pc'[t] = pc[t] \/ pc'[t] = "exit" BY <1>1
<1>3. Recording' BY <1>1, <1>2 DEF Recording, Whole, PartsOf, Current
<1>4. Recorded'
  <2>1. \A id : Whole(id)' = Whole(id) BY <1>1 DEF Whole, PartsOf
  <2>2. ASSUME NEW j \in DOMAIN wire' PROVE Whole(wire[j].id)'
    <3>1. PartsOf(wire[j].id)' = PartsOf(wire[j].id) BY <1>1 DEF PartsOf
    <3>2. QED BY <1>1, <3>1 DEF Recorded, Whole
  <2>3. QED BY <1>1, <2>1, <2>2 DEF Recorded
<1>5. QED BY <1>3, <1>4

\* main opens the log before the first frame and sr_destroy_instance closes it
\* for good.
LEMMA LogOpened ==
  ASSUME TypeInv, [Next]_vars, logfile' = "open"
  PROVE  logfile = "open"
BY KindsOfSteps DEF Takes, Moves, Writes, Exits, Reads

\* The log can be trusted to explain what the server saw: whichever thread
\* sends, nothing of a frame leaves sr_send_packet before sr_log_packet has
\* written both parts of its record, and no call returns without one, as long as
\* sr_destroy_instance has not closed the file.
THEOREM SendLogFirst == Spec => []LogFirst
<1> DEFINE I == TypeInv /\ LogInv
<1>1. Init => I
  <2> SUFFICES ASSUME Init PROVE I OBVIOUS
  <2>1. wire = <<>> /\ \A t \in Threads : pc[t] = "idle" /\ result[t] = <<>>
    BY DEF Init
  <2>2. DOMAIN wire = {} /\ \A t \in Threads : 1 .. Len(result[t]) = {} BY <2>1
  <2>3. QED BY <2>1, <2>2, TypeInit DEF LogInv, Recording, Recorded
<1>2. I /\ [Next]_vars => I'
  <2> SUFFICES ASSUME I, [Next]_vars PROVE I' OBVIOUS
  <2>1. TypeInv' BY TypeStep
  <2>2. ASSUME logfile' = "open" PROVE Recording' /\ Recorded'
    <3>1. logfile = "open" /\ Recording /\ Recorded BY <2>2, LogOpened DEF LogInv
    <3>2. QED
      BY <2>1, <3>1, KindsOfSteps, TakeLogged, MoveLogged, WriteLogged, QuietLogged
  <2>3. QED BY <2>1, <2>2 DEF LogInv
<1>3. I => LogFirst
  <2>1. TypeInv => \A t \in Threads : DOMAIN result[t] = 1 .. Len(result[t])
    BY DEF TypeInv, Typed
  <2>2. QED BY <2>1 DEF LogInv, LogFirst, Recorded, Whole
<1>4. QED BY <1>1, <1>2, <1>3, PTL DEF Spec

-----------------------------------------------------------------------------
(* The messages on the wire while there is room.                           *)

\* The number of pieces of the message that p is a piece of.
TotalOf(p) == Total(made[p.id[1]][p.id[2]])

\* As long as no write has had to wait, what was written ends with a message.
EndsOK ==
  /\ \A t \in Threads : pos[t] = 0
  /\ Len(wire) > 0 => wire[Len(wire)].k = TotalOf(wire[Len(wire)])

\* One piece follows the other.
Follows ==
  \A k \in 1 .. Len(wire) - 1 :
    \/ wire[k].id = wire[k + 1].id /\ wire[k + 1].k = wire[k].k + 1
    \/ wire[k + 1].k = 1 /\ wire[k].k = TotalOf(wire[k])

WholeInv == ~ full => EndsOK /\ Follows

\* The frames of the messages on the wire stay what they are.
LEMMA WholeKept ==
  ASSUME TypeInv, EndsOK, Follows, wire' = wire,
         \A t \in Threads : pos'[t] = 0,
         \A j \in DOMAIN wire : TotalOf(wire[j])' = TotalOf(wire[j])
  PROVE  EndsOK' /\ Follows'
<1>1. Len(wire) \in Nat /\ DOMAIN wire = 1 .. Len(wire) BY DEF TypeInv, WireOK
<1>2. EndsOK'
  <2>1. CASE Len(wire) > 0
    <3>1. Len(wire) \in DOMAIN wire BY <1>1, <2>1
    <3>2. TotalOf(wire[Len(wire)])' = TotalOf(wire[Len(wire)])
      <4>1. PICK j \in DOMAIN wire : j = Len(wire) BY <3>1
      <4>2. TotalOf(wire[j])' = TotalOf(wire[j]) BY <4>1
      <4>3. QED BY <4>1, <4>2 DEF TotalOf
    <3>3. QED BY <2>1, <3>2 DEF EndsOK
  <2>2. CASE ~ (Len(wire) > 0) BY <2>2 DEF EndsOK
  <2>3. QED BY <2>1, <2>2
<1>3. Follows'
  <2> SUFFICES ASSUME NEW k \in 1 .. Len(wire) - 1
               PROVE  \/ wire[k].id = wire[k + 1].id /\ wire[k + 1].k = wire[k].k + 1
                      \/ wire[k + 1].k = 1 /\ wire[k].k = TotalOf(wire[k])'
    BY DEF Follows
  <2>1. k \in DOMAIN wire BY <1>1
  <2>2. TotalOf(wire[k])' = TotalOf(wire[k]) BY <2>1
  <2>3. QED BY <2>2 DEF Follows
<1>4. QED BY <1>2, <1>3

LEMMA TakeWhole ==
  ASSUME TypeInv, SentOK, EndsOK, Follows,
         NEW t \in Threads, NEW e \in Entry, Takes(t, e)
  PROVE  EndsOK' /\ Follows'
<1>1. Typed /\ wire' = wire /\ pos' = pos BY DEF TypeInv, Takes
<1>2. \A u \in Threads : \A n \in 1 .. Len(made[u]) : made'[u][n] = made[u][n]
  BY <1>1, Grown DEF Takes, Typed
<1>3. ASSUME NEW j \in DOMAIN wire PROVE TotalOf(wire[j])' = TotalOf(wire[j])
  <2>1. PICK u \in Threads, m \in 1 .. MaxCalls : wire[j].id = <<u, m>> BY PieceId
  <2>2. wire[j].id[1] = u /\ wire[j].id[2] = m BY <2>1
  <2>3. m <= Len(made[u]) BY <2>2 DEF SentOK
  <2>4. Len(made[u]) \in Nat /\ m \in 1 .. Len(made[u])
    BY <1>1, <2>3, RoomAssumption DEF Typed
  <2>5. made'[u][m] = made[u][m] BY <1>2, <2>4
  <2>6. QED BY <1>1, <2>2, <2>5 DEF TotalOf
<1>4. QED BY <1>1, <1>3, WholeKept DEF EndsOK

LEMMA MoveWhole ==
  ASSUME TypeInv, EndsOK, Follows, NEW t \in Threads, NEW l, Moves(t, l)
  PROVE  EndsOK' /\ Follows'
<1>1. wire' = wire /\ made' = made BY DEF Moves
<1>2. \A u \in Threads : pos'[u] = 0
  <2> TAKE u \in Threads
  <2>1. pos[u] = 0 /\ pos \in [Threads -> Nat] BY DEF EndsOK, TypeInv, Typed
  <2>2. QED BY <2>1 DEF Moves
<1>3. \A j \in DOMAIN wire : TotalOf(wire[j])' = TotalOf(wire[j])
  BY <1>1 DEF TotalOf
<1>4. QED BY <1>1, <1>2, <1>3, WholeKept

LEMMA QuietWhole ==
  ASSUME TypeInv, EndsOK, Follows, Exits \/ Reads
  PROVE  EndsOK' /\ Follows'
<1>1. wire' = wire /\ made' = made /\ pos' = pos BY DEF Exits, Reads
<1>2. \A j \in DOMAIN wire : TotalOf(wire[j])' = TotalOf(wire[j])
  BY <1>1 DEF TotalOf
<1>3. QED BY <1>1, <1>2, WholeKept DEF EndsOK

\* A write that does not wait puts a whole message behind whole messages.
LEMMA WriteWhole ==
  ASSUME TypeInv, EndsOK, Follows, NEW t \in Threads, NEW n \in Nat, Writes(t, n),
         ~ full'
  PROVE  EndsOK' /\ Follows'
<1>0. PICK c : c = Current(t) OBVIOUS
<1>1. /\ made' = made /\ pc[t] = "write" /\ n = Total(frame(t))
      /\ pos' = [pos EXCEPT ![t] = 0]
  BY DEF Writes
<1>2. /\ Total(frame(t)) = Total(made[c[1]][c[2]]) /\ pos[t] = 0
  <2>1. frame(t) = made[t][Len(made[t])] /\ c = <<t, Len(made[t])>>
    BY <1>0, <1>1, InHand
  <2>2. c[1] = t /\ c[2] = Len(made[t]) BY <2>1
  <2>3. QED BY <2>1, <2>2 DEF EndsOK
<1>3. PICK L \in Nat : L = Len(wire) BY DEF TypeInv, WireOK
<1>4. /\ Len(wire') = L + (n - pos[t])
      /\ \A j \in 1 .. L : wire'[j] = wire[j]
      /\ \A j \in L + 1 .. Len(wire') :
           wire'[j] = [id |-> c, k |-> pos[t] + (j - L)]
      /\ pos[t] < n
  BY <1>0, <1>3, WireGrows
<1>5. Len(wire') = L + n /\ n > 0 /\ Len(wire') \in Nat BY <1>2, <1>4
<1>6. ASSUME NEW j \in L + 1 .. L + n
      PROVE  /\ wire'[j].id = c /\ wire'[j].k = j - L
             /\ TotalOf(wire'[j]) = n
  <2>1. wire'[j] = [id |-> c, k |-> pos[t] + (j - L)] BY <1>4, <1>5
  <2>2. wire'[j].id = c /\ wire'[j].k = pos[t] + (j - L) BY <2>1
  <2>3. 0 + (j - L) = j - L OBVIOUS
  <2>4. TotalOf(wire'[j]) = Total(made[c[1]][c[2]]) BY <2>2 DEF TotalOf
  <2>5. QED BY <1>1, <1>2, <2>2, <2>3, <2>4
<1>7. \A x : TotalOf(x)' = TotalOf(x) BY <1>1 DEF TotalOf
<1>8. EndsOK'
  <2>1. ASSUME NEW u \in Threads PROVE pos'[u] = 0
    <3>1. pos[u] = 0 /\ pos \in [Threads -> Nat] BY DEF EndsOK, TypeInv, Typed
    <3>2. QED BY <1>1, <3>1
  <2>2. PICK x : x = wire'[L + n] OBVIOUS
  <2>3. L + n \in L + 1 .. L + n /\ (L + n) - L = n BY <1>3, <1>5
  <2>4. x.k = n /\ TotalOf(x) = n BY <1>6, <2>2, <2>3
  <2>5. TotalOf(wire[Len(wire)])' = n
    <3>1. TotalOf(wire[Len(wire)])' = TotalOf(x)' BY <1>5, <2>2 DEF TotalOf
    <3>2. QED BY <1>7, <2>4, <3>1
  <2>6. QED BY <1>5, <2>1, <2>2, <2>4, <2>5 DEF EndsOK
<1>9. ASSUME NEW k \in 1 .. Len(wire') - 1
      PROVE  \/ wire'[k].id = wire'[k + 1].id /\ wire'[k + 1].k = wire'[k].k + 1
             \/ wire'[k + 1].k = 1 /\ wire'[k].k = TotalOf(wire[k])'
  <2>0. PICK x, y : x = wire'[k] /\ y = wire'[k + 1] OBVIOUS
  <2>1. TotalOf(wire[k])' = TotalOf(x)
    <3>1. TotalOf(wire[k])' = TotalOf(x)' BY <2>0 DEF TotalOf
    <3>2. QED BY <1>7, <3>1
  <2>2. CASE k \in 1 .. L - 1
    <3>1. k \in 1 .. L /\ k + 1 \in 1 .. L BY <1>3, <2>2
    <3>2. x = wire[k] /\ y = wire[k + 1] BY <1>4, <2>0, <3>1
    <3>3. \/ x.id = y.id /\ y.k = x.k + 1
          \/ y.k = 1 /\ x.k = TotalOf(x)
      BY <1>3, <2>2, <3>2 DEF Follows
    <3>4. QED BY <2>0, <2>1, <3>3
  <2>3. CASE k = L
    <3>1. L \in 1 .. L /\ L > 0 BY <1>3, <2>3
    <3>2. x = wire[L] BY <1>4, <2>0, <2>3, <3>1
    <3>3. x.k = TotalOf(x) BY <1>3, <3>1, <3>2 DEF EndsOK
    <3>4. L + 1 \in L + 1 .. L + n /\ (L + 1) - L = 1 BY <1>3, <1>5
    <3>5. y.k = 1 BY <1>6, <2>0, <2>3, <3>4
    <3>6. QED BY <2>0, <2>1, <3>3, <3>5
  <2>4. CASE k \in L + 1 .. L + n - 1
    <3>1. k \in L + 1 .. L + n /\ k + 1 \in L + 1 .. L + n BY <1>3, <2>4
    <3>2. x.id = c /\ x.k = k - L /\ y.id = c /\ y.k = (k + 1) - L
      BY <1>6, <2>0, <3>1
    <3>3. (k + 1) - L = (k - L) + 1 BY <1>3, <2>4
    <3>4. QED BY <2>0, <3>2, <3>3
  <2>5. k \in 1 .. L - 1 \/ k = L \/ k \in L + 1 .. L + n - 1
    BY <1>3, <1>5
  <2>6. QED BY <2>2, <2>3, <2>4, <2>5
<1>10. Follows' BY <1>9 DEF Follows
<1>11. QED BY <1>8, <1>10

\* full never becomes false again.
LEMMA FullStays ==
  ASSUME TypeInv, [Next]_vars, ~ full'
  PROVE  ~ full
<1>1. ASSUME NEW t \in Threads, NEW n \in Nat, Writes(t, n) PROVE ~ full
  BY <1>1 DEF Writes
<1>2. QED BY <1>1, KindsOfSteps DEF Takes, Moves, Exits, Reads

\* sr_send_packet hands its message to the socket in one call of write, and as
\* long as each finds room the server reads message after message, whole, from
\* two threads that take no lock.
THEOREM SendWholeUnlessFull == Spec => []WholeUnlessFull
<1>1. Init => WholeInv
  <2> SUFFICES ASSUME Init PROVE WholeInv OBVIOUS
  <2>1. Len(wire) = 0 /\ \A t \in Threads : pos[t] = 0 BY DEF Init
  <2>2. QED BY <2>1 DEF WholeInv, EndsOK, Follows
<1>2. TypeInv /\ SentInv /\ WholeInv /\ [Next]_vars => WholeInv'
  <2> SUFFICES ASSUME TypeInv, SentInv, WholeInv, [Next]_vars, ~ full'
               PROVE  EndsOK' /\ Follows'
    BY DEF WholeInv
  <2>1. SentOK /\ EndsOK /\ Follows BY FullStays DEF SentInv, WholeInv
  <2>2. QED BY <2>1, KindsOfSteps, TakeWhole, MoveWhole, WriteWhole, QuietWhole
<1>3. WholeInv => WholeUnlessFull
  BY DEF WholeInv, Follows, WholeUnlessFull, TotalOf
<1>4. QED BY <1>1, <1>2, <1>3, SentHolds, PTL DEF Spec

=============================================================================
