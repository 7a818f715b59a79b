------------------------------ MODULE SrRtLoad ------------------------------
(***************************************************************************)
(* sr_load_rt of sr_rt.c, one line of the file per step.                   *)
(*                                                                         *)
(* A line is a sequence of at most four words: destination, gateway, mask  *)
(* and interface.  sscanf stores the words that it finds; the buffers of   *)
(* the others keep what an earlier line left in them, or what was on the   *)
(* stack.  A number stands for a word that inet_aton converts.             *)
(***************************************************************************)
EXTENDS SrRoutes

CONSTANTS
  Bad,       \* a word that inet_aton refuses
  Files,     \* the files that may be loaded
  Locals,    \* what the four buffers may hold at the start
  Previous   \* the tables that may have been loaded before

Numbers == {Bad} \cup 0 .. IpMax

\* Type of the n-th word.
Word(n) == IF n = 4 THEN Iface ELSE Numbers

ASSUME LoadAssumption ==
  /\ Bad \notin 0 .. IpMax
  /\ Files \subseteq Seq(Seq(Numbers \cup Iface))
  /\ \A f \in Files : \A k \in DOMAIN f :
       /\ Len(f[k]) <= 4
       /\ \A n \in DOMAIN f[k] : f[k][n] \in Word(n)
  /\ Locals \subseteq [1 .. 4 -> Numbers \cup Iface]
  /\ \A b \in Locals : \A n \in 1 .. 4 : b[n] \in Word(n)

VARIABLES
  file,                 \* the lines of the file
  pos,                  \* number of lines read
  buf,                  \* dest, gw, mask and iface
  clear_routing_table,
  routing_table,
  ret,                  \* what sr_load_rt returned
  (* history *)
  garbage,              \* buf at the start
  previous              \* routing_table at the start

vars == <<file, pos, buf, clear_routing_table, routing_table, ret, garbage, previous>>

Init ==
  /\ file \in Files
  /\ pos = 0
  /\ garbage \in Locals
  /\ buf = garbage
  /\ clear_routing_table = FALSE
  /\ previous \in Previous
  /\ routing_table = previous
  /\ ret = "none"

sscanf(line, b) == [n \in 1 .. 4 |-> IF n <= Len(line) THEN line[n] ELSE b[n]]

\* Mutant: the result is ignored.
AlwaysConverts(word) == TRUE

inet_aton(word) == word # Bad

EntryOf(b) == [dest |-> b[1], gw |-> b[2], mask |-> b[3], iface |-> b[4]]

\* Mutant: the new entry becomes the first.
AddAtHead(table, e) == <<e>> \o table

sr_add_rt_entry(table, e) == Append(table, e)

Reads == ret = "none" /\ pos < Len(file)

\* Mutant: the table is never cleared.
AcceptWithoutClear ==
  LET b == sscanf(file[pos + 1], buf)
  IN  /\ Reads
      /\ \A n \in 1 .. 3 : inet_aton(b[n])
      /\ buf' = b
      /\ pos' = pos + 1
      /\ clear_routing_table' = TRUE
      /\ routing_table' = sr_add_rt_entry(routing_table, EntryOf(b))
      /\ UNCHANGED <<file, ret, garbage, previous>>

\* The first entry of a file replaces the whole table.
Accept ==
  LET b == sscanf(file[pos + 1], buf)
  IN  /\ Reads
      /\ \A n \in 1 .. 3 : inet_aton(b[n])
      /\ buf' = b
      /\ pos' = pos + 1
      /\ clear_routing_table' = TRUE
      /\ routing_table' =
           sr_add_rt_entry(IF clear_routing_table THEN routing_table ELSE <<>>,
                           EntryOf(b))
      /\ UNCHANGED <<file, ret, garbage, previous>>

Refuse ==
  LET b == sscanf(file[pos + 1], buf)
  IN  /\ Reads
      /\ \E n \in 1 .. 3 : ~inet_aton(b[n])
      /\ buf' = b
      /\ ret' = "failure"
      /\ UNCHANGED <<file, pos, clear_routing_table, routing_table, garbage, previous>>

EndOfFile ==
  /\ ret = "none"
  /\ pos = Len(file)
  /\ ret' = "success"
  /\ UNCHANGED <<file, pos, buf, clear_routing_table, routing_table, garbage, previous>>

Next == Accept \/ Refuse \/ EndOfFile

Spec == Init /\ [][Next]_vars

-----------------------------------------------------------------------------
(* Properties                                                              *)

\* What a line is made into: three addresses and the name of an interface.
Entry == [dest : 0 .. IpMax, gw : 0 .. IpMax, mask : 0 .. IpMax, iface : Iface]

\* The type invariant of the loader.
TypeOK ==
  /\ pos \in 0 .. Len(file)
  /\ DOMAIN buf = 1 .. 4
  /\ \A n \in 1 .. 4 : buf[n] \in Word(n)
  /\ clear_routing_table \in BOOLEAN
  /\ \/ routing_table = previous
     \/ \A k \in DOMAIN routing_table : routing_table[k] \in Entry
  /\ ret \in {"none", "success", "failure"}

\* The lines up to k that have an n-th word.
Giving(k, n) == {j \in 1 .. k : n <= Len(file[j])}

\* The n-th word last seen when line k has been read.
LastWord(k, n) ==
  IF Giving(k, n) = {} THEN garbage[n]
  ELSE file[CHOOSE j \in Giving(k, n) : \A i \in Giving(k, n) : i <= j][n]

\* The words remembered after k lines.
Remembered(k) == [n \in 1 .. 4 |-> LastWord(k, n)]

\* The table holds one entry for each line read and nothing of the table that
\* was there before; a word missing from a line is the one that an earlier line
\* gave last.  The old table stays while no line has been read.
OneEntryPerLine ==
  routing_table =
    IF pos = 0 THEN previous
    ELSE [k \in 1 .. pos |-> EntryOf(Remembered(k))]

\* The lines that count: a blank line repeats the one above it, and only the
\* first has none above it.
Counts(k) == k = 1 \/ file[k] # <<>>

\* What a line that counts says; a blank one says what was on the stack.
LineOf(k) == IF file[k] = <<>> THEN garbage ELSE file[k]

\* The lines that count and match a destination.
Fitting(ip) == {k \in DOMAIN file : Counts(k) /\ Matches(EntryOf(LineOf(k)), ip)}

\* Of the blank lines of a file only a first one matters, and it stands for the
\* words that happen to be on the stack.  When all other lines are complete,
\* sr_find_lpm_route finds the route that is to be preferred among the lines that
\* count, and none if none of them matches; and a file is refused only for a
\* word of a line that counts (sr_rt.c:55 ignores what sscanf returns).
OnlyFirstBlankCounts ==
  (file # <<>> /\ \A k \in DOMAIN file : Len(file[k]) \in {0, 4}) =>
    /\ ret = "success" =>
         \A ip \in Ip :
           LET k == BestRoute(routing_table, ip)
           IN  IF Fitting(ip) = {} THEN k = 0
               ELSE /\ k \in Fitting(ip)
                    /\ routing_table[k] = EntryOf(LineOf(k))
                    /\ \A j \in Fitting(ip) :
                         \/ LineOf(j)[3] < LineOf(k)[3]
                         \/ LineOf(j)[3] = LineOf(k)[3] /\ k <= j
    /\ ret = "failure" =>
         \E k \in DOMAIN file : Counts(k) /\ \E n \in 1 .. 3 : ~ inet_aton(LineOf(k)[n])

=============================================================================
