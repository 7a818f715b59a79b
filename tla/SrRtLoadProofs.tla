--------------------------- MODULE SrRtLoadProofs ---------------------------
(***************************************************************************)
(* Proof that sr_load_rt makes exactly one entry of each line, for every   *)
(* file, every content of the stack and every table loaded before.         *)
(***************************************************************************)
EXTENDS SrRtLoad, WellFoundedInduction, TLAPS

\* What the loop maintains: the buffers hold the last word of each kind, and
\* the table is cleared exactly when a line has been read.  OneEntryPerLine
\* alone does not say which words a short line will be completed with.
LoopInv ==
  /\ file \in Files
  /\ pos \in 0 .. Len(file)
  /\ clear_routing_table = (pos # 0)
  /\ ret = "success" => pos = Len(file)
  /\ ret = "none" => buf = Remembered(pos)
  /\ ret = "failure" => /\ pos < Len(file)
                        /\ \E n \in 1 .. 3 : ~ inet_aton(Remembered(pos + 1)[n])
  /\ OneEntryPerLine

\* The facts about a file that LoadAssumption gives.
LEMMA FileType ==
  ASSUME NEW f \in Files
  PROVE  /\ f \in Seq(Seq(Numbers \cup Iface))
         /\ Len(f) \in Nat
         /\ \A k \in 1 .. Len(f) : Len(f[k]) \in Nat
  <1>1. f \in Seq(Seq(Numbers \cup Iface))
    BY LoadAssumption
  <1> QED
    BY <1>1

\* sscanf stores the words of a line over those remembered before it.
LEMMA Remember ==
  ASSUME file \in Files, pos \in 0 .. Len(file), pos < Len(file)
  PROVE  sscanf(file[pos + 1], Remembered(pos)) = Remembered(pos + 1)
  <1> DEFINE line == file[pos + 1]
  <1>1. /\ Len(file) \in Nat
        /\ Len(line) \in Nat
    BY FileType
  <1>2. ASSUME NEW n \in 1 .. 4, n <= Len(line)
        PROVE  LastWord(pos + 1, n) = line[n]
    <2>1. pos + 1 \in Giving(pos + 1, n)
      BY <1>1, <1>2 DEF Giving
    <2>2. \A i \in Giving(pos + 1, n) : i \in Nat /\ i <= pos + 1
      BY <1>1 DEF Giving
    <2>3. (CHOOSE j \in Giving(pos + 1, n) : \A i \in Giving(pos + 1, n) : i <= j)
            = pos + 1
      BY <2>1, <2>2, <1>1
    <2> QED
      BY <2>1, <2>3 DEF LastWord
  <1>3. ASSUME NEW n \in 1 .. 4, ~(n <= Len(line))
        PROVE  LastWord(pos + 1, n) = LastWord(pos, n)
    <2>1. Giving(pos + 1, n) = Giving(pos, n)
      BY <1>1, <1>3 DEF Giving
    <2> DEFINE Last(S) == IF S = {} THEN garbage[n]
                          ELSE file[CHOOSE j \in S : \A i \in S : i <= j][n]
    <2>2. LastWord(pos, n) = Last(Giving(pos, n))
      BY DEF LastWord
    <2>3. LastWord(pos + 1, n) = Last(Giving(pos + 1, n))
      BY DEF LastWord
    <2> HIDE DEF Last
    <2> QED
      BY <2>1, <2>2, <2>3
  <1> QED
    BY <1>2, <1>3 DEF sscanf, Remembered

\* The loop starts with nothing read and the old table in place.
LEMMA LoadInit == Init => LoopInv
  <1> SUFFICES ASSUME Init PROVE LoopInv
    OBVIOUS
  <1>1. Len(file) \in Nat
    BY FileType DEF Init
  <1>2. \A n \in 1 .. 4 : LastWord(0, n) = garbage[n]
    BY DEF LastWord, Giving
  <1>3. garbage = [n \in 1 .. 4 |-> garbage[n]]
    BY LoadAssumption DEF Init
  <1> QED
    <2>1. buf = Remembered(pos)
      BY <1>2, <1>3 DEF Init, Remembered
    <2>2. pos \in 0 .. Len(file)
      BY <1>1 DEF Init
    <2>3. clear_routing_table = (pos # 0)
      BY DEF Init
    <2>4. OneEntryPerLine
      BY DEF Init, OneEntryPerLine
    <2> QED
      BY <2>1, <2>2, <2>3, <2>4 DEF Init, LoopInv

\* Each step of the loop keeps LoopInv.
LEMMA LoadStep == LoopInv /\ [Next]_vars => LoopInv'
  <1> SUFFICES ASSUME LoopInv, [Next]_vars PROVE LoopInv'
    OBVIOUS
  <1> USE DEF LoopInv
  <1>0. Len(file) \in Nat
    BY FileType
  <1>7. file' = file /\ garbage' = garbage /\ previous' = previous
    BY DEF Next, Accept, Refuse, EndOfFile, vars
  <1>5. ASSUME NEW k PROVE Remembered(k)' = Remembered(k)
    BY <1>7 DEF Remembered, LastWord, Giving
  <1>6. (UNCHANGED <<pos, routing_table>>) => OneEntryPerLine'
    BY <1>5, <1>7 DEF OneEntryPerLine
  <1>1. CASE Accept
    <2>1. pos \in 0 .. Len(file) /\ pos < Len(file) /\ ret = "none"
      BY <1>1 DEF Accept, Reads
    <2>2. buf' = Remembered(pos + 1)
      BY <1>1, <2>1, Remember DEF Accept
    <2>3. /\ file' = file
          /\ garbage' = garbage
          /\ previous' = previous
          /\ pos' = pos + 1
          /\ ret' = ret
          /\ clear_routing_table' = TRUE
      BY <1>1 DEF Accept
    <2>4. pos' \in 0 .. Len(file) /\ pos' # 0
      BY <1>0, <2>1, <2>3
    <2>6. routing_table' = [k \in 1 .. pos + 1 |-> EntryOf(Remembered(k))]
      <3> DEFINE old == IF clear_routing_table THEN routing_table ELSE <<>>
      <3> DEFINE E(k) == EntryOf(Remembered(k))
      <3>1. old = [k \in 1 .. pos |-> E(k)]
        <4>1. CASE pos = 0
          <5>1. old = <<>>
            BY <4>1
          <5> QED
            BY <4>1, <5>1
        <4>2. CASE pos # 0
          <5>1. clear_routing_table
            BY <4>2
          <5> QED
            BY <4>2, <5>1 DEF OneEntryPerLine
        <4> QED
          BY <4>1, <4>2
      <3>2. routing_table' = Append(old, E(pos + 1))
        BY <1>1, <2>2 DEF Accept, sr_add_rt_entry
      <3> HIDE DEF E, old
      <3>3. Len(old) = pos /\ DOMAIN old = 1 .. pos
        BY <2>1, <3>1
      <3>4. Append(old, E(pos + 1)) = [k \in 1 .. pos + 1 |-> E(k)]
        BY <2>1, <3>1, <3>3
      <3> QED
        BY <3>2, <3>4 DEF E
    <2>7. OneEntryPerLine'
      BY <2>3, <2>4, <1>5, <2>6 DEF OneEntryPerLine
    <2> QED
      BY <2>1, <2>2, <2>3, <2>4, <1>5, <2>7
  <1>2. CASE Refuse
    <2>1. /\ pos < Len(file) /\ ret = "none" /\ ret' = "failure"
          /\ UNCHANGED <<file, pos, clear_routing_table, routing_table>>
          /\ \E n \in 1 .. 3 : ~ inet_aton(sscanf(file[pos + 1], buf)[n])
      BY <1>2 DEF Refuse, Reads
    <2>2. sscanf(file[pos + 1], buf) = Remembered(pos + 1)
      BY <2>1, Remember
    <2>3. Remembered(pos + 1)' = Remembered(pos + 1)
      BY <1>7, <2>1 DEF Remembered, LastWord, Giving
    <2>4. \E n \in 1 .. 3 : ~ inet_aton(Remembered(pos + 1)'[n])
      BY <2>1, <2>2, <2>3
    <2> QED
      BY <1>6, <2>1, <2>4 DEF inet_aton
  <1>3. CASE EndOfFile
    BY <1>3, <1>6 DEF EndOfFile
  <1>4. CASE UNCHANGED vars
    <2>1. Remembered(pos)' = Remembered(pos) /\ Remembered(pos + 1)' = Remembered(pos + 1)
      BY <1>4, <1>7 DEF Remembered, LastWord, Giving, vars
    <2> QED
      BY <1>4, <1>6, <2>1 DEF vars, inet_aton
  <1> QED
    BY <1>1, <1>2, <1>3, <1>4 DEF Next

\* Whatever file is loaded over whatever table, sr_load_rt leaves one entry for
\* each line in the order of the lines and nothing of the old table.
THEOREM LoadOneEntryPerLine == Spec => []OneEntryPerLine
  <1>1. LoopInv => OneEntryPerLine
    BY DEF LoopInv
  <1> QED
    BY <1>1, LoadInit, LoadStep, PTL DEF Spec

-----------------------------------------------------------------------------
(* Types                                                                   *)

\* Every word of a line has the type of its place.
LEMMA WordType ==
  ASSUME NEW f \in Files, NEW k \in 1 .. Len(f), NEW n \in 1 .. 4, n <= Len(f[k])
  PROVE  f[k][n] \in Word(n)
  <1>1. f \in Seq(Seq(Numbers \cup Iface))
    BY LoadAssumption
  <1>2. k \in DOMAIN f /\ f[k] \in Seq(Numbers \cup Iface)
    BY <1>1
  <1>3. n \in DOMAIN f[k]
    BY <1>2
  <1> QED
    BY <1>2, <1>3, LoadAssumption

\* The words of a line that inet_aton converts make an entry.
LEMMA EntryType ==
  ASSUME NEW b, \A n \in 1 .. 4 : b[n] \in Word(n), \A n \in 1 .. 3 : inet_aton(b[n])
  PROVE  EntryOf(b) \in Entry
  <1>1. \A n \in 1 .. 3 : b[n] \in 0 .. IpMax
    BY DEF Word, Numbers, inet_aton
  <1>2. b[4] \in Iface
    BY DEF Word
  <1>3. b[1] \in 0 .. IpMax /\ b[2] \in 0 .. IpMax /\ b[3] \in 0 .. IpMax
    BY <1>1
  <1> QED
    BY <1>2, <1>3 DEF EntryOf, Entry

\* TypeOK needs the file, and the flag that tells the old table from the new.
TypeInv ==
  /\ TypeOK
  /\ file \in Files
  /\ ~ clear_routing_table => routing_table = previous
  /\ clear_routing_table => routing_table \in Seq(Entry)

LEMMA TypeInit == Init => TypeInv
  <1> SUFFICES ASSUME Init PROVE TypeInv
    OBVIOUS
  <1>1. Len(file) \in Nat
    BY FileType DEF Init
  <1>2. DOMAIN buf = 1 .. 4 /\ \A n \in 1 .. 4 : buf[n] \in Word(n)
    BY LoadAssumption DEF Init
  <1>3. /\ file \in Files /\ routing_table = previous /\ pos \in 0 .. Len(file)
        /\ ret = "none" /\ clear_routing_table = FALSE
    BY <1>1 DEF Init
  <1>4. TypeOK
    BY <1>2, <1>3 DEF TypeOK
  <1> QED
    BY <1>3, <1>4 DEF TypeInv

LEMMA TypeStep == TypeInv /\ [Next]_vars => TypeInv'
  <1> SUFFICES ASSUME TypeInv, [Next]_vars PROVE TypeInv'
    OBVIOUS
  <1>0. Len(file) \in Nat
    BY FileType DEF TypeInv
  <1> DEFINE b == sscanf(file[pos + 1], buf)
  <1>1. ASSUME Reads
        PROVE  /\ pos + 1 \in 1 .. Len(file) /\ DOMAIN b = 1 .. 4
               /\ \A n \in 1 .. 4 : b[n] \in Word(n)
    <2>1. pos + 1 \in 1 .. Len(file)
      BY <1>0, <1>1 DEF Reads, TypeInv, TypeOK
    <2>2. ASSUME NEW n \in 1 .. 4 PROVE b[n] \in Word(n)
      <3>1. CASE n <= Len(file[pos + 1])
        <4>1. file[pos + 1][n] \in Word(n)
          BY <2>1, <3>1, WordType DEF TypeInv
        <4> QED
          BY <3>1, <4>1 DEF sscanf
      <3>2. CASE ~ (n <= Len(file[pos + 1]))
        BY <3>2 DEF sscanf, TypeInv, TypeOK
      <3> QED
        BY <3>1, <3>2
    <2> QED
      BY <2>1, <2>2 DEF sscanf
  <1>2. CASE Accept
    <2>1. /\ Reads /\ buf' = b /\ pos' = pos + 1 /\ clear_routing_table'
          /\ routing_table' =
               Append(IF clear_routing_table THEN routing_table ELSE <<>>, EntryOf(b))
          /\ UNCHANGED <<file, ret, garbage, previous>>
          /\ \A n \in 1 .. 3 : inet_aton(b[n])
      BY <1>2 DEF Accept, sr_add_rt_entry
    <2>2. /\ pos + 1 \in 1 .. Len(file) /\ DOMAIN b = 1 .. 4
          /\ \A n \in 1 .. 4 : b[n] \in Word(n)
      BY <1>1, <2>1
    <2> HIDE DEF b
    <2>3. EntryOf(b) \in Entry
      BY <2>1, <2>2, EntryType
    <2>4. (IF clear_routing_table THEN routing_table ELSE <<>>) \in Seq(Entry)
      BY DEF TypeInv
    <2>5. routing_table' \in Seq(Entry)
      BY <2>1, <2>3, <2>4
    <2>6. \A k \in DOMAIN routing_table' : routing_table'[k] \in Entry
      BY <2>5
    <2>7. pos' \in 0 .. Len(file)
      BY <1>0, <2>1, <2>2
    <2>8. clear_routing_table' = TRUE
      BY <1>2 DEF Accept
    <2> QED
      BY <2>1, <2>2, <2>5, <2>6, <2>7, <2>8 DEF TypeInv, TypeOK
  <1>3. CASE Refuse
    <2>1. /\ Reads /\ buf' = b /\ ret' = "failure"
          /\ UNCHANGED <<file, pos, clear_routing_table, routing_table, garbage, previous>>
      BY <1>3 DEF Refuse
    <2>2. DOMAIN b = 1 .. 4 /\ \A n \in 1 .. 4 : b[n] \in Word(n)
      BY <1>1, <2>1
    <2> HIDE DEF b
    <2> QED
      BY <2>1, <2>2 DEF TypeInv, TypeOK
  <1>4. CASE EndOfFile
    BY <1>4 DEF EndOfFile, TypeInv, TypeOK
  <1>5. CASE UNCHANGED vars
    BY <1>5 DEF vars, TypeInv, TypeOK
  <1> QED
    BY <1>2, <1>3, <1>4, <1>5 DEF Next

\* Every entry that sr_load_rt adds has three addresses and an interface: no
\* line with a word that inet_aton refuses becomes an entry.
THEOREM LoadType == Spec => []TypeOK
  <1>1. TypeInv => TypeOK
    BY DEF TypeInv
  <1> QED
    BY <1>1, TypeInit, TypeStep, PTL DEF Spec

-----------------------------------------------------------------------------
(* Blank lines                                                             *)

\* A non-empty set of natural numbers has a smallest element.
LEMMA SmallestExists ==
  ASSUME NEW T \in SUBSET Nat, T # {}
  PROVE  \E x \in T : \A y \in T : x <= y
  <1>1. PICK x \in T : \A y \in T : ~ (<<y, x>> \in OpToRel(<, Nat))
    BY NatLessThanWellFounded, WFMin
  <1>2. ASSUME NEW y \in T PROVE x <= y
    <2>1. CASE y < x
      <3>1. <<y, x>> \in Nat \X Nat /\ <<y, x>>[1] = y /\ <<y, x>>[2] = x
        OBVIOUS
      <3>2. <<y, x>> \in OpToRel(<, Nat)
        BY <2>1, <3>1, Zenon DEF OpToRel
      <3> QED
        BY <1>1, <3>2, Zenon
    <2>2. CASE ~ (y < x)
      BY <2>2
    <2> QED
      BY <2>1, <2>2
  <1> QED
    BY <1>2

\* A non-empty set of numbers up to m has a largest element.
LEMMA LargestExists ==
  ASSUME NEW m \in Nat, NEW T \in SUBSET (0 .. m), T # {}
  PROVE  \E x \in T : \A y \in T : y <= x
  <1> DEFINE D == {m - y : y \in T}
  <1>1. D \in SUBSET Nat /\ D # {}
    <2>1. \A y \in T : m - y \in Nat
      OBVIOUS
    <2> QED
      BY <2>1
  <1>2. PICK d \in D : \A e \in D : d <= e
    BY <1>1, SmallestExists
  <1>3. PICK x \in T : d = m - x
    BY <1>2
  <1>4. \A y \in T : m - y \in D
    OBVIOUS
  <1> HIDE DEF D
  <1>5. ASSUME NEW y \in T PROVE y <= x
    <2>1. d <= m - y
      BY <1>2, <1>4
    <2> QED
      BY <1>3, <2>1
  <1> QED
    BY <1>5

\* Among entries that match there is one to be preferred to all others.
LEMMA PreferredExists ==
  ASSUME NEW table, NEW T \in SUBSET Nat, T # {},
         \A k \in T : table[k].mask \in 0 .. IpMax
  PROVE  \E k \in T : \A j \in T : Prefers(table, k, j)
  <1>0. IpMax \in Nat
    BY IpAssumption
  <1> DEFINE M == {table[k].mask : k \in T}
  <1>1. M \in SUBSET (0 .. IpMax) /\ M # {}
    OBVIOUS
  <1>2. PICK m \in M : \A y \in M : y <= m
    BY <1>0, <1>1, LargestExists
  <1> DEFINE K == {k \in T : table[k].mask = m}
  <1>3. K \in SUBSET Nat /\ K # {}
    BY <1>2
  <1>4. PICK k \in K : \A j \in K : k <= j
    BY <1>3, SmallestExists
  <1>5. k \in T /\ table[k].mask = m
    BY <1>4
  <1>6. ASSUME NEW j \in T PROVE Prefers(table, k, j)
    <2>1. table[j].mask <= m /\ table[j].mask \in 0 .. IpMax /\ m \in 0 .. IpMax
      BY <1>1, <1>2
    <2>2. table[j].mask = m => k <= j
      BY <1>4
    <2> HIDE DEF M, K
    <2> QED
      BY <1>0, <1>5, <2>1, <2>2 DEF Prefers
  <1> QED
    BY <1>5, <1>6

\* The lines of a file are complete or blank.
Tidy ==
  /\ file # <<>>
  /\ \A k \in DOMAIN file : Len(file[k]) \in {0, 4}

\* A line is empty, or it has all its words.
LEMMA TidyLine ==
  ASSUME file \in Files, Tidy, NEW i \in 1 .. Len(file)
  PROVE  Len(file[i]) \in {0, 4} /\ (file[i] # <<>> <=> Len(file[i]) = 4)
  <1>1. file \in Seq(Seq(Numbers \cup Iface))
    BY FileType
  <1>2. file[i] \in Seq(Numbers \cup Iface) /\ i \in DOMAIN file
    BY <1>1
  <1>3. Len(file[i]) \in {0, 4}
    BY <1>2 DEF Tidy
  <1>4. file[i] = <<>> <=> Len(file[i]) = 0
    BY <1>2
  <1>5. (Len(file[i]) = 0 \/ Len(file[i]) = 4) /\ 0 # 4
    BY <1>3
  <1> QED
    BY <1>3, <1>4, <1>5, Zenon

\* A line repeats the last line up to it that counts.
LEMMA Repeats ==
  ASSUME file \in Files, Tidy, NEW k \in 1 .. Len(file)
  PROVE  \E j \in 1 .. k : /\ Counts(j)
                           /\ Counts(k) => j = k
                           /\ \A n \in 1 .. 4 : LastWord(k, n) = LineOf(j)[n]
  <1>1. /\ file \in Seq(Seq(Numbers \cup Iface)) /\ Len(file) \in Nat
        /\ DOMAIN file = 1 .. Len(file)
    BY FileType
  <1> DEFINE G == {i \in 1 .. k : file[i] # <<>>}
  <1>2. ASSUME NEW i \in 1 .. k
        PROVE  Len(file[i]) \in {0, 4} /\ (file[i] # <<>> <=> Len(file[i]) = 4)
    <2>1. i \in 1 .. Len(file)
      BY <1>1
    <2> QED
      BY <2>1, TidyLine
  <1>3. G \in SUBSET (0 .. k) /\ k \in Nat /\ 1 \in 1 .. k
    BY <1>1
  <1>4. ASSUME NEW n \in 1 .. 4 PROVE Giving(k, n) = G
    <2>1. ASSUME NEW i \in 1 .. k PROVE n <= Len(file[i]) <=> file[i] # <<>>
      <3>1. Len(file[i]) = 0 \/ Len(file[i]) = 4
        BY <1>2
      <3>2. Len(file[i]) = 4 <=> file[i] # <<>>
        BY <1>2
      <3>3. n <= 4 /\ ~ (n <= 0) /\ ~ (0 = 4)
        OBVIOUS
      <3>4. n <= Len(file[i]) <=> Len(file[i]) = 4
        BY <3>1, <3>3
      <3> QED
        BY <3>2, <3>4
    <2> QED
      BY <2>1 DEF Giving
  <1>5. CASE G = {}
    <2>1. file[1] = <<>> /\ (Counts(k) => k = 1)
      BY <1>3, <1>5 DEF Counts
    <2>2. ASSUME NEW n \in 1 .. 4 PROVE LastWord(k, n) = LineOf(1)[n]
      <3>1. Giving(k, n) = {}
        BY <1>4, <1>5
      <3> QED
        BY <2>1, <3>1 DEF LastWord, LineOf
    <2> QED
      BY <1>3, <2>1, <2>2 DEF Counts
  <1>6. CASE G # {}
    <2>1. PICK j \in G : \A i \in G : i <= j
      BY <1>3, <1>6, LargestExists
    <2>2. j \in 1 .. k /\ file[j] # <<>>
      BY <2>1
    <2>3. ASSUME NEW n \in 1 .. 4 PROVE LastWord(k, n) = LineOf(j)[n]
      <3>1. (CHOOSE c \in Giving(k, n) : \A i \in Giving(k, n) : i <= c) = j
        <4> DEFINE c == CHOOSE c \in G : \A i \in G : i <= c
        <4>1. c \in G /\ \A i \in G : i <= c
          BY <2>1
        <4>2. c <= j /\ j <= c
          BY <2>1, <4>1
        <4>3. c \in 0 .. k /\ j \in 0 .. k
          BY <1>3, <2>1, <4>1
        <4> HIDE DEF c
        <4>4. c = j
          BY <1>3, <4>2, <4>3
        <4> QED
          BY <1>4, <4>4 DEF c
      <3>2. Giving(k, n) # {}
        BY <1>4, <1>6
      <3>3. LastWord(k, n) = file[j][n]
        BY <3>1, <3>2 DEF LastWord
      <3> QED
        BY <2>2, <3>3 DEF LineOf
    <2>4. Counts(k) => j = k
      <3>1. file[k] # <<>> => k \in G
        BY <1>3
      <3> QED
        BY <1>3, <2>1, <2>2, <3>1 DEF Counts
    <2> QED
      BY <2>2, <2>3, <2>4 DEF Counts
  <1> QED
    BY <1>5, <1>6

\* A word that inet_aton refuses stands in a line that counts.
LEMMA FailureLine ==
  ASSUME LoopInv, Tidy, ret = "failure"
  PROVE  \E k \in DOMAIN file : Counts(k) /\ \E n \in 1 .. 3 : ~ inet_aton(LineOf(k)[n])
  <1>1. file \in Files /\ Len(file) \in Nat /\ DOMAIN file = 1 .. Len(file)
    <2>1. file \in Seq(Seq(Numbers \cup Iface)) /\ file \in Files
      BY FileType DEF LoopInv
    <2> QED
      BY <2>1
  <1>2. PICK n \in 1 .. 3 : ~ inet_aton(Remembered(pos + 1)[n])
    BY DEF LoopInv
  <1>3. pos + 1 \in 1 .. Len(file)
    BY <1>1 DEF LoopInv
  <1>4. PICK j \in 1 .. pos + 1 : /\ Counts(j)
                                 /\ \A i \in 1 .. 4 : LastWord(pos + 1, i) = LineOf(j)[i]
    BY <1>1, <1>3, Repeats
  <1>5. Remembered(pos + 1)[n] = LineOf(j)[n]
    BY <1>4 DEF Remembered
  <1>6. j \in DOMAIN file
    BY <1>1, <1>3, <1>4
  <1> QED
    BY <1>2, <1>4, <1>5, <1>6

\* The table of a tidy file routes as its lines that count.
LEMMA SuccessRoutes ==
  ASSUME TypeInv, LoopInv, ret = "success", Tidy, NEW ip \in Ip
  PROVE  LET k == BestRoute(routing_table, ip)
         IN  IF Fitting(ip) = {} THEN k = 0
             ELSE /\ k \in Fitting(ip)
                  /\ routing_table[k] = EntryOf(LineOf(k))
                  /\ \A j \in Fitting(ip) :
                       \/ LineOf(j)[3] < LineOf(k)[3]
                       \/ LineOf(j)[3] = LineOf(k)[3] /\ k <= j
  <1> DEFINE fits == {k \in DOMAIN routing_table : Matches(routing_table[k], ip)}
  <1>1. /\ file \in Files /\ Len(file) \in Nat /\ DOMAIN file = 1 .. Len(file)
        /\ Len(file) # 0 /\ pos = Len(file)
    <2>1. file \in Seq(Seq(Numbers \cup Iface)) /\ file \in Files
      BY FileType DEF LoopInv
    <2> QED
      BY <2>1 DEF LoopInv, Tidy
  <1>2. routing_table = [k \in 1 .. Len(file) |-> EntryOf(Remembered(k))]
    BY <1>1 DEF LoopInv, OneEntryPerLine
  <1>3. ASSUME NEW k \in 1 .. Len(file)
        PROVE  \E j \in 1 .. k : /\ Counts(j)
                                 /\ Counts(k) => j = k
                                 /\ routing_table[k] = EntryOf(LineOf(j))
    <2>1. PICK j \in 1 .. k : /\ Counts(j) /\ (Counts(k) => j = k)
                            /\ \A n \in 1 .. 4 : LastWord(k, n) = LineOf(j)[n]
      BY <1>1, Repeats
    <2>2. EntryOf(Remembered(k)) = EntryOf(LineOf(j))
      BY <2>1 DEF EntryOf, Remembered
    <2> QED
      BY <1>2, <2>1, <2>2
  <1>4. ASSUME NEW k \in 1 .. Len(file), Counts(k)
        PROVE  routing_table[k] = EntryOf(LineOf(k))
    BY <1>3, <1>4
  <1>5. Fitting(ip) = {k \in fits : Counts(k)}
    BY <1>1, <1>2, <1>4 DEF Fitting
  <1>6. ASSUME NEW k \in fits
        PROVE  \E j \in Fitting(ip) : /\ j <= k /\ routing_table[j] = routing_table[k]
                                      /\ Counts(k) => j = k
    <2>1. k \in 1 .. Len(file) /\ Matches(routing_table[k], ip)
      BY <1>2
    <2>2. PICK j \in 1 .. k : /\ Counts(j)
                              /\ Counts(k) => j = k
                              /\ routing_table[k] = EntryOf(LineOf(j))
      BY <1>3, <2>1
    <2>3. j \in 1 .. Len(file) /\ j <= k
      BY <1>1, <2>1
    <2>4. routing_table[j] = EntryOf(LineOf(j))
      BY <1>4, <2>2, <2>3
    <2>5. j \in Fitting(ip)
      BY <1>1, <2>1, <2>2, <2>3, <2>4 DEF Fitting
    <2> QED
      BY <2>2, <2>3, <2>4, <2>5
  <1>7. CASE Fitting(ip) = {}
    <2>1. fits = {}
      BY <1>6, <1>7
    <2> QED
      BY <1>7, <2>1 DEF BestRoute
  <1>8. CASE Fitting(ip) # {}
    <2>1. fits # {} /\ fits \in SUBSET Nat
      BY <1>2, <1>5, <1>8
    <2>2. \A k \in fits : routing_table[k].mask \in 0 .. IpMax
      <3>1. clear_routing_table
        BY <1>1 DEF LoopInv
      <3>2. routing_table \in Seq(Entry)
        BY <3>1 DEF TypeInv
      <3>3. \A k \in DOMAIN routing_table : routing_table[k] \in Entry
        BY <3>2
      <3> QED
        BY <3>3 DEF Entry
    <2> DEFINE c == CHOOSE k \in fits : \A j \in fits : Prefers(routing_table, k, j)
    <2>3. c \in fits /\ \A j \in fits : Prefers(routing_table, c, j)
      BY <2>1, <2>2, PreferredExists
    <2>4. BestRoute(routing_table, ip) = c
      BY <2>1 DEF BestRoute
    <2> HIDE DEF c
    <2>5. PICK j \in Fitting(ip) : /\ j <= c /\ routing_table[j] = routing_table[c]
                                   /\ Counts(c) => j = c
      BY <1>6, <2>3
    <2>6. j = c
      <3>1. j \in fits /\ j \in Nat /\ c \in Nat
        BY <1>5, <2>1, <2>3
      <3>2. Prefers(routing_table, c, j)
        BY <2>3, <3>1
      <3>3. routing_table[j].mask = routing_table[c].mask /\ routing_table[c].mask \in Nat
        BY <2>2, <2>3, <2>5
      <3>4. c <= j
        BY <3>2, <3>3 DEF Prefers
      <3> QED
        BY <2>5, <3>1, <3>4
    <2>7. ASSUME NEW i \in Fitting(ip)
          PROVE  i \in fits /\ routing_table[i] = EntryOf(LineOf(i))
                 /\ routing_table[i].mask = LineOf(i)[3]
      <3>1. i \in fits /\ Counts(i) /\ i \in 1 .. Len(file)
        BY <1>2, <1>5
      <3>2. routing_table[i] = EntryOf(LineOf(i))
        BY <1>4, <3>1
      <3> QED
        BY <3>1, <3>2 DEF EntryOf
    <2>8. c \in Fitting(ip)
      BY <2>6
    <2>9. ASSUME NEW i \in Fitting(ip)
          PROVE  \/ LineOf(i)[3] < LineOf(c)[3]
                 \/ LineOf(i)[3] = LineOf(c)[3] /\ c <= i
      BY <2>3, <2>7, <2>8 DEF Prefers
    <2> HIDE DEF fits
    <2> QED
      BY <1>8, <2>4, <2>7, <2>8, <2>9
  <1> QED
    BY <1>7, <1>8

\* Of the blank lines of a file only a first one matters, for every file whose
\* other lines are complete and whatever is on the stack: the entry that a later
\* blank line adds repeats an earlier one, and of two equal entries
\* sr_find_lpm_route takes the first; a first blank line counts as a line that
\* says what is on the stack, and no other blank line makes sr_load_rt fail.
THEOREM LoadBlankLines == Spec => []OnlyFirstBlankCounts
  <1>1. TypeInv /\ LoopInv => OnlyFirstBlankCounts
    <2> SUFFICES ASSUME TypeInv, LoopInv, Tidy
                 PROVE  /\ ret = "success" =>
                             \A ip \in Ip :
                               LET k == BestRoute(routing_table, ip)
                               IN  IF Fitting(ip) = {} THEN k = 0
                                   ELSE /\ k \in Fitting(ip)
                                        /\ routing_table[k] = EntryOf(LineOf(k))
                                        /\ \A j \in Fitting(ip) :
                                             \/ LineOf(j)[3] < LineOf(k)[3]
                                             \/ LineOf(j)[3] = LineOf(k)[3] /\ k <= j
                        /\ ret = "failure" =>
                             \E k \in DOMAIN file :
                               Counts(k) /\ \E n \in 1 .. 3 : ~ inet_aton(LineOf(k)[n])
      BY DEF OnlyFirstBlankCounts, Tidy
    <2>1. ASSUME ret = "failure"
          PROVE  \E k \in DOMAIN file :
                   Counts(k) /\ \E n \in 1 .. 3 : ~ inet_aton(LineOf(k)[n])
      BY <2>1, FailureLine
    <2>2. ASSUME ret = "success", NEW ip \in Ip
          PROVE  LET k == BestRoute(routing_table, ip)
                 IN  IF Fitting(ip) = {} THEN k = 0
                     ELSE /\ k \in Fitting(ip)
                          /\ routing_table[k] = EntryOf(LineOf(k))
                          /\ \A j \in Fitting(ip) :
                               \/ LineOf(j)[3] < LineOf(k)[3]
                               \/ LineOf(j)[3] = LineOf(k)[3] /\ k <= j
      BY <2>2, SuccessRoutes
    <2> QED
      BY <2>1, <2>2
  <1> QED
    BY <1>1, TypeInit, TypeStep, LoadInit, LoadStep, PTL DEF Spec

=============================================================================
