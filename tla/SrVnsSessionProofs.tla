------------------------- MODULE SrVnsSessionProofs -------------------------
(***************************************************************************)
(* Proofs about the session with the server, for every set of messages,    *)
(* every size of the length field and every way to cut the stream.         *)
(***************************************************************************)
EXTENDS SrVnsSession, SequenceTheorems, WellFoundedInduction, TLAPS

-----------------------------------------------------------------------------
(* Bytes in the order in which they were sent, as a fact about sequences:  *)
(* w is what is pending, ms the messages, h the number handled.            *)

\* A non-empty set of natural numbers has a smallest element.
LEMMA SmallestExists ==
  ASSUME NEW T \in SUBSET Nat, T # {}
  PROVE  \E x \in T : \A y \in T : x <= y
<1>1. PICK x \in T : \A y \in T : ~ (<<y, x>> \in OpToRel(<, Nat))
  BY NatLessThanWellFounded, WFMin
<1>2. ASSUME NEW y \in T PROVE x <= y
  <2>1. CASE y < x
    <3>1. <<y, x>> \in Nat \X Nat /\ <<y, x>>[1] = y /\ <<y, x>>[2] = x OBVIOUS
    <3>2. <<y, x>> \in OpToRel(<, Nat) BY <2>1, <3>1, Zenon DEF OpToRel
    <3>3. QED BY <1>1, <3>2, Zenon
  <2>2. CASE ~ (y < x) BY <2>2
  <2>3. QED BY <2>1, <2>2
<1>3. QED BY <1>2

\* The elements of a concatenation.
LEMMA ConcatFacts ==
  ASSUME NEW S, NEW s \in Seq(S), NEW t \in Seq(S), NEW a, NEW b,
         a = Len(s), b = Len(t)
  PROVE  /\ s \o t \in Seq(S) /\ a \in Nat /\ b \in Nat /\ Len(s \o t) = a + b
         /\ \A k \in 1 .. a : (s \o t)[k] = s[k]
         /\ \A k \in 1 .. b : (s \o t)[a + k] = t[k]
<1>1. a \in Nat /\ b \in Nat OBVIOUS
<1>2. /\ s \o t \in Seq(S) /\ Len(s \o t) = Len(s) + Len(t)
      /\ \A i \in 1 .. Len(s) + Len(t) :
           (s \o t)[i] = IF i <= Len(s) THEN s[i] ELSE t[i - Len(s)]
  BY ConcatProperties
<1>3. \A k \in 1 .. a : (s \o t)[k] = s[k] BY <1>1, <1>2
<1>4. ASSUME NEW k \in 1 .. b PROVE (s \o t)[a + k] = t[k]
  <2>1. a + k \in 1 .. a + b /\ ~ (a + k <= a) /\ (a + k) - a = k BY <1>1
  <2>2. QED BY <1>2, <2>1
<1>5. QED BY <1>1, <1>2, <1>3, <1>4

Byte == Nat \X Nat

After1(ms, b) == IF b[2] < ms[b[1]].len THEN <<b[1], b[2] + 1>> ELSE <<b[1] + 1, 1>>

InOrder(w, ms, h) ==
  /\ \A k \in 1 .. Len(w) : w[k][1] \in 1 .. Len(ms)
  /\ Len(w) > 0 => w[1] = <<h + 1, 1>>
  /\ \A k \in 1 .. Len(w) - 1 : w[k + 1] = After1(ms, w[k])

DueOf(w, ms, h) == IF Len(w) = 0 THEN <<h + 1, 1>> ELSE After1(ms, w[Len(w)])

\* Messages: what the proofs use of them.
Messages(ms) ==
  /\ Len(ms) \in Nat /\ DOMAIN ms = 1 .. Len(ms)
  /\ \A m \in 1 .. Len(ms) : ms[m].len \in Nat /\ ms[m].len > LenBytes

\* A part of the stream from its beginning.
LEMMA OrderedPrefix ==
  ASSUME NEW w, NEW v, NEW ms, NEW h, InOrder(w, ms, h),
         Len(w) \in Nat, Len(v) \in Nat, Len(v) <= Len(w),
         \A k \in 1 .. Len(v) : v[k] = w[k]
  PROVE  InOrder(v, ms, h)
<1>1. \A k \in 1 .. Len(v) : v[k][1] \in 1 .. Len(ms)
  <2> TAKE k \in 1 .. Len(v)
  <2>1. k \in 1 .. Len(w) /\ v[k] = w[k] OBVIOUS
  <2>2. QED BY <2>1 DEF InOrder
<1>2. Len(v) > 0 => v[1] = <<h + 1, 1>> BY DEF InOrder
<1>3. \A k \in 1 .. Len(v) - 1 : v[k + 1] = After1(ms, v[k])
  <2> TAKE k \in 1 .. Len(v) - 1
  <2>1. /\ k \in 1 .. Len(w) - 1 /\ k \in 1 .. Len(v) /\ k + 1 \in 1 .. Len(v)
    OBVIOUS
  <2>2. v[k] = w[k] /\ v[k + 1] = w[k + 1] BY <2>1
  <2>3. w[k + 1] = After1(ms, w[k]) BY <2>1 DEF InOrder
  <2>4. QED BY <2>2, <2>3
<1>4. QED BY <1>1, <1>2, <1>3 DEF InOrder

\* The first bytes are those of the first message that was not handled.
LEMMA FirstMessage ==
  ASSUME NEW w, NEW ms, NEW h \in Nat, InOrder(w, ms, h), Messages(ms),
         Len(w) \in Nat, NEW k \in 1 .. Len(w), k <= ms[h + 1].len
  PROVE  w[k] = <<h + 1, k>>
<1> DEFINE T == {j \in 1 .. Len(w) : j <= ms[h + 1].len /\ w[j] # <<h + 1, j>>}
<1>1. SUFFICES ASSUME T # {} PROVE FALSE OBVIOUS
<1>2. T \in SUBSET Nat OBVIOUS
<1>3. PICK j \in T : \A y \in T : j <= y BY <1>1, <1>2, SmallestExists
<1>4. /\ j \in 1 .. Len(w) /\ j <= ms[h + 1].len /\ w[j] # <<h + 1, j>>
      /\ \A y \in 1 .. Len(w) : y <= ms[h + 1].len /\ w[y] # <<h + 1, y>> => j <= y
  BY <1>3
<1> HIDE DEF T
<1>5. h + 1 \in 1 .. Len(ms)
  <2>1. Len(w) > 0 /\ 1 \in 1 .. Len(w) OBVIOUS
  <2>2. w[1] = <<h + 1, 1>> /\ w[1][1] \in 1 .. Len(ms) BY <2>1 DEF InOrder
  <2>3. QED BY <2>2
<1>6. ms[h + 1].len \in Nat BY <1>5 DEF Messages
<1>7. j # 1 BY <1>4 DEF InOrder
<1>8. PICK i : i = j - 1 OBVIOUS
<1>9. i \in 1 .. Len(w) - 1 /\ i \in 1 .. Len(w) /\ i < ms[h + 1].len /\ i + 1 = j /\ i < j
  BY <1>4, <1>6, <1>7, <1>8
<1>10. w[i] = <<h + 1, i>> BY <1>4, <1>6, <1>9
<1>11. w[i][1] = h + 1 /\ w[i][2] = i BY <1>10
<1>12. After1(ms, w[i]) = <<h + 1, i + 1>> BY <1>9, <1>11 DEF After1
<1>13. w[i + 1] = <<h + 1, i + 1>> BY <1>9, <1>12 DEF InOrder
<1>14. QED BY <1>4, <1>9, <1>13

\* The first message is handled.
LEMMA OrderedDrop ==
  ASSUME NEW w, NEW v, NEW ms, NEW h \in Nat, InOrder(w, ms, h), Messages(ms),
         NEW a \in Nat, NEW b \in Nat, NEW L \in Nat, L > 0, b = a + L,
         Len(w) = b, Len(v) = a, ms[h + 1].len = L,
         \A k \in 1 .. a : v[k] = w[L + k]
  PROVE  InOrder(v, ms, h + 1) /\ DueOf(v, ms, h + 1) = DueOf(w, ms, h)
<1>1. L \in 1 .. b OBVIOUS
<1>2. w[L] = <<h + 1, L>>
  <2>1. L \in 1 .. Len(w) /\ L <= ms[h + 1].len /\ Len(w) \in Nat BY <1>1
  <2>2. QED BY <2>1, FirstMessage
<1>3. After1(ms, w[L]) = <<h + 1 + 1, 1>>
  <2>1. w[L][1] = h + 1 /\ w[L][2] = L BY <1>2
  <2>2. ~ (w[L][2] < ms[w[L][1]].len) BY <2>1
  <2>3. QED BY <2>1, <2>2 DEF After1
<1>4. \A k \in 1 .. a : v[k][1] \in 1 .. Len(ms)
  <2> TAKE k \in 1 .. a
  <2>1. L + k \in 1 .. b OBVIOUS
  <2>2. QED BY <2>1 DEF InOrder
<1>5. ASSUME a > 0 PROVE v[1] = <<h + 1 + 1, 1>>
  <2>1. 1 \in 1 .. a /\ L \in 1 .. b - 1 BY <1>5
  <2>2. v[1] = w[L + 1] /\ w[L + 1] = After1(ms, w[L]) BY <2>1 DEF InOrder
  <2>3. QED BY <1>3, <2>2
<1>6. \A k \in 1 .. a - 1 : v[k + 1] = After1(ms, v[k])
  <2> TAKE k \in 1 .. a - 1
  <2>1. /\ k \in 1 .. a /\ k + 1 \in 1 .. a
        /\ L + k \in 1 .. b - 1 /\ L + (k + 1) = (L + k) + 1
    OBVIOUS
  <2>2. v[k] = w[L + k] /\ v[k + 1] = w[L + (k + 1)] BY <2>1
  <2>3. w[(L + k) + 1] = After1(ms, w[L + k]) BY <2>1 DEF InOrder
  <2>4. QED BY <2>1, <2>2, <2>3
<1>7. DueOf(v, ms, h + 1) = DueOf(w, ms, h)
  <2>1. b # 0 BY <1>1
  <2>2. CASE a = 0
    <3>1. b = L BY <2>2
    <3>2. QED BY <1>3, <2>1, <2>2, <3>1 DEF DueOf
  <2>3. CASE a # 0
    <3>1. a \in 1 .. a /\ L + a = b BY <2>3
    <3>2. v[a] = w[b] BY <3>1
    <3>3. QED BY <2>1, <2>3, <3>2 DEF DueOf
  <2>4. QED BY <2>2, <2>3
<1>8. QED BY <1>4, <1>5, <1>6, <1>7 DEF InOrder

\* A message of L bytes follows: w becomes v and ms becomes ns.
Follows(w, v, ms, ns, L) ==
  /\ Len(ns) = Len(ms) + 1 /\ \A m \in 1 .. Len(ms) : ns[m] = ms[m]
  /\ ns[Len(ns)].len = L
  /\ Len(v) = Len(w) + L /\ \A k \in 1 .. Len(w) : v[k] = w[k]
  /\ \A k \in 1 .. L : v[Len(w) + k] = <<Len(ns), k>>

LEMMA OrderedSend ==
  ASSUME NEW w, NEW v, NEW ms, NEW ns, NEW h \in Nat, InOrder(w, ms, h),
         Messages(ms), Messages(ns), Len(w) \in Nat,
         DueOf(w, ms, h) = <<Len(ms) + 1, 1>>,
         NEW L \in Nat \ {0}, Follows(w, v, ms, ns, L)
  PROVE  InOrder(v, ns, h) /\ DueOf(v, ns, h) = <<Len(ns) + 1, 1>>
<1>a. /\ Len(ns) = Len(ms) + 1 /\ \A m \in 1 .. Len(ms) : ns[m] = ms[m]
      /\ ns[Len(ns)].len = L
      /\ Len(v) = Len(w) + L /\ \A k \in 1 .. Len(w) : v[k] = w[k]
      /\ \A k \in 1 .. L : v[Len(w) + k] = <<Len(ns), k>>
  BY DEF Follows
<1> USE <1>a
<1>0. /\ Len(ms) \in Nat /\ Len(ns) \in Nat /\ Len(v) \in Nat
      /\ Len(ns) \in 1 .. Len(ns)
  BY DEF Messages
<1>1. ASSUME NEW k \in 1 .. Len(v), k \notin 1 .. Len(w)
      PROVE  /\ k - Len(w) \in 1 .. L
             /\ v[k] = <<Len(ns), k - Len(w)>>
             /\ v[k][1] = Len(ns) /\ v[k][2] = k - Len(w)
  <2>1. k - Len(w) \in 1 .. L /\ Len(w) + (k - Len(w)) = k BY <1>0, <1>1
  <2>2. v[k] = <<Len(ns), k - Len(w)>> BY <2>1
  <2>3. QED BY <2>1, <2>2
<1>2. ASSUME NEW k \in 1 .. Len(w) PROVE After1(ns, w[k]) = After1(ms, w[k])
  <2>1. w[k][1] \in 1 .. Len(ms) BY DEF InOrder
  <2>2. ns[w[k][1]] = ms[w[k][1]] BY <2>1
  <2>3. QED BY <2>2 DEF After1
<1>3. \A k \in 1 .. Len(v) : v[k][1] \in 1 .. Len(ns)
  <2> TAKE k \in 1 .. Len(v)
  <2>1. CASE k \in 1 .. Len(w)
    <3>1. v[k] = w[k] /\ w[k][1] \in 1 .. Len(ms) BY <2>1 DEF InOrder
    <3>2. QED BY <1>0, <3>1
  <2>2. CASE k \notin 1 .. Len(w) BY <1>0, <1>1, <2>2
  <2>3. QED BY <2>1, <2>2
<1>4. v[1] = <<h + 1, 1>>
  <2>1. CASE Len(w) > 0
    <3>1. 1 \in 1 .. Len(w) BY <2>1
    <3>2. QED BY <2>1, <3>1 DEF InOrder
  <2>2. CASE Len(w) = 0
    <3>1. v[1] = <<Len(ns), 1>> BY <2>2
    <3>2. QED BY <2>2, <3>1 DEF DueOf
  <2>3. QED BY <2>1, <2>2
<1>5. \A k \in 1 .. Len(v) - 1 : v[k + 1] = After1(ns, v[k])
  <2> TAKE k \in 1 .. Len(v) - 1
  <2>0. k \in 1 .. Len(v) /\ k + 1 \in 1 .. Len(v) BY <1>0
  <2>1. CASE k \in 1 .. Len(w) - 1
    <3>1. k \in 1 .. Len(w) /\ k + 1 \in 1 .. Len(w) BY <2>1
    <3>2. v[k] = w[k] /\ v[k + 1] = w[k + 1] BY <3>1
    <3>3. w[k + 1] = After1(ms, w[k]) BY <2>1 DEF InOrder
    <3>4. QED BY <1>2, <3>1, <3>2, <3>3
  <2>2. CASE k = Len(w)
    <3>1. k \in 1 .. Len(w) /\ k + 1 \notin 1 .. Len(w) /\ (k + 1) - Len(w) = 1
      BY <2>2
    <3>2. v[k + 1] = <<Len(ns), 1>> BY <1>1, <2>0, <3>1
    <3>3. v[k] = w[k] BY <3>1
    <3>4. After1(ms, w[k]) = <<Len(ms) + 1, 1>> BY <2>2, <3>1 DEF DueOf
    <3>5. QED BY <1>2, <3>1, <3>2, <3>3, <3>4
  <2>3. CASE k > Len(w)
    <3>1. k \notin 1 .. Len(w) /\ k + 1 \notin 1 .. Len(w)
          /\ (k + 1) - Len(w) = (k - Len(w)) + 1
      BY <2>0, <2>3
    <3>2. v[k][1] = Len(ns) /\ v[k][2] = k - Len(w) /\ v[k + 1] = <<Len(ns), (k - Len(w)) + 1>>
          /\ (k - Len(w)) + 1 \in 1 .. L
      BY <1>1, <2>0, <3>1
    <3>3. v[k][2] < ns[v[k][1]].len BY <2>0, <2>3, <3>2
    <3>4. QED BY <3>2, <3>3 DEF After1
  <2>4. QED BY <2>0, <2>1, <2>2, <2>3
<1>6. DueOf(v, ns, h) = <<Len(ns) + 1, 1>>
  <2>1. Len(v) # 0 /\ Len(v) \in 1 .. Len(v) /\ Len(v) \notin 1 .. Len(w)
        /\ Len(v) - Len(w) = L
    BY <1>0
  <2>2. v[Len(v)][1] = Len(ns) /\ v[Len(v)][2] = L BY <1>1, <2>1
  <2>3. ~ (v[Len(v)][2] < ns[v[Len(v)][1]].len) BY <2>2
  <2>4. QED BY <2>1, <2>2, <2>3 DEF DueOf, After1
<1>7. QED BY <1>3, <1>4, <1>5, <1>6 DEF InOrder

-----------------------------------------------------------------------------
(* What the steps do to the stream.                                        *)

Gone == srv \in {"eof", "reset"}

\* The types that the proofs need, and what the server waits for.
StreamOK ==
  /\ \E A : msgs \in Seq([type : Commands, len : Nat, arg : A])
  /\ \A m \in 1 .. Len(msgs) : msgs[m].len > LenBytes
  /\ got \in Seq(Byte) /\ stream \in Seq(Byte) /\ handled \in Seq(Nat)
  /\ Len(handled) <= Len(msgs)
  /\ pc \in {"load", "connect"} => srv = "listening"

\* The server sends message x.
Sends(x) ==
  /\ x.len \in Nat /\ x.len > LenBytes
  /\ \E a : x \in [type : Commands, len : Nat, arg : {a}]
  /\ msgs' = Append(msgs, x)
  /\ stream' = stream \o [k \in 1 .. x.len |-> <<Len(msgs) + 1, k>>]
  /\ srv # "listening" /\ ~ Gone /\ ~ Gone'
  /\ UNCHANGED <<pc, got, handled>>

\* It vanishes, and with it the end of the stream.
Cuts(n) ==
  /\ n \in 0 .. Len(stream) /\ stream' = SubSeq(stream, 1, n)
  /\ srv # "listening" /\ Gone'
  /\ UNCHANGED <<msgs, pc, got, handled>>

\* The program takes n bytes.
Takes(n) ==
  /\ n \in 1 .. Len(stream)
  /\ got' = got \o SubSeq(stream, 1, n)
  /\ stream' = SubSeq(stream, n + 1, Len(stream))
  /\ \/ Len(got) + n <= LenBytes
     \/ Len(got) >= LenBytes /\ LengthRead <= MaxLen /\ Len(got) + n <= LengthRead
  /\ UNCHANGED <<srv, msgs, pc, handled>>

\* It has handled a message.
Returns ==
  /\ Len(got) >= LenBytes /\ Len(got) = LengthRead
  /\ handled' = Append(handled, got[1][1])
  /\ got' = <<>>
  /\ pc' \notin {"load", "connect"}
  /\ UNCHANGED <<srv, msgs, stream>>

\* It does something else.
Others ==
  /\ Gone' <=> Gone
  /\ pc' \in {"load", "connect"} => pc \in {"load", "connect"} /\ srv' = srv
  /\ UNCHANGED <<msgs, stream, got, handled>>

LEMMA SendSends ==
  ASSUME NEW type \in Commands, NEW arg, NEW next, Send(type, arg, next),
         srv # "listening", ~ Gone, next \notin {"eof", "reset"}
  PROVE  \E x : Sends(x)
<1>1. PICK len \in Lens[type] :
        /\ msgs' = Append(msgs, [type |-> type, len |-> len, arg |-> arg])
        /\ stream' = stream \o [k \in 1 .. len |-> <<Len(msgs) + 1, k>>]
  BY DEF Send
<1>2. len \in Nat /\ len > LenBytes BY SessionAssumption
<1>3. PICK x : x = [type |-> type, len |-> len, arg |-> arg] OBVIOUS
<1>4. x.len = len /\ x \in [type : Commands, len : Nat, arg : {arg}] BY <1>2, <1>3
<1>5. srv' = next /\ UNCHANGED <<pc, got, handled>> BY DEF Send, historyVars
<1>6. ~ Gone' BY <1>5 DEF Gone
<1>7. msgs' = Append(msgs, x) /\ stream' = stream \o [k \in 1 .. x.len |-> <<Len(msgs) + 1, k>>]
  BY <1>1, <1>3, <1>4
<1>8. Sends(x) BY <1>2, <1>4, <1>5, <1>6, <1>7 DEF Sends
<1>9. QED BY <1>8

LEMMA ServerSteps ==
  ASSUME Server
  PROVE  (\E x : Sends(x)) \/ (\E n : Cuts(n))
<1>0. Commands = {"VNS_AUTH_REQUEST", "VNS_AUTH_STATUS", "VNS_RTABLE", "VNSHWINFO",
                  "VNSPACKET", "VNSBANNER", "VNSCLOSE"}
  BY DEF Commands
<1>1. CASE SrvAuthRequest
  BY <1>0, <1>1, SendSends DEF SrvAuthRequest, Gone
<1>2. CASE SrvAuthStatus
  BY <1>0, <1>2, SendSends DEF SrvAuthStatus, Gone
<1>3. CASE SrvRtable
  BY <1>0, <1>3, SendSends DEF SrvRtable, Gone
<1>4. CASE SrvHwinfo
  BY <1>0, <1>4, SendSends DEF SrvHwinfo, Gone
<1>5. CASE SrvPacket
  BY <1>0, <1>5, SendSends DEF SrvPacket, Gone
<1>6. CASE SrvBanner
  BY <1>0, <1>6, SendSends DEF SrvBanner, Talking, Gone
<1>7. CASE SrvClose
  BY <1>0, <1>7, SendSends DEF SrvClose, Talking, Gone
<1>8. CASE SrvGone
  BY <1>8 DEF SrvGone, Cuts, Talking, Gone, historyVars
<1>9. QED BY <1>1, <1>2, <1>3, <1>4, <1>5, <1>6, <1>7, <1>8 DEF Server

LEMMA AfterNotEarly ==
  ASSUME NEW p \in Expects \cup {"loop"}
  PROVE  After[p] \in {"VNS_AUTH_STATUS", "open", "reload", "loop"}
<1>1. p \in {"VNS_AUTH_REQUEST", "VNS_AUTH_STATUS", "VNS_RTABLE", "loop"}
  BY DEF Expects
<1>2. After[p] = CASE p = "VNS_AUTH_REQUEST" -> "VNS_AUTH_STATUS"
                   [] p = "VNS_AUTH_STATUS"  -> "open"
                   [] p = "VNS_RTABLE"       -> "reload"
                   [] p = "loop"             -> "loop"
  BY DEF After
<1>3. QED BY <1>1, <1>2

LEMMA ReturnReturns ==
  ASSUME NEW one, Complete, Return(one)
  PROVE  Returns
<1>1. pc \in Expects \cup {"loop"} BY DEF Complete, Reading
<1>2. pc' \notin {"load", "connect"} BY <1>1, AfterNotEarly DEF Return
<1>3. QED BY <1>2 DEF Complete, Return, Returns, serverVars

LEMMA ClientSteps ==
  ASSUME StreamOK, Client
  PROVE  (\E n : Takes(n)) \/ Returns \/ Others
<1>1. CASE Load \/ Reload
  BY <1>1 DEF Load, Reload, sr_load_rt_wrap, Others, Gone, serverVars, historyVars
<1>2. CASE Connect
  BY <1>2 DEF Connect, StreamOK, Others, Gone, historyVars
<1>3. CASE Open \/ Start \/ ReadTooLong \/ ReadError
  <2>1. UNCHANGED <<srv, msgs, stream, got, handled>> /\ pc' \notin {"load", "connect"}
    BY <1>3 DEF Open, Start, ReadTooLong, ReadError, serverVars, historyVars
  <2>2. QED BY <2>1 DEF Others, Gone
<1>4. CASE ReadLength \/ ReadBody
  BY <1>4 DEF ReadLength, ReadBody, Consume, Takes, historyVars
<1>5. CASE Unexpected \/ HandleClose
  BY <1>5, ReturnReturns DEF Unexpected, HandleClose
<1>6. CASE HandleBanner \/ sr_handle_auth_request \/ sr_handle_auth_status
           \/ sr_handle_rtable
  BY <1>6, ReturnReturns DEF HandleBanner, sr_handle_auth_request,
                             sr_handle_auth_status, sr_handle_rtable, Arrives
<1>7. CASE HandleHwinfo
  <2>1. Complete /\ Return(sr_verify_routing_table(routing_table, if_list'))
    BY <1>7 DEF HandleHwinfo, Arrives
  <2>2. QED BY <2>1, ReturnReturns
<1>8. CASE HandlePacket
  <2>1. CASE Command.arg \in Names(if_list)
    BY <1>8, <2>1, ReturnReturns DEF HandlePacket, Arrives
  <2>2. CASE Command.arg \notin Names(if_list)
    <3>1. pc' = "abort" /\ UNCHANGED <<serverVars, got, historyVars>>
      BY <1>8, <2>2 DEF HandlePacket
    <3>2. QED BY <3>1 DEF Others, Gone, serverVars, historyVars
  <2>3. QED BY <2>1, <2>2
<1>9. QED BY <1>1, <1>2, <1>3, <1>4, <1>5, <1>6, <1>7, <1>8 DEF Client

LEMMA SessionSteps ==
  ASSUME StreamOK, [Next]_vars
  PROVE  \/ \E x : Sends(x)
         \/ \E n : Cuts(n)
         \/ \E n : Takes(n)
         \/ Returns
         \/ Others
<1>1. CASE UNCHANGED vars
  BY <1>1 DEF vars, Others, Gone, serverVars, historyVars
<1>2. QED BY <1>1, ServerSteps, ClientSteps DEF Next

-----------------------------------------------------------------------------
(* Messages are handled whole.                                             *)

\* The inductive invariant: Framed, and the types.
HandledOK == \A k \in 1 .. Len(handled) : handled[k] = k

GotOK == \A k \in 1 .. Len(got) : got[k] = <<Len(handled) + 1, k>>

OrderOK ==
  /\ InOrder(Pending, msgs, Len(handled))
  /\ ~ Gone => DueOf(Pending, msgs, Len(handled)) = <<Len(msgs) + 1, 1>>

FrameInv == StreamOK /\ HandledOK /\ GotOK /\ OrderOK

LEMMA StreamFacts ==
  ASSUME StreamOK
  PROVE  /\ Messages(msgs)
         /\ Len(got) \in Nat /\ Len(stream) \in Nat /\ Len(handled) \in Nat
         /\ Pending \in Seq(Byte) /\ Len(Pending) = Len(got) + Len(stream)
         /\ \A k \in 1 .. Len(got) : Pending[k] = got[k]
         /\ \A k \in 1 .. Len(stream) : Pending[Len(got) + k] = stream[k]
<1>1. PICK A : msgs \in Seq([type : Commands, len : Nat, arg : A]) BY DEF StreamOK
<1>2. Len(msgs) \in Nat /\ DOMAIN msgs = 1 .. Len(msgs) BY <1>1
<1>3. \A m \in 1 .. Len(msgs) : msgs[m].len \in Nat
  <2> TAKE m \in 1 .. Len(msgs)
  <2>1. msgs[m] \in [type : Commands, len : Nat, arg : A] BY <1>1, ElementOfSeq
  <2>2. QED BY <2>1
<1>4. Messages(msgs) BY <1>2, <1>3 DEF Messages, StreamOK
<1>5. got \in Seq(Byte) /\ stream \in Seq(Byte) /\ handled \in Seq(Nat) BY DEF StreamOK
<1>6. Len(got) \in Nat /\ Len(stream) \in Nat /\ Len(handled) \in Nat BY <1>5
<1>7. /\ got \o stream \in Seq(Byte) /\ Len(got \o stream) = Len(got) + Len(stream)
      /\ \A k \in 1 .. Len(got) : (got \o stream)[k] = got[k]
      /\ \A k \in 1 .. Len(stream) : (got \o stream)[Len(got) + k] = stream[k]
  BY <1>5, <1>6
<1>8. QED BY <1>4, <1>6, <1>7 DEF Pending

LEMMA StreamFactsState ==
  StreamOK => /\ Messages(msgs)
              /\ Len(got) \in Nat /\ Len(stream) \in Nat /\ Len(handled) \in Nat
              /\ Pending \in Seq(Byte) /\ Len(Pending) = Len(got) + Len(stream)
              /\ \A k \in 1 .. Len(got) : Pending[k] = got[k]
              /\ \A k \in 1 .. Len(stream) : Pending[Len(got) + k] = stream[k]
BY StreamFacts

LEMMA StreamFactsNext ==
  StreamOK' => (/\ Messages(msgs)
                /\ Len(got) \in Nat /\ Len(stream) \in Nat /\ Len(handled) \in Nat
                /\ Pending \in Seq(Byte) /\ Len(Pending) = Len(got) + Len(stream)
                /\ \A k \in 1 .. Len(got) : Pending[k] = got[k]
                /\ \A k \in 1 .. Len(stream) : Pending[Len(got) + k] = stream[k])'
BY StreamFactsState, PTL

\* The length field is read right: the first message that was not handled is
\* there, and its first bytes are in order.
LEMMA LengthRight ==
  ASSUME FrameInv, Len(got) >= LenBytes
  PROVE  /\ Len(handled) + 1 \in 1 .. Len(msgs)
         /\ got[1][1] = Len(handled) + 1
         /\ LengthRead = msgs[Len(handled) + 1].len
<1> DEFINE m == Len(handled) + 1
<1>1. /\ LenBytes \in Nat /\ LenBytes > 0 BY SessionAssumption
<1>2. /\ Messages(msgs) /\ Len(got) \in Nat /\ Len(handled) \in Nat /\ Len(stream) \in Nat
      /\ Len(Pending) = Len(got) + Len(stream)
      /\ \A k \in 1 .. Len(got) : Pending[k] = got[k]
  BY StreamFacts DEF FrameInv
<1>3. \A k \in 1 .. Len(got) : got[k] = <<m, k>> BY DEF FrameInv, GotOK
<1>4. 1 \in 1 .. Len(got) /\ 1 \in 1 .. Len(Pending) BY <1>1, <1>2
<1>5. got[1] = <<m, 1>> /\ got[1][1] = m BY <1>3, <1>4
<1>6. m \in 1 .. Len(msgs)
  <2>1. Pending[1][1] \in 1 .. Len(msgs) BY <1>4 DEF FrameInv, OrderOK, InOrder
  <2>2. QED BY <1>2, <1>4, <1>5, <2>1
<1> HIDE DEF m
<1>7. msgs[m].len \in Nat /\ msgs[m].len > LenBytes BY <1>2, <1>6 DEF Messages
<1>8. SubSeq(got, 1, LenBytes) = [k \in 1 .. LenBytes |-> <<m, k>>]
  <2>1. got \in Seq(Byte) BY DEF FrameInv, StreamOK
  <2>2. SubSeq(got, 1, LenBytes) = [k \in 1 .. LenBytes |-> got[k]]
    BY <1>1, <1>2, <2>1
  <2>3. \A k \in 1 .. LenBytes : got[k] = <<m, k>> BY <1>1, <1>2, <1>3
  <2>4. QED BY <2>2, <2>3
<1>9. SubSeq(BytesOf(m), 1, LenBytes) = [k \in 1 .. LenBytes |-> <<m, k>>]
  <2>1. PICK l \in Nat : l = msgs[m].len BY <1>7
  <2>2. BytesOf(m) = [k \in 1 .. l |-> <<m, k>>] BY <2>1 DEF BytesOf
  <2>3. \A k \in 1 .. LenBytes : k \in 1 .. l BY <1>1, <1>7, <2>1
  <2>4. SubSeq(BytesOf(m), 1, LenBytes) = [k \in 1 .. LenBytes |-> BytesOf(m)[k]]
    <3>1. BytesOf(m) \in Seq(Nat \X Nat)
      <4>1. m \in Nat BY <1>2 DEF m
      <4>2. QED BY <2>2, <4>1
    <3>2. Len(BytesOf(m)) = l BY <2>2, <3>1
    <3>3. QED BY <1>1, <1>7, <2>1, <3>1, <3>2
  <2>5. \A k \in 1 .. LenBytes : BytesOf(m)[k] = <<m, k>> BY <2>2, <2>3
  <2>6. QED BY <2>4, <2>5
<1>10. LengthRead = msgs[m].len BY <1>5, <1>8, <1>9 DEF LengthRead
<1>11. QED BY <1>5, <1>6, <1>10 DEF m

\* Message x is added to the messages.
LEMMA MessagesAppend ==
  ASSUME StreamOK, NEW x, Sends(x)
  PROVE  /\ \E A : msgs' \in Seq([type : Commands, len : Nat, arg : A])
         /\ Len(msgs') = Len(msgs) + 1
         /\ msgs'[Len(msgs')] = x
         /\ \A m \in 1 .. Len(msgs) : msgs'[m] = msgs[m]
<1>1. PICK A : msgs \in Seq([type : Commands, len : Nat, arg : A]) BY DEF StreamOK
<1>2. PICK a : x \in [type : Commands, len : Nat, arg : {a}] BY DEF Sends
<1>3. PICK R : R = [type : Commands, len : Nat, arg : A \cup {a}] OBVIOUS
<1>4. x \in R BY <1>2, <1>3
<1>5. \A r \in [type : Commands, len : Nat, arg : A] : r \in R BY <1>3
<1>6. msgs \in Seq(R)
  <2>1. Len(msgs) \in Nat /\ msgs = [m \in 1 .. Len(msgs) |-> msgs[m]] BY <1>1
  <2>2. \A m \in 1 .. Len(msgs) : msgs[m] \in R
    <3> TAKE m \in 1 .. Len(msgs)
    <3>1. msgs[m] \in [type : Commands, len : Nat, arg : A] BY <1>1, ElementOfSeq
    <3>2. QED BY <1>5, <3>1
  <2>3. QED BY <2>1, <2>2
<1>7. msgs' = Append(msgs, x) BY DEF Sends
<1>8. /\ msgs' \in Seq(R) /\ Len(msgs') = Len(msgs) + 1 /\ msgs'[Len(msgs) + 1] = x
      /\ \A m \in 1 .. Len(msgs) : msgs'[m] = msgs[m]
  BY <1>4, <1>6, <1>7
<1>9. QED BY <1>3, <1>8

LEMMA SendStream ==
  ASSUME StreamOK, NEW x, Sends(x)
  PROVE  StreamOK'
<1>1. /\ \E A : msgs' \in Seq([type : Commands, len : Nat, arg : A])
      /\ Len(msgs') = Len(msgs) + 1
      /\ msgs'[Len(msgs')] = x
      /\ \A m \in 1 .. Len(msgs) : msgs'[m] = msgs[m]
  BY MessagesAppend
<1>2. Messages(msgs) /\ Len(handled) \in Nat BY StreamFacts
<1>3. \A m \in 1 .. Len(msgs') : msgs'[m].len > LenBytes
  <2> TAKE m \in 1 .. Len(msgs')
  <2>1. CASE m = Len(msgs') BY <1>1, <2>1 DEF Sends
  <2>2. CASE m # Len(msgs')
    <3>1. m \in 1 .. Len(msgs) BY <1>1, <1>2, <2>2 DEF Messages
    <3>2. QED BY <1>1, <1>2, <3>1 DEF Messages
  <2>3. QED BY <2>1, <2>2
<1>4. stream' \in Seq(Byte)
  <2>1. PICK l \in Nat : l = x.len BY DEF Sends
  <2>2. PICK s : s = [k \in 1 .. l |-> <<Len(msgs) + 1, k>>] OBVIOUS
  <2>3. \A k \in 1 .. l : <<Len(msgs) + 1, k>> \in Byte BY <1>2 DEF Messages, Byte
  <2>4. s \in Seq(Byte) BY <2>2, <2>3
  <2>5. stream \in Seq(Byte) /\ stream' = stream \o s BY <2>1, <2>2 DEF StreamOK, Sends
  <2>6. QED BY <2>4, <2>5
<1>5. UNCHANGED <<pc, got, handled>> /\ srv # "listening" BY DEF Sends
<1>6. Len(handled) <= Len(msgs') BY <1>1, <1>2 DEF StreamOK, Messages
<1>7. pc \notin {"load", "connect"} BY <1>5 DEF StreamOK
<1>8. QED BY <1>1, <1>3, <1>4, <1>5, <1>6, <1>7 DEF StreamOK

LEMMA CutStream ==
  ASSUME StreamOK, NEW n, Cuts(n)
  PROVE  StreamOK'
<1>1. UNCHANGED <<msgs, pc, got, handled>> /\ srv # "listening" BY DEF Cuts
<1>2. stream \in Seq(Byte) /\ n \in 0 .. Len(stream) /\ stream' = SubSeq(stream, 1, n)
  BY DEF StreamOK, Cuts
<1>3. stream' \in Seq(Byte) BY <1>2
<1>4. pc \notin {"load", "connect"} BY <1>1 DEF StreamOK
<1>5. QED BY <1>1, <1>3, <1>4 DEF StreamOK

LEMMA TakeStream ==
  ASSUME StreamOK, NEW n, Takes(n)
  PROVE  /\ StreamOK'
         /\ Len(got') = Len(got) + n
         /\ Len(stream') = Len(stream) - n
         /\ \A k \in 1 .. Len(got) : got'[k] = got[k]
         /\ \A k \in 1 .. n : got'[Len(got) + k] = stream[k]
         /\ \A k \in 1 .. Len(stream) - n : stream'[k] = stream[n + k]
<1>1. UNCHANGED <<srv, msgs, pc, handled>> BY DEF Takes
<1>2. /\ stream \in Seq(Byte) /\ got \in Seq(Byte) /\ n \in 1 .. Len(stream)
      /\ Len(stream) \in Nat
  BY DEF StreamOK, Takes
<1>3. PICK s : s = SubSeq(stream, 1, n) OBVIOUS
<1>4. s \in Seq(Byte) /\ Len(s) = n /\ \A k \in 1 .. n : s[k] = stream[k]
  BY <1>2, <1>3
<1>5. got' = got \o s BY <1>3 DEF Takes
<1>6. /\ got' \in Seq(Byte) /\ Len(got') = Len(got) + n
      /\ \A k \in 1 .. Len(got) : got'[k] = got[k]
      /\ \A k \in 1 .. n : got'[Len(got) + k] = stream[k]
  BY <1>2, <1>4, <1>5
<1>7. stream' = SubSeq(stream, n + 1, Len(stream)) BY DEF Takes
<1>8. /\ stream' \in Seq(Byte) /\ Len(stream') = Len(stream) - n
      /\ \A k \in 1 .. Len(stream) - n : stream'[k] = stream[n + k]
  BY <1>2, <1>7
<1>9. StreamOK' BY <1>1, <1>6, <1>8 DEF StreamOK
<1>10. QED BY <1>6, <1>8, <1>9

LEMMA ReturnStream ==
  ASSUME FrameInv, Returns
  PROVE  /\ StreamOK'
         /\ Len(handled') = Len(handled) + 1
         /\ handled'[Len(handled) + 1] = Len(handled) + 1
         /\ \A k \in 1 .. Len(handled) : handled'[k] = handled[k]
<1>1. /\ Len(handled) + 1 \in 1 .. Len(msgs)
      /\ got[1][1] = Len(handled) + 1
  BY LengthRight DEF Returns
<1>2. /\ handled' = Append(handled, Len(handled) + 1) /\ got' = <<>>
      /\ pc' \notin {"load", "connect"} /\ UNCHANGED <<srv, msgs, stream>>
  BY <1>1 DEF Returns
<1>3. handled \in Seq(Nat) BY DEF FrameInv, StreamOK
<1>4. /\ handled' \in Seq(Nat) /\ Len(handled') = Len(handled) + 1
      /\ handled'[Len(handled) + 1] = Len(handled) + 1
      /\ \A k \in 1 .. Len(handled) : handled'[k] = handled[k]
  BY <1>2, <1>3
<1>5. Len(handled') <= Len(msgs) BY <1>1, <1>4
<1>6. got' \in Seq(Byte) BY <1>2
<1>7. StreamOK' BY <1>2, <1>4, <1>5, <1>6 DEF FrameInv, StreamOK
<1>8. QED BY <1>4, <1>7

LEMMA OtherStream ==
  ASSUME StreamOK, Others
  PROVE  StreamOK'
BY DEF StreamOK, Others

LEMMA SendFrame ==
  ASSUME FrameInv, NEW x, Sends(x)
  PROVE  FrameInv'
<1>0. StreamOK BY DEF FrameInv
<1>1. StreamOK' BY <1>0, SendStream
<1>2. UNCHANGED <<got, handled>> /\ ~ Gone /\ ~ Gone' BY DEF Sends
<1>3. HandledOK' /\ GotOK' BY <1>2 DEF FrameInv, HandledOK, GotOK
<1>4. /\ Len(msgs') = Len(msgs) + 1
      /\ msgs'[Len(msgs')] = x
      /\ \A m \in 1 .. Len(msgs) : msgs'[m] = msgs[m]
  BY <1>0, MessagesAppend
<1>5. /\ Messages(msgs) /\ Len(handled) \in Nat /\ Len(got) \in Nat /\ Len(stream) \in Nat
      /\ Pending \in Seq(Byte)
  BY <1>0, StreamFacts
<1>6. Messages(msgs') BY <1>1, StreamFactsNext
<1>7. PICK L \in Nat \ {0} : L = x.len BY SessionAssumption DEF Sends
<1>8. PICK s : s = [k \in 1 .. L |-> <<Len(msgs) + 1, k>>] OBVIOUS
<1>9. s \in Seq(Byte) /\ Len(s) = L /\ \A k \in 1 .. L : s[k] = <<Len(msgs) + 1, k>>
  <2>1. \A k \in 1 .. L : <<Len(msgs) + 1, k>> \in Byte BY <1>5 DEF Messages, Byte
  <2>2. QED BY <1>7, <1>8, <2>1
<1>10. Pending' = Pending \o s
  <2>1. got \in Seq(Byte) /\ stream \in Seq(Byte) BY <1>0 DEF StreamOK
  <2>2. stream' = stream \o s BY <1>7, <1>8 DEF Sends
  <2>3. got \o (stream \o s) = (got \o stream) \o s
    <3>1. s \in Seq(Byte) BY <1>9
    <3>2. QED BY <2>1, <3>1
  <2>4. QED BY <1>2, <2>2, <2>3 DEF Pending
<1>11. /\ Len(Pending) \in Nat /\ Len(Pending') = Len(Pending) + L
       /\ \A k \in 1 .. Len(Pending) : Pending'[k] = Pending[k]
       /\ \A k \in 1 .. L : Pending'[Len(Pending) + k] = s[k]
  <2>1. PICK a : a = Len(Pending) OBVIOUS
  <2>2. Pending \in Seq(Byte) /\ s \in Seq(Byte) /\ L = Len(s) BY <1>5, <1>9
  <2>3. /\ a \in Nat /\ Len(Pending \o s) = a + L
        /\ \A k \in 1 .. a : (Pending \o s)[k] = Pending[k]
        /\ \A k \in 1 .. L : (Pending \o s)[a + k] = s[k]
    BY <2>1, <2>2, ConcatFacts
  <2>4. QED BY <1>10, <2>1, <2>3
<1>12. PICK w, v, ms, ns, h : w = Pending /\ v = Pending' /\ ms = msgs /\ ns = msgs' /\ h = Len(handled)
  OBVIOUS
<1>13. /\ h \in Nat /\ InOrder(w, ms, h) /\ Messages(ms) /\ Messages(ns) /\ Len(w) \in Nat
       /\ DueOf(w, ms, h) = <<Len(ms) + 1, 1>>
  BY <1>2, <1>5, <1>6, <1>11, <1>12 DEF FrameInv, OrderOK
<1>14. Follows(w, v, ms, ns, L)
  BY <1>4, <1>7, <1>9, <1>11, <1>12 DEF Follows
<1>14a. L \in Nat \ {0} BY <1>7
<1>15. InOrder(v, ns, h) /\ DueOf(v, ns, h) = <<Len(ns) + 1, 1>>
  BY <1>14a, <1>13, <1>14, OrderedSend
<1>16. OrderOK' BY <1>2, <1>12, <1>15 DEF OrderOK
<1>17. QED BY <1>1, <1>3, <1>16 DEF FrameInv

LEMMA CutFrame ==
  ASSUME FrameInv, NEW n, Cuts(n)
  PROVE  FrameInv'
<1>0. StreamOK BY DEF FrameInv
<1>1. StreamOK' BY <1>0, CutStream
<1>2. UNCHANGED <<msgs, got, handled>> /\ Gone' BY DEF Cuts
<1>3. HandledOK' /\ GotOK' BY <1>2 DEF FrameInv, HandledOK, GotOK
<1>4. /\ stream \in Seq(Byte) /\ n \in 0 .. Len(stream) /\ stream' = SubSeq(stream, 1, n)
      /\ Len(stream) \in Nat
  BY <1>0 DEF StreamOK, Cuts
<1>5. Len(stream') = n /\ \A k \in 1 .. n : stream'[k] = stream[k] BY <1>4
<1>6. /\ Len(got) \in Nat /\ Len(Pending) = Len(got) + Len(stream)
      /\ \A k \in 1 .. Len(got) : Pending[k] = got[k]
      /\ \A k \in 1 .. Len(stream) : Pending[Len(got) + k] = stream[k]
  BY <1>0, StreamFacts
<1>7. /\ Len(Pending') = Len(got) + Len(stream')
      /\ \A k \in 1 .. Len(got) : Pending'[k] = got[k]
      /\ \A k \in 1 .. Len(stream') : Pending'[Len(got) + k] = stream'[k]
  BY <1>1, <1>2, StreamFactsNext
<1>8. \A k \in 1 .. Len(Pending') : Pending'[k] = Pending[k]
  <2> TAKE k \in 1 .. Len(Pending')
  <2>1. CASE k \in 1 .. Len(got) BY <1>6, <1>7, <2>1
  <2>2. CASE k \notin 1 .. Len(got)
    <3>1. k - Len(got) \in 1 .. n /\ k - Len(got) \in 1 .. Len(stream)
          /\ Len(got) + (k - Len(got)) = k
      BY <1>4, <1>5, <1>6, <1>7, <2>2
    <3>2. QED BY <1>5, <1>6, <1>7, <3>1
  <2>3. QED BY <2>1, <2>2
<1>9. PICK w, v, ms, h : w = Pending /\ v = Pending' /\ ms = msgs /\ h = Len(handled)
  OBVIOUS
<1>10. Len(w) \in Nat /\ Len(v) \in Nat /\ Len(v) <= Len(w) BY <1>4, <1>5, <1>6, <1>7, <1>9
<1>11. InOrder(w, ms, h) /\ \A k \in 1 .. Len(v) : v[k] = w[k]
  BY <1>8, <1>9 DEF FrameInv, OrderOK
<1>12. InOrder(v, ms, h) BY <1>10, <1>11, OrderedPrefix
<1>13. OrderOK' BY <1>2, <1>9, <1>12 DEF OrderOK
<1>14. QED BY <1>1, <1>3, <1>13 DEF FrameInv

\* What is taken from the stream is stored after what is there already: nothing
\* changes for the bytes that are pending.
LEMMA TakePending ==
  ASSUME StreamOK, NEW n, Takes(n)
  PROVE  Pending' = Pending
<1>1. /\ stream \in Seq(Byte) /\ got \in Seq(Byte) /\ n \in 1 .. Len(stream)
      /\ Len(stream) \in Nat
  BY DEF StreamOK, Takes
<1>2. PICK s, t : s = SubSeq(stream, 1, n) /\ t = SubSeq(stream, n + 1, Len(stream))
  OBVIOUS
<1>3. s \in Seq(Byte) /\ t \in Seq(Byte) BY <1>1, <1>2
<1>4. s \o t = stream
  <2>1. /\ Len(s) = n /\ \A k \in 1 .. n : s[k] = stream[k]
        /\ Len(t) = Len(stream) - n /\ \A k \in 1 .. Len(stream) - n : t[k] = stream[n + k]
    BY <1>1, <1>2
  <2>2. /\ s \o t \in Seq(Byte) /\ Len(s \o t) = Len(stream)
        /\ \A k \in 1 .. n : (s \o t)[k] = s[k]
        /\ \A k \in 1 .. Len(stream) - n : (s \o t)[n + k] = t[k]
    <3>1. n = Len(s) /\ Len(stream) - n = Len(t) /\ n + (Len(stream) - n) = Len(stream)
      BY <1>1, <2>1
    <3>2. QED BY <1>3, <3>1, ConcatFacts
  <2>3. ASSUME NEW k \in 1 .. Len(stream) PROVE (s \o t)[k] = stream[k]
    <3>1. CASE k \in 1 .. n BY <2>1, <2>2, <3>1
    <3>2. CASE k \notin 1 .. n
      <4>1. PICK j : j = k - n OBVIOUS
      <4>2. j \in 1 .. Len(stream) - n /\ n + j = k BY <1>1, <3>2, <4>1
      <4>3. (s \o t)[n + j] = t[j] /\ t[j] = stream[n + j] BY <2>1, <2>2, <4>2
      <4>4. QED BY <4>2, <4>3
    <3>3. QED BY <3>1, <3>2
  <2>4. QED BY <1>1, <2>2, <2>3, SeqEqual
<1>5. got' = got \o s /\ stream' = t BY <1>2 DEF Takes
<1>6. (got \o s) \o t = got \o (s \o t)
  <2>1. got \in Seq(Byte) BY <1>1
  <2>2. QED BY <1>3, <2>1
<1>7. QED BY <1>4, <1>5, <1>6 DEF Pending

LEMMA TakeFrame ==
  ASSUME FrameInv, NEW n, Takes(n)
  PROVE  FrameInv'
<1>0. StreamOK BY DEF FrameInv
<1>1. StreamOK' BY <1>0, TakeStream
<1>2. UNCHANGED <<srv, msgs, handled>> BY DEF Takes
<1>3. HandledOK' BY <1>2 DEF FrameInv, HandledOK
<1>4. Pending' = Pending BY <1>0, TakePending
<1>5. OrderOK' BY <1>2, <1>4 DEF FrameInv, OrderOK, Gone
<1>6. /\ Len(got') \in Nat /\ Len(stream') \in Nat
      /\ Len(Pending') = Len(got') + Len(stream')
      /\ \A k \in 1 .. Len(got') : Pending'[k] = got'[k]
  BY <1>1, StreamFactsNext
<1>7. /\ Messages(msgs) /\ Len(handled) \in Nat /\ Len(got) \in Nat
      /\ Len(got') = Len(got) + n /\ n \in Nat
  BY <1>0, StreamFacts, TakeStream DEF Takes
<1>8. ASSUME NEW k \in 1 .. Len(got') PROVE got'[k] = <<Len(handled) + 1, k>>
  <2>1. k \in 1 .. Len(Pending) /\ Len(Pending) \in Nat BY <1>4, <1>6
  <2>2. k <= msgs[Len(handled) + 1].len
    <3>1. CASE Len(got) + n <= LenBytes
      <4>1. Pending[1] = <<Len(handled) + 1, 1>> /\ Pending[1][1] \in 1 .. Len(msgs)
        BY <2>1 DEF FrameInv, OrderOK, InOrder
      <4>2. Len(handled) + 1 \in 1 .. Len(msgs) BY <4>1
      <4>3. /\ msgs[Len(handled) + 1].len \in Nat
            /\ msgs[Len(handled) + 1].len > LenBytes
        BY <4>2, <1>7 DEF Messages
      <4>4. LenBytes \in Nat BY SessionAssumption
      <4>5. QED BY <1>7, <3>1, <4>3, <4>4
    <3>2. CASE Len(got) >= LenBytes /\ Len(got) + n <= LengthRead
      <4>1. /\ Len(handled) + 1 \in 1 .. Len(msgs)
            /\ LengthRead = msgs[Len(handled) + 1].len
        BY <3>2, LengthRight
      <4>2. msgs[Len(handled) + 1].len \in Nat BY <1>7, <4>1 DEF Messages
      <4>3. QED BY <1>7, <3>2, <4>1, <4>2
    <3>3. QED BY <3>1, <3>2 DEF Takes
  <2>3. InOrder(Pending, msgs, Len(handled)) BY DEF FrameInv, OrderOK
  <2>4. Pending[k] = <<Len(handled) + 1, k>> BY <1>7, <2>1, <2>2, <2>3, FirstMessage
  <2>5. QED BY <1>4, <1>6, <2>4
<1>9. GotOK' BY <1>2, <1>8 DEF GotOK
<1>10. QED BY <1>1, <1>3, <1>5, <1>9 DEF FrameInv

LEMMA ReturnFrame ==
  ASSUME FrameInv, Returns
  PROVE  FrameInv'
<1>0. StreamOK BY DEF FrameInv
<1>1. /\ StreamOK' /\ Len(handled') = Len(handled) + 1
      /\ handled'[Len(handled) + 1] = Len(handled) + 1
      /\ \A k \in 1 .. Len(handled) : handled'[k] = handled[k]
  BY ReturnStream
<1>2. got' = <<>> /\ UNCHANGED <<srv, msgs, stream>> BY DEF Returns
<1>3. /\ Messages(msgs) /\ Len(handled) \in Nat /\ Len(got) \in Nat /\ Len(stream) \in Nat
      /\ Len(Pending) = Len(got) + Len(stream)
      /\ \A k \in 1 .. Len(stream) : Pending[Len(got) + k] = stream[k]
  BY <1>0, StreamFacts
<1>4. HandledOK'
  <2>1. ASSUME NEW k \in 1 .. Len(handled) + 1 PROVE handled'[k] = k
    <3>1. CASE k \in 1 .. Len(handled) BY <1>1, <3>1 DEF FrameInv, HandledOK
    <3>2. CASE k = Len(handled) + 1 BY <1>1, <3>2
    <3>3. QED BY <1>3, <3>1, <3>2
  <2>2. QED BY <1>1, <2>1 DEF HandledOK
<1>5. GotOK' BY <1>2 DEF GotOK
<1>6. /\ Len(handled) + 1 \in 1 .. Len(msgs)
      /\ Len(got) = msgs[Len(handled) + 1].len /\ Len(got) > 0
  <2>1. LenBytes \in Nat /\ LenBytes > 0 BY SessionAssumption
  <2>2. QED BY <1>3, <2>1, LengthRight DEF Returns
<1>7. Pending' = stream
  <2>1. stream \in Seq(Byte) BY <1>0 DEF StreamOK
  <2>2. QED BY <1>2, <2>1, ConcatEmptySeq DEF Pending
<1>8. PICK w, v, ms, h, a, b, L :
        /\ w = Pending /\ v = stream /\ ms = msgs /\ h = Len(handled)
        /\ a = Len(stream) /\ b = Len(Pending) /\ L = Len(got)
  OBVIOUS
<1>9. /\ h \in Nat /\ a \in Nat /\ b \in Nat /\ L \in Nat /\ L > 0 /\ b = a + L
      /\ Len(w) = b /\ Len(v) = a /\ ms[h + 1].len = L
      /\ \A k \in 1 .. a : v[k] = w[L + k]
  <2>1. h \in Nat /\ a \in Nat /\ b \in Nat /\ L \in Nat /\ L > 0 /\ b = a + L
    BY <1>3, <1>6, <1>8
  <2>2. Len(w) = b /\ Len(v) = a /\ ms[h + 1].len = L BY <1>6, <1>8, Zenon
  <2>3. \A k \in 1 .. a : v[k] = w[L + k] BY <1>3, <1>8, Zenon
  <2>4. QED BY <2>1, <2>2, <2>3
<1>10. InOrder(w, ms, h) /\ Messages(ms) BY <1>3, <1>8 DEF FrameInv, OrderOK
<1>11. InOrder(v, ms, h + 1) /\ DueOf(v, ms, h + 1) = DueOf(w, ms, h)
  BY <1>9, <1>10, OrderedDrop
<1>12. InOrder(Pending', msgs', Len(handled')) BY <1>1, <1>2, <1>7, <1>8, <1>11
<1>13. DueOf(Pending', msgs', Len(handled')) = DueOf(Pending, msgs, Len(handled))
  BY <1>1, <1>2, <1>7, <1>8, <1>11
<1>14. OrderOK' BY <1>2, <1>12, <1>13 DEF FrameInv, OrderOK, Gone
<1>15. QED BY <1>1, <1>4, <1>5, <1>14 DEF FrameInv

LEMMA OtherFrame ==
  ASSUME FrameInv, Others
  PROVE  FrameInv'
<1>1. UNCHANGED <<msgs, stream, got, handled>> /\ (Gone' <=> Gone) BY DEF Others
<1>2. StreamOK' BY OtherStream DEF FrameInv
<1>3. Pending' = Pending BY <1>1 DEF Pending
<1>4. OrderOK' BY <1>1, <1>3 DEF FrameInv, OrderOK
<1>5. HandledOK' /\ GotOK' BY <1>1 DEF FrameInv, HandledOK, GotOK
<1>6. QED BY <1>2, <1>4, <1>5 DEF FrameInv

LEMMA FrameNext ==
  ASSUME FrameInv, [Next]_vars
  PROVE  FrameInv'
BY SessionSteps, SendFrame, CutFrame, TakeFrame, ReturnFrame, OtherFrame DEF FrameInv

LEMMA FrameInit ==
  ASSUME Init
  PROVE  FrameInv
<1>1. msgs = <<>> /\ stream = <<>> /\ got = <<>> /\ handled = <<>> /\ srv = "listening"
  BY DEF Init
<1>2. \E A : msgs \in Seq([type : Commands, len : Nat, arg : A])
  <2>1. msgs \in Seq([type : Commands, len : Nat, arg : {}]) BY <1>1
  <2>2. QED BY <2>1
<1>3. StreamOK BY <1>1, <1>2 DEF StreamOK
<1>4. Pending = <<>> BY <1>1 DEF Pending
<1>5. OrderOK BY <1>1, <1>4 DEF OrderOK, InOrder, DueOf
<1>6. QED BY <1>1, <1>3, <1>5 DEF FrameInv, HandledOK, GotOK

LEMMA FrameImplies ==
  ASSUME FrameInv
  PROVE  Framed
<1>0. StreamOK BY DEF FrameInv
<1>1. /\ Messages(msgs) /\ Len(handled) \in Nat /\ Pending \in Seq(Byte)
  BY <1>0, StreamFacts
<1>2. handled \in Seq(Nat) /\ got \in Seq(Byte) BY <1>0 DEF StreamOK
<1>3. handled = [k \in 1 .. Len(handled) |-> k]
  <2>1. handled = [k \in 1 .. Len(handled) |-> handled[k]] BY <1>2
  <2>2. \A k \in 1 .. Len(handled) : handled[k] = k BY DEF FrameInv, HandledOK
  <2>3. QED BY <2>1, <2>2
<1>4. \A k \in DOMAIN got : got[k] = <<Len(handled) + 1, k>>
  <2>1. DOMAIN got = 1 .. Len(got) BY <1>2
  <2>2. QED BY <2>1 DEF FrameInv, GotOK
<1>5. /\ DOMAIN Pending = 1 .. Len(Pending) /\ DOMAIN msgs = 1 .. Len(msgs)
      /\ Len(Pending) \in Nat /\ (Pending = <<>> <=> Len(Pending) = 0)
  BY <1>1 DEF Messages
<1>6. InOrder(Pending, msgs, Len(handled)) BY DEF FrameInv, OrderOK
<1>7. \A k \in DOMAIN Pending : Pending[k][1] \in DOMAIN msgs
  BY <1>5, <1>6 DEF InOrder
<1>8. Pending # <<>> => Pending[1] = <<Len(handled) + 1, 1>>
  <2>1. Pending # <<>> => Len(Pending) > 0 BY <1>5
  <2>2. QED BY <1>6, <2>1 DEF InOrder
<1>9. \A b : After1(msgs, b) = NextByte(b) BY DEF After1, NextByte
<1>10. \A k \in 1 .. Len(Pending) - 1 : Pending[k + 1] = NextByte(Pending[k])
  BY <1>6, <1>9 DEF InOrder
<1>11. DueOf(Pending, msgs, Len(handled)) = Due
  BY <1>5, <1>9 DEF DueOf, Due, Last
<1>12. srv \notin {"eof", "reset"} => Due = <<Len(msgs) + 1, 1>>
  BY <1>11 DEF FrameInv, OrderOK, Gone
<1>13. QED BY <1>3, <1>4, <1>7, <1>8, <1>10, <1>12 DEF Framed

LEMMA FrameInvariant == Spec => []FrameInv
<1>1. Init => FrameInv BY FrameInit
<1>2. FrameInv /\ [Next]_vars => FrameInv' BY FrameNext
<1>3. QED BY <1>1, <1>2, PTL DEF Spec

\* However recv and read cut the stream, sr_read_from_server_expect handles the
\* messages of the server one by one, each once and whole: for messages of any
\* number and length, a length field of any size, and a server that may vanish
\* in the middle of a message.
THEOREM SessionFramed == Spec => []Framed
<1>1. FrameInv => Framed BY FrameImplies
<1>2. QED BY <1>1, FrameInvariant, PTL

-----------------------------------------------------------------------------
(* The routing table of the server.                                        *)

\* One of the first h messages is a routing table, and it is t.
SentTable(h, ms, t) == \E k \in 1 .. h : ms[k].type = "VNS_RTABLE" /\ ms[k].arg.table = t

HasSent(t) == SentTable(Len(handled), msgs, t)

Templated == opt.template /\ opt.rtable = RtableOf(opt.host)

Early == {"load", "connect", "VNS_AUTH_REQUEST", "VNS_AUTH_STATUS", "open", "VNS_RTABLE"}

\* The inductive invariant: no table is loaded before the one of the server is
\* in the file, and from then on the table is the one of the server.
TableLater ==
  /\ pc \in Early \cup {"reload"} => routing_table = <<>> /\ ~ handed
  /\ pc = "reload" => HasSent(files[opt.rtable])
  /\ pc \in {"init", "loop"} => HasSent(routing_table)
  /\ handed => HasSent(routing_table)

\* The server's tables are for the host that -v names.
Named == \A m \in 1 .. Len(msgs) :
           msgs[m].type = "VNS_RTABLE" => msgs[m].arg.host = opt.host

TableInv == /\ DOMAIN files = Files
            /\ opt \in Options
            /\ Named
            /\ Templated => TableLater

\* What the server has sent and main has handled stays so.
LEMMA Kept ==
  ASSUME FrameInv, [Next]_vars
  PROVE  /\ Len(handled) \in Nat /\ Len(handled') \in Nat /\ Len(handled) <= Len(handled')
         /\ Len(msgs) \in Nat /\ Len(handled) <= Len(msgs)
         /\ \A m \in 1 .. Len(msgs) : msgs'[m] = msgs[m]
<1>0. StreamOK BY DEF FrameInv
<1>1. /\ Len(handled) \in Nat /\ Messages(msgs) /\ Len(handled) <= Len(msgs)
  BY <1>0, StreamFacts DEF StreamOK
<1>2. Len(handled') \in Nat /\ Len(handled') >= Len(handled)
  <2>1. CASE Returns BY <1>1, <2>1, ReturnStream
  <2>2. CASE ~ Returns
    BY <1>0, <1>1, <2>2, SessionSteps DEF Sends, Cuts, Takes, Others
  <2>3. QED BY <2>1, <2>2
<1>3. \A m \in 1 .. Len(msgs) : msgs'[m] = msgs[m]
  <2>1. CASE \E x : Sends(x) BY <1>0, <2>1, MessagesAppend
  <2>2. CASE ~ \E x : Sends(x)
    <3>1. msgs' = msgs
      BY <1>0, <2>2, SessionSteps DEF Cuts, Takes, Returns, Others
    <3>2. QED BY <3>1
  <2>3. QED BY <2>1, <2>2
<1>4. QED BY <1>1, <1>2, <1>3 DEF Messages

LEMMA SentStays ==
  ASSUME FrameInv, [Next]_vars, NEW t, HasSent(t)
  PROVE  SentTable(Len(handled'), msgs', t)
<1>1. PICK k \in 1 .. Len(handled) : msgs[k].type = "VNS_RTABLE" /\ msgs[k].arg.table = t
  BY DEF HasSent, SentTable
<1>2. k \in 1 .. Len(handled') /\ k \in 1 .. Len(msgs) BY Kept
<1>3. msgs'[k] = msgs[k] BY <1>2, Kept
<1>4. QED BY <1>1, <1>2, <1>3 DEF SentTable

ServerStates == {"listening", "connected", "asked", "authenticated", "open", "up",
                 "closed", "eof", "reset"}

LEMMA ClientSilent ==
  ASSUME Client
  PROVE  msgs' = msgs /\ (srv \in ServerStates => srv' \in ServerStates)
<1>1. CASE Load \/ Open \/ Reload \/ Start \/ ReadTooLong \/ ReadError
  BY <1>1 DEF Load, Open, Reload, Start, ReadTooLong, ReadError, serverVars
<1>2. CASE Connect BY <1>2 DEF Connect, ServerStates
<1>3. CASE ReadLength \/ ReadBody BY <1>3 DEF ReadLength, ReadBody
<1>4. CASE \/ Unexpected \/ HandleClose \/ HandleBanner \/ sr_handle_auth_request
           \/ sr_handle_auth_status \/ sr_handle_rtable \/ HandleHwinfo \/ HandlePacket
  BY <1>4 DEF Unexpected, HandleClose, HandleBanner, sr_handle_auth_request,
              sr_handle_auth_status, sr_handle_rtable, HandleHwinfo, HandlePacket,
              Return, serverVars
<1>5. QED BY <1>1, <1>2, <1>3, <1>4 DEF Client

\* A table that the server sends is for the host that it was asked for.
LEMMA NamedNext ==
  ASSUME FrameInv, Named, [Next]_vars, opt' = opt
  PROVE  Named'
<1>1. CASE msgs' = msgs BY <1>1 DEF Named
<1>2. ASSUME NEW x, msgs' = Append(msgs, x), x.type = "VNS_RTABLE" => x.arg.host = opt.host
      PROVE  Named'
  <2>1. PICK A : msgs \in Seq([type : Commands, len : Nat, arg : A])
    BY DEF FrameInv, StreamOK
  <2>2. PICK L \in Nat : L = Len(msgs) BY <2>1
  <2>3. PICK ns : ns = msgs' OBVIOUS
  <2>4. Len(ns) = L + 1 /\ ns[L + 1] = x /\ \A m \in 1 .. L : ns[m] = msgs[m]
    BY <1>2, <2>1, <2>2, <2>3
  <2>5. \A m \in 1 .. L + 1 : m \in 1 .. L \/ m = L + 1 BY <2>2
  <2>6. QED BY <1>2, <2>2, <2>3, <2>4, <2>5 DEF Named
<1>3. ASSUME NEW type, NEW arg, NEW next, Send(type, arg, next),
             type = "VNS_RTABLE" => arg.host = opt.host
      PROVE  Named'
  <2>1. PICK len : msgs' = Append(msgs, [type |-> type, len |-> len, arg |-> arg])
    BY <1>3 DEF Send
  <2>2. PICK x : x = [type |-> type, len |-> len, arg |-> arg] OBVIOUS
  <2>3. x.type = type /\ x.arg = arg BY <2>2
  <2>4. QED BY <1>2, <1>3, <2>1, <2>2, <2>3
<1>4. CASE SrvRtable
  <2>1. PICK t : Send("VNS_RTABLE", [host |-> opt.host, table |-> t], "open")
    BY <1>4 DEF SrvRtable
  <2>2. [host |-> opt.host, table |-> t].host = opt.host OBVIOUS
  <2>3. QED BY <1>3, <2>1, <2>2
<1>5. CASE SrvGone BY <1>1, <1>5 DEF SrvGone
<1>6. CASE SrvAuthRequest \/ SrvAuthStatus \/ SrvHwinfo \/ SrvPacket \/ SrvBanner \/ SrvClose
  <2>1. CASE SrvAuthRequest BY <1>3, <2>1 DEF SrvAuthRequest
  <2>2. CASE SrvAuthStatus BY <1>3, <2>2 DEF SrvAuthStatus
  <2>3. CASE SrvHwinfo BY <1>3, <2>3 DEF SrvHwinfo
  <2>4. CASE SrvPacket BY <1>3, <2>4 DEF SrvPacket
  <2>5. CASE SrvBanner BY <1>3, <2>5 DEF SrvBanner
  <2>6. CASE SrvClose BY <1>3, <2>6 DEF SrvClose
  <2>7. QED BY <1>6, <2>1, <2>2, <2>3, <2>4, <2>5, <2>6
<1>7. CASE UNCHANGED vars BY <1>1, <1>7 DEF vars, serverVars
<1>8. QED BY <1>1, <1>4, <1>5, <1>6, <1>7, ClientSilent DEF Next, Server

\* Steps that neither load a table nor hand over a frame.
Idle ==
  /\ UNCHANGED <<opt, files, routing_table, handed>>
  /\ \/ pc' = pc
     \/ pc' \in {"exit", "abort"}
     \/ pc \in Early /\ pc' \in Early
     \/ pc \in {"init", "loop"} /\ pc' = "loop"

LEMMA IdleTable ==
  ASSUME FrameInv, TableLater, [Next]_vars, Idle
  PROVE  TableLater'
<1>1. UNCHANGED <<opt, files, routing_table, handed>> BY DEF Idle
<1>2. HasSent(routing_table) => HasSent(routing_table)'
  BY <1>1, SentStays DEF HasSent
<1>3. HasSent(files[opt.rtable]) => HasSent(files[opt.rtable])'
  BY <1>1, SentStays DEF HasSent
<1>4. \/ pc' = pc
      \/ pc' \notin Early \cup {"reload", "init", "loop"}
      \/ pc \in Early /\ pc' \in Early /\ pc' # "reload" /\ pc' \notin {"init", "loop"}
      \/ pc \in {"init", "loop"} /\ pc' \notin Early \cup {"reload"}
  BY DEF Idle, Early
<1>5. (pc' \in Early \cup {"reload"} => routing_table' = <<>> /\ ~ handed')
  BY <1>1, <1>4 DEF TableLater
<1>6. (pc' = "reload" => HasSent(files[opt.rtable])')
  BY <1>3, <1>4 DEF TableLater
<1>7. pc' \in {"init", "loop"} => HasSent(routing_table)'
  BY <1>2, <1>4 DEF TableLater
<1>8. handed' => HasSent(routing_table)' BY <1>1, <1>2 DEF TableLater
<1>9. QED BY <1>5, <1>6, <1>7, <1>8 DEF TableLater

\* Where main goes after a message.
LEMMA AfterOf ==
  /\ After["VNS_AUTH_REQUEST"] = "VNS_AUTH_STATUS"
  /\ After["VNS_AUTH_STATUS"] = "open"
  /\ After["VNS_RTABLE"] = "reload"
  /\ After["loop"] = "loop"
<1>1. \A c \in {"VNS_AUTH_REQUEST", "VNS_AUTH_STATUS", "VNS_RTABLE", "loop"} :
        After[c] = CASE c = "VNS_AUTH_REQUEST" -> "VNS_AUTH_STATUS"
                     [] c = "VNS_AUTH_STATUS"  -> "open"
                     [] c = "VNS_RTABLE"       -> "reload"
                     [] c = "loop"             -> "loop"
  BY DEF After, Expects
<1>2. QED BY <1>1

\* A message that is not a routing table leads on in the start-up or in the loop.
LEMMA ReturnIdle ==
  ASSUME Complete, NEW one, Return(one), UNCHANGED <<opt, files, routing_table, handed>>,
         \/ pc' = "exit"
         \/ pc \in {"VNS_AUTH_REQUEST", "VNS_AUTH_STATUS", "loop"}
  PROVE  Idle
<1>1. pc' = IF one THEN After[pc] ELSE "exit" BY DEF Return
<1>2. QED BY <1>1, AfterOf DEF Idle, Early

\* What arrives was waited for, or nothing was.
LEMMA ArrivesWhere ==
  ASSUME NEW type, Arrives(type)
  PROVE  /\ Complete
         /\ pc \in {"VNS_AUTH_REQUEST", "VNS_AUTH_STATUS", "VNS_RTABLE", "loop"}
         /\ pc \in {type, "loop"}
BY DEF Arrives, Complete, Reading, Expects

LEMMA ServerIdle ==
  ASSUME Server \/ UNCHANGED vars
  PROVE  Idle
<1>1. UNCHANGED <<pc, opt, files, routing_table, handed>>
  <2>1. CASE UNCHANGED vars BY <2>1 DEF vars, dataVars, historyVars
  <2>2. CASE SrvGone BY <2>2 DEF SrvGone, dataVars, historyVars
  <2>3. ASSUME NEW type, NEW arg, NEW next, Send(type, arg, next)
        PROVE  UNCHANGED <<pc, opt, files, routing_table, handed>>
    BY <2>3 DEF Send, dataVars, historyVars
  <2>4. QED
    BY <2>1, <2>2, <2>3 DEF Server, SrvAuthRequest, SrvAuthStatus, SrvRtable, SrvHwinfo,
                            SrvPacket, SrvBanner, SrvClose
<1>2. QED BY <1>1 DEF Idle

LEMMA ClientIdle ==
  ASSUME Templated,
         \/ Load \/ Connect \/ Open \/ Start
         \/ ReadLength \/ ReadTooLong \/ ReadBody \/ ReadError
         \/ Unexpected \/ HandleClose \/ HandleBanner
         \/ sr_handle_auth_request \/ sr_handle_auth_status \/ HandleHwinfo
  PROVE  Idle
<1>1. CASE Load BY <1>1 DEF Load, Templated, Idle, Early, historyVars
<1>2. CASE Connect BY <1>2 DEF Connect, Idle, Early, dataVars, historyVars
<1>3. CASE Open BY <1>3 DEF Open, Templated, Idle, Early, dataVars, historyVars
<1>4. CASE Start BY <1>4 DEF Start, Idle, historyVars
<1>5. CASE ReadLength \/ ReadTooLong \/ ReadBody \/ ReadError
  BY <1>5 DEF ReadLength, ReadTooLong, ReadBody, ReadError, Idle, dataVars, historyVars
<1>6. CASE Unexpected \/ HandleClose
  <2>1. /\ Complete /\ Return(FALSE) /\ pc' = "exit"
        /\ UNCHANGED <<opt, files, routing_table, handed>>
    BY <1>6 DEF Unexpected, HandleClose, Return, dataVars
  <2>2. QED BY <2>1, ReturnIdle
<1>7. CASE HandleBanner
  <2>1. /\ Arrives("VNSBANNER") /\ Return(TRUE) /\ UNCHANGED <<opt, files, routing_table, handed>>
    BY <1>7 DEF HandleBanner, dataVars
  <2>2. Complete /\ pc = "loop" BY <2>1, ArrivesWhere
  <2>3. QED BY <2>1, <2>2, ReturnIdle
<1>8. CASE sr_handle_auth_request
  <2>1. /\ Arrives("VNS_AUTH_REQUEST") /\ (Return(TRUE) \/ Return(FALSE))
        /\ UNCHANGED <<opt, files, routing_table, handed>>
    BY <1>8 DEF sr_handle_auth_request, dataVars
  <2>2. Complete /\ pc \in {"VNS_AUTH_REQUEST", "VNS_AUTH_STATUS", "loop"}
    BY <2>1, ArrivesWhere
  <2>3. QED BY <2>1, <2>2, ReturnIdle
<1>9. CASE sr_handle_auth_status
  <2>1. /\ Arrives("VNS_AUTH_STATUS") /\ Return(Command.arg)
        /\ UNCHANGED <<opt, files, routing_table, handed>>
    BY <1>9 DEF sr_handle_auth_status, dataVars
  <2>2. Complete /\ pc \in {"VNS_AUTH_REQUEST", "VNS_AUTH_STATUS", "loop"}
    BY <2>1, ArrivesWhere
  <2>3. QED BY <2>1, <2>2, ReturnIdle
<1>10. CASE HandleHwinfo
  <2>1. /\ Arrives("VNSHWINFO")
        /\ Return(sr_verify_routing_table(routing_table, if_list'))
        /\ UNCHANGED <<opt, files, routing_table, handed>>
    BY <1>10 DEF HandleHwinfo
  <2>2. Complete /\ pc = "loop" BY <2>1, ArrivesWhere
  <2>3. QED BY <2>1, <2>2, ReturnIdle
<1>11. QED BY <1>1, <1>2, <1>3, <1>4, <1>5, <1>6, <1>7, <1>8, <1>9, <1>10

LEMMA ReloadTable ==
  ASSUME FrameInv, Templated, TableLater, Reload, [Next]_vars
  PROVE  TableLater'
<1>1. pc = "reload" /\ UNCHANGED <<opt, handed>> /\ sr_load_rt_wrap("init")
  BY DEF Reload, historyVars
<1>2. routing_table = <<>> /\ ~ handed /\ HasSent(files[opt.rtable])
  BY <1>1 DEF TableLater
<1>3. SentTable(Len(handled'), msgs', files[opt.rtable]) BY <1>2, SentStays
<1>5. pc' = "exit" \/ (pc' = "init" /\ routing_table' = files[opt.rtable])
  BY <1>1, <1>2 DEF sr_load_rt_wrap
<1>6. pc' = "init" => HasSent(routing_table)' BY <1>3, <1>5 DEF HasSent
<1>7. pc' \notin Early \cup {"reload", "loop"} BY <1>5 DEF Early
<1>8. QED BY <1>1, <1>2, <1>5, <1>6, <1>7 DEF TableLater

LEMMA RtableTable ==
  ASSUME FrameInv, TableInv, Templated, TableLater, sr_handle_rtable, [Next]_vars
  PROVE  TableLater'
<1>1. /\ Arrives("VNS_RTABLE") /\ UNCHANGED <<opt, routing_table, handed>>
      /\ \/ /\ files' = [files EXCEPT ![RtableOf(Command.arg.host)] = Command.arg.table]
            /\ Return(TRUE)
         \/ Return(FALSE) /\ UNCHANGED files
  BY DEF sr_handle_rtable
<1>2. Complete /\ pc \in {"VNS_RTABLE", "loop"} BY <1>1, ArrivesWhere
<1>3. CASE Return(FALSE) /\ UNCHANGED files
  <2>1. pc' = "exit" BY <1>3 DEF Return
  <2>2. Idle BY <1>1, <1>3, <2>1 DEF Idle
  <2>3. QED BY <2>2, IdleTable
<1>4. CASE /\ files' = [files EXCEPT ![RtableOf(Command.arg.host)] = Command.arg.table]
           /\ Return(TRUE)
  <2>1. HasSent(routing_table) => HasSent(routing_table)'
    BY <1>1, SentStays DEF HasSent
  <2>2. pc' = After[pc] /\ handled' = Append(handled, got[1][1]) /\ UNCHANGED msgs
    BY <1>4 DEF Return, serverVars
  <2>3. CASE pc = "loop"
    <3>1. pc' = "loop" BY <2>2, <2>3, AfterOf
    <3>2. HasSent(routing_table)' BY <2>1, <2>3 DEF TableLater
    <3>3. QED BY <3>1, <3>2 DEF TableLater, Early
  <2>4. CASE pc = "VNS_RTABLE"
    <3>1. pc' = "reload" BY <2>2, <2>4, AfterOf
    <3>2. routing_table' = <<>> /\ ~ handed' BY <1>1, <2>4 DEF TableLater, Early
    <3>4. Len(handled) + 1 \in 1 .. Len(msgs) /\ got[1][1] = Len(handled) + 1
      BY <1>2, LengthRight DEF Complete
    <3>5. Command.type = "VNS_RTABLE" /\ Command = msgs[Len(handled) + 1]
      BY <1>1, <3>4 DEF Arrives, Command
    <3>3. files'[opt.rtable] = Command.arg.table
      <4>1. Command.arg.host = opt.host BY <3>4, <3>5 DEF TableInv, Named
      <4>2. opt.rtable = RtableOf(Command.arg.host) BY <4>1 DEF Templated
      <4>3. opt.rtable \in DOMAIN files BY SessionAssumption DEF TableInv, Option
      <4>4. QED BY <1>4, <4>2, <4>3
    <3>6. Len(handled') = Len(handled) + 1 /\ Len(handled) \in Nat
      <4>1. handled \in Seq(Nat) BY DEF FrameInv, StreamOK
      <4>2. QED BY <2>2, <3>4, <4>1
    <3>7. SentTable(Len(handled'), msgs', Command.arg.table)
      <4>1. Len(handled) + 1 \in 1 .. Len(handled') BY <3>6
      <4>2. QED BY <2>2, <3>5, <4>1 DEF SentTable
    <3>8. HasSent(files[opt.rtable])' BY <1>1, <3>3, <3>7 DEF HasSent
    <3>9. QED BY <3>1, <3>2, <3>8 DEF TableLater
  <2>5. QED BY <1>2, <2>3, <2>4
<1>5. QED BY <1>1, <1>3, <1>4

LEMMA PacketTable ==
  ASSUME FrameInv, TableLater, HandlePacket, [Next]_vars
  PROVE  TableLater'
<1>1. Arrives("VNSPACKET") /\ UNCHANGED <<opt, files, routing_table>>
  BY DEF HandlePacket, dataVars
<1>2. Complete /\ pc = "loop" BY <1>1, ArrivesWhere
<1>3. HasSent(routing_table)'
  <2>1. HasSent(routing_table) BY <1>2 DEF TableLater
  <2>2. QED BY <1>1, <2>1, SentStays DEF HasSent
<1>4. pc' \notin Early \cup {"reload"}
  <2>1. pc' \in {"loop", "abort"} BY <1>2, AfterOf DEF HandlePacket, Return
  <2>2. QED BY <2>1 DEF Early
<1>5. QED BY <1>3, <1>4 DEF TableLater

LEMMA TableNext ==
  ASSUME FrameInv, TableInv, [Next]_vars
  PROVE  TableInv'
<1>1. opt' = opt /\ DOMAIN files' = DOMAIN files
  <2>1. CASE UNCHANGED vars BY <2>1 DEF vars, dataVars
  <2>2. CASE Server
    <3>1. ASSUME NEW type, NEW arg, NEW next, Send(type, arg, next)
          PROVE  UNCHANGED <<opt, files>>
      BY <3>1 DEF Send, dataVars
    <3>2. CASE SrvGone BY <3>2 DEF SrvGone, dataVars
    <3>3. QED
      BY <2>2, <3>1, <3>2 DEF Server, SrvAuthRequest, SrvAuthStatus, SrvRtable, SrvHwinfo,
                              SrvPacket, SrvBanner, SrvClose
  <2>3. CASE sr_handle_rtable BY <2>3 DEF sr_handle_rtable
  <2>4. CASE Client /\ ~ sr_handle_rtable
    <3>1. UNCHANGED <<opt, files>>
      BY <2>4 DEF Client, Load, Connect, Open, Reload, Start, ReadLength, ReadTooLong,
                  ReadBody, ReadError, Unexpected, HandleClose, HandleBanner,
                  sr_handle_auth_request, sr_handle_auth_status, HandleHwinfo,
                  HandlePacket, dataVars
    <3>2. QED BY <3>1
  <2>5. QED BY <2>1, <2>2, <2>3, <2>4 DEF Next
<1>2. ASSUME Templated PROVE TableLater'
  <2>1. TableLater BY <1>2 DEF TableInv
  <2>2. CASE Server \/ UNCHANGED vars BY <2>1, <2>2, ServerIdle, IdleTable
  <2>3. CASE Reload BY <1>2, <2>1, <2>3, ReloadTable
  <2>4. CASE sr_handle_rtable BY <1>2, <2>1, <2>4, RtableTable
  <2>5. CASE HandlePacket BY <2>1, <2>5, PacketTable
  <2>6. CASE \/ Load \/ Connect \/ Open \/ Start
             \/ ReadLength \/ ReadTooLong \/ ReadBody \/ ReadError
             \/ Unexpected \/ HandleClose \/ HandleBanner
             \/ sr_handle_auth_request \/ sr_handle_auth_status \/ HandleHwinfo
    BY <1>2, <2>1, <2>6, ClientIdle, IdleTable
  <2>7. QED BY <2>2, <2>3, <2>4, <2>5, <2>6 DEF Next, Client
<1>3. Templated' <=> Templated BY <1>1 DEF Templated
<1>4. DOMAIN files' = Files BY <1>1 DEF TableInv
<1>5. Named' BY <1>1, NamedNext DEF TableInv
<1>6. QED BY <1>1, <1>2, <1>3, <1>4, <1>5 DEF TableInv

LEMMA TableInit ==
  ASSUME Init
  PROVE  TableInv
<1>1. Len(msgs) = 0 BY DEF Init
<1>2. Named BY <1>1 DEF Named
<1>3. DOMAIN files = Files /\ opt \in Options BY DEF Init
<1>4. TableLater BY DEF Init, TableLater, Early
<1>5. QED BY <1>2, <1>3, <1>4 DEF TableInv

\* With a template, and -r naming the file of the host that -v names, a frame
\* reaches sr_handlepacket only after the server has sent a routing table in this
\* session, and the table in use is one that it has sent: whatever an earlier
\* session left in the file, for every name of the host, and whatever else the
\* server sends and in which order.
THEOREM SessionServerTable == Spec => []ServerTable
<1>1. Init => TableInv BY TableInit
<1>2. FrameInv /\ TableInv /\ [Next]_vars => TableInv' BY TableNext
<1>3. FrameInv /\ TableInv => ServerTable
  <2> SUFFICES ASSUME FrameInv, TableInv, handed, Templated
               PROVE  \E m \in Range(handled) :
                        msgs[m].type = "VNS_RTABLE" /\ msgs[m].arg.table = routing_table
    BY DEF ServerTable, Templated, FromServer
  <2>1. PICK k \in 1 .. Len(handled) :
          msgs[k].type = "VNS_RTABLE" /\ msgs[k].arg.table = routing_table
    BY DEF TableInv, TableLater, HasSent, SentTable
  <2>2. k \in Range(handled)
    <3>1. handled \in Seq(Nat) /\ handled[k] = k BY DEF FrameInv, StreamOK, HandledOK
    <3>2. k \in DOMAIN handled BY <3>1
    <3>3. QED BY <3>1, <3>2 DEF Range
  <2>3. QED BY <2>1, <2>2
<1>4. QED BY <1>1, <1>2, <1>3, FrameInvariant, PTL DEF Spec

-----------------------------------------------------------------------------
(* The interface list that a VNSHWINFO message leaves.                     *)

\* A non-empty set of numbers up to m has a largest element.
LEMMA LargestExists ==
  ASSUME NEW m \in Nat, NEW T \in SUBSET (0 .. m), T # {}
  PROVE  \E x \in T : \A y \in T : y <= x
<1> DEFINE D == {m - y : y \in T}
<1>1. D \in SUBSET Nat /\ D # {}
  <2>1. \A y \in T : m - y \in Nat OBVIOUS
  <2>2. QED BY <2>1
<1>2. PICK d \in D : \A e \in D : d <= e BY <1>1, SmallestExists
<1>3. PICK x \in T : d = m - x BY <1>2
<1>4. \A y \in T : m - y \in D OBVIOUS
<1> HIDE DEF D
<1>5. ASSUME NEW y \in T PROVE y <= x
  <2>1. d <= m - y BY <1>2, <1>4
  <2>2. QED BY <1>3, <2>1
<1>6. QED BY <1>5

\* The recursion of Filled, up to entry n.
FilledTo(g, list, entries, n) ==
  g = [k \in 0 .. n |-> IF k = 0 THEN list ELSE HwEffect(g[k - 1], entries[k])]

LEMMA FilledToNext ==
  ASSUME NEW g, NEW list, NEW entries, NEW n \in Nat, FilledTo(g, list, entries, n)
  PROVE  \E f : FilledTo(f, list, entries, n + 1)
<1>1. PICK x : x = HwEffect(g[n], entries[n + 1]) OBVIOUS
<1>2. PICK f : f = [k \in 0 .. n + 1 |-> IF k = n + 1 THEN x ELSE g[k]] OBVIOUS
<1>3. \A k \in 0 .. n : g[k] = IF k = 0 THEN list ELSE HwEffect(g[k - 1], entries[k])
  BY DEF FilledTo
<1>4. \A k \in 0 .. n : f[k] = g[k] BY <1>2
<1>5. ASSUME NEW k \in 0 .. n + 1
      PROVE  f[k] = IF k = 0 THEN list ELSE HwEffect(f[k - 1], entries[k])
  <2>1. CASE k = 0 BY <1>3, <1>4, <2>1
  <2>2. CASE k # 0 /\ k # n + 1
    <3>1. k \in 0 .. n /\ k - 1 \in 0 .. n BY <2>2
    <3>2. f[k] = g[k] /\ f[k - 1] = g[k - 1] BY <1>4, <3>1
    <3>3. g[k] = HwEffect(g[k - 1], entries[k]) BY <1>3, <2>2, <3>1
    <3>4. QED BY <2>2, <3>2, <3>3
  <2>3. CASE k = n + 1
    <3>1. k # 0 /\ k - 1 = n /\ n \in 0 .. n BY <2>3
    <3>2. f[k] = x BY <1>2, <2>3
    <3>3. f[k - 1] = g[n] BY <1>4, <3>1
    <3>4. QED BY <1>1, <2>3, <3>1, <3>2, <3>3
  <2>4. QED BY <2>1, <2>2, <2>3
<1>6. f = [k \in 0 .. n + 1 |-> f[k]] BY <1>2
<1>7. FilledTo(f, list, entries, n + 1) BY <1>5, <1>6 DEF FilledTo
<1>8. QED BY <1>7

LEMMA FilledToExists ==
  ASSUME NEW list, NEW entries, NEW n \in Nat
  PROVE  \E g : FilledTo(g, list, entries, n)
<1> DEFINE T == {m \in Nat : ~ \E g : FilledTo(g, list, entries, m)}
<1>1. SUFFICES ASSUME T # {} PROVE FALSE OBVIOUS
<1>2. T \in SUBSET Nat OBVIOUS
<1>3. PICK m \in T : \A y \in T : m <= y BY <1>1, <1>2, SmallestExists
<1>4. m \in Nat /\ ~ \E g : FilledTo(g, list, entries, m) BY <1>3
<1>5. m # 0
  <2>1. PICK g : g = [k \in 0 .. 0 |-> list] OBVIOUS
  <2>2. FilledTo(g, list, entries, 0) BY <2>1 DEF FilledTo
  <2>3. QED BY <1>4, <2>2
<1>6. PICK i \in Nat : m = i + 1
  <2>1. m - 1 \in Nat /\ m = (m - 1) + 1 BY <1>4, <1>5
  <2>2. QED BY <2>1
<1>7. i \notin T BY <1>3, <1>4, <1>6
<1>8. \E g : FilledTo(g, list, entries, i) BY <1>7
<1>9. QED BY <1>4, <1>6, <1>8, FilledToNext

\* Filled is what its recursive definition says.
LEMMA FilledIs ==
  ASSUME NEW list, NEW entries, Len(entries) \in Nat
  PROVE  /\ Filled(list, entries)[0] = list
         /\ \A k \in 1 .. Len(entries) :
              Filled(list, entries)[k] = HwEffect(Filled(list, entries)[k - 1], entries[k])
<1> DEFINE Good(f) == FilledTo(f, list, entries, Len(entries))
<1>1. \E f : Good(f) BY FilledToExists
<1>2. Good(CHOOSE f : Good(f)) BY <1>1
<1>3. Filled(list, entries) = CHOOSE f : Good(f) BY DEF Filled, FilledTo
<1> HIDE DEF Good
<1>4. Good(Filled(list, entries)) BY <1>2, <1>3
<1>5. PICK f : f = Filled(list, entries) OBVIOUS
<1>6. f = [k \in 0 .. Len(entries) |-> IF k = 0 THEN list ELSE HwEffect(f[k - 1], entries[k])]
  BY <1>4, <1>5 DEF Good, FilledTo
<1>7. \A k \in 0 .. Len(entries) :
        f[k] = IF k = 0 THEN list ELSE HwEffect(f[k - 1], entries[k])
  BY <1>6
<1>8. f[0] = list BY <1>7
<1>9. \A k \in 1 .. Len(entries) : f[k] = HwEffect(f[k - 1], entries[k])
  <2> TAKE k \in 1 .. Len(entries)
  <2>1. k \in 0 .. Len(entries) /\ k # 0 OBVIOUS
  <2>2. QED BY <1>7, <2>1
<1>10. QED BY <1>5, <1>8, <1>9

\* A record of the list: struct sr_if.
Record == [name : Iface, ip : Ip \cup {0}, mac : Mac \cup {NoMac}]

\* The kinds of entries.
LEMMA EntryKinds ==
  ASSUME NEW e \in HwEntry
  PROVE  \/ e.key = "HWINTERFACE" /\ e.value \in Iface
         \/ e.key = "HWETHIP" /\ e.value \in Ip
         \/ e.key = "HWETHER" /\ e.value \in Mac
         \/ e.key = "HWMASK"
BY DEF HwEntry

\* List r is list l, of length a, and a new record.
OneMore(r, l, a, name) ==
  /\ a \in Nat /\ r \in Seq(Record) /\ Len(r) = a + 1
  /\ \A i \in 1 .. a : r[i] = l[i]
  /\ r[a + 1].name = name

LEMMA EffectNames ==
  ASSUME NEW l \in Seq(Record), NEW e \in HwEntry, e.key = "HWINTERFACE",
         NEW a, a = Len(l)
  PROVE  OneMore(HwEffect(l, e), l, a, e.value)
<1>1. e.value \in Iface BY EntryKinds
<1>2. PICK x : x = [name |-> e.value, ip |-> 0, mac |-> NoMac] OBVIOUS
<1>3. x \in Record /\ x.name = e.value BY <1>1, <1>2 DEF Record
<1>4. HwEffect(l, e) = Append(l, x) BY <1>2 DEF HwEffect, sr_add_interface
<1>5. OneMore(Append(l, x), l, a, e.value) BY <1>3 DEF OneMore
<1>6. QED BY <1>4, <1>5

\* List r is list l, of length a, with an address in its last record.
LastSet(r, l, a, key) ==
  /\ r \in Seq(Record) /\ Len(r) = a
  /\ \A i \in 1 .. a : i # a => r[i] = l[i]
  /\ r[a].name = l[a].name
  /\ key = "HWETHIP" \/ l[a].ip # 0 => r[a].ip # 0
  /\ key = "HWETHER" \/ l[a].mac # NoMac => r[a].mac # NoMac

LEMMA EffectSets ==
  ASSUME NEW l \in Seq(Record), NEW e \in HwEntry, e.key # "HWINTERFACE",
         NEW a \in Nat \ {0}, a = Len(l)
  PROVE  LastSet(HwEffect(l, e), l, a, e.key)
<1>0. 0 \notin Ip /\ NoMac \notin Mac BY IpAssumption, MacAssumption
<1>1. l[a] \in Record /\ DOMAIN l = 1 .. a /\ a \in DOMAIN l BY ElementOfSeq
<1>2. CASE e.key = "HWETHIP"
  <2>1. e.value \in Ip BY <1>2, EntryKinds
  <2>2. PICK x : x = [l[a] EXCEPT !.ip = e.value] OBVIOUS
  <2>3. x \in Record /\ x.name = l[a].name /\ x.ip = e.value /\ x.mac = l[a].mac
    BY <1>1, <2>1, <2>2 DEF Record
  <2>4. HwEffect(l, e) = [l EXCEPT ![a] = x]
    BY <1>2, <2>2 DEF HwEffect, sr_set_ether_ip
  <2>5. LastSet([l EXCEPT ![a] = x], l, a, e.key) BY <1>0, <1>1, <1>2, <2>1, <2>3 DEF LastSet
  <2>6. QED BY <2>4, <2>5
<1>3. CASE e.key = "HWETHER"
  <2>1. e.value \in Mac BY <1>3, EntryKinds
  <2>2. PICK x : x = [l[a] EXCEPT !.mac = e.value] OBVIOUS
  <2>3. x \in Record /\ x.name = l[a].name /\ x.ip = l[a].ip /\ x.mac = e.value
    BY <1>1, <2>1, <2>2 DEF Record
  <2>4. HwEffect(l, e) = [l EXCEPT ![a] = x]
    BY <1>3, <2>2 DEF HwEffect, sr_set_ether_addr
  <2>5. LastSet([l EXCEPT ![a] = x], l, a, e.key) BY <1>0, <1>1, <1>3, <2>1, <2>3 DEF LastSet
  <2>6. QED BY <2>4, <2>5
<1>4. CASE e.key = "HWMASK"
  <2>1. HwEffect(l, e) = l BY <1>4 DEF HwEffect
  <2>2. LastSet(l, l, a, e.key) BY <1>4 DEF LastSet
  <2>3. QED BY <2>1, <2>2
<1>5. QED BY <1>2, <1>3, <1>4, EntryKinds

\* An entry of that kind was seen after the last interface.
Seen(h, k, key) ==
  \E j \in 1 .. k : h[j].key = key /\ \A i \in j + 1 .. k : h[i].key # "HWINTERFACE"

\* Another interface follows, or nothing.
Ends(h, k) == k = Len(h) \/ h[k + 1].key = "HWINTERFACE"

\* Then both kinds were seen.
LEMMA SeenAll ==
  ASSUME NEW h \in HwInfos, NEW k \in 1 .. Len(h), Ends(h, k),
         NEW key \in {"HWETHIP", "HWETHER"}
  PROVE  Seen(h, k, key)
<1>1. h \in Seq(HwEntry) /\ h[1].key = "HWINTERFACE" BY HwAssumption
<1>2. PICK n \in Nat : n = Len(h) BY <1>1
<1>3. DOMAIN h = 1 .. n /\ k \in 1 .. n BY <1>1, <1>2
<1> DEFINE P == {i \in 1 .. k : h[i].key = "HWINTERFACE"}
<1>4. \E p \in P : \A i \in P : i <= p
  <2>1. 1 \in 1 .. k /\ k \in Nat /\ 1 .. k \subseteq 0 .. k BY <1>2, <1>3
  <2>2. P # {} BY <1>1, <2>1
  <2>3. P \in SUBSET (0 .. k) BY <2>1
  <2>4. QED BY <2>1, <2>2, <2>3, LargestExists
<1>5. PICK p \in P : \A i \in P : i <= p BY <1>4
<1>6. p \in 1 .. k /\ h[p].key = "HWINTERFACE"
      /\ \A i \in 1 .. k : h[i].key = "HWINTERFACE" => i <= p
  BY <1>5
<1> HIDE DEF P
<1>7. p \in DOMAIN h
  <2>1. p \in 1 .. k BY <1>6
  <2>2. p \in 1 .. n BY <1>2, <1>3, <2>1
  <2>3. QED BY <1>3, <2>2
<1>8. PICK j \in DOMAIN h : /\ p < j /\ h[j].key = key
                            /\ \A i \in p + 1 .. j : h[i].key # "HWINTERFACE"
  BY <1>6, <1>7, HwAssumption
<1>9. j \in 1 .. k
  <2>0. j \in 1 .. n /\ p < j /\ p \in 1 .. k BY <1>3, <1>6, <1>8
  <2>1. CASE k = n BY <2>0, <2>1
  <2>2. CASE h[k + 1].key = "HWINTERFACE"
    <3>1. ~ (k + 1 \in p + 1 .. j) BY <1>8, <2>2
    <3>2. QED BY <1>2, <1>3, <2>0, <3>1
  <2>3. QED BY <1>2, <2>1, <2>2 DEF Ends
<1>10. \A i \in j + 1 .. k : h[i].key # "HWINTERFACE"
  <2> TAKE i \in j + 1 .. k
  <2>0. p < j /\ p \in 1 .. k BY <1>6, <1>8
  <2>1. i \in 1 .. k /\ ~ (i <= p) BY <1>2, <1>3, <1>9, <2>0
  <2>2. QED BY <1>6, <2>1
<1>11. QED BY <1>8, <1>9, <1>10 DEF Seen

LEMMA SeenNext ==
  ASSUME NEW h, NEW k \in Nat, NEW key \in {"HWETHIP", "HWETHER"}, Seen(h, k + 1, key)
  PROVE  /\ h[k + 1].key # "HWINTERFACE"
         /\ h[k + 1].key = key \/ Seen(h, k, key)
<1>1. PICK j \in 1 .. k + 1 :
        h[j].key = key /\ \A i \in j + 1 .. k + 1 : h[i].key # "HWINTERFACE"
  BY DEF Seen
<1>2. CASE j = k + 1 BY <1>1, <1>2
<1>3. CASE j # k + 1
  <2>1. j \in 1 .. k /\ k + 1 \in j + 1 .. k + 1 BY <1>3
  <2>2. \A i \in j + 1 .. k : i \in j + 1 .. k + 1 BY <2>1
  <2>3. QED BY <1>1, <2>1, <2>2 DEF Seen
<1>4. QED BY <1>2, <1>3

\* The list l after k entries of h, if it was list before.
Grown(l, list, h, k) ==
  /\ l \in Seq(Record) /\ Len(l) > Len(list)
  /\ \A i \in 1 .. Len(list) : l[i] = list[i]
  /\ \A i \in 1 .. Len(l) : i > Len(list) /\ i # Len(l) => l[i].ip # 0 /\ l[i].mac # NoMac
  /\ Seen(h, k, "HWETHIP") => l[Len(l)].ip # 0
  /\ Seen(h, k, "HWETHER") => l[Len(l)].mac # NoMac
  /\ \A j \in 1 .. k : h[j].key = "HWINTERFACE" => \E i \in 1 .. Len(l) : l[i].name = h[j].value

LEMMA GrownFirst ==
  ASSUME NEW list \in Seq(Record), NEW h \in HwInfos
  PROVE  Grown(HwEffect(list, h[1]), list, h, 1)
<1>1. /\ h \in Seq(HwEntry) /\ h # <<>> /\ h[1].key = "HWINTERFACE" BY HwAssumption
<1>2. Len(h) \in Nat /\ 1 \in 1 .. Len(h) /\ h[1] \in HwEntry BY <1>1
<1>3. PICK a, r : a = Len(list) /\ r = HwEffect(list, h[1]) OBVIOUS
<1>4. /\ a \in Nat /\ r \in Seq(Record) /\ Len(r) = a + 1
      /\ \A i \in 1 .. a : r[i] = list[i]
      /\ r[a + 1].name = h[1].value
  <2>1. PICK e \in HwEntry : e = h[1] BY <1>2
  <2>2. e.key = "HWINTERFACE" /\ r = HwEffect(list, e) BY <1>1, <1>3, <2>1
  <2>3. OneMore(HwEffect(list, e), list, a, e.value) BY <1>3, <2>1, <2>2, EffectNames
  <2>4. QED BY <2>1, <2>2, <2>3 DEF OneMore
<1>5. \A key \in {"HWETHIP", "HWETHER"} : ~ Seen(h, 1, key)
  <2> TAKE key \in {"HWETHIP", "HWETHER"}
  <2>1. SUFFICES ASSUME Seen(h, 1, key) PROVE FALSE OBVIOUS
  <2>2. PICK j \in 1 .. 1 : h[j].key = key BY <2>1 DEF Seen
  <2>3. j = 1 OBVIOUS
  <2>4. QED BY <1>1, <2>2, <2>3
<1>6. \A j \in 1 .. 1 : h[j].key = "HWINTERFACE" => \E i \in 1 .. Len(r) : r[i].name = h[j].value
  <2> TAKE j \in 1 .. 1
  <2>1. j = 1 /\ a + 1 \in 1 .. Len(r) BY <1>4
  <2>2. QED BY <1>4, <2>1
<1>7. \A i \in 1 .. Len(r) : ~ (i > a /\ i # Len(r)) BY <1>4
<1>8. QED BY <1>3, <1>4, <1>5, <1>6, <1>7 DEF Grown

LEMMA GrownNext ==
  ASSUME NEW list \in Seq(Record), NEW h \in HwInfos, NEW k \in Nat \ {0}, k < Len(h),
         NEW l, Grown(l, list, h, k)
  PROVE  Grown(HwEffect(l, h[k + 1]), list, h, k + 1)
<1>0. /\ h \in Seq(HwEntry) BY HwAssumption
<1>1. Len(h) \in Nat /\ k \in 1 .. Len(h) /\ k + 1 \in 1 .. Len(h) /\ h[k + 1] \in HwEntry
  BY <1>0
<1>2. PICK a, b, r : a = Len(list) /\ b = Len(l) /\ r = HwEffect(l, h[k + 1]) OBVIOUS
<1>3. /\ l \in Seq(Record) /\ a \in Nat /\ b \in Nat \ {0} /\ b > a
  BY <1>2 DEF Grown
<1>4. /\ \A i \in 1 .. a : l[i] = list[i]
      /\ \A i \in 1 .. b : i > a /\ i # b => l[i].ip # 0 /\ l[i].mac # NoMac
      /\ Seen(h, k, "HWETHIP") => l[b].ip # 0
      /\ Seen(h, k, "HWETHER") => l[b].mac # NoMac
      /\ \A j \in 1 .. k : h[j].key = "HWINTERFACE" => \E i \in 1 .. b : l[i].name = h[j].value
  BY <1>2 DEF Grown
<1>5. CASE h[k + 1].key = "HWINTERFACE"
  <2>1. /\ r \in Seq(Record) /\ Len(r) = b + 1
        /\ \A i \in 1 .. b : r[i] = l[i]
        /\ r[b + 1].name = h[k + 1].value
    <3>1. PICK e \in HwEntry : e = h[k + 1] BY <1>1
    <3>2. e.key = "HWINTERFACE" /\ r = HwEffect(l, e) BY <1>2, <1>5, <3>1
    <3>3. l \in Seq(Record) /\ b = Len(l) BY <1>2, <1>3
    <3>4. OneMore(HwEffect(l, e), l, b, e.value) BY <3>1, <3>2, <3>3, EffectNames
    <3>5. QED BY <3>1, <3>2, <3>4 DEF OneMore
  <2>2. Seen(h, k, "HWETHIP") /\ Seen(h, k, "HWETHER") BY <1>1, <1>5, SeenAll DEF Ends
  <2>3. l[b].ip # 0 /\ l[b].mac # NoMac BY <1>4, <2>2
  <2>4. \A i \in 1 .. a : r[i] = list[i]
    <3> TAKE i \in 1 .. a
    <3>1. i \in 1 .. b BY <1>3
    <3>2. QED BY <1>4, <2>1, <3>1
  <2>5. \A i \in 1 .. b + 1 : i > a /\ i # b + 1 => r[i].ip # 0 /\ r[i].mac # NoMac
    <3> SUFFICES ASSUME NEW i \in 1 .. b + 1, i > a, i # b + 1
                 PROVE  r[i].ip # 0 /\ r[i].mac # NoMac
      OBVIOUS
    <3>1. i \in 1 .. b BY <1>3
    <3>2. r[i] = l[i] BY <2>1, <3>1
    <3>3. QED BY <1>4, <2>3, <3>1, <3>2
  <2>6. ~ Seen(h, k + 1, "HWETHIP") /\ ~ Seen(h, k + 1, "HWETHER") BY <1>5, SeenNext
  <2>7. \A j \in 1 .. k + 1 : h[j].key = "HWINTERFACE"
                                => \E i \in 1 .. b + 1 : r[i].name = h[j].value
    <3> SUFFICES ASSUME NEW j \in 1 .. k + 1, h[j].key = "HWINTERFACE"
                 PROVE  \E i \in 1 .. b + 1 : r[i].name = h[j].value
      OBVIOUS
    <3>1. CASE j = k + 1
      <4>1. b + 1 \in 1 .. b + 1 BY <1>3
      <4>2. QED BY <2>1, <3>1, <4>1
    <3>2. CASE j # k + 1
      <4>1. j \in 1 .. k BY <3>2
      <4>2. PICK i \in 1 .. b : l[i].name = h[j].value BY <1>4, <4>1
      <4>3. i \in 1 .. b + 1 /\ r[i] = l[i] BY <1>3, <2>1
      <4>4. QED BY <4>2, <4>3
    <3>3. QED BY <3>1, <3>2
  <2>8. Len(r) > Len(list) BY <1>2, <1>3, <2>1
  <2>9. QED BY <1>2, <2>1, <2>4, <2>5, <2>6, <2>7, <2>8 DEF Grown
<1>6. CASE h[k + 1].key # "HWINTERFACE"
  <2>1. /\ r \in Seq(Record) /\ Len(r) = b
        /\ \A i \in 1 .. b : i # b => r[i] = l[i]
        /\ r[b].name = l[b].name
        /\ h[k + 1].key = "HWETHIP" \/ l[b].ip # 0 => r[b].ip # 0
        /\ h[k + 1].key = "HWETHER" \/ l[b].mac # NoMac => r[b].mac # NoMac
    <3>1. PICK e \in HwEntry : e = h[k + 1] BY <1>1
    <3>2. e.key # "HWINTERFACE" /\ r = HwEffect(l, e) BY <1>2, <1>6, <3>1
    <3>3. l \in Seq(Record) /\ b = Len(l) /\ b \in Nat \ {0} BY <1>2, <1>3
    <3>4. /\ r \in Seq(Record) /\ Len(r) = b
          /\ \A i \in 1 .. b : i # b => r[i] = l[i]
          /\ r[b].name = l[b].name
          /\ e.key = "HWETHIP" \/ l[b].ip # 0 => r[b].ip # 0
          /\ e.key = "HWETHER" \/ l[b].mac # NoMac => r[b].mac # NoMac
      <4>1. LastSet(HwEffect(l, e), l, b, e.key) BY <3>1, <3>2, <3>3, EffectSets
      <4>2. QED BY <3>2, <4>1 DEF LastSet
    <3>5. QED BY <3>1, <3>4
  <2>2. /\ h[k + 1].key = "HWETHIP" \/ l[b].ip # 0 => r[b].ip # 0
        /\ h[k + 1].key = "HWETHER" \/ l[b].mac # NoMac => r[b].mac # NoMac
    BY <2>1
  <2>3. \A i \in 1 .. a : r[i] = list[i]
    <3> TAKE i \in 1 .. a
    <3>1. i \in 1 .. b /\ i # b BY <1>3
    <3>2. QED BY <1>4, <2>1, <3>1
  <2>4. \A i \in 1 .. b : i > a /\ i # b => r[i].ip # 0 /\ r[i].mac # NoMac
    BY <1>4, <2>1
  <2>5. Seen(h, k + 1, "HWETHIP") => r[b].ip # 0 BY <1>4, <2>2, SeenNext
  <2>6. Seen(h, k + 1, "HWETHER") => r[b].mac # NoMac BY <1>4, <2>2, SeenNext
  <2>7. \A j \in 1 .. k + 1 : h[j].key = "HWINTERFACE"
                                => \E i \in 1 .. b : r[i].name = h[j].value
    <3> SUFFICES ASSUME NEW j \in 1 .. k + 1, h[j].key = "HWINTERFACE"
                 PROVE  \E i \in 1 .. b : r[i].name = h[j].value
      OBVIOUS
    <3>1. j \in 1 .. k BY <1>6
    <3>2. PICK i \in 1 .. b : l[i].name = h[j].value BY <1>4, <3>1
    <3>3. r[i].name = l[i].name BY <2>1
    <3>4. QED BY <3>2, <3>3
  <2>8. Len(r) > Len(list) BY <1>2, <1>3, <2>1
  <2>9. QED BY <1>2, <2>1, <2>3, <2>4, <2>5, <2>6, <2>7, <2>8 DEF Grown
<1>7. QED BY <1>5, <1>6

\* List r is list and the interfaces of the announcement h, each with its addresses.
HwAdds(r, list, h) ==
  /\ r \in Seq(Record) /\ Len(r) > Len(list)
  /\ \A i \in 1 .. Len(list) : r[i] = list[i]
  /\ \A i \in 1 .. Len(r) : i > Len(list) => r[i].ip # 0 /\ r[i].mac # NoMac
  /\ \A j \in 1 .. Len(h) : h[j].key = "HWINTERFACE"
                              => \E i \in 1 .. Len(r) : r[i].name = h[j].value

\* A VNSHWINFO message leaves the records that were there as they are, and adds
\* records with both addresses for the interfaces that it names.
LEMMA HwResult ==
  ASSUME NEW list \in Seq(Record), NEW h \in HwInfos, NEW r, r = sr_handle_hwinfo(list, h)
  PROVE  HwAdds(r, list, h)
<1>1. /\ h \in Seq(HwEntry) /\ h # <<>> BY HwAssumption
<1>2. PICK n \in Nat \ {0} : n = Len(h) BY <1>1
<1>3. PICK f : f = Filled(list, h) OBVIOUS
<1>4. f[0] = list /\ \A k \in 1 .. n : f[k] = HwEffect(f[k - 1], h[k])
  BY <1>2, <1>3, FilledIs
<1>5. r = f[n] BY <1>2, <1>3 DEF sr_handle_hwinfo
<1> DEFINE T == {k \in 1 .. n : ~ Grown(f[k], list, h, k)}
<1>6. T = {}
  <2>1. SUFFICES ASSUME T # {} PROVE FALSE OBVIOUS
  <2>2. T \in SUBSET Nat OBVIOUS
  <2>3. PICK k \in T : \A y \in T : k <= y BY <2>1, <2>2, SmallestExists
  <2>4. k \in 1 .. n /\ ~ Grown(f[k], list, h, k) BY <2>3
  <2>5. k # 1
    <3>1. 1 \in 1 .. n /\ 1 - 1 = 0 BY <1>2
    <3>2. f[1] = HwEffect(list, h[1]) BY <1>4, <3>1
    <3>3. QED BY <2>4, <3>2, GrownFirst
  <2>6. PICK i \in Nat \ {0} : k = i + 1
    <3>1. k - 1 \in Nat \ {0} /\ k = (k - 1) + 1 BY <2>4, <2>5
    <3>2. QED BY <3>1
  <2>7. i \in 1 .. n /\ i < n /\ i < k /\ k - 1 = i BY <1>2, <2>4, <2>6
  <2>8. Grown(f[i], list, h, i)
    <3>1. i \notin T BY <2>3, <2>4, <2>7
    <3>2. QED BY <2>7, <3>1
  <2>9. f[k] = HwEffect(f[i], h[i + 1]) BY <1>4, <2>4, <2>6, <2>7
  <2>10. Grown(f[k], list, h, k) BY <1>2, <2>6, <2>7, <2>8, <2>9, GrownNext
  <2>11. QED BY <2>4, <2>10
<1>7. n \in 1 .. n /\ n \in 1 .. Len(h) BY <1>2
<1>8. Grown(r, list, h, n) BY <1>5, <1>6, <1>7
<1>9. Seen(h, n, "HWETHIP") /\ Seen(h, n, "HWETHER") BY <1>2, <1>7, SeenAll DEF Ends
<1>10. r[Len(r)].ip # 0 /\ r[Len(r)].mac # NoMac BY <1>8, <1>9 DEF Grown
<1>11. QED BY <1>2, <1>8, <1>10 DEF Grown, HwAdds

-----------------------------------------------------------------------------
(* The types of the session.                                               *)

Places == Expects \cup {"load", "connect", "open", "reload", "init", "loop",
                        "exit", "abort"}

Replies == {"VNS_AUTH_REPLY", "VNSOPEN", "VNS_OPEN_TEMPLATE"}

\* What a message carries.
Carries(x) ==
  /\ x.type \in Commands
  /\ x.len \in Lens[x.type]
  /\ x.type = "VNS_AUTH_STATUS" => x.arg \in BOOLEAN
  /\ x.type = "VNS_RTABLE" => x.arg.table \in RTables
  /\ x.type = "VNSHWINFO" => x.arg \in HwInfos

HwNames(h) == {h[k].value : k \in {j \in DOMAIN h : h[j].key = "HWINTERFACE"}}

\* One of the first n messages announces interface i.
Announces(ms, n, i) ==
  \E m \in 1 .. n : ms[m].type = "VNSHWINFO" /\ i \in HwNames(ms[m].arg)

MessageOK(ms, m) ==
  /\ Carries(ms[m])
  /\ ms[m].type = "VNSPACKET" => Announces(ms, m - 1, ms[m].arg)

MsgsOK ==
  /\ Len(msgs) <= MaxMsgs
  /\ \A m \in 1 .. Len(msgs) : MessageOK(msgs, m)

\* The server sends x, and the program does nothing.
SendsRight(x) ==
  /\ Len(msgs) < MaxMsgs
  /\ msgs' = Append(msgs, x)
  /\ Carries(x)
  /\ x.type = "VNSPACKET" => x.arg \in Announced

LEMMA SendRight ==
  ASSUME NEW type \in Commands, NEW arg, NEW next, Send(type, arg, next),
         type = "VNS_AUTH_STATUS" => arg \in BOOLEAN,
         type = "VNS_RTABLE" => arg.table \in RTables,
         type = "VNSHWINFO" => arg \in HwInfos,
         type = "VNSPACKET" => arg \in Announced
  PROVE  /\ \E x : SendsRight(x)
         /\ srv' = next
         /\ UNCHANGED <<out, pc, got, dataVars, historyVars>>
<1>1. PICK len \in Lens[type] :
        msgs' = Append(msgs, [type |-> type, len |-> len, arg |-> arg])
  BY DEF Send
<1>2. PICK x : x = [type |-> type, len |-> len, arg |-> arg] OBVIOUS
<1>3. x.type = type /\ x.len = len /\ x.arg = arg BY <1>2
<1>4. Carries(x) BY <1>3 DEF Carries
<1>5. SendsRight(x) BY <1>1, <1>2, <1>3, <1>4 DEF SendsRight, Send
<1>6. QED BY <1>5 DEF Send

LEMMA ServerRight ==
  ASSUME Server
  PROVE  /\ (\E x : SendsRight(x)) \/ msgs' = msgs
         /\ srv \in ServerStates => srv' \in ServerStates
         /\ UNCHANGED <<out, pc, got, dataVars, historyVars>>
<1>0. Commands = {"VNS_AUTH_REQUEST", "VNS_AUTH_STATUS", "VNS_RTABLE", "VNSHWINFO",
                  "VNSPACKET", "VNSBANNER", "VNSCLOSE"}
  BY DEF Commands
<1>1. CASE SrvAuthRequest
  BY <1>0, <1>1, SendRight DEF SrvAuthRequest, ServerStates
<1>2. CASE SrvAuthStatus
  BY <1>0, <1>2, SendRight DEF SrvAuthStatus, ServerStates
<1>3. CASE SrvRtable
  <2>1. PICK t \in RTables : Send("VNS_RTABLE", [host |-> opt.host, table |-> t], "open")
    BY <1>3 DEF SrvRtable
  <2>2. [host |-> opt.host, table |-> t].table \in RTables OBVIOUS
  <2>3. QED BY <1>0, <2>1, <2>2, SendRight DEF ServerStates
<1>4. CASE SrvHwinfo
  BY <1>0, <1>4, SendRight DEF SrvHwinfo, ServerStates
<1>5. CASE SrvPacket
  BY <1>0, <1>5, SendRight DEF SrvPacket, ServerStates
<1>6. CASE SrvBanner
  BY <1>0, <1>6, SendRight DEF SrvBanner
<1>7. CASE SrvClose
  BY <1>0, <1>7, SendRight DEF SrvClose, ServerStates
<1>8. CASE SrvGone
  BY <1>8 DEF SrvGone, ServerStates
<1>9. QED BY <1>1, <1>2, <1>3, <1>4, <1>5, <1>6, <1>7, <1>8 DEF Server

LEMMA MsgsNext ==
  ASSUME FrameInv, MsgsOK, [Next]_vars
  PROVE  MsgsOK'
<1>1. CASE msgs' = msgs BY <1>1 DEF MsgsOK, MessageOK
<1>2. CASE \E x : SendsRight(x)
  <2>1. PICK x : SendsRight(x) BY <1>2
  <2>2. PICK L \in Nat : L = Len(msgs)
    BY Kept
  <2>3. PICK A : msgs \in Seq([type : Commands, len : Nat, arg : A])
    BY DEF FrameInv, StreamOK
  <2>4. PICK ns : ns = msgs' OBVIOUS
  <2>5. /\ Len(ns) = L + 1 /\ ns[L + 1] = x
        /\ \A m \in 1 .. L : ns[m] = msgs[m]
    BY <2>1, <2>2, <2>3, <2>4 DEF SendsRight
  <2>6. L + 1 <= MaxMsgs BY <2>1, <2>2, SessionAssumption DEF SendsRight
  <2>7. \A m \in 1 .. L : MessageOK(ns, m)
    <3> TAKE m \in 1 .. L
    <3>1. MessageOK(msgs, m) BY <2>2 DEF MsgsOK
    <3>2. \A k \in 1 .. m - 1 : ns[k] = msgs[k] BY <2>2, <2>5
    <3>3. ns[m] = msgs[m] BY <2>5
    <3>4. QED BY <3>1, <3>2, <3>3 DEF MessageOK, Announces
  <2>8. MessageOK(ns, L + 1)
    <3>1. Carries(x) BY <2>1 DEF SendsRight
    <3>2. ASSUME x.type = "VNSPACKET" PROVE Announces(ns, L, x.arg)
      <4>1. x.arg \in Announced BY <2>1, <3>2 DEF SendsRight
      <4>2. DOMAIN msgs = 1 .. L BY <2>2, <2>3
      <4>3. PICK m \in 1 .. L : msgs[m].type = "VNSHWINFO" /\ x.arg \in HwNames(msgs[m].arg)
        BY <4>1, <4>2 DEF Announced, HwNames
      <4>4. QED BY <2>5, <4>3 DEF Announces
    <3>3. (L + 1) - 1 = L BY <2>2
    <3>4. QED BY <2>5, <3>1, <3>2, <3>3 DEF MessageOK
  <2>9. \A m \in 1 .. L + 1 : m \in 1 .. L \/ m = L + 1 BY <2>2
  <2>10. QED BY <2>4, <2>5, <2>6, <2>7, <2>8, <2>9 DEF MsgsOK
<1>3. CASE UNCHANGED vars BY <1>1, <1>3 DEF vars, serverVars
<1>4. QED BY <1>1, <1>2, <1>3, ServerRight, ClientSilent DEF Next

\* The type invariant, with the sequences that it speaks of.
DataOK ==
  /\ srv \in ServerStates
  /\ out \in Seq(Replies)
  /\ pc \in Places
  /\ opt \in Options
  /\ files \in [Files -> RTables \cup {NoFile}]
  /\ routing_table \in RTables \cup {<<>>}
  /\ if_list \in Seq(Record)
  /\ started \in BOOLEAN
  /\ handed \in BOOLEAN

\* The message being handled is the first that was not, and carries what it should.
LEMMA CommandRight ==
  ASSUME FrameInv, MsgsOK, Complete
  PROVE  /\ Len(handled) \in Nat
         /\ Len(handled) + 1 \in 1 .. Len(msgs)
         /\ got[1][1] = Len(handled) + 1
         /\ Command = msgs[Len(handled) + 1]
         /\ Carries(Command)
         /\ MessageOK(msgs, Len(handled) + 1)
<1>1. Len(handled) + 1 \in 1 .. Len(msgs) /\ got[1][1] = Len(handled) + 1
  BY LengthRight DEF Complete
<1>2. Len(handled) \in Nat BY StreamFacts DEF FrameInv
<1>3. Command = msgs[Len(handled) + 1] BY <1>1 DEF Command
<1>4. MessageOK(msgs, Len(handled) + 1) BY <1>1 DEF MsgsOK
<1>5. QED BY <1>1, <1>2, <1>3, <1>4 DEF MessageOK

LEMMA ReturnPlaces ==
  ASSUME Complete, NEW one, Return(one)
  PROVE  pc' \in Places
<1>1. pc \in Expects \cup {"loop"} BY DEF Complete, Reading
<1>2. pc' \in {"VNS_AUTH_STATUS", "open", "reload", "loop", "exit"}
  BY <1>1, AfterNotEarly DEF Return
<1>3. QED BY <1>2 DEF Places, Expects

LEMMA LoadTypes ==
  ASSUME DataOK, NEW next \in Places, sr_load_rt_wrap(next)
  PROVE  pc' \in Places /\ routing_table' \in RTables \cup {<<>>}
<1>1. opt.rtable \in Files BY SessionAssumption DEF DataOK, Option
<1>2. files[opt.rtable] \in RTables \cup {NoFile} BY <1>1 DEF DataOK
<1>3. "exit" \in Places BY DEF Places
<1>4. QED BY <1>2, <1>3 DEF sr_load_rt_wrap, DataOK

LEMMA DataNext ==
  ASSUME FrameInv, MsgsOK, DataOK, [Next]_vars
  PROVE  DataOK'
<1>0. \A p \in {"load", "connect", "open", "reload", "init", "loop", "exit", "abort",
                "VNS_AUTH_REQUEST", "VNS_AUTH_STATUS", "VNS_RTABLE"} : p \in Places
  BY DEF Places, Expects
<1>1. CASE UNCHANGED vars BY <1>1 DEF vars, serverVars, dataVars, historyVars, DataOK
<1>2. CASE Server
  <2>1. srv' \in ServerStates /\ UNCHANGED <<out, pc, got, dataVars, historyVars>>
    BY <1>2, ServerRight DEF DataOK
  <2>2. QED BY <2>1 DEF DataOK, dataVars, historyVars
<1>3. CASE Client
  <2>0. srv' \in ServerStates BY <1>3, ClientSilent DEF DataOK
  <2>1. CASE Load
    <3>1. UNCHANGED <<out, opt, files, if_list, started, handed>> BY <2>1 DEF Load, historyVars
    <3>2. pc' \in Places /\ routing_table' \in RTables \cup {<<>>}
      <4>1. CASE opt.template BY <1>0, <2>1, <4>1 DEF Load, DataOK
      <4>2. CASE ~ opt.template BY <1>0, <2>1, <4>2, LoadTypes DEF Load
      <4>3. QED BY <4>1, <4>2
    <3>3. QED BY <2>0, <3>1, <3>2 DEF DataOK
  <2>2. CASE Reload
    <3>1. UNCHANGED <<out, opt, files, if_list, started, handed>> BY <2>2 DEF Reload, historyVars
    <3>2. pc' \in Places /\ routing_table' \in RTables \cup {<<>>}
      BY <1>0, <2>2, LoadTypes DEF Reload
    <3>3. QED BY <2>0, <3>1, <3>2 DEF DataOK
  <2>3. CASE Connect \/ Start
    <3>1. /\ UNCHANGED <<out, opt, files, if_list, routing_table, handed>>
          /\ pc' \in Places /\ started' \in {started, TRUE}
      BY <1>0, <2>3 DEF Connect, Start, dataVars, historyVars
    <3>2. QED BY <2>0, <3>1 DEF DataOK
  <2>4. CASE Open
    <3>1. UNCHANGED <<dataVars, historyVars>> /\ pc' \in Places BY <1>0, <2>4 DEF Open
    <3>2. \/ UNCHANGED out
          \/ \E r \in Replies : out' = Append(out, r)
      BY <2>4 DEF Open, Replies
    <3>3. out' \in Seq(Replies) BY <3>2 DEF DataOK
    <3>4. QED BY <2>0, <3>1, <3>3 DEF DataOK, dataVars, historyVars
  <2>5. CASE ReadLength \/ ReadTooLong \/ ReadBody \/ ReadError
    <3>1. UNCHANGED <<out, dataVars, historyVars>> /\ pc' \in {pc, "exit"}
      BY <2>5 DEF ReadLength, ReadTooLong, ReadBody, ReadError
    <3>2. QED BY <1>0, <2>0, <3>1 DEF DataOK, dataVars, historyVars
  <2>6. CASE Unexpected \/ HandleClose \/ HandleBanner \/ sr_handle_auth_status
    <3>1. UNCHANGED <<out, dataVars, handed>> /\ pc' \in Places
      BY <2>6, ReturnPlaces DEF Unexpected, HandleClose, HandleBanner,
                                sr_handle_auth_status, Arrives
    <3>2. QED BY <2>0, <3>1 DEF DataOK, dataVars
  <2>7. CASE sr_handle_auth_request
    <3>1. UNCHANGED <<dataVars, handed>> /\ pc' \in Places
      BY <2>7, ReturnPlaces DEF sr_handle_auth_request, Arrives
    <3>2. \/ UNCHANGED out
          \/ \E r \in Replies : out' = Append(out, r)
      BY <2>7 DEF sr_handle_auth_request, Replies
    <3>3. out' \in Seq(Replies) BY <3>2 DEF DataOK
    <3>4. QED BY <2>0, <3>1, <3>3 DEF DataOK, dataVars
  <2>8. CASE sr_handle_rtable
    <3>1. /\ UNCHANGED <<out, opt, if_list, routing_table, started, handed>>
          /\ pc' \in Places
      BY <2>8, ReturnPlaces DEF sr_handle_rtable, Arrives
    <3>2. Command.arg.table \in RTables
      BY <2>8, CommandRight DEF sr_handle_rtable, Arrives, Carries
    <3>3. files' \in [Files -> RTables \cup {NoFile}]
      BY <2>8, <3>2 DEF sr_handle_rtable, DataOK
    <3>4. QED BY <2>0, <3>1, <3>3 DEF DataOK
  <2>9. CASE HandleHwinfo
    <3>1. /\ UNCHANGED <<out, opt, files, routing_table, started, handed>>
          /\ Complete /\ Return(sr_verify_routing_table(routing_table, if_list'))
          /\ if_list' = sr_handle_hwinfo(if_list, Command.arg)
      BY <2>9 DEF HandleHwinfo, Arrives
    <3>2. pc' \in Places BY <3>1, ReturnPlaces
    <3>3. Command.arg \in HwInfos
      BY <2>9, CommandRight DEF HandleHwinfo, Arrives, Carries
    <3>4. if_list' \in Seq(Record)
      <4>1. if_list \in Seq(Record) BY DEF DataOK
      <4>2. HwAdds(if_list', if_list, Command.arg) BY <3>1, <3>3, <4>1, HwResult
      <4>3. QED BY <4>2 DEF HwAdds
    <3>5. QED BY <2>0, <3>1, <3>2, <3>4 DEF DataOK
  <2>10. CASE HandlePacket
    <3>1. UNCHANGED <<out, dataVars>> /\ handed' \in {handed, TRUE} /\ pc' \in Places
      <4>1. CASE Command.arg \in Names(if_list)
        BY <2>10, <4>1, ReturnPlaces DEF HandlePacket, Arrives
      <4>2. CASE Command.arg \notin Names(if_list)
        BY <1>0, <2>10, <4>2 DEF HandlePacket, historyVars
      <4>3. QED BY <4>1, <4>2
    <3>2. QED BY <2>0, <3>1 DEF DataOK, dataVars
  <2>11. QED
    BY <1>3, <2>1, <2>2, <2>3, <2>4, <2>5, <2>6, <2>7, <2>8, <2>9, <2>10 DEF Client
<1>4. QED BY <1>1, <1>2, <1>3 DEF Next

LEMMA TypesInit ==
  ASSUME Init
  PROVE  MsgsOK /\ DataOK
<1>1. MsgsOK
  <2>1. Len(msgs) = 0 BY DEF Init
  <2>2. QED BY <2>1, SessionAssumption DEF MsgsOK
<1>2. files \in [Files -> RTables \cup {NoFile}] BY DEF Init
<1>3. srv \in ServerStates /\ pc \in Places BY DEF Init, ServerStates, Places
<1>4. out \in Seq(Replies) /\ if_list \in Seq(Record) BY DEF Init
<1>5. DataOK BY <1>2, <1>3, <1>4 DEF Init, DataOK
<1>6. QED BY <1>1, <1>5

LEMMA TypesInvariant == Spec => [](MsgsOK /\ DataOK)
<1>1. Init => MsgsOK /\ DataOK BY TypesInit
<1>2. FrameInv /\ MsgsOK /\ DataOK /\ [Next]_vars => MsgsOK' /\ DataOK'
  BY MsgsNext, DataNext
<1>3. QED BY <1>1, <1>2, FrameInvariant, PTL DEF Spec

\* The state of the session has the types of its C structures, the messages that
\* the server may send included: the interface list that a VNSHWINFO message
\* builds entry by entry is a list of whole records.
THEOREM SessionTypes == Spec => []TypeOK
<1>1. FrameInv /\ MsgsOK /\ DataOK => TypeOK
  <2> SUFFICES ASSUME FrameInv, MsgsOK, DataOK PROVE TypeOK
    OBVIOUS
  <2>1. DOMAIN msgs = 1 .. Len(msgs) BY StreamFacts DEF FrameInv, Messages
  <2>2. \A m \in DOMAIN msgs : msgs[m].type \in Commands /\ msgs[m].len \in Lens[msgs[m].type]
    BY <2>1 DEF MsgsOK, MessageOK, Carries
  <2>3. Range(out) \subseteq Replies
    <3>1. out \in Seq(Replies) BY DEF DataOK
    <3>2. \A k \in DOMAIN out : out[k] \in Replies BY <3>1
    <3>3. QED BY <3>2 DEF Range
  <2>4. \A k \in DOMAIN if_list : if_list[k] \in Record
    <3>1. if_list \in Seq(Record) BY DEF DataOK
    <3>2. QED BY <3>1
  <2>5. QED BY <2>2, <2>3, <2>4 DEF TypeOK, DataOK, MsgsOK, Record, Replies, Places, ServerStates
<1>2. QED BY <1>1, FrameInvariant, TypesInvariant, PTL

-----------------------------------------------------------------------------
(* The router is ready when a frame reaches it, and knows the interface.   *)

\* One of the first h messages says that authentication has succeeded.
SentStatus(h, ms) == \E k \in 1 .. h : ms[k].type = "VNS_AUTH_STATUS" /\ ms[k].arg

Authenticated == SentStatus(Len(handled), msgs)

Opening == {"open", "VNS_RTABLE", "reload", "init"}

Starting == {"load", "connect", "VNS_AUTH_REQUEST", "VNS_AUTH_STATUS"} \cup Opening

Verified == sr_verify_routing_table(routing_table, if_list)

Addressed == \A k \in 1 .. Len(if_list) : if_list[k].ip # 0 /\ if_list[k].mac # NoMac

\* The interfaces of the announcements among the first h messages are in list.
Known(h, ms, list) ==
  \A k \in 1 .. h : ms[k].type = "VNSHWINFO" => HwNames(ms[k].arg) \subseteq Names(list)

\* The inductive invariant: what main has established by the time it is at pc.
ReadyInv ==
  /\ pc # "abort"
  /\ Addressed
  /\ pc \in Opening \cup {"loop"} => Authenticated
  /\ pc \in Starting => if_list = <<>> /\ ~ handed
  /\ pc = "loop" => started /\ (if_list # <<>> => Verified)
  /\ pc \in Starting \cup {"loop"} => Known(Len(handled), msgs, if_list)
  /\ handed => started /\ Authenticated /\ Verified

\* Everything that ReadyInv speaks of, but for the place, stays.
Steady ==
  /\ UNCHANGED <<if_list, handed>>
  /\ started => started'
  /\ handed \/ pc = "loop" => UNCHANGED routing_table

LEMMA StatusStays ==
  ASSUME FrameInv, [Next]_vars, Authenticated
  PROVE  Authenticated'
<1>1. PICK k \in 1 .. Len(handled) : msgs[k].type = "VNS_AUTH_STATUS" /\ msgs[k].arg
  BY DEF Authenticated, SentStatus
<1>2. k \in 1 .. Len(handled') /\ k \in 1 .. Len(msgs) BY Kept
<1>3. msgs'[k] = msgs[k] BY <1>2, Kept
<1>4. QED BY <1>1, <1>2, <1>3 DEF Authenticated, SentStatus

\* No further message is handled, or one that announces nothing.
LEMMA KnownStays ==
  ASSUME FrameInv, [Next]_vars, Known(Len(handled), msgs, if_list),
         Names(if_list) \subseteq Names(if_list'),
         \/ Len(handled') = Len(handled)
         \/ /\ Len(handled') = Len(handled) + 1 /\ msgs' = msgs
            /\ msgs[Len(handled) + 1].type = "VNSHWINFO"
                 => HwNames(msgs[Len(handled) + 1].arg) \subseteq Names(if_list')
  PROVE  Known(Len(handled'), msgs', if_list')
<1> SUFFICES ASSUME NEW k \in 1 .. Len(handled'), msgs'[k].type = "VNSHWINFO"
             PROVE  HwNames(msgs'[k].arg) \subseteq Names(if_list')
  BY DEF Known
<1>1. CASE k \in 1 .. Len(handled)
  <2>1. k \in 1 .. Len(msgs) BY <1>1, Kept
  <2>2. msgs'[k] = msgs[k] BY <2>1, Kept
  <2>3. HwNames(msgs[k].arg) \subseteq Names(if_list) BY <1>1, <2>2 DEF Known
  <2>4. QED BY <2>2, <2>3
<1>2. CASE k \notin 1 .. Len(handled)
  <2>1. Len(handled) \in Nat /\ Len(handled') \in Nat BY Kept
  <2>2. Len(handled') = Len(handled) + 1 /\ k = Len(handled) + 1 BY <1>2, <2>1
  <2>3. msgs' = msgs BY <2>1, <2>2
  <2>4. QED BY <2>1, <2>2, <2>3
<1>3. QED BY <1>1, <1>2

\* Steps that handle no message and go on in the start-up, or end.
LEMMA SteadyReady ==
  ASSUME FrameInv, ReadyInv, [Next]_vars, Steady, UNCHANGED handled,
         \/ pc' = pc
         \/ pc' = "exit"
         \/ pc \in Starting /\ pc' \in Starting /\ (pc' \in Opening => pc \in Opening)
         \/ pc = "init" /\ pc' = "loop" /\ started'
  PROVE  ReadyInv'
<1>1. Authenticated => Authenticated' BY StatusStays
<1>2. UNCHANGED <<if_list, handed>> BY DEF Steady
<1>3. Known(Len(handled), msgs, if_list) => Known(Len(handled), msgs, if_list)'
  BY <1>2, KnownStays
<1>4. "exit" \notin Starting \cup Opening /\ "loop" \notin Starting \cup Opening
      /\ "init" \in Starting \cap Opening /\ "abort" \notin Starting
  BY DEF Starting, Opening
<1>5. Addressed' BY <1>2 DEF ReadyInv, Addressed
<1>6. handed' => started' /\ Authenticated' /\ Verified'
  BY <1>1, <1>2 DEF ReadyInv, Steady, Verified
<1>7. pc' \in Starting => if_list' = <<>> /\ ~ handed'
  BY <1>2, <1>4 DEF ReadyInv
<1>8. pc' \in Opening \cup {"loop"} => Authenticated'
  BY <1>1, <1>4 DEF ReadyInv
<1>9. pc' \in Starting \cup {"loop"} => Known(Len(handled), msgs, if_list)'
  BY <1>3, <1>4 DEF ReadyInv
<1>10. pc' = "loop" => started' /\ (if_list' # <<>> => Verified')
  <2>1. CASE pc = "loop" BY <1>2, <2>1 DEF ReadyInv, Steady, Verified
  <2>2. CASE pc = "init" /\ started'
    <3>1. if_list' = <<>> BY <1>2, <1>4, <2>2 DEF ReadyInv
    <3>2. QED BY <2>2, <3>1
  <2>3. QED BY <1>4, <2>1, <2>2
<1>11. pc' # "abort" BY <1>4 DEF ReadyInv
<1>12. QED BY <1>5, <1>6, <1>7, <1>8, <1>9, <1>10, <1>11 DEF ReadyInv

\* A message that announces no interface is handled.
LEMMA ReturnReady ==
  ASSUME FrameInv, MsgsOK, ReadyInv, [Next]_vars, Complete, NEW one, Return(one),
         UNCHANGED <<if_list, routing_table, started>>,
         handed' = handed \/ (pc = "loop" /\ if_list # <<>>),
         Command.type # "VNSHWINFO" \/ pc' = "exit",
         pc = "VNS_AUTH_STATUS" /\ pc' = "open" => Authenticated'
  PROVE  ReadyInv'
<1>1. Authenticated => Authenticated' BY StatusStays
<1>2. \/ pc' = "exit"
      \/ pc = "VNS_AUTH_REQUEST" /\ pc' = "VNS_AUTH_STATUS"
      \/ pc = "VNS_AUTH_STATUS" /\ pc' = "open"
      \/ pc = "VNS_RTABLE" /\ pc' = "reload"
      \/ pc = "loop" /\ pc' = "loop"
  <2>1. pc \in {"VNS_AUTH_REQUEST", "VNS_AUTH_STATUS", "VNS_RTABLE", "loop"}
    BY DEF Complete, Reading, Expects
  <2>2. pc' = IF one THEN After[pc] ELSE "exit" BY DEF Return
  <2>3. QED BY <2>1, <2>2, AfterOf
<1>3. pc' = "exit" \/ Known(Len(handled), msgs, if_list)'
  <2>1. ASSUME pc' # "exit" PROVE Known(Len(handled'), msgs', if_list')
    <3>1. Known(Len(handled), msgs, if_list)
      BY <1>2, <2>1 DEF ReadyInv, Starting, Opening
    <3>2. Command = msgs[Len(handled) + 1] BY CommandRight
    <3>3. handled' = Append(handled, got[1][1]) /\ msgs' = msgs BY DEF Return, serverVars
    <3>4. handled \in Seq(Nat) BY DEF FrameInv, StreamOK
    <3>5. Len(handled') = Len(handled) + 1
      <4>1. got[1][1] \in Nat BY CommandRight
      <4>2. QED BY <3>3, <3>4, <4>1
    <3>6. QED BY <2>1, <3>1, <3>2, <3>3, <3>5, KnownStays
  <2>2. QED BY <2>1
<1>4. handed' => started' /\ Authenticated' /\ Verified'
  BY <1>1 DEF ReadyInv, Verified
<1>5. pc' \in Opening \cup {"loop"} => Authenticated'
  BY <1>1, <1>2 DEF ReadyInv, Opening
<1>6. pc' \in Starting => if_list' = <<>> /\ ~ handed'
  BY <1>2 DEF ReadyInv, Starting, Opening
<1>7. pc' = "loop" => started' /\ (if_list' # <<>> => Verified')
  BY <1>2 DEF ReadyInv, Verified
<1>8. pc' # "abort" /\ (pc' = "exit" => pc' \notin Starting \cup {"loop"})
  BY <1>2 DEF Starting, Opening
<1>9. Addressed' BY DEF ReadyInv, Addressed
<1>10. QED BY <1>3, <1>4, <1>5, <1>6, <1>7, <1>8, <1>9 DEF ReadyInv

\* Announcements only add interfaces, each with its addresses.
LEMMA HwinfoReady ==
  ASSUME FrameInv, MsgsOK, DataOK, ReadyInv, [Next]_vars, HandleHwinfo
  PROVE  ReadyInv'
<1>1. /\ Complete /\ Command.type = "VNSHWINFO" /\ pc = "loop"
      /\ if_list' = sr_handle_hwinfo(if_list, Command.arg)
      /\ Return(sr_verify_routing_table(routing_table, if_list'))
      /\ UNCHANGED <<routing_table, started, handed>>
  BY ArrivesWhere DEF HandleHwinfo, Arrives
<1>2. PICK list \in Seq(Record) : list = if_list BY DEF DataOK
<1>3. PICK h \in HwInfos : h = Command.arg BY <1>1, CommandRight DEF Carries
<1>4. PICK r : r = if_list' OBVIOUS
<1>5. r = sr_handle_hwinfo(list, h) BY <1>1, <1>2, <1>3, <1>4
<1>6. /\ r \in Seq(Record) /\ Len(r) > Len(list)
      /\ \A i \in 1 .. Len(list) : r[i] = list[i]
      /\ \A i \in 1 .. Len(r) : i > Len(list) => r[i].ip # 0 /\ r[i].mac # NoMac
      /\ \A j \in 1 .. Len(h) : h[j].key = "HWINTERFACE"
                                  => \E i \in 1 .. Len(r) : r[i].name = h[j].value
  <2>1. HwAdds(r, list, h) BY <1>2, <1>3, <1>5, HwResult
  <2>2. QED BY <2>1 DEF HwAdds
<1>7. /\ Len(list) \in Nat /\ Len(r) \in Nat
      /\ DOMAIN list = 1 .. Len(list) /\ DOMAIN r = 1 .. Len(r)
  BY <1>6
<1>8. Addressed'
  <2> SUFFICES ASSUME NEW i \in 1 .. Len(r) PROVE r[i].ip # 0 /\ r[i].mac # NoMac
    BY <1>4 DEF Addressed
  <2>1. CASE i > Len(list) BY <1>6, <2>1
  <2>2. CASE ~ (i > Len(list))
    <3>1. i \in 1 .. Len(list) BY <1>7, <2>2
    <3>2. QED BY <1>2, <1>6, <3>1 DEF ReadyInv, Addressed
  <2>3. QED BY <2>1, <2>2
<1>9. Names(list) \subseteq Names(r)
  <2> SUFFICES ASSUME NEW i \in 1 .. Len(list) PROVE list[i].name \in Names(r)
    BY <1>7 DEF Names
  <2>1. i \in DOMAIN r /\ r[i] = list[i] BY <1>6, <1>7
  <2>2. QED BY <2>1 DEF Names
<1>10. HwNames(h) \subseteq Names(r)
  <2>1. h \in Seq(HwEntry) BY HwAssumption
  <2>2. DOMAIN h = 1 .. Len(h) BY <2>1
  <2> SUFFICES ASSUME NEW j \in 1 .. Len(h), h[j].key = "HWINTERFACE"
               PROVE  h[j].value \in Names(r)
    BY <2>2 DEF HwNames
  <2>3. PICK i \in 1 .. Len(r) : r[i].name = h[j].value BY <1>6
  <2>4. QED BY <1>7, <2>3 DEF Names
<1>11. r # <<>> BY <1>6, <1>7
<1>12. Verified => Verified'
  BY <1>1, <1>2, <1>4, <1>9, <1>11 DEF Verified, sr_verify_routing_table
<1>13. (pc' = "loop" /\ Verified') \/ pc' = "exit"
  <2>1. pc' = IF Verified' THEN After[pc] ELSE "exit" BY <1>1 DEF Return, Verified
  <2>2. QED BY <1>1, <2>1, AfterOf
<1>14. Authenticated' BY <1>1, StatusStays DEF ReadyInv
<1>15. Known(Len(handled'), msgs', if_list')
  <2>1. Known(Len(handled), msgs, if_list) BY <1>1 DEF ReadyInv
  <2>2. Command = msgs[Len(handled) + 1] BY <1>1, CommandRight
  <2>3. handled' = Append(handled, got[1][1]) /\ msgs' = msgs BY <1>1 DEF Return, serverVars
  <2>4. handled \in Seq(Nat) BY DEF FrameInv, StreamOK
  <2>5. Len(handled') = Len(handled) + 1
    <3>1. got[1][1] \in Nat BY <1>1, CommandRight
    <3>2. QED BY <2>3, <2>4, <3>1
  <2>6. Names(if_list) \subseteq Names(if_list') BY <1>2, <1>4, <1>9
  <2>7. HwNames(msgs[Len(handled) + 1].arg) \subseteq Names(if_list')
    BY <1>3, <1>4, <1>10, <2>2
  <2>8. QED BY <2>1, <2>3, <2>5, <2>6, <2>7, KnownStays
<1>16. started' BY <1>1 DEF ReadyInv
<1>17. handed' => Verified' BY <1>1, <1>12 DEF ReadyInv
<1>18. pc' \notin Starting /\ pc' # "abort" BY <1>13 DEF Starting, Opening
<1>19. QED BY <1>8, <1>13, <1>14, <1>15, <1>16, <1>17, <1>18 DEF ReadyInv

\* A frame comes in on an interface that is in the list.
LEMMA PacketReady ==
  ASSUME FrameInv, MsgsOK, ReadyInv, [Next]_vars, HandlePacket
  PROVE  ReadyInv'
<1>1. /\ Complete /\ Command.type = "VNSPACKET" /\ pc = "loop"
      /\ UNCHANGED <<if_list, routing_table, started>>
  BY ArrivesWhere DEF HandlePacket, Arrives, dataVars
<1>2. PICK n \in Nat : n = Len(handled) BY <1>1, CommandRight
<1>3. Command = msgs[n + 1] /\ MessageOK(msgs, n + 1) BY <1>1, <1>2, CommandRight
<1>4. Announces(msgs, n, Command.arg)
  <2>1. (n + 1) - 1 = n BY <1>2
  <2>2. QED BY <1>1, <1>3, <2>1 DEF MessageOK
<1>5. PICK m \in 1 .. n : msgs[m].type = "VNSHWINFO" /\ Command.arg \in HwNames(msgs[m].arg)
  BY <1>4 DEF Announces
<1>6. Known(n, msgs, if_list) BY <1>1, <1>2 DEF ReadyInv
<1>7. Command.arg \in Names(if_list) BY <1>5, <1>6 DEF Known
<1>8. if_list # <<>>
  <2>1. ASSUME if_list = <<>> PROVE FALSE
    <3>1. DOMAIN if_list = {} BY <2>1
    <3>2. QED BY <1>7, <3>1 DEF Names
  <2>2. QED BY <2>1
<1>9. Return(TRUE) BY <1>7 DEF HandlePacket
<1>10. QED BY <1>1, <1>8, <1>9, ReturnReady

LEMMA AuthReady ==
  ASSUME FrameInv, MsgsOK, ReadyInv, [Next]_vars, sr_handle_auth_status
  PROVE  ReadyInv'
<1>1. /\ Complete /\ Command.type = "VNS_AUTH_STATUS" /\ Return(Command.arg)
      /\ UNCHANGED <<if_list, routing_table, started, handed>>
  BY DEF sr_handle_auth_status, Arrives, dataVars
<1>2. pc' = "open" => Authenticated'
  <2> SUFFICES ASSUME pc' = "open" PROVE Authenticated'
    OBVIOUS
  <2>1. Command.arg BY <1>1 DEF Return
  <2>2. /\ Len(handled) \in Nat /\ Command = msgs[Len(handled) + 1]
        /\ got[1][1] = Len(handled) + 1
    BY <1>1, CommandRight
  <2>3. handled' = Append(handled, got[1][1]) /\ msgs' = msgs BY <1>1 DEF Return, serverVars
  <2>4. handled \in Seq(Nat) BY DEF FrameInv, StreamOK
  <2>5. Len(handled') = Len(handled) + 1 BY <2>2, <2>3, <2>4
  <2>6. Len(handled) + 1 \in 1 .. Len(handled') BY <2>2, <2>5
  <2>7. msgs'[Len(handled) + 1].type = "VNS_AUTH_STATUS" /\ msgs'[Len(handled) + 1].arg
    BY <1>1, <2>1, <2>2, <2>3
  <2>8. SentStatus(Len(handled'), msgs') BY <2>6, <2>7 DEF SentStatus
  <2>9. QED BY <2>8 DEF Authenticated
<1>3. Command.type # "VNSHWINFO" BY <1>1
<1>4. QED BY <1>1, <1>2, <1>3, ReturnReady

LEMMA ReadyNext ==
  ASSUME FrameInv, MsgsOK, DataOK, ReadyInv, [Next]_vars
  PROVE  ReadyInv'
<1>1. CASE Server \/ UNCHANGED vars
  <2>1. UNCHANGED <<pc, handled>> /\ Steady
    BY <1>1, ServerRight DEF vars, dataVars, historyVars, Steady
  <2>2. QED BY <2>1, SteadyReady
<1>2. CASE Load
  <2>1. UNCHANGED handled /\ Steady /\ pc = "load" /\ pc' \in {"connect", "exit"}
    <3>1. ~ handed BY <1>2 DEF Load, ReadyInv, Starting
    <3>2. QED BY <1>2, <3>1 DEF Load, sr_load_rt_wrap, historyVars, Steady
  <2>2. QED BY <2>1, SteadyReady DEF Starting, Opening
<1>3. CASE Connect
  <2>1. UNCHANGED handled /\ Steady /\ pc = "connect" /\ pc' \in {"VNS_AUTH_REQUEST", "exit"}
    BY <1>3 DEF Connect, dataVars, historyVars, Steady
  <2>2. QED BY <2>1, SteadyReady DEF Starting, Opening
<1>4. CASE Open
  <2>1. UNCHANGED handled /\ Steady /\ pc = "open" /\ pc' \in {"VNS_RTABLE", "reload", "exit"}
    BY <1>4 DEF Open, dataVars, historyVars, Steady
  <2>2. QED BY <2>1, SteadyReady DEF Starting, Opening
<1>5. CASE Reload
  <2>1. UNCHANGED handled /\ Steady /\ pc = "reload" /\ pc' \in {"init", "exit"}
    <3>1. ~ handed BY <1>5 DEF Reload, ReadyInv, Starting, Opening
    <3>2. QED BY <1>5, <3>1 DEF Reload, sr_load_rt_wrap, historyVars, Steady
  <2>2. QED BY <2>1, SteadyReady DEF Starting, Opening
<1>6. CASE Start
  <2>1. UNCHANGED handled /\ Steady /\ pc = "init" /\ pc' = "loop" /\ started'
    BY <1>6 DEF Start, historyVars, Steady
  <2>2. QED BY <2>1, SteadyReady
<1>7. CASE ReadLength \/ ReadTooLong \/ ReadBody \/ ReadError
  <2>1. UNCHANGED handled /\ Steady /\ pc' \in {pc, "exit"}
    BY <1>7 DEF ReadLength, ReadTooLong, ReadBody, ReadError, dataVars, historyVars, Steady
  <2>2. QED BY <2>1, SteadyReady
<1>8. CASE Unexpected \/ HandleClose
  <2>1. /\ Complete /\ Return(FALSE) /\ pc' = "exit"
        /\ UNCHANGED <<if_list, routing_table, started, handed>>
    BY <1>8 DEF Unexpected, HandleClose, Return, dataVars
  <2>2. QED BY <2>1, ReturnReady
<1>9. CASE HandleBanner
  <2>1. /\ Complete /\ Return(TRUE) /\ Command.type = "VNSBANNER" /\ pc = "loop"
        /\ UNCHANGED <<if_list, routing_table, started, handed>>
    BY <1>9, ArrivesWhere DEF HandleBanner, Arrives, dataVars
  <2>2. QED BY <2>1, ReturnReady
<1>10. CASE sr_handle_auth_request
  <2>1. /\ Complete /\ (Return(TRUE) \/ Return(FALSE))
        /\ Command.type = "VNS_AUTH_REQUEST" /\ pc # "VNS_AUTH_STATUS"
        /\ UNCHANGED <<if_list, routing_table, started, handed>>
    BY <1>10, ArrivesWhere DEF sr_handle_auth_request, Arrives, dataVars
  <2>2. QED BY <2>1, ReturnReady
<1>11. CASE sr_handle_rtable
  <2>1. /\ Complete /\ (Return(TRUE) \/ Return(FALSE))
        /\ Command.type = "VNS_RTABLE" /\ pc # "VNS_AUTH_STATUS"
        /\ UNCHANGED <<if_list, routing_table, started, handed>>
    BY <1>11, ArrivesWhere DEF sr_handle_rtable, Arrives
  <2>2. QED BY <2>1, ReturnReady
<1>12. QED
  BY <1>1, <1>2, <1>3, <1>4, <1>5, <1>6, <1>7, <1>8, <1>9, <1>10, <1>11,
     AuthReady, HwinfoReady, PacketReady
  DEF Next, Client

LEMMA ReadyInit ==
  ASSUME Init
  PROVE  ReadyInv
<1>1. /\ pc = "load" /\ if_list = <<>> /\ handled = <<>> /\ ~ handed /\ Len(handled) = 0
      /\ Len(if_list) = 0
  BY DEF Init
<1>2. Addressed /\ Known(Len(handled), msgs, if_list) BY <1>1 DEF Addressed, Known
<1>3. pc \notin Opening BY <1>1 DEF Opening
<1>4. QED BY <1>1, <1>2, <1>3 DEF ReadyInv

LEMMA ReadyInvariant == Spec => []ReadyInv
<1>1. Init => ReadyInv BY ReadyInit
<1>2. FrameInv /\ (MsgsOK /\ DataOK) /\ ReadyInv /\ [Next]_vars => ReadyInv' BY ReadyNext
<1>3. QED BY <1>1, <1>2, FrameInvariant, TypesInvariant, PTL DEF Spec

\* The record that sr_get_interface finds is one of the list.
LEMMA GetsRecord ==
  ASSUME NEW list \in Seq(Record), NEW name \in Names(list)
  PROVE  \E k \in 1 .. Len(list) : sr_get_interface(list, name) = list[k]
<1>1. DOMAIN list = 1 .. Len(list) OBVIOUS
<1> DEFINE T == {k \in 1 .. Len(list) : list[k].name = name}
<1>2. T \in SUBSET Nat /\ T # {} BY <1>1 DEF Names
<1>3. PICK k \in T : \A j \in T : k <= j BY <1>2, SmallestExists
<1>4. \E i \in DOMAIN list : /\ list[i].name = name
                            /\ \A j \in DOMAIN list : list[j].name = name => i <= j
  BY <1>1, <1>3
<1>5. QED BY <1>1, <1>4 DEF sr_get_interface

\* Whatever the order in which the messages of the server come, and however
\* often it announces its interfaces, a frame reaches sr_handlepacket only in a
\* router that is authenticated, has run sr_init, and has a routing table all of
\* whose interfaces are in the list, with both their addresses set.
THEOREM SessionReady == Spec => []Ready
<1>1. DataOK /\ FrameInv /\ ReadyInv => Ready
  <2> SUFFICES ASSUME DataOK, FrameInv, ReadyInv, handed
               PROVE  /\ started
                      /\ \E m \in Range(handled) :
                           msgs[m].type = "VNS_AUTH_STATUS" /\ msgs[m].arg
                      /\ routing_table # <<>>
                      /\ \A k \in DOMAIN routing_table :
                           /\ routing_table[k].iface \in Names(if_list)
                           /\ LET i == sr_get_interface(if_list, routing_table[k].iface)
                              IN  i.ip # 0 /\ i.mac # NoMac
    BY DEF Ready
  <2>1. started /\ Authenticated /\ Verified BY DEF ReadyInv
  <2>2. PICK m \in 1 .. Len(handled) : msgs[m].type = "VNS_AUTH_STATUS" /\ msgs[m].arg
    BY <2>1 DEF Authenticated, SentStatus
  <2>3. m \in Range(handled)
    <3>1. handled \in Seq(Nat) /\ handled[m] = m BY DEF FrameInv, StreamOK, HandledOK
    <3>2. m \in DOMAIN handled BY <3>1
    <3>3. QED BY <3>1, <3>2 DEF Range
  <2>4. routing_table # <<>> BY <2>1 DEF Verified, sr_verify_routing_table
  <2>5. ASSUME NEW k \in DOMAIN routing_table
        PROVE  /\ routing_table[k].iface \in Names(if_list)
               /\ LET i == sr_get_interface(if_list, routing_table[k].iface)
                  IN  i.ip # 0 /\ i.mac # NoMac
    <3>1. routing_table[k].iface \in Names(if_list)
      BY <2>1 DEF Verified, sr_verify_routing_table
    <3>2. if_list \in Seq(Record) BY DEF DataOK
    <3>3. PICK j \in 1 .. Len(if_list) :
            sr_get_interface(if_list, routing_table[k].iface) = if_list[j]
      BY <3>1, <3>2, GetsRecord
    <3>4. if_list[j].ip # 0 /\ if_list[j].mac # NoMac BY DEF ReadyInv, Addressed
    <3>5. QED BY <3>1, <3>3, <3>4
  <2>6. QED BY <2>1, <2>2, <2>3, <2>4, <2>5
<1>2. QED BY <1>1, FrameInvariant, TypesInvariant, ReadyInvariant, PTL

\* The assertion of sr_arp_req_not_for_us holds in every session in which the
\* server announces an interface before it passes on a frame of it: the frame is
\* handled after the announcement, and the list never loses an interface.
THEOREM SessionNoAbort == Spec => []NoAbort
<1>1. ReadyInv => NoAbort BY DEF ReadyInv, NoAbort
<1>2. QED BY <1>1, ReadyInvariant, PTL

=============================================================================
