------------------------------ MODULE SrLemmas ------------------------------
(***************************************************************************)
(* Facts about sequences, numbers, the ARP table and routes that several   *)
(* of the proof modules cite.                                              *)
(***************************************************************************)
EXTENDS SrArpTable, SrRoutes, SequencesExt, SequenceTheorems, WellFoundedInduction,
        TLAPS

\* A non-empty set of natural numbers has a smallest element.
LEMMA MinExists ==
  ASSUME NEW T \in SUBSET Nat, T # {}
  PROVE  \E x \in T : \A y \in T : x <= y
<1>1. PICK x \in T : \A y \in T : ~ (<<y, x>> \in OpToRel(<, Nat))
  BY NatLessThanWellFounded, WFMin
<1>2. ASSUME NEW y \in T PROVE x <= y
  <2>1. CASE y < x
    <3>1. <<y, x>> \in Nat \X Nat /\ <<y, x>>[1] = y /\ <<y, x>>[2] = x OBVIOUS
    <3>2. <<y, x>> \in OpToRel(<, Nat) BY <2>1, <3>1, Zenon DEF OpToRel
    <3>3. QED BY <1>1, <3>2, Zenon
  <2>2. CASE ~ (y < x) BY <2>2
  <2>3. QED BY <2>1, <2>2
<1>3. QED BY <1>2

\* An element is pushed in front of a sequence that does not contain it.
LEMMA PushFront ==
  ASSUME NEW S, NEW q \in Seq(S), NEW a \in S
  PROVE  /\ <<a>> \o q \in Seq(S)
         /\ Len(<<a>> \o q) = Len(q) + 1
         /\ (<<a>> \o q)[1] = a
         /\ \A i \in 1 .. Len(q) : (<<a>> \o q)[i + 1] = q[i]
         /\ Range(<<a>> \o q) = Range(q) \cup {a}
         /\ IsInjective(q) /\ a \notin Range(q) => IsInjective(<<a>> \o q)
<1> DEFINE p == <<a>> \o q
<1>1. /\ p \in Seq(S) /\ Len(p) = Len(q) + 1 /\ p[1] = a
      /\ \A i \in 1 .. Len(q) : p[i + 1] = q[i]
  OBVIOUS
<1>2. /\ DOMAIN p = 1 .. Len(q) + 1 /\ DOMAIN q = 1 .. Len(q) /\ Len(q) \in Nat
      /\ \A i \in 2 .. Len(q) + 1 : i - 1 \in 1 .. Len(q) /\ p[i] = q[i - 1]
  BY <1>1
<1> HIDE DEF p
<1>3. Range(p) = Range(q) \cup {a}
  <2>1. ASSUME NEW i \in DOMAIN p PROVE p[i] \in Range(q) \cup {a}
    <3>1. CASE i = 1 BY <1>1, <3>1
    <3>2. CASE i # 1
      <4>1. i - 1 \in DOMAIN q /\ p[i] = q[i - 1] BY <1>2, <3>2
      <4>2. QED BY <4>1 DEF Range
    <3>3. QED BY <3>1, <3>2
  <2>2. \A x \in Range(q) \cup {a} : x \in Range(p)
    <3>1. a \in Range(p) BY <1>1, <1>2 DEF Range
    <3>2. ASSUME NEW i \in 1 .. Len(q) PROVE q[i] \in Range(p)
      <4>1. i + 1 \in DOMAIN p /\ p[i + 1] = q[i] BY <1>1, <1>2
      <4>2. QED BY <4>1 DEF Range
    <3>3. QED BY <1>2, <3>1, <3>2 DEF Range
  <2>3. \A x \in Range(p) : x \in Range(q) \cup {a} BY <2>1 DEF Range
  <2>4. QED BY <2>2, <2>3
<1>4. IsInjective(q) /\ a \notin Range(q) => IsInjective(p)
  <2> SUFFICES ASSUME IsInjective(q), a \notin Range(q),
                      NEW i \in DOMAIN p, NEW j \in DOMAIN p, p[i] = p[j]
               PROVE  i = j
    BY DEF IsInjective
  <2>0. ASSUME NEW n \in DOMAIN p, n # 1 PROVE p[n] \in Range(q)
    <3>1. n - 1 \in DOMAIN q /\ p[n] = q[n - 1] BY <1>2, <2>0
    <3>2. QED BY <3>1 DEF Range
  <2>1. CASE i = 1 \/ j = 1 BY <1>1, <2>0, <2>1
  <2>2. CASE i # 1 /\ j # 1
    <3>1. /\ i - 1 \in DOMAIN q /\ j - 1 \in DOMAIN q /\ q[i - 1] = q[j - 1]
          /\ i \in Int /\ j \in Int
      BY <1>2, <2>2
    <3>2. i - 1 = j - 1 BY <3>1 DEF IsInjective
    <3>3. QED BY <3>1, <3>2
  <2>3. QED BY <2>1, <2>2
<1>5. QED BY <1>1, <1>3, <1>4 DEF p

\* Arithmetic of the position after k in a sequence of length n.
LEMMA AfterIndex ==
  ASSUME NEW n \in Nat, NEW k \in 1 .. n
  PROVE  /\ k \in Nat /\ k + 1 \in Int /\ n \in Int
         /\ k = n \/ k + 1 <= n
         /\ k # n => k + 1 \in 1 .. n /\ k + 1 # k
         /\ n - (k + 1) + 1 = n - k
         /\ \A i \in 1 .. n - k : (k + 1) + i - 1 = k + i
         /\ \A i \in k + 1 .. n : i \in 1 .. n
OBVIOUS

\* One element is taken out of a sequence without duplicates.
LEMMA TakeOut ==
  ASSUME NEW S, NEW q \in Seq(S), NEW k \in 1 .. Len(q), IsInjective(q)
  PROVE  /\ RemoveAt(q, k) \in Seq(S)
         /\ Range(RemoveAt(q, k)) = Range(q) \ {q[k]}
         /\ IsInjective(RemoveAt(q, k))
<1> DEFINE p == RemoveAt(q, k)
           l == SubSeq(q, 1, k - 1)
           r == SubSeq(q, k + 1, Len(q))
<1>0. Len(q) \in Nat /\ DOMAIN q = 1 .. Len(q) OBVIOUS
<1>1. /\ l \in Seq(S) /\ Len(l) = k - 1
      /\ \A i \in 1 .. k - 1 : l[i] = q[i]
  BY <1>0
<1>2. /\ r \in Seq(S) /\ Len(r) = Len(q) - k
      /\ \A i \in 1 .. Len(q) - k : r[i] = q[k + i]
  <2>0. /\ k \in Nat /\ k + 1 \in Int /\ Len(q) \in Int
        /\ k = Len(q) \/ k + 1 <= Len(q)
        /\ Len(q) - (k + 1) + 1 = Len(q) - k
        /\ \A i \in 1 .. Len(q) - k : (k + 1) + i - 1 = k + i
        /\ \A i \in k + 1 .. Len(q) : i \in 1 .. Len(q)
    BY <1>0, AfterIndex
  <2>1. CASE k = Len(q)
    <3>1. r = <<>> BY <1>0, <2>1, SubSeqEmpty
    <3>2. QED BY <1>0, <2>1, <3>1
  <2>2. CASE k + 1 <= Len(q)
    <3>1. \A i \in k + 1 .. Len(q) : q[i] \in S
      <4>1. \A i \in 1 .. Len(q) : q[i] \in S BY ONLY q \in Seq(S)
      <4>2. QED BY <2>0, <4>1, Zenon
    <3>2. k + 1 \in Int /\ Len(q) \in Int BY <2>0
    <3>3. /\ r \in Seq(S)
          /\ Len(r) = IF k + 1 <= Len(q) THEN Len(q) - (k + 1) + 1 ELSE 0
          /\ \A i \in 1 .. Len(q) - (k + 1) + 1 : r[i] = q[(k + 1) + i - 1]
      BY ONLY <3>1, <3>2, SubSeqProperties
    <3> HIDE DEF p, l, r
    <3>4. Len(r) = Len(q) - k BY ONLY <2>0, <2>2, <3>3, Zenon
    <3>5. \A i \in 1 .. Len(q) - k : r[i] = q[k + i] BY ONLY <2>0, <3>3, Zenon
    <3>6. QED BY <3>3, <3>4, <3>5
  <2>3. QED BY <2>0, <2>1, <2>2, Zenon
<1>3. p = l \o r BY DEF RemoveAt
<1> HIDE DEF p, l, r
<1>4. p \in Seq(S) /\ Len(p) = Len(q) - 1 /\ DOMAIN p = 1 .. Len(q) - 1
  <2>1. p \in Seq(S) /\ Len(p) = Len(l) + Len(r)
    BY <1>1, <1>2, <1>3, ConcatProperties
  <2>2. Len(p) = Len(q) - 1 BY <1>0, <1>1, <1>2, <2>1
  <2>3. QED BY <2>1, <2>2
<1>5. \A i \in 1 .. k - 1 : p[i] = q[i]
  BY <1>0, <1>1, <1>2, <1>3
<1>6. \A i \in k .. Len(q) - 1 : p[i] = q[i + 1]
  <2> TAKE i \in k .. Len(q) - 1
  <2>1. i \in 1 .. Len(l) + Len(r) /\ ~ (i <= Len(l)) BY <1>0, <1>1, <1>2
  <2>2. p[i] = r[i - Len(l)] BY <1>1, <1>2, <1>3, <2>1
  <2>3. i - Len(l) \in 1 .. Len(q) - k /\ k + (i - Len(l)) = i + 1 BY <1>0, <1>1
  <2>4. QED BY <1>2, <2>2, <2>3
<1>7. Range(p) = Range(q) \ {q[k]}
  <2>1. \A x \in Range(p) : x \in Range(q) \ {q[k]}
    <3> SUFFICES ASSUME NEW i \in 1 .. Len(q) - 1 PROVE p[i] \in Range(q) \ {q[k]}
      BY <1>4 DEF Range
    <3>1. CASE i < k
      <4>1. i \in DOMAIN q /\ p[i] = q[i] /\ i # k BY <1>0, <1>5, <3>1
      <4>2. QED BY <1>0, <4>1 DEF Range, IsInjective
    <3>2. CASE ~ (i < k)
      <4>1. i + 1 \in DOMAIN q /\ p[i] = q[i + 1] /\ i + 1 # k
        BY <1>0, <1>6, <3>2
      <4>2. QED BY <1>0, <4>1 DEF Range, IsInjective
    <3>3. QED BY <3>1, <3>2
  <2>2. \A x \in Range(q) \ {q[k]} : x \in Range(p)
    <3> SUFFICES ASSUME NEW i \in 1 .. Len(q), i # k PROVE q[i] \in Range(p)
      BY <1>0 DEF Range
    <3>1. CASE i < k
      <4>1. i \in DOMAIN p /\ p[i] = q[i] BY <1>0, <1>4, <1>5, <3>1
      <4>2. QED BY <4>1 DEF Range
    <3>2. CASE ~ (i < k)
      <4>1. i - 1 \in k .. Len(q) - 1 /\ (i - 1) + 1 = i BY <1>0, <3>2
      <4>2. i - 1 \in DOMAIN p /\ p[i - 1] = q[i] BY <1>0, <1>4, <1>6, <4>1
      <4>3. QED BY <4>2 DEF Range
    <3>3. QED BY <3>1, <3>2
  <2>3. QED BY <2>1, <2>2
<1>8. IsInjective(p)
  <2> SUFFICES ASSUME NEW i \in 1 .. Len(q) - 1, NEW j \in 1 .. Len(q) - 1,
                      p[i] = p[j]
               PROVE  i = j
    BY <1>4 DEF IsInjective
  <2> DEFINE Old(n) == IF n < k THEN n ELSE n + 1
  <2>1. ASSUME NEW n \in 1 .. Len(q) - 1 PROVE Old(n) \in DOMAIN q /\ p[n] = q[Old(n)]
    BY <1>0, <1>5, <1>6
  <2>2. Old(i) \in DOMAIN q /\ Old(j) \in DOMAIN q /\ q[Old(i)] = q[Old(j)]
    BY <2>1
  <2>3. Old(i) = Old(j) BY <2>2 DEF IsInjective
  <2>4. QED BY <1>0, <2>3
<1>9. QED BY <1>4, <1>7, <1>8 DEF p

-----------------------------------------------------------------------------
(* The ARP table.                                                          *)

\* The scan of sr_arpcache_insert for the first slot of a kind ends at a slot
\* of that kind.
LEMMA FirstSlot ==
  ASSUME NEW T \in SUBSET Slots, T # {}
  PROVE  Min(T) \in T
<1>1. T \in SUBSET Nat BY SzAssumption DEF Slots
<1>2. \E x \in T : \A y \in T : x <= y BY <1>1, MinExists
<1>3. QED BY <1>2 DEF Min

\* Where sr_arpcache_insert writes: over the mapping of the same address, or in
\* a free slot when there is no such mapping, or nowhere when the table is full.
LEMMA SlotPicked ==
  ASSUME NEW e \in [Slots -> ArpEntry], NEW ip
  PROVE  \/ /\ InsertSlot(e, ip) \in Slots
            /\ e[InsertSlot(e, ip)].valid /\ e[InsertSlot(e, ip)].ip = ip
         \/ /\ InsertSlot(e, ip) \in Slots
            /\ ~ e[InsertSlot(e, ip)].valid
            /\ \A i \in Slots : e[i].valid => e[i].ip # ip
         \/ /\ InsertSlot(e, ip) = 0
            /\ \A i \in Slots : e[i].valid /\ e[i].ip # ip
<1> DEFINE free == {i \in Slots : ~ e[i].valid}
<1>1. CASE Cached(e, ip)
  <2>1. InsertSlot(e, ip) = Min(Hits(e, ip)) BY <1>1 DEF InsertSlot
  <2>2. Min(Hits(e, ip)) \in Hits(e, ip) BY <1>1, FirstSlot DEF Cached, Hits
  <2>3. QED BY <2>1, <2>2 DEF Hits
<1>2. CASE ~ Cached(e, ip) /\ free # {}
  <2>1. InsertSlot(e, ip) = Min(free) BY <1>2 DEF InsertSlot
  <2>2. Min(free) \in free BY <1>2, FirstSlot
  <2>3. QED BY <1>2, <2>1, <2>2 DEF Cached, Hits
<1>3. CASE ~ Cached(e, ip) /\ free = {}
  BY <1>3 DEF InsertSlot, Cached, Hits
<1>4. QED BY <1>1, <1>2, <1>3

\* sr_arpcache_insert keeps the type of the table.
LEMMA InsertType ==
  ASSUME NEW e \in [Slots -> ArpEntry], NEW mac \in Mac, NEW ip \in Ip
  PROVE  TableInsert(e, mac, ip) \in [Slots -> ArpEntry]
<1> DEFINE new == [valid |-> TRUE, ip |-> ip, mac |-> mac, age |-> 0]
<1>1. new \in ArpEntry BY TtlAssumption DEF ArpEntry
<1>2. CASE InsertSlot(e, ip) = 0 BY <1>2 DEF TableInsert
<1>3. CASE InsertSlot(e, ip) # 0
  <2>1. TableInsert(e, mac, ip) = [e EXCEPT ![InsertSlot(e, ip)] = new]
    BY <1>3 DEF TableInsert
  <2> HIDE DEF new
  <2>2. QED BY <1>1, <2>1
<1>4. QED BY <1>2, <1>3

\* The sweep of the table keeps its type.
LEMMA TimeoutType ==
  ASSUME NEW e \in [Slots -> ArpEntry]
  PROVE  /\ TableTimeout(e) \in [Slots -> ArpEntry]
         /\ TableTick(e) \in [Slots -> ArpEntry]
<1>1. TableTimeout(e) \in [Slots -> ArpEntry]
  BY TtlAssumption DEF TableTimeout, ArpEntry
<1>2. TableTick(e) \in [Slots -> ArpEntry]
  BY TtlAssumption DEF TableTick, ArpEntry
<1>3. QED BY <1>1, <1>2

\* Only sr_arpcache_insert makes an address known, and only the one it is
\* called with.
LEMMA TableKnows ==
  ASSUME NEW e \in [Slots -> ArpEntry], NEW x
  PROVE  /\ \A mac, ip : Cached(TableInsert(e, mac, ip), x) => x = ip \/ Cached(e, x)
         /\ Cached(TableTimeout(e), x) => Cached(e, x)
         /\ Cached(TableTick(e), x) => Cached(e, x)
<1>1. ASSUME NEW mac, NEW ip, Cached(TableInsert(e, mac, ip), x), x # ip
      PROVE  Cached(e, x)
  BY <1>1 DEF Cached, Hits, TableInsert
<1>2. Cached(TableTimeout(e), x) => Cached(e, x)
  BY DEF Cached, Hits, TableTimeout, ArpEntry
<1>3. Cached(TableTick(e), x) => Cached(e, x)
  BY DEF Cached, Hits, TableTick, ArpEntry
<1>4. QED BY <1>1, <1>2, <1>3

\* sr_arpcache_insert overwrites no mapping of another address, and a second
\* that passes forgets none.
LEMMA TableKeeps ==
  ASSUME NEW e \in [Slots -> ArpEntry], NEW x, Cached(e, x)
  PROVE  /\ \A mac, ip : x # ip => Cached(TableInsert(e, mac, ip), x)
         /\ Cached(TableTick(e), x)
<1>0. PICK i \in Slots : e[i].valid /\ e[i].ip = x BY DEF Cached, Hits
<1>1. ASSUME NEW mac, NEW ip, x # ip PROVE Cached(TableInsert(e, mac, ip), x)
  <2>0. i # 0 BY SzAssumption DEF Slots
  <2>1. i # InsertSlot(e, ip) BY <1>0, <1>1, <2>0, SlotPicked, Zenon
  <2>2. TableInsert(e, mac, ip)[i] = e[i] BY <2>1 DEF TableInsert
  <2>3. QED BY <1>0, <2>2 DEF Cached, Hits
<1>2. TableTick(e)[i].valid /\ TableTick(e)[i].ip = x
  BY <1>0 DEF TableTick, ArpEntry
<1>3. Cached(TableTick(e), x) BY <1>2 DEF Cached, Hits
<1>4. QED BY <1>1, <1>3

\* sr_arpcache_insert keeps an address known that was known before.
LEMMA InsertKnown ==
  ASSUME NEW e \in [Slots -> ArpEntry], NEW mac, NEW ip, Cached(e, ip)
  PROVE  Cached(TableInsert(e, mac, ip), ip)
<1> DEFINE s == InsertSlot(e, ip)
<1>0. PICK i \in Slots : e[i].valid /\ e[i].ip = ip BY DEF Cached, Hits
<1>1. s \in Slots /\ e[s].valid /\ e[s].ip = ip BY <1>0, SlotPicked, Zenon
<1>2. s # 0 BY <1>1, SzAssumption DEF Slots
<1>3. TableInsert(e, mac, ip)[s].valid /\ TableInsert(e, mac, ip)[s].ip = ip
  <2> HIDE DEF s
  <2>1. QED BY <1>1, <1>2 DEF TableInsert, s
<1>4. QED BY <1>1, <1>3 DEF Cached, Hits

-----------------------------------------------------------------------------
(* Routes and ICMP errors.                                                 *)

\* A lookup that finds a route finds an entry of the routing table.
LEMMA RouteInTable ==
  ASSUME NEW table \in Seq(Route), NEW ip, HasRouteIn(table, ip)
  PROVE  /\ BestRoute(table, ip) \in DOMAIN table
         /\ table[BestRoute(table, ip)] \in Route
<1> DEFINE fits == {k \in DOMAIN table : Matches(table[k], ip)}
           Gap(k) == IpMax - table[k].mask
           gaps == {Gap(k) : k \in fits}
<1>1. fits # {} BY DEF HasRouteIn, BestRoute
<1>2. \A k \in DOMAIN table : table[k] \in Route /\ k \in Nat
  OBVIOUS
<1>3. \A k \in fits : table[k].mask \in 0 .. IpMax /\ Gap(k) \in Nat
  BY <1>2, IpAssumption DEF Route
<1>4. gaps \in SUBSET Nat /\ gaps # {} BY <1>1, <1>3
<1>5. PICK g \in gaps : \A y \in gaps : g <= y BY <1>4, MinExists
<1> DEFINE tops == {k \in fits : Gap(k) = g}
<1>6. tops \in SUBSET Nat /\ tops # {} BY <1>2, <1>5
<1>7. PICK k \in tops : \A y \in tops : k <= y BY <1>6, MinExists
<1>8. \A j \in fits : Prefers(table, k, j)
  <2> SUFFICES ASSUME NEW j \in fits PROVE Prefers(table, k, j) OBVIOUS
  <2>1. Gap(k) <= Gap(j) /\ k \in fits BY <1>5, <1>7
  <2>2. table[j].mask <= table[k].mask BY <1>3, <2>1, IpAssumption
  <2>3. CASE table[j].mask = table[k].mask
    BY <1>7, <2>3 DEF Prefers
  <2>4. CASE table[j].mask # table[k].mask
    BY <1>3, <2>1, <2>2, <2>4 DEF Prefers
  <2>5. QED BY <2>3, <2>4
<1>9. BestRoute(table, ip) \in fits
  BY <1>1, <1>7, <1>8 DEF BestRoute
<1>10. QED BY <1>2, <1>9

\* A destination with a route has a next hop and an outgoing interface.
LEMMA RouteInTypes ==
  ASSUME NEW table \in Seq(Route), NEW ip \in Ip, HasRouteIn(table, ip)
  PROVE  OutIn(table, ip) \in Iface /\ HopIn(table, ip) \in Ip
<1>1. table[BestRoute(table, ip)] \in Route BY RouteInTable
<1>2. QED BY <1>1 DEF OutIn, HopIn, Route

\* An ICMP error leaves with the address of an interface.
LEMMA SourceInIface ==
  ASSUME NEW macs, NEW table \in Seq(Route), NEW shost, NEW dhost, NEW src \in Ip
  PROVE  IcmpSourceIn(macs, table, shost, dhost, src) \subseteq Iface
<1> DEFINE S == HavingMac(macs, shost)
           D == HavingMac(macs, dhost)
<1>1. S \subseteq Iface /\ D \subseteq Iface BY DEF HavingMac
<1>2. HasRouteIn(table, src) => OutIn(table, src) \in Iface BY RouteInTypes
<1> HIDE DEF S, D
<1>3. CASE S # {} BY <1>1, <1>3 DEF IcmpSourceIn, S
<1>4. CASE S = {} /\ D # {} BY <1>1, <1>4 DEF IcmpSourceIn, S, D
<1>5. CASE S = {} /\ D = {} BY <1>2, <1>5 DEF IcmpSourceIn, S, D
<1>6. QED BY <1>3, <1>4, <1>5

=============================================================================
