-------------------------- MODULE SrArpCacheProofs --------------------------
(***************************************************************************)
(* Proofs about the ARP table of SrArpCache, for every number of slots,    *)
(* every lifetime and every set of addresses: an address never gets a      *)
(* second slot, and the array with its three different scans is a map.     *)
(***************************************************************************)
EXTENDS SrArpCache, SrLemmas, FiniteSetTheorems

Table == [Slots -> ArpEntry]

\* UniqueMapping of any table.
Unique(e) ==
  \A i, j \in Slots : e[i].valid /\ e[j].valid /\ e[i].ip = e[j].ip => i = j

ValidSlots(e) == {i \in Slots : e[i].valid}

\* A slot that is the only one of its address is the last one, the one
\* sr_arpcache_lookup answers from.
LEMMA OnlyHit ==
  ASSUME NEW e \in Table, Unique(e), NEW i \in Slots, e[i].valid
  PROVE  /\ Hits(e, e[i].ip) = {i}
         /\ (CHOOSE j \in Slots : e[j].valid /\ e[j].ip = e[i].ip) = i
         /\ sr_arpcache_lookup(e, e[i].ip) = e[i].mac
<1>1. Hits(e, e[i].ip) = {i} BY DEF Hits, Unique
<1>2. (CHOOSE j \in Slots : e[j].valid /\ e[j].ip = e[i].ip) = i BY DEF Unique
<1>3. Max({i}) = i
  <2>1. i >= i BY SzAssumption DEF Slots
  <2>2. \A x : x \in {i} /\ (\A y \in {i} : x >= y) <=> x = i BY <2>1
  <2>3. QED BY <2>2 DEF Max
<1>4. QED BY <1>1, <1>2, <1>3 DEF sr_arpcache_lookup, Cached

\* The table after an insertion that finds a slot.
LEMMA Inserted ==
  ASSUME NEW e \in Table, NEW ip \in Ip, NEW mac \in Mac,
         InsertSlot(e, ip) \in Slots
  PROVE  LET s == InsertSlot(e, ip)
             f == TableInsert(e, mac, ip)
         IN  /\ f \in Table
             /\ f[s] = [valid |-> TRUE, ip |-> ip, mac |-> mac, age |-> 0]
             /\ \A i \in Slots \ {s} : f[i] = e[i]
<1> DEFINE s == InsertSlot(e, ip)
           new == [valid |-> TRUE, ip |-> ip, mac |-> mac, age |-> 0]
<1>1. new \in ArpEntry BY TtlAssumption DEF ArpEntry
<1>2. s # 0 BY SzAssumption DEF Slots
<1>3. TableInsert(e, mac, ip) = [e EXCEPT ![s] = new] BY <1>2 DEF TableInsert
<1> HIDE DEF new, s
<1>4. QED BY <1>1, <1>3 DEF Table, s, new

\* sr_arpcache_insert keeps the type of the table and gives no address a
\* second slot.
LEMMA InsertKeeps ==
  ASSUME NEW e \in Table, Unique(e), NEW ip \in Ip, NEW mac \in Mac
  PROVE  TableInsert(e, mac, ip) \in Table /\ Unique(TableInsert(e, mac, ip))
<1> DEFINE s == InsertSlot(e, ip)
           f == TableInsert(e, mac, ip)
<1>1. CASE s = 0 BY <1>1 DEF TableInsert
<1>2. CASE s \in Slots
  <2>0. /\ f \in Table
        /\ f[s] = [valid |-> TRUE, ip |-> ip, mac |-> mac, age |-> 0]
        /\ \A i \in Slots \ {s} : f[i] = e[i]
    BY <1>2, Inserted, Zenon
  <2>2. \A i \in Slots \ {s} : e[i].valid => e[i].ip # ip
    BY <1>2, SlotPicked DEF Unique, Table
  <2> HIDE DEF s, f
  <2>1. f[s].valid /\ f[s].ip = ip BY <2>0
  <2>3. Unique(f) BY <2>0, <2>1, <2>2 DEF Unique
  <2>4. QED BY <2>0, <2>3 DEF f
<1>3. QED BY <1>1, <1>2, SlotPicked DEF Table

\* The expiry loop clears slots and changes nothing else of them; a second that
\* passes changes only ages.
LEMMA AgeingKeeps ==
  ASSUME NEW e \in Table
  PROVE  /\ TableTimeout(e) \in Table /\ TableTick(e) \in Table
         /\ \A i \in Slots :
              /\ TableTimeout(e)[i].valid
                   <=> e[i].valid /\ e[i].age <= SR_ARPCACHE_TO
              /\ TableTimeout(e)[i].ip = e[i].ip
              /\ TableTimeout(e)[i].mac = e[i].mac
              /\ TableTimeout(e)[i].age = e[i].age
              /\ TableTick(e)[i].valid = e[i].valid
              /\ TableTick(e)[i].ip = e[i].ip
              /\ TableTick(e)[i].mac = e[i].mac
              /\ TableTick(e)[i].age =
                   IF e[i].age > SR_ARPCACHE_TO THEN e[i].age ELSE e[i].age + 1
<1>1. TableTimeout(e) \in Table BY TimeoutType DEF Table
<1>2. TableTick(e) \in Table BY TimeoutType DEF Table
<1> SUFFICES ASSUME NEW i \in Slots
             PROVE  /\ TableTimeout(e)[i].valid
                         <=> e[i].valid /\ e[i].age <= SR_ARPCACHE_TO
                    /\ TableTimeout(e)[i].ip = e[i].ip
                    /\ TableTimeout(e)[i].mac = e[i].mac
                    /\ TableTimeout(e)[i].age = e[i].age
                    /\ TableTick(e)[i].valid = e[i].valid
                    /\ TableTick(e)[i].ip = e[i].ip
                    /\ TableTick(e)[i].mac = e[i].mac
                    /\ TableTick(e)[i].age =
                         IF e[i].age > SR_ARPCACHE_TO THEN e[i].age ELSE e[i].age + 1
  BY <1>1, <1>2
<1>3. e[i] \in ArpEntry BY DEF Table
<1>4. QED BY <1>3, TtlAssumption DEF TableTimeout, TableTick, ArpEntry

-----------------------------------------------------------------------------
(* The two invariants are inductive together.                              *)

Inv == TypeOK /\ UniqueMapping

LEMMA StepInv ==
  ASSUME Inv, [Next]_vars
  PROVE  Inv'
<1>0. entries \in Table /\ Unique(entries) BY DEF Inv, TypeOK, UniqueMapping, Table, Unique
<1> SUFFICES entries' \in Table /\ Unique(entries')
             /\ op' \in [name : {"none", "insert", "lookup"}, ip : Ip \cup {0},
                         mac : Mac \cup {NoMac}]
  BY DEF Inv, TypeOK, UniqueMapping, Table, Unique
<1>1. ASSUME NEW ip \in Ip, NEW mac \in Mac, Insert(ip, mac)
      PROVE  entries' \in Table /\ Unique(entries')
             /\ op' \in [name : {"none", "insert", "lookup"}, ip : Ip \cup {0},
                         mac : Mac \cup {NoMac}]
  BY <1>0, <1>1, InsertKeeps DEF Insert
<1>2. ASSUME NEW ip \in Ip, Lookup(ip)
      PROVE  entries' \in Table /\ Unique(entries')
             /\ op' \in [name : {"none", "insert", "lookup"}, ip : Ip \cup {0},
                         mac : Mac \cup {NoMac}]
  <2>1. sr_arpcache_lookup(entries, ip) \in Mac \cup {NoMac}
    <3>1. CASE Cached(entries, ip)
      <4>1. PICK i \in Slots : entries[i].valid /\ entries[i].ip = ip
        BY <3>1 DEF Cached, Hits
      <4>2. sr_arpcache_lookup(entries, ip) = entries[i].mac BY <1>0, <4>1, OnlyHit
      <4>3. QED BY <1>0, <4>2 DEF Table, ArpEntry
    <3>2. CASE ~ Cached(entries, ip) BY <3>2 DEF sr_arpcache_lookup
    <3>3. QED BY <3>1, <3>2
  <2>2. QED BY <1>0, <1>2, <2>1 DEF Lookup
<1>3. ASSUME Timeout \/ Tick
      PROVE  entries' \in Table /\ Unique(entries')
             /\ op' \in [name : {"none", "insert", "lookup"}, ip : Ip \cup {0},
                         mac : Mac \cup {NoMac}]
  <2>1. entries' \in Table BY <1>0, <1>3, AgeingKeeps DEF Timeout, Tick
  <2>2. \A i \in Slots : /\ entries'[i].valid => entries[i].valid
                         /\ entries'[i].ip = entries[i].ip
    BY <1>0, <1>3, AgeingKeeps DEF Timeout, Tick
  <2>3. Unique(entries') BY <1>0, <2>2 DEF Unique
  <2>4. QED BY <1>3, <2>1, <2>3 DEF Timeout, Tick, Idle
<1>4. CASE UNCHANGED vars BY <1>0, <1>4 DEF vars, Inv, TypeOK
<1>5. QED BY <1>1, <1>2, <1>3, <1>4 DEF Next

LEMMA InitInv == Init => Inv
<1> SUFFICES ASSUME Init PROVE Inv OBVIOUS
<1>1. TypeOK BY TtlAssumption DEF Init, EmptyTable, Idle, TypeOK, ArpEntry
<1>2. UniqueMapping BY DEF Init, EmptyTable, UniqueMapping
<1>3. QED BY <1>1, <1>2 DEF Inv

LEMMA Invariance == Spec => []Inv
BY InitInv, StepInv, PTL DEF Spec

\* The slots keep their type and sr_arpcache_lookup returns an address by
\* value, whatever the number of slots and in whatever order the threads take
\* the lock.
THEOREM ArpTableType == Spec => []TypeOK
<1>1. Inv => TypeOK BY DEF Inv
<1>2. QED BY <1>1, Invariance, PTL

\* No sequence of insertions, expiries and seconds gives an address a second
\* valid slot: the first slot that sr_arpcache_insert refreshes is the last
\* one, which sr_arpcache_lookup answers from.
THEOREM ArpTableUnique == Spec => []UniqueMapping
<1>1. Inv => UniqueMapping BY DEF Inv
<1>2. QED BY <1>1, Invariance, PTL

-----------------------------------------------------------------------------
(* The table implements the map.  The steps are compared at one address at  *)
(* a time, through the only slot that holds it.                             *)

\* What the map says of the address of a valid slot.
LEMMA MapAt ==
  ASSUME Inv, NEW i \in Slots, entries[i].valid
  PROVE  /\ entries[i].ip \in DOMAIN AsMap
         /\ SlotOf(entries[i].ip) = i
         /\ AsMap[entries[i].ip] = [mac |-> entries[i].mac, age |-> entries[i].age]
<1>0. entries \in Table /\ Unique(entries)
  BY DEF Inv, TypeOK, UniqueMapping, Table, Unique
<1>1. SlotOf(entries[i].ip) = i BY <1>0, OnlyHit DEF SlotOf
<1>2. entries[i].ip \in CachedIps BY DEF CachedIps
<1>3. QED BY <1>1, <1>2 DEF AsMap

\* The map has room exactly when the array has a free slot.
LEMMA RoomIsFreeSlot ==
  ASSUME Inv
  PROVE  Map!HasRoom <=> \E i \in Slots : ~ entries[i].valid
<1> DEFINE V == ValidSlots(entries)
           f == [i \in V |-> entries[i].ip]
<1>1. /\ IsFiniteSet(Slots) /\ Cardinality(Slots) = SR_ARPCACHE_SZ
  BY SzAssumption, FS_Interval DEF Slots
<1>2. V \in SUBSET Slots BY DEF ValidSlots
<1>3. /\ IsFiniteSet(V) /\ Cardinality(V) <= SR_ARPCACHE_SZ
      /\ Cardinality(V) = SR_ARPCACHE_SZ <=> V = Slots
  BY <1>1, <1>2, FS_Subset, Zenon
<1>4. f \in Bijection(V, CachedIps)
  <2>1. \A i \in V : f[i] \in CachedIps BY DEF ValidSlots, CachedIps
  <2>2. \A i, j \in V : f[i] = f[j] => i = j
    BY DEF ValidSlots, Inv, UniqueMapping
  <2>3. \A x \in CachedIps : \E i \in V : f[i] = x BY DEF ValidSlots, CachedIps
  <2>4. QED BY <2>1, <2>2, <2>3 DEF Bijection, Injection, Surjection, IsInjective
<1>5. Cardinality(CachedIps) = Cardinality(V)
  BY <1>3, <1>4, FS_Bijection DEF ExistsBijection
<1>6. DOMAIN AsMap = CachedIps BY DEF AsMap
<1>7. Cardinality(V) \in Nat BY <1>3, FS_CardinalityType
<1>8. Map!HasRoom <=> V # Slots
  <2>1. Map!Cardinality(CachedIps) = Cardinality(CachedIps)
    BY DEF Map!Cardinality, Cardinality
  <2>2. QED BY <1>3, <1>5, <1>6, <1>7, <2>1, SzAssumption DEF Map!HasRoom
<1>9. QED BY <1>8 DEF ValidSlots

LEMMA InsertRefines ==
  ASSUME Inv, Inv', NEW ip \in Ip, NEW mac \in Mac, Insert(ip, mac)
  PROVE  Map!Learn(ip, mac)
<1> DEFINE s == InsertSlot(entries, ip)
<1>0. entries \in Table /\ Unique(entries)
  BY DEF Inv, TypeOK, UniqueMapping, Table, Unique
<1>1. CASE s = 0
  <2>1. \A i \in Slots : entries[i].valid /\ entries[i].ip # ip
    BY <1>0, <1>1, SlotPicked, SzAssumption DEF Slots, Table
  <2>2. entries' = entries BY <1>1 DEF Insert, TableInsert
  <2>3. AsMap' = AsMap BY <2>2 DEF AsMap, CachedIps, SlotOf
  <2>4. ~ Map!HasRoom BY <2>1, RoomIsFreeSlot
  <2>5. ip \notin DOMAIN AsMap BY <2>1 DEF AsMap, CachedIps
  <2>6. QED BY <2>3, <2>4, <2>5 DEF Insert, Map!Learn
<1>2. CASE s \in Slots
  <2>1. /\ entries'[s] = [valid |-> TRUE, ip |-> ip, mac |-> mac, age |-> 0]
        /\ \A i \in Slots \ {s} : entries'[i] = entries[i]
    BY <1>0, <1>2, Inserted DEF Insert
  <2>2. \A i \in Slots \ {s} : entries[i].valid => entries[i].ip # ip
    BY <1>0, <1>2, SlotPicked DEF Unique, Table
  <2>3. entries[s].valid => entries[s].ip = ip
    <3>1. s # 0 BY <1>2, SzAssumption DEF Slots
    <3>2. QED BY <1>0, <1>2, <3>1, SlotPicked, Zenon DEF Table
  <2> HIDE DEF s
  <2>4. entries'[s].valid /\ entries'[s].ip = ip
        /\ entries'[s].mac = mac /\ entries'[s].age = 0
    BY <2>1
  <2>5. CachedIps' = CachedIps \cup {ip}
    BY <1>2, <2>1, <2>2, <2>3, <2>4 DEF CachedIps
  <2>6. ASSUME NEW x \in CachedIps'
        PROVE  AsMap'[x] = Map!With(ip, mac)[x]
    <3>1. DOMAIN AsMap = CachedIps BY DEF AsMap
    <3>2. CASE x = ip
      <4>1. AsMap'[x] = [mac |-> mac, age |-> 0]
        <5>1. SlotOf(ip)' = s
          BY <1>2, <2>4, OnlyHit DEF Inv, TypeOK, UniqueMapping, Table, Unique, SlotOf
        <5>2. QED BY <2>4, <2>5, <3>2, <5>1 DEF AsMap
      <4>2. QED BY <2>5, <3>1, <3>2, <4>1 DEF Map!With
    <3>3. CASE x # ip
      <4>1. PICK i \in Slots : entries[i].valid /\ entries[i].ip = x
        BY <2>5, <3>3 DEF CachedIps
      <4>2. i # s /\ entries'[i] = entries[i] BY <2>1, <2>3, <3>3, <4>1
      <4>3. SlotOf(x) = i /\ SlotOf(x)' = i
        BY <4>1, <4>2, OnlyHit DEF Inv, TypeOK, UniqueMapping, Table, Unique, SlotOf
      <4>4. AsMap'[x] = AsMap[x] BY <2>5, <3>3, <4>2, <4>3 DEF AsMap
      <4>5. QED BY <2>5, <3>1, <3>3, <4>4 DEF Map!With
    <3>4. QED BY <3>2, <3>3
  <2>7. AsMap' = Map!With(ip, mac)
    <3>1. DOMAIN AsMap' = CachedIps' /\ DOMAIN Map!With(ip, mac) = CachedIps'
      BY <2>5 DEF AsMap, Map!With
    <3>2. AsMap' = [x \in CachedIps' |-> AsMap'[x]] BY DEF AsMap
    <3>3. Map!With(ip, mac) = [x \in CachedIps' |-> Map!With(ip, mac)[x]]
      BY <3>1 DEF Map!With
    <3>4. QED BY <2>6, <3>2, <3>3
  <2>8. ip \in DOMAIN AsMap \/ Map!HasRoom
    <3>1. CASE entries[s].valid BY <1>2, <2>3, <3>1 DEF AsMap, CachedIps
    <3>2. CASE ~ entries[s].valid BY <1>2, <3>2, RoomIsFreeSlot
    <3>3. QED BY <3>1, <3>2
  <2>9. QED BY <2>7, <2>8 DEF Insert, Map!Learn
<1>3. QED BY <1>0, <1>1, <1>2, SlotPicked DEF Table

LEMMA LookupRefines ==
  ASSUME Inv, NEW ip \in Ip, Lookup(ip)
  PROVE  Map!Lookup(ip)
<1>0. entries \in Table /\ Unique(entries)
  BY DEF Inv, TypeOK, UniqueMapping, Table, Unique
<1>1. AsMap' = AsMap BY DEF Lookup, AsMap, CachedIps, SlotOf
<1>2. sr_arpcache_lookup(entries, ip) =
        IF ip \in DOMAIN AsMap THEN AsMap[ip].mac ELSE NoMac
  <2>1. CASE Cached(entries, ip)
    <3>1. PICK i \in Slots : entries[i].valid /\ entries[i].ip = ip
      BY <2>1 DEF Cached, Hits
    <3>2. sr_arpcache_lookup(entries, ip) = entries[i].mac BY <1>0, <3>1, OnlyHit
    <3>3. ip \in DOMAIN AsMap
          /\ AsMap[ip] = [mac |-> entries[i].mac, age |-> entries[i].age]
      BY <3>1, MapAt
    <3>4. QED BY <3>2, <3>3
  <2>2. CASE ~ Cached(entries, ip)
    BY <2>2 DEF Cached, Hits, AsMap, CachedIps, sr_arpcache_lookup
  <2>3. QED BY <2>1, <2>2
<1>3. QED BY <1>1, <1>2 DEF Lookup, Map!Lookup

\* The expiry loop forgets the mappings of the map that are too old.
LEMMA TimeoutRefines ==
  ASSUME Inv, Inv', Timeout
  PROVE  Map!Sweep
<1> DEFINE Young == {y \in DOMAIN AsMap : AsMap[y].age <= SR_ARPCACHE_TO}
<1>0. entries \in Table BY DEF Inv, TypeOK, Table
<1>1. \A i \in Slots : /\ entries'[i].valid
                            <=> entries[i].valid /\ entries[i].age <= SR_ARPCACHE_TO
                       /\ entries'[i].ip = entries[i].ip
                       /\ entries'[i].mac = entries[i].mac
                       /\ entries'[i].age = entries[i].age
  BY <1>0, AgeingKeeps DEF Timeout
<1>2. ASSUME NEW i \in Slots, entries'[i].valid
      PROVE  /\ entries[i].ip \in CachedIps' /\ entries[i].ip \in Young
             /\ AsMap'[entries[i].ip] = AsMap[entries[i].ip]
  <2>1. /\ entries[i].ip \in DOMAIN AsMap
        /\ AsMap[entries[i].ip] = [mac |-> entries[i].mac, age |-> entries[i].age]
    BY <1>1, <1>2, MapAt
  <2>2. SlotOf(entries[i].ip)' = i
    BY <1>2, OnlyHit DEF Inv, TypeOK, UniqueMapping, Table, Unique, SlotOf
  <2>3. entries[i].ip \in CachedIps' BY <1>1, <1>2 DEF CachedIps
  <2>4. AsMap'[entries[i].ip] = [mac |-> entries[i].mac, age |-> entries[i].age]
    BY <1>1, <2>2, <2>3 DEF AsMap
  <2>5. QED BY <1>1, <1>2, <2>1, <2>3, <2>4
<1>3. CachedIps' = Young
  <2>1. \A x \in CachedIps' : x \in Young BY <1>1, <1>2 DEF CachedIps
  <2>2. ASSUME NEW x \in Young PROVE x \in CachedIps'
    <3>1. PICK i \in Slots : entries[i].valid /\ entries[i].ip = x
      BY DEF AsMap, CachedIps
    <3>2. AsMap[x] = [mac |-> entries[i].mac, age |-> entries[i].age]
      BY <3>1, MapAt
    <3>3. entries[i].age <= SR_ARPCACHE_TO BY <3>2
    <3>4. QED BY <1>1, <1>2, <3>1, <3>3
  <2>3. QED BY <2>1, <2>2
<1>4. \A x \in CachedIps' : AsMap'[x] = AsMap[x]
  BY <1>1, <1>2 DEF CachedIps
<1>5. AsMap' = [x \in CachedIps' |-> AsMap'[x]] BY DEF AsMap
<1>6. AsMap' = [x \in Young |-> AsMap[x]] BY <1>3, <1>4, <1>5
<1>7. QED BY <1>6 DEF Timeout, Map!Sweep, Idle, Map!Idle

\* A second that passes ages every mapping of the map.
LEMMA TickRefines ==
  ASSUME Inv, Inv', Tick
  PROVE  Map!Tick
<1> DEFINE Aged(x) == [AsMap[x] EXCEPT !.age =
                         IF @ > SR_ARPCACHE_TO THEN @ ELSE @ + 1]
<1>0. entries \in Table BY DEF Inv, TypeOK, Table
<1>1. \A i \in Slots : /\ entries'[i].valid = entries[i].valid
                       /\ entries'[i].ip = entries[i].ip
                       /\ entries'[i].mac = entries[i].mac
                       /\ entries'[i].age =
                            IF entries[i].age > SR_ARPCACHE_TO
                            THEN entries[i].age ELSE entries[i].age + 1
  BY <1>0, AgeingKeeps DEF Tick
<1>2. CachedIps' = CachedIps BY <1>1 DEF CachedIps
<1>3. ASSUME NEW x \in CachedIps PROVE AsMap'[x] = Aged(x)
  <2>1. PICK i \in Slots : entries[i].valid /\ entries[i].ip = x BY DEF CachedIps
  <2>2. AsMap[x] = [mac |-> entries[i].mac, age |-> entries[i].age]
    BY <2>1, MapAt
  <2>3. SlotOf(x)' = i
    BY <1>1, <2>1, OnlyHit DEF Inv, TypeOK, UniqueMapping, Table, Unique, SlotOf
  <2>4. AsMap'[x] = [mac |-> entries[i].mac, age |-> entries'[i].age]
    BY <1>1, <1>2, <2>3 DEF AsMap
  <2>5. QED BY <1>1, <2>2, <2>4
<1>4. DOMAIN AsMap = CachedIps BY DEF AsMap
<1>5. AsMap' = [x \in CachedIps |-> AsMap'[x]] BY <1>2 DEF AsMap
<1>6. AsMap' = [x \in DOMAIN AsMap |-> Aged(x)] BY <1>3, <1>4, <1>5
<1>7. QED BY <1>6 DEF Tick, Map!Tick, Idle, Map!Idle

\* The array of slots, with an insertion that scans for the first slot, a
\* lookup that keeps the last one and an expiry loop that clears them in place,
\* is the map of ArpMap: every locked section of sr_arpcache.c is one step of
\* the map, and the table refuses a new address exactly when the map has
\* SR_ARPCACHE_SZ of them.
THEOREM ArpTableIsMap == Spec => ImplementsMap
<1>1. Init => Map!Init
  <2> SUFFICES ASSUME Init PROVE Map!Init OBVIOUS
  <2>1. CachedIps = {} BY DEF Init, EmptyTable, CachedIps
  <2>2. AsMap = <<>> BY <2>1 DEF AsMap
  <2>3. QED BY <2>2 DEF Init, Map!Init, Idle, Map!Idle
<1>2. ASSUME Inv, Inv', [Next]_vars PROVE [Map!Next]_(Map!vars)
  <2>1. ASSUME NEW ip \in Ip, NEW mac \in Mac, Insert(ip, mac)
        PROVE  Map!Learn(ip, mac)
    BY <1>2, <2>1, InsertRefines
  <2>2. ASSUME NEW ip \in Ip, Lookup(ip) PROVE Map!Lookup(ip)
    BY <1>2, <2>2, LookupRefines
  <2>3. CASE UNCHANGED vars
    BY <2>3 DEF vars, Map!vars, AsMap, CachedIps, SlotOf
  <2>4. QED BY <1>2, <2>1, <2>2, <2>3, TimeoutRefines, TickRefines DEF Next, Map!Next
<1>3. QED BY <1>1, <1>2, Invariance, PTL DEF Spec, ImplementsMap, Map!Spec

=============================================================================
