---------------------------- MODULE SrLpmProofs -----------------------------
(***************************************************************************)
(* The walk of sr_find_lpm_route returns BestRoute, for every table and    *)
(* every destination, and with contiguous masks this is the longest prefix *)
(* for every width of an address.                                          *)
(***************************************************************************)
EXTENDS SrLpm, SrLemmas

\* Every entry of the walked table is a route, and its mask a number.
LEMMA EntryType ==
  ASSUME TypeOK, NEW k \in 1 .. Len(table)
  PROVE  table[k] \in Route /\ table[k].mask \in Nat
<1>1. table \in Seq(Route) BY TablesAssumption DEF TypeOK
<1>2. table[k] \in Route BY <1>1
<1>3. QED BY <1>2, IpAssumption DEF Route

\* The walk stays inside the table and best never overtakes it.
THEOREM LpmType == Spec => []TypeOK
<1>1. Init => TypeOK
  BY TablesAssumption DEF Init, TypeOK
<1>2. TypeOK /\ [Next]_vars => TypeOK'
  <2> SUFFICES ASSUME TypeOK, [Next]_vars PROVE TypeOK' OBVIOUS
  <2>0. Len(table) \in Nat BY TablesAssumption DEF TypeOK
  <2>1. CASE Take
    <3>1. table[rt].mask \in Nat BY <2>0, <2>1, EntryType DEF Take, TypeOK
    <3>2. QED BY <2>0, <2>1, <3>1 DEF Take, TypeOK
  <2>2. CASE Skip BY <2>0, <2>2 DEF Skip, TypeOK
  <2>3. CASE UNCHANGED vars BY <2>3 DEF vars, TypeOK
  <2>4. QED BY <2>1, <2>2, <2>3 DEF Next
<1>3. QED BY <1>1, <1>2, PTL DEF Spec

\* Looking at one more entry, taken or not, keeps best the entry to prefer
\* among those passed.
LEMMA BestSoFarStep ==
  ASSUME TypeOK, BestSoFar, Take \/ Skip
  PROVE  BestSoFar'
<1>0. Len(table) \in Nat /\ rt \in 1 .. Len(table)
  BY TablesAssumption DEF TypeOK, Take, Skip
<1>1. \A k \in 1 .. rt : table[k].mask \in Nat BY <1>0, EntryType
<1>2. Passed' = IF Matches(table[rt], ip) THEN Passed \cup {rt} ELSE Passed
  <2>1. rt' = rt + 1 /\ table' = table /\ ip' = ip BY DEF Take, Skip
  <2>2. 1 .. rt' - 1 = (1 .. rt - 1) \cup {rt} BY <1>0, <2>1
  <2>3. Passed' = {k \in 1 .. rt' - 1 : Matches(table[k], ip)}
    BY <2>1 DEF Passed, Matches
  <2>4. QED BY <2>2, <2>3 DEF Passed
<1>3. \A k \in Passed : k \in 1 .. rt - 1 BY DEF Passed
<1>4. CASE Take
  <2>1. /\ best' = rt /\ best_mask' = table[rt].mask /\ table' = table
        /\ Matches(table[rt], ip)
        /\ best = 0 \/ table[rt].mask > best_mask
    BY <1>4 DEF Take, Improves
  <2>2. \A j \in Passed : Prefers(table, rt, j)
    <3> SUFFICES ASSUME NEW j \in Passed PROVE table[j].mask < table[rt].mask
      BY DEF Prefers
    <3>1. /\ best # 0 /\ best \in 1 .. rt - 1 /\ j \in 1 .. rt - 1
          /\ best_mask = table[best].mask
          /\ Prefers(table, best, j)
      BY <1>3 DEF BestSoFar
    <3>2. table[j].mask \in Nat /\ table[best].mask \in Nat /\ table[rt].mask \in Nat
      BY <1>0, <1>1, <3>1
    <3>3. table[rt].mask > table[best].mask BY <2>1, <3>1
    <3>4. table[j].mask <= table[best].mask BY <3>1, <3>2 DEF Prefers
    <3>5. QED BY <3>2, <3>3, <3>4
  <2>3. Prefers(table, rt, rt) BY <1>0 DEF Prefers
  <2>4. \A j \in Passed' : Prefers(table, best, j)'
    BY <1>2, <2>1, <2>2, <2>3 DEF Prefers
  <2>5. QED BY <1>0, <1>2, <2>1, <2>4 DEF BestSoFar
<1>5. CASE Skip
  <2>1. /\ best' = best /\ best_mask' = best_mask /\ table' = table
        /\ ~ Improves(table[rt])
    BY <1>5 DEF Skip
  <2>2. CASE Matches(table[rt], ip)
    <3>1. best # 0 /\ ~ table[rt].mask > best_mask BY <2>1, <2>2 DEF Improves
    <3>2. best \in 1 .. rt - 1 /\ best_mask = table[best].mask
      BY <3>1, <1>3 DEF BestSoFar
    <3>3. Prefers(table, best, rt) BY <1>0, <1>1, <3>1, <3>2 DEF Prefers
    <3>4. \A j \in Passed' : Prefers(table, best, j)'
      BY <1>2, <2>1, <2>2, <3>1, <3>3 DEF BestSoFar, Prefers
    <3>5. QED BY <1>2, <2>1, <2>2, <3>1, <3>4 DEF BestSoFar
  <2>3. CASE ~ Matches(table[rt], ip)
    BY <1>2, <2>1, <2>3 DEF BestSoFar, Prefers
  <2>4. QED BY <2>2, <2>3
<1>6. QED BY <1>4, <1>5

\* At every step of the walk, best is the entry to prefer among those passed.
THEOREM LpmBestSoFar == Spec => []BestSoFar
<1>1. Init => BestSoFar
  BY DEF Init, BestSoFar, Passed
<1>2. TypeOK /\ BestSoFar /\ [Next]_vars => BestSoFar'
  <2> SUFFICES ASSUME TypeOK, BestSoFar, [Next]_vars PROVE BestSoFar' OBVIOUS
  <2>1. CASE Next BY <2>1, BestSoFarStep DEF Next
  <2>2. CASE UNCHANGED vars
    BY <2>2 DEF vars, BestSoFar, Passed, Prefers, Matches
  <2>3. QED BY <2>1, <2>2
<1>3. QED BY <1>1, <1>2, LpmType, PTL DEF Spec

\* The walk ends at BestRoute(table, ip), so that the routing decisions of
\* SrRouting, stated with BestRoute, are those of the loop in the code.
THEOREM LpmCorrect == Spec => []WalkIsBestRoute
<1>1. TypeOK /\ BestSoFar => WalkIsBestRoute
  <2> SUFFICES ASSUME TypeOK, BestSoFar, Done
               PROVE  best = BestRoute(table, ip)
    BY DEF WalkIsBestRoute
  <2> DEFINE fits == {k \in DOMAIN table : Matches(table[k], ip)}
             Best(k) == \A j \in fits : Prefers(table, k, j)
  <2>1. DOMAIN table = 1 .. Len(table) /\ Len(table) \in Nat
    BY TablesAssumption DEF TypeOK
  <2>2. rt - 1 = Len(table) BY <2>1 DEF TypeOK, Done
  <2>3. fits = Passed BY <2>1, <2>2 DEF Passed
  <2>4. CASE best = 0
    BY <2>3, <2>4 DEF BestSoFar, BestRoute
  <2>5. CASE best # 0
    <3>1. best \in fits /\ Best(best) BY <2>3, <2>5 DEF BestSoFar
    <3> DEFINE c == CHOOSE k \in fits : Best(k)
    <3>2. c \in fits /\ Best(c) BY <3>1
    <3>3. Prefers(table, c, best) /\ Prefers(table, best, c) BY <3>1, <3>2
    <3>4. /\ c \in Nat /\ best \in Nat
          /\ table[c].mask \in Nat /\ table[best].mask \in Nat
      BY <2>1, <3>1, <3>2, EntryType
    <3>5. c = best
      <4> HIDE DEF c
      <4> QED BY <3>3, <3>4 DEF Prefers
    <3>6. BestRoute(table, ip) = c BY <3>1 DEF BestRoute
    <3>7. QED BY <3>5, <3>6
  <2>6. QED BY <2>4, <2>5
<1>2. QED BY <1>1, LpmType, LpmBestSoFar, PTL

-----------------------------------------------------------------------------
(* Prefixes.                                                               *)

\* No block is empty: an empty one would be half of a shorter prefix's, and the
\* first block has all addresses.
LEMMA BlockSize == \A n \in 0 .. Width : Block[n] \in Nat \ {0}
<1>1. Width \in Nat /\ IpMax \in Nat /\ Block[0] = IpMax + 1
  BY BlockAssumption, IpAssumption
<1>2. \A n \in 0 .. Width : Block[n] \in Nat BY BlockAssumption
<1> DEFINE T == {n \in 0 .. Width : Block[n] = 0}
<1>3. SUFFICES ASSUME T # {} PROVE FALSE BY <1>2
<1>4. T \in SUBSET Nat OBVIOUS
<1>5. PICK x \in T : \A y \in T : x <= y BY <1>3, <1>4, MinExists
<1>6. x \in 1 .. Width /\ x - 1 \in 0 .. Width BY <1>1
<1>7. Block[x - 1] = 0 BY <1>6, BlockAssumption
<1>8. x - 1 \in T BY <1>6, <1>7
<1>9. QED BY <1>5, <1>6, <1>8

\* The longer the prefix, the smaller its block.
LEMMA BlockShrinks ==
  ASSUME NEW n \in 0 .. Width, NEW m \in 0 .. Width, n < m
  PROVE  Block[m] < Block[n]
<1>1. Width \in Nat BY BlockAssumption
<1> DEFINE T == {k \in n + 1 .. Width : ~ (Block[k] < Block[n])}
<1>2. SUFFICES ASSUME T # {} PROVE FALSE BY <1>1
<1>3. T \in SUBSET Nat OBVIOUS
<1>4. PICK x \in T : \A y \in T : x <= y BY <1>2, <1>3, MinExists
<1>5. x \in 1 .. Width /\ x - 1 \in 0 .. Width /\ x - 1 \in n .. Width BY <1>1
<1>6. Block[x] \in Nat \ {0} /\ Block[x - 1] = 2 * Block[x]
  BY <1>5, BlockSize, BlockAssumption
<1>7. Block[x] < Block[x - 1] /\ Block[x - 1] \in Nat /\ Block[n] \in Nat
  BY <1>6, BlockSize
<1>8. CASE x - 1 = n BY <1>7, <1>8
<1>9. CASE x - 1 # n
  <2>1. x - 1 \in n + 1 .. Width /\ x - 1 \notin T BY <1>1, <1>4, <1>5, <1>9
  <2>2. Block[x - 1] < Block[n] BY <2>1
  <2>3. QED BY <1>6, <1>7, <2>2
<1>10. QED BY <1>8, <1>9

\* Numbers with the same quotient, and the multiples below them.
LEMMA SameQuotient ==
  ASSUME NEW a \in Nat, NEW c \in Nat, NEW b \in Nat \ {0}
  PROVE  a - (a % b) = c - (c % b) <=> a \div b = c \div b
<1>1. PICK q, p : q = a \div b /\ p = c \div b OBVIOUS
<1>2. q \in Nat /\ p \in Nat BY <1>1
<1>3. a - (a % b) = b * q /\ c - (c % b) = b * p BY <1>1
<1>4. b * q = b * p <=> q = p
  <2>1. CASE q < p
    <3>1. b * q + b <= b * p BY <1>2, <2>1
    <3>2. b * q \in Nat BY <1>2
    <3>3. QED BY <1>2, <2>1, <3>1, <3>2
  <2>2. CASE p < q
    <3>1. b * p + b <= b * q BY <1>2, <2>2
    <3>2. b * p \in Nat BY <1>2
    <3>3. QED BY <1>2, <2>2, <3>1, <3>2
  <2>3. CASE q = p BY <2>3
  <2>4. QED BY <1>2, <2>1, <2>2, <2>3
<1>5. QED BY <1>1, <1>3, <1>4

\* The test of sr_find_lpm_route on a contiguous mask compares prefixes.
LEMMA CoversMatches ==
  ASSUME TypeOK, NEW k \in 1 .. Len(table), NEW n \in 0 .. Width,
         table[k].mask = MaskOf(n)
  PROVE  Matches(table[k], ip) <=> Covers(table[k], n)
<1>1. PICK d : d = table[k].dest OBVIOUS
<1>2. d \in 0 .. IpMax /\ ip \in 0 .. IpMax
  BY <1>1, EntryType, IpAssumption DEF Route, TypeOK
<1>3. PICK b \in Nat \ {0} : b = Block[n] BY BlockSize
<1>4. BitAnd(ip, MaskOf(n)) = ip - (ip % b) /\ BitAnd(d, MaskOf(n)) = d - (d % b)
  BY <1>2, <1>3, AndAssumption
<1>5. ip - (ip % b) = d - (d % b) <=> ip \div b = d \div b
  <2>1. ip \in Nat /\ d \in Nat BY <1>2, IpAssumption
  <2>2. QED BY <2>1, SameQuotient, Zenon
<1>6. QED BY <1>1, <1>3, <1>4, <1>5 DEF Matches, Covers

\* In a table with contiguous masks the route found is the longest prefix that
\* covers the destination, and a destination that is covered has a route.
THEOREM LpmLongestPrefix == Spec => []LongestPrefix
<1>1. TypeOK /\ BestSoFar => LongestPrefix
  <2> SUFFICES ASSUME TypeOK, BestSoFar, Done, Contiguous
               PROVE  /\ best # 0 => \E n \in 0 .. Width : Covers(table[best], n)
                      /\ \A k \in DOMAIN table, n \in 0 .. Width :
                           Covers(table[k], n) =>
                             best # 0 /\ \E m \in n .. Width : Covers(table[best], m)
    BY DEF LongestPrefix
  <2>1. DOMAIN table = 1 .. Len(table) /\ Len(table) \in Nat
    BY TablesAssumption DEF TypeOK
  <2>2. rt - 1 = Len(table) BY <2>1 DEF TypeOK, Done
  <2>3. \A k \in DOMAIN table : k \in Passed <=> Matches(table[k], ip)
    BY <2>1, <2>2 DEF Passed
  <2>4. best # 0 => best \in DOMAIN table /\ Matches(table[best], ip)
    BY <2>1, <2>2 DEF BestSoFar, Passed
  <2>5. ASSUME best # 0
        PROVE  \E n \in 0 .. Width : table[best].mask = MaskOf(n) /\ Covers(table[best], n)
    <3>1. best \in DOMAIN table BY <2>4, <2>5
    <3>2. PICK n \in 0 .. Width : table[best].mask = MaskOf(n) BY <3>1 DEF Contiguous
    <3>3. Covers(table[best], n) BY <2>1, <2>4, <2>5, <3>1, <3>2, CoversMatches
    <3>4. QED BY <3>2, <3>3
  <2>6. ASSUME NEW k \in DOMAIN table, NEW n \in 0 .. Width, Covers(table[k], n)
        PROVE  best # 0 /\ \E m \in n .. Width : Covers(table[best], m)
    <3>1. table[k].mask = MaskOf(n) BY <2>6 DEF Covers
    <3>2. k \in Passed BY <2>1, <2>3, <2>6, <3>1, CoversMatches
    <3>3. best # 0 /\ Prefers(table, best, k) BY <3>2 DEF BestSoFar
    <3>4. PICK m \in 0 .. Width : table[best].mask = MaskOf(m) /\ Covers(table[best], m)
      BY <2>5, <3>3
    <3>5. best \in DOMAIN table BY <2>4, <3>3
    <3>6. table[k].mask \in Nat /\ table[best].mask \in Nat BY <2>1, <3>5, EntryType
    <3>7. table[k].mask <= table[best].mask BY <3>3, <3>6 DEF Prefers
    <3>8. ~ (m < n)
      <4>1. SUFFICES ASSUME m < n PROVE FALSE OBVIOUS
      <4>2. Block[n] < Block[m] BY <4>1, BlockShrinks
      <4>3. Block[n] \in Nat /\ Block[m] \in Nat /\ IpMax \in Nat
        BY BlockSize, IpAssumption
      <4>4. IpMax + 1 - Block[n] <= IpMax + 1 - Block[m]
        BY <3>1, <3>4, <3>7 DEF MaskOf
      <4>5. QED BY <4>2, <4>3, <4>4
    <3>9. Width \in Nat BY BlockAssumption
    <3>10. m \in n .. Width BY <3>8, <3>9
    <3>11. QED BY <3>3, <3>4, <3>10
  <2>7. QED BY <2>5, <2>6
<1>2. QED BY <1>1, LpmType, LpmBestSoFar, PTL

=============================================================================
