--------------------------- MODULE SrJourneyProofs ---------------------------
(***************************************************************************)
(* The checksum, and what arrives at the end of a journey, for every       *)
(* network of routers, every width of the octet and every datagram that a  *)
(* host may send.  The first half is arithmetic: cksum ends, its result    *)
(* makes the sum of a header a multiple of WordMax, and no single field    *)
(* can change without the sum showing it, but for the two zeros of a word  *)
(* and for addresses whose two words have the same sum.  The second half   *)
(* is the inductive invariant JourneyInv.                                  *)
(***************************************************************************)
EXTENDS SrJourney, SrLemmas

-----------------------------------------------------------------------------
(* Octets and words.                                                       *)

\* A word is larger than any octet that counts Base times.
LEMMA WidthFacts ==
  /\ OctetMax \in Nat \ {0} /\ Base \in Nat \ {0} /\ Base = OctetMax + 1
  /\ WordMax \in Nat \ {0} /\ WordMax + 1 = Base * Base
  /\ OctetMax * Base < WordMax
<1>1. OctetMax \in Nat \ {0} BY OctetAssumption
<1>2. Base = OctetMax + 1 /\ WordMax = Base * Base - 1 BY DEF Base, WordMax
<1>3. Base \in Nat /\ Base >= 2 BY <1>1, <1>2
<1>4. Base * Base = OctetMax * Base + Base BY <1>1, <1>2
<1>5. OctetMax * Base \in Nat BY <1>1, <1>3
<1>6. QED BY <1>1, <1>2, <1>3, <1>4, <1>5

\* Division with remainder.
LEMMA Divide ==
  ASSUME NEW s \in Nat, NEW n \in Nat \ {0}
  PROVE  /\ s \div n \in Nat /\ s % n \in Nat /\ s % n < n
         /\ s = n * (s \div n) + (s % n)
OBVIOUS

\* A word is its two octets.
LEMMA WordOctets ==
  ASSUME NEW w \in Word
  PROVE  /\ OctetsOf(w) \in Seq(Octet) /\ Len(OctetsOf(w)) = 2
         /\ OctetsOf(w)[1] \in Octet /\ OctetsOf(w)[2] \in Octet
         /\ Base * OctetsOf(w)[1] + OctetsOf(w)[2] = w
<1>1. PICK q, r : q = w \div Base /\ r = w % Base OBVIOUS
<1>2. w \in Nat /\ w < Base * Base BY WidthFacts DEF Word
<1>3. q \in Nat /\ r \in Nat /\ r < Base /\ w = Base * q + r
  BY <1>1, <1>2, WidthFacts, Divide
<1>4. q < Base
  <2>1. SUFFICES ASSUME q >= Base PROVE FALSE BY <1>3, WidthFacts
  <2>2. Base * q >= Base * Base BY <1>3, <2>1, WidthFacts
  <2>3. QED BY <1>2, <1>3, <2>2, WidthFacts
<1>5. q \in Octet /\ r \in Octet BY <1>3, <1>4, WidthFacts DEF Octet
<1>6. OctetsOf(w) = <<q, r>> BY <1>1 DEF OctetsOf
<1>7. OctetsOf(w) \in Seq(Octet) /\ Len(OctetsOf(w)) = 2 BY <1>5, <1>6
<1>8. OctetsOf(w)[1] = q /\ OctetsOf(w)[2] = r BY <1>6
<1>9. QED BY <1>3, <1>5, <1>7, <1>8

\* The octets of a word, named.
LEMMA OctetPair ==
  ASSUME NEW w \in Word
  PROVE  \E a, b \in Octet : OctetsOf(w) = <<a, b>> /\ Base * a + b = w
<1>1. PICK a, b : a = OctetsOf(w)[1] /\ b = OctetsOf(w)[2] OBVIOUS
<1>2. a \in Octet /\ b \in Octet /\ Base * a + b = w BY <1>1, WordOctets
<1>3. OctetsOf(w) = <<a, b>> BY <1>1 DEF OctetsOf
<1>4. QED BY <1>2, <1>3

\* An address is two words.
LEMMA AddressWords ==
  ASSUME NEW ip \in Ip
  PROVE  /\ High(ip) \in Word /\ Low(ip) \in Word
         /\ High(ip) \in Nat /\ Low(ip) \in Nat /\ AddressSum(ip) \in Nat
<1>1. PICK n \in Nat \ {0} : n = WordMax + 1 BY WidthFacts
<1>2. PICK q, r : q = ip \div n /\ r = ip % n OBVIOUS
<1>3. ip \in Nat /\ ip < n * n
  <2>1. PICK m \in Nat : m = IpMax BY IpAssumption
  <2>2. ip \in Nat /\ ip <= m BY <2>1, IpAssumption
  <2>3. m < n * n /\ n * n \in Nat BY <1>1, <2>1, NetworkAssumption
  <2>4. QED BY <2>2, <2>3
<1>4. q \in Nat /\ r \in Nat /\ r < n /\ ip = n * q + r BY <1>2, <1>3, Divide
<1>5. q < n
  <2>1. SUFFICES ASSUME q >= n PROVE FALSE BY <1>4
  <2>2. n * q >= n * n BY <1>4, <2>1
  <2>3. n * q \in Nat /\ n * n \in Nat BY <1>4
  <2>4. QED BY <1>3, <1>4, <2>2, <2>3
<1>6. q \in Word /\ r \in Word BY <1>1, <1>4, <1>5, WidthFacts DEF Word
<1>7. High(ip) = q /\ Low(ip) = r BY <1>1, <1>2 DEF High, Low
<1>8. AddressSum(ip) = q + r BY <1>7 DEF AddressSum
<1>9. QED BY <1>4, <1>6, <1>7, <1>8

-----------------------------------------------------------------------------
\* Number x is what the end-around carry makes of s: a word that differs from s
\* by a multiple of WordMax, and is 0 only for 0.
Carried(s, x) ==
  /\ x \in Word
  /\ x = 0 <=> s = 0
  /\ \E k \in Nat : s = x + k * WordMax

\* There is only one such number.
LEMMA CarriedUnique ==
  ASSUME NEW s \in Nat, NEW x, NEW y, Carried(s, x), Carried(s, y)
  PROVE  x = y
<1>1. PICK k \in Nat : s = x + k * WordMax BY DEF Carried
<1>2. PICK l \in Nat : s = y + l * WordMax BY DEF Carried
<1>3. CASE s = 0 BY <1>3 DEF Carried
<1>4. CASE s # 0
  <2>1. PICK W \in Nat \ {0} : W = WordMax BY WidthFacts
  <2>2. x \in 1 .. W /\ y \in 1 .. W BY <1>4, <2>1 DEF Carried, Word
  <2>3. x + k * W = y + l * W BY <1>1, <1>2, <2>1
  <2>4. QED BY <2>1, <2>2, <2>3
<1>5. QED BY <1>3, <1>4

\* One turn of the loop of cksum.
Turn(s) == (s \div (WordMax + 1)) + (s % (WordMax + 1))

\* It makes a sum smaller by a multiple of WordMax, and never 0.
LEMMA TurnFacts ==
  ASSUME NEW s \in Nat, s > WordMax
  PROVE  /\ Turn(s) \in Nat \ {0} /\ Turn(s) < s
         /\ \E q \in Nat : s = Turn(s) + q * WordMax
<1>1. PICK W \in Nat \ {0} : W = WordMax BY WidthFacts
<1>2. PICK q, r : q = s \div (W + 1) /\ r = s % (W + 1) OBVIOUS
<1>3. W + 1 \in Nat \ {0} BY <1>1
<1>4. q \in Nat /\ r \in Nat /\ r < W + 1 /\ s = (W + 1) * q + r BY <1>2, <1>3, Divide
<1>5. q # 0 BY <1>1, <1>4
<1>6. (W + 1) * q = q * W + q /\ q * W \in Nat /\ q * W > 0 BY <1>1, <1>4, <1>5
<1>7. Turn(s) = q + r BY <1>1, <1>2 DEF Turn
<1>8. q + r \in Nat \ {0} /\ q + r < s /\ s = (q + r) + q * W
  BY <1>4, <1>5, <1>6
<1>9. QED BY <1>1, <1>4, <1>7, <1>8

\* So a turn does not change the result.
LEMMA CarriedTurn ==
  ASSUME NEW s \in Nat, s > WordMax, NEW x, Carried(Turn(s), x)
  PROVE  Carried(s, x)
<1>1. PICK W \in Nat \ {0} : W = WordMax BY WidthFacts
<1>2. PICK t \in Nat \ {0} : t = Turn(s) BY TurnFacts
<1>3. PICK q \in Nat : s = t + q * W BY <1>1, <1>2, TurnFacts
<1>4. PICK k \in Nat : t = x + k * W BY <1>1, <1>2 DEF Carried
<1>5. x \in Nat /\ x # 0 /\ x \in Word BY <1>2 DEF Carried, Word
<1>6. s = x + (k + q) * W BY <1>1, <1>3, <1>4, <1>5
<1>7. k + q \in Nat OBVIOUS
<1>8. s # 0 BY <1>1
<1>9. QED BY <1>1, <1>5, <1>6, <1>7, <1>8 DEF Carried

\* A word is its own result.
LEMMA CarriedSmall ==
  ASSUME NEW s \in Nat, s <= WordMax
  PROVE  Carried(s, s)
<1>1. s \in Word /\ WordMax \in Nat BY WidthFacts DEF Word
<1>2. s = s + 0 * WordMax BY <1>1
<1>3. QED BY <1>1, <1>2 DEF Carried

\* The loop has a result for every sum.
LEMMA CarriedExists == \A s \in Nat : \E x : Carried(s, x)
<1> DEFINE T == {s \in Nat : ~ \E x : Carried(s, x)}
<1>1. SUFFICES ASSUME T # {} PROVE FALSE OBVIOUS
<1>2. T \in SUBSET Nat OBVIOUS
<1>3. PICK s \in T : \A y \in T : s <= y BY <1>1, <1>2, MinExists
<1>4. s \in Nat /\ ~ \E x : Carried(s, x) BY <1>3
<1>5. s > WordMax BY <1>4, CarriedSmall, WidthFacts
<1>6. Turn(s) \in Nat /\ Turn(s) < s BY <1>4, <1>5, TurnFacts
<1>7. Turn(s) \notin T BY <1>3, <1>4, <1>6
<1>8. PICK x : Carried(Turn(s), x) BY <1>6, <1>7
<1>9. QED BY <1>4, <1>5, <1>8, CarriedTurn

\* Carry is that number.
LEMMA CarryIs == \A s \in Nat : Carried(s, Carry[s])
<1> DEFINE c == [s \in Nat |-> CHOOSE x : Carried(s, x)]
           G(g) == g = [s \in Nat |-> IF s <= WordMax THEN s ELSE g[Turn(s)]]
<1>1. \A s \in Nat : Carried(s, c[s]) BY CarriedExists
<1> HIDE DEF c
<1>2. c = [s \in Nat |-> c[s]] BY DEF c
<1>3. \A s \in Nat : c[s] = IF s <= WordMax THEN s ELSE c[Turn(s)]
  <2> TAKE s \in Nat
  <2>1. CASE s <= WordMax BY <1>1, <2>1, CarriedSmall, CarriedUnique
  <2>2. CASE ~ (s <= WordMax)
    <3>1. s > WordMax BY <2>2, WidthFacts
    <3>2. Turn(s) \in Nat BY <3>1, TurnFacts
    <3>3. Carried(s, c[Turn(s)]) BY <1>1, <3>1, <3>2, CarriedTurn
    <3>4. c[s] = c[Turn(s)] BY <1>1, <3>3, CarriedUnique
    <3>5. QED BY <2>2, <3>4
  <2>3. QED BY <2>1, <2>2
<1>4. G(c) BY <1>2, <1>3
<1>5. Carry = CHOOSE g : G(g) BY DEF Carry, Turn
<1> HIDE DEF G
<1>6. G(Carry) BY <1>4, <1>5
<1>7. \A s \in Nat : Carry[s] = IF s <= WordMax THEN s ELSE Carry[Turn(s)]
  BY <1>6 DEF G
<1> DEFINE T == {s \in Nat : ~ Carried(s, Carry[s])}
<1>8. SUFFICES ASSUME T # {} PROVE FALSE OBVIOUS
<1>9. T \in SUBSET Nat OBVIOUS
<1>10. PICK s \in T : \A y \in T : s <= y BY <1>8, <1>9, MinExists
<1>11. s \in Nat /\ ~ Carried(s, Carry[s]) BY <1>10
<1>12. s > WordMax BY <1>7, <1>11, CarriedSmall, WidthFacts
<1>13. Turn(s) \in Nat /\ Turn(s) < s BY <1>11, <1>12, TurnFacts
<1>14. Carried(Turn(s), Carry[Turn(s)]) BY <1>10, <1>11, <1>13
<1>15. Carry[s] = Carry[Turn(s)] BY <1>7, <1>11, <1>12, WidthFacts
<1>16. QED BY <1>11, <1>12, <1>14, <1>15, CarriedTurn

-----------------------------------------------------------------------------
(* The sum over octets.                                                    *)

\* The recursion of Sums, up to octet n.
SumsTo(g, data, n) ==
  g = [k \in 0 .. n |-> IF k = 0 THEN 0 ELSE g[k - 1] + Added(data, k)]

\* The recursion can be followed one octet further.
LEMMA SumsToNext ==
  ASSUME NEW g, NEW data, NEW n \in Nat, SumsTo(g, data, n)
  PROVE  \E f : SumsTo(f, data, n + 1)
<1>1. PICK x : x = g[n] + Added(data, n + 1) OBVIOUS
<1>2. PICK f : f = [k \in 0 .. n + 1 |-> IF k = n + 1 THEN x ELSE g[k]] OBVIOUS
<1>3. \A k \in 0 .. n : g[k] = IF k = 0 THEN 0 ELSE g[k - 1] + Added(data, k)
  BY DEF SumsTo
<1>4. \A k \in 0 .. n : f[k] = g[k] BY <1>2
<1>5. ASSUME NEW k \in 0 .. n + 1
      PROVE  f[k] = IF k = 0 THEN 0 ELSE f[k - 1] + Added(data, k)
  <2>1. CASE k = 0 BY <1>3, <1>4, <2>1
  <2>2. CASE k # 0 /\ k # n + 1
    <3>1. k \in 0 .. n /\ k - 1 \in 0 .. n BY <2>2
    <3>2. f[k] = g[k] /\ f[k - 1] = g[k - 1] BY <1>4, <3>1
    <3>3. g[k] = g[k - 1] + Added(data, k) BY <1>3, <2>2, <3>1
    <3>4. QED BY <2>2, <3>2, <3>3
  <2>3. CASE k = n + 1
    <3>1. k # 0 /\ k - 1 = n /\ n \in 0 .. n BY <2>3
    <3>2. f[k] = x BY <1>2, <2>3
    <3>3. f[k - 1] = g[n] BY <1>4, <3>1
    <3>4. QED BY <1>1, <2>3, <3>1, <3>2, <3>3
  <2>4. QED BY <2>1, <2>2, <2>3
<1>6. f = [k \in 0 .. n + 1 |-> f[k]] BY <1>2
<1>7. SumsTo(f, data, n + 1) BY <1>5, <1>6 DEF SumsTo
<1>8. QED BY <1>7

\* So it can be followed to the end.
LEMMA SumsToExists ==
  ASSUME NEW data, NEW n \in Nat
  PROVE  \E g : SumsTo(g, data, n)
<1> DEFINE T == {m \in Nat : ~ \E g : SumsTo(g, data, m)}
<1>1. SUFFICES ASSUME T # {} PROVE FALSE OBVIOUS
<1>2. T \in SUBSET Nat OBVIOUS
<1>3. PICK m \in T : \A y \in T : m <= y BY <1>1, <1>2, MinExists
<1>4. m \in Nat /\ ~ \E g : SumsTo(g, data, m) BY <1>3
<1>5. m # 0
  <2>1. PICK g : g = [k \in 0 .. 0 |-> 0] OBVIOUS
  <2>2. SumsTo(g, data, 0) BY <2>1 DEF SumsTo
  <2>3. QED BY <1>4, <2>2
<1>6. PICK i \in Nat : m = i + 1
  <2>1. m - 1 \in Nat /\ m = (m - 1) + 1 BY <1>4, <1>5
  <2>2. QED BY <2>1
<1>7. i \notin T BY <1>3, <1>4, <1>6
<1>8. \E g : SumsTo(g, data, i) BY <1>7
<1>9. QED BY <1>4, <1>6, <1>8, SumsToNext

\* s holds the running sums of data.
Running(s, data) ==
  /\ s[0] = 0
  /\ \A k \in 1 .. Len(data) : s[k] = s[k - 1] + Added(data, k)

\* Sums holds the running sums.
LEMMA SumsIs ==
  ASSUME NEW data, Len(data) \in Nat
  PROVE  Running(Sums(data), data)
<1> DEFINE Good(f) == SumsTo(f, data, Len(data))
<1>1. \E f : Good(f) BY SumsToExists
<1>2. Good(CHOOSE f : Good(f)) BY <1>1
<1>3. Sums(data) = CHOOSE f : Good(f) BY DEF Sums, SumsTo
<1> HIDE DEF Good
<1>4. Good(Sums(data)) BY <1>2, <1>3
<1>5. PICK f : f = Sums(data) OBVIOUS
<1>6. f = [k \in 0 .. Len(data) |-> IF k = 0 THEN 0 ELSE f[k - 1] + Added(data, k)]
  BY <1>4, <1>5 DEF Good, SumsTo
<1>7. \A k \in 0 .. Len(data) : f[k] = IF k = 0 THEN 0 ELSE f[k - 1] + Added(data, k)
  BY <1>6
<1>8. f[0] = 0 BY <1>7
<1>9. \A k \in 1 .. Len(data) : f[k] = f[k - 1] + Added(data, k)
  <2> TAKE k \in 1 .. Len(data)
  <2>1. k \in 0 .. Len(data) /\ k # 0 OBVIOUS
  <2>2. QED BY <1>7, <2>1
<1>10. QED BY <1>5, <1>8, <1>9 DEF Running

\* What an octet adds is a number.
LEMMA AddedNat ==
  ASSUME NEW data \in Seq(Octet), NEW k \in 1 .. Len(data)
  PROVE  Added(data, k) \in Nat
<1>1. data[k] \in Octet BY ElementOfSeq
<1>2. PICK x \in Nat : x = data[k] BY <1>1, WidthFacts DEF Octet
<1>3. PICK b \in Nat : b = Base BY WidthFacts
<1>4. b * x \in Nat OBVIOUS
<1>5. QED BY <1>2, <1>3, <1>4 DEF Added

\* So the running sums are numbers.
LEMMA SumsNat ==
  ASSUME NEW data \in Seq(Octet)
  PROVE  \A k \in 0 .. Len(data) : Sums(data)[k] \in Nat
<1>1. PICK n \in Nat : n = Len(data) OBVIOUS
<1>2. PICK s : s = Sums(data) OBVIOUS
<1>3. s[0] = 0 /\ \A k \in 1 .. n : s[k] = s[k - 1] + Added(data, k)
  BY <1>1, <1>2, SumsIs DEF Running
<1>4. \A k \in 1 .. n : Added(data, k) \in Nat BY <1>1, AddedNat
<1> DEFINE T == {k \in 0 .. n : s[k] \notin Nat}
<1>5. SUFFICES ASSUME T # {} PROVE FALSE BY <1>1, <1>2
<1>6. T \in SUBSET Nat OBVIOUS
<1>7. PICK k \in T : \A y \in T : k <= y BY <1>5, <1>6, MinExists
<1>8. k \in 0 .. n /\ s[k] \notin Nat BY <1>7
<1>9. k # 0 BY <1>3, <1>8
<1>10. k \in 1 .. n /\ k - 1 \in 0 .. n /\ k - 1 < k BY <1>8, <1>9
<1>11. s[k - 1] \in Nat BY <1>7, <1>10
<1>12. QED BY <1>3, <1>4, <1>8, <1>10, <1>11

\* So the sum is a number.
LEMMA SumNat ==
  ASSUME NEW data \in Seq(Octet)
  PROVE  SumOf(data) \in Nat
<1>1. Len(data) \in 0 .. Len(data) OBVIOUS
<1>2. QED BY <1>1, SumsNat DEF SumOf

\* Two sequences of octets with the same end.
LEMMA SameEnd ==
  ASSUME NEW d \in Seq(Octet), NEW e \in Seq(Octet), NEW n \in Nat, NEW m \in 0 .. n,
         n = Len(d), n = Len(e), NEW c \in Nat, Sums(e)[m] = Sums(d)[m] + c,
         \A k \in m + 1 .. n : e[k] = d[k]
  PROVE  SumOf(e) = SumOf(d) + c
<1>1. PICK s, t : s = Sums(d) /\ t = Sums(e) OBVIOUS
<1>2. \A k \in 1 .. n : s[k] = s[k - 1] + Added(d, k) /\ t[k] = t[k - 1] + Added(e, k)
  BY <1>1, SumsIs DEF Running
<1>3. \A k \in 1 .. n : Added(d, k) \in Nat BY AddedNat
<1>4. \A k \in m + 1 .. n : Added(e, k) = Added(d, k) BY DEF Added
<1>5. \A k \in 0 .. n : s[k] \in Nat BY <1>1, SumsNat
<1> DEFINE T == {k \in m .. n : t[k] # s[k] + c}
<1>6. T = {}
  <2>1. SUFFICES ASSUME T # {} PROVE FALSE OBVIOUS
  <2>2. T \in SUBSET Nat OBVIOUS
  <2>3. PICK k \in T : \A y \in T : k <= y BY <2>1, <2>2, MinExists
  <2>4. k \in m .. n /\ t[k] # s[k] + c BY <2>3
  <2>5. k # m BY <1>1, <2>4
  <2>6. k \in m + 1 .. n /\ k \in 1 .. n /\ k - 1 \in m .. n /\ k - 1 \in 0 .. n /\ k - 1 < k
    BY <2>4, <2>5
  <2>7. t[k - 1] = s[k - 1] + c BY <2>3, <2>6
  <2>8. t[k] = s[k - 1] + c + Added(d, k) /\ s[k] = s[k - 1] + Added(d, k)
    BY <1>2, <1>4, <2>6, <2>7
  <2>9. s[k - 1] \in Nat /\ Added(d, k) \in Nat BY <1>3, <1>5, <2>6
  <2>10. QED BY <2>4, <2>8, <2>9
<1>7. n \in m .. n OBVIOUS
<1>8. t[n] = s[n] + c BY <1>6, <1>7
<1>9. QED BY <1>1, <1>8 DEF SumOf

-----------------------------------------------------------------------------
(* cksum makes a sum that RFC 1071 accepts.                                *)

\* The result is a word other than 0, and completes the sum to a multiple of
\* WordMax.
LEMMA CksumFacts ==
  ASSUME NEW data \in Seq(Octet)
  PROVE  /\ cksum(data) \in Word /\ cksum(data) # 0
         /\ \E k \in Nat \ {0} : SumOf(data) + cksum(data) = k * WordMax
<1>1. PICK W \in Nat \ {0} : W = WordMax BY WidthFacts
<1>2. PICK s \in Nat : s = SumOf(data) BY SumNat
<1>3. PICK x : x = Carry[s] OBVIOUS
<1>4. x \in 0 .. W BY <1>1, <1>3, CarryIs DEF Carried, Word
<1>5. PICK k \in Nat : s = x + k * W BY <1>1, <1>3, CarryIs DEF Carried
<1>6. cksum(data) = IF W - x = 0 THEN W ELSE W - x BY <1>1, <1>2, <1>3 DEF cksum
<1>7. CASE x = W
  <2>1. cksum(data) = W /\ s + W = (k + 2) * W BY <1>1, <1>5, <1>6, <1>7
  <2>2. k + 2 \in Nat \ {0} /\ W \in Word BY <1>1 DEF Word
  <2>3. PICK c : c = cksum(data) OBVIOUS
  <2>4. c \in Word /\ c # 0 /\ s + c = (k + 2) * W BY <2>1, <2>2, <2>3
  <2>5. QED BY <1>1, <1>2, <2>2, <2>3, <2>4
<1>8. CASE x # W
  <2>1. cksum(data) = W - x /\ W - x \in 1 .. W BY <1>1, <1>4, <1>6, <1>8
  <2>2. s + (W - x) = (k + 1) * W BY <1>1, <1>4, <1>5
  <2>3. k + 1 \in Nat \ {0} /\ W - x \in Word BY <1>1, <2>1 DEF Word
  <2>4. PICK c : c = cksum(data) OBVIOUS
  <2>5. c \in Word /\ c # 0 /\ s + c = (k + 1) * W BY <2>1, <2>2, <2>3, <2>4
  <2>6. QED BY <1>1, <1>2, <2>3, <2>4, <2>5
<1>9. QED BY <1>7, <1>8

\* RfcValid accepts the positive multiples of WordMax.
LEMMA ValidIsMultiple ==
  ASSUME NEW data \in Seq(Octet)
  PROVE  RfcValid(data) <=> \E k \in Nat \ {0} : SumOf(data) = k * WordMax
<1>1. PICK W \in Nat \ {0} : W = WordMax BY WidthFacts
<1>2. PICK s \in Nat : s = SumOf(data) BY SumNat
<1>3. Carried(s, Carry[s]) BY CarryIs
<1>4. RfcValid(data) <=> Carry[s] = W BY <1>1, <1>2 DEF RfcValid
<1>5. ASSUME Carry[s] = W PROVE \E k \in Nat \ {0} : s = k * W
  <2>1. PICK k \in Nat : s = W + k * W BY <1>1, <1>3, <1>5 DEF Carried
  <2>2. s = (k + 1) * W /\ k + 1 \in Nat \ {0} BY <2>1
  <2>3. QED BY <2>2
<1>6. ASSUME NEW k \in Nat \ {0}, s = k * W PROVE Carry[s] = W
  <2>1. k - 1 \in Nat /\ s = W + (k - 1) * W BY <1>6
  <2>2. s # 0 BY <1>6
  <2>3. W \in Word BY <1>1 DEF Word
  <2>4. Carried(s, W) BY <1>1, <2>1, <2>2, <2>3 DEF Carried
  <2>5. QED BY <1>3, <2>4, CarriedUnique
<1>7. QED BY <1>1, <1>2, <1>4, <1>5, <1>6

-----------------------------------------------------------------------------
(* Headers.                                                                *)

\* What the octets of a header add up to.
Weight(d) ==
  d.id + Base * d.ttl + d.p + d.sum + AddressSum(d.src) + AddressSum(d.dst)

\* The fields of a datagram as numbers.
LEMMA FieldTypes ==
  ASSUME NEW d \in Datagram
  PROVE  /\ d.id \in Word /\ d.sum \in Word /\ d.ttl \in Octet /\ d.p \in Octet
         /\ d.src \in Ip /\ d.dst \in Ip
         /\ d.id \in Nat /\ d.sum \in Nat /\ d.ttl \in Nat /\ d.p \in Nat
         /\ AddressSum(d.src) \in Nat /\ AddressSum(d.dst) \in Nat
         /\ Base * d.ttl \in Nat
<1>1. /\ d.id \in Word /\ d.sum \in Word /\ d.ttl \in Octet /\ d.p \in Octet
      /\ d.src \in Ip /\ d.dst \in Ip
  BY DEF Datagram
<1>2. Octet \subseteq Nat /\ Word \subseteq Nat BY DEF Octet, Word
<1>3. d.ttl \in Nat BY <1>1, <1>2
<1>4. Base * d.ttl \in Nat BY <1>3, WidthFacts
<1>5. AddressSum(d.src) \in Nat /\ AddressSum(d.dst) \in Nat BY <1>1, AddressWords
<1>6. QED BY <1>1, <1>2, <1>4, <1>5

\* Two octets more.
LEMMA TwoMore ==
  ASSUME NEW s \in Seq(Octet), NEW n \in Nat, Len(s) = n, NEW a \in Octet, NEW b \in Octet,
         NEW c, c = s \o <<a, b>>
  PROVE  /\ c \in Seq(Octet) /\ Len(c) = n + 2
         /\ \A k \in 1 .. n : c[k] = s[k]
         /\ c[n + 1] = a /\ c[n + 2] = b
<1>1. PICK q : q = <<a, b>> OBVIOUS
<1>2. q \in Seq(Octet) /\ Len(q) = 2 /\ q[1] = a /\ q[2] = b BY <1>1
<1>3. /\ c \in Seq(Octet) /\ Len(c) = n + 2
      /\ \A k \in 1 .. n + 2 : c[k] = IF k <= n THEN s[k] ELSE q[k - n]
  <2>1. /\ s \o q \in Seq(Octet) /\ Len(s \o q) = Len(s) + Len(q)
        /\ \A k \in 1 .. Len(s) + Len(q) :
             (s \o q)[k] = IF k <= Len(s) THEN s[k] ELSE q[k - Len(s)]
    BY <1>2, ConcatProperties
  <2>2. QED BY <1>1, <1>2, <2>1
<1>4. n + 1 \in 1 .. n + 2 /\ n + 2 \in 1 .. n + 2 /\ (n + 1) - n = 1 /\ (n + 2) - n = 2
  OBVIOUS
<1>5. c[n + 1] = q[1] /\ c[n + 2] = q[2]
  <2>1. PICK k, l : k = n + 1 /\ l = n + 2 OBVIOUS
  <2>2. /\ k \in 1 .. n + 2 /\ ~ (k <= n) /\ k - n = 1
        /\ l \in 1 .. n + 2 /\ ~ (l <= n) /\ l - n = 2
    BY <2>1
  <2>3. c[k] = q[k - n] /\ c[l] = q[l - n] BY <1>3, <2>2
  <2>4. QED BY <2>1, <2>2, <2>3
<1>6. \A k \in 1 .. n : k \in 1 .. n + 2 /\ k <= n OBVIOUS
<1>7. \A k \in 1 .. n : c[k] = s[k] BY <1>3, <1>6
<1>8. QED BY <1>2, <1>3, <1>5, <1>7

\* Fourteen octets and their sum.
LEMMA HeaderLengthSum ==
  ASSUME NEW data \in Seq(Octet), Len(data) = 14
  PROVE  SumOf(data) = (Base * data[1] + data[2]) + Base * data[3] + data[4]
                       + (Base * data[5] + data[6]) + (Base * data[7] + data[8])
                       + (Base * data[9] + data[10]) + (Base * data[11] + data[12])
                       + (Base * data[13] + data[14])
<1>1. PICK s : s = Sums(data) OBVIOUS
<1>2. s[0] = 0 /\ \A k \in 1 .. 14 : s[k] = s[k - 1] + Added(data, k)
  <2>1. Len(data) \in Nat OBVIOUS
  <2>2. Running(s, data) BY <1>1, <2>1, SumsIs
  <2>3. QED BY <2>2 DEF Running
<1>3. PICK B \in Nat : B = Base BY WidthFacts
<1>4. \A k \in 1 .. 14 : data[k] \in Nat
  <2>1. \A k \in 1 .. 14 : data[k] \in Octet BY ElementOfSeq
  <2>2. Octet \subseteq Nat BY DEF Octet
  <2>3. QED BY <2>1, <2>2
<1>5. PICK a, b, c, d, e, f, g, h, i, j, q, l, m, n :
        /\ a = data[1] /\ b = data[2] /\ c = data[3] /\ d = data[4] /\ e = data[5]
        /\ f = data[6] /\ g = data[7] /\ h = data[8] /\ i = data[9] /\ j = data[10]
        /\ q = data[11] /\ l = data[12] /\ m = data[13] /\ n = data[14]
  OBVIOUS
<1>6. /\ a \in Nat /\ b \in Nat /\ c \in Nat /\ d \in Nat /\ e \in Nat
      /\ f \in Nat /\ g \in Nat /\ h \in Nat /\ i \in Nat /\ j \in Nat
      /\ q \in Nat /\ l \in Nat /\ m \in Nat /\ n \in Nat
  BY <1>4, <1>5
<1>7. PICK A, C, E, G, I, Q, M \in Nat :
        /\ A = B * a /\ C = B * c /\ E = B * e /\ G = B * g /\ I = B * i
        /\ Q = B * q /\ M = B * m
  <2>1. /\ B * a \in Nat /\ B * c \in Nat /\ B * e \in Nat /\ B * g \in Nat
        /\ B * i \in Nat /\ B * q \in Nat /\ B * m \in Nat
    BY <1>6
  <2>2. QED BY <2>1
<1>8. /\ Added(data, 1) = A /\ Added(data, 2) = b /\ Added(data, 3) = C
      /\ Added(data, 4) = d /\ Added(data, 5) = E /\ Added(data, 6) = f
      /\ Added(data, 7) = G /\ Added(data, 8) = h /\ Added(data, 9) = I
      /\ Added(data, 10) = j /\ Added(data, 11) = Q /\ Added(data, 12) = l
      /\ Added(data, 13) = M /\ Added(data, 14) = n
  <2>1. /\ 1 % 2 = 1 /\ 2 % 2 = 0 /\ 3 % 2 = 1 /\ 4 % 2 = 0 /\ 5 % 2 = 1
        /\ 6 % 2 = 0 /\ 7 % 2 = 1 /\ 8 % 2 = 0 /\ 9 % 2 = 1 /\ 10 % 2 = 0
        /\ 11 % 2 = 1 /\ 12 % 2 = 0 /\ 13 % 2 = 1 /\ 14 % 2 = 0
    OBVIOUS
  <2>2. ASSUME NEW k, k % 2 = 1 PROVE Added(data, k) = B * data[k]
    BY <1>3, <2>2 DEF Added
  <2>3. ASSUME NEW k, k % 2 = 0 PROVE Added(data, k) = data[k]
    BY <2>3 DEF Added
  <2>4. /\ Added(data, 1) = B * a /\ Added(data, 3) = B * c /\ Added(data, 5) = B * e
        /\ Added(data, 7) = B * g /\ Added(data, 9) = B * i /\ Added(data, 11) = B * q
        /\ Added(data, 13) = B * m
    BY <1>5, <2>1, <2>2
  <2>5. /\ Added(data, 2) = b /\ Added(data, 4) = d /\ Added(data, 6) = f
        /\ Added(data, 8) = h /\ Added(data, 10) = j /\ Added(data, 12) = l
        /\ Added(data, 14) = n
    BY <1>5, <2>1, <2>3
  <2>6. QED BY <1>7, <2>4, <2>5
<1>9. /\ s[1] = A /\ s[2] = s[1] + b /\ s[3] = s[2] + C /\ s[4] = s[3] + d /\ s[5] = s[4] + E
      /\ s[6] = s[5] + f /\ s[7] = s[6] + G /\ s[8] = s[7] + h /\ s[9] = s[8] + I
      /\ s[10] = s[9] + j /\ s[11] = s[10] + Q /\ s[12] = s[11] + l /\ s[13] = s[12] + M
      /\ s[14] = s[13] + n
  <2>1. /\ s[1] = s[0] + Added(data, 1) /\ s[2] = s[1] + Added(data, 2)
        /\ s[3] = s[2] + Added(data, 3) /\ s[4] = s[3] + Added(data, 4)
        /\ s[5] = s[4] + Added(data, 5) /\ s[6] = s[5] + Added(data, 6)
        /\ s[7] = s[6] + Added(data, 7) /\ s[8] = s[7] + Added(data, 8)
        /\ s[9] = s[8] + Added(data, 9) /\ s[10] = s[9] + Added(data, 10)
        /\ s[11] = s[10] + Added(data, 11) /\ s[12] = s[11] + Added(data, 12)
        /\ s[13] = s[12] + Added(data, 13) /\ s[14] = s[13] + Added(data, 14)
    BY <1>2
  <2>2. QED BY <1>2, <1>7, <1>8, <2>1
<1>10. s[14] = (A + b) + C + d + (E + f) + (G + h) + (I + j) + (Q + l) + (M + n)
  BY <1>6, <1>7, <1>9
<1>11. SumOf(data) = s[14] BY <1>1 DEF SumOf
<1>12. QED BY <1>3, <1>5, <1>7, <1>10, <1>11

\* The octets of a header.
LEMMA HeaderSums ==
  ASSUME NEW d \in Datagram
  PROVE  /\ HeaderOctets(d) \in Seq(Octet) /\ Len(HeaderOctets(d)) = 14
         /\ SumOf(HeaderOctets(d)) = Weight(d) /\ Weight(d) \in Nat
         /\ Base * HeaderOctets(d)[1] + HeaderOctets(d)[2] = d.id
         /\ HeaderOctets(d)[3] = d.ttl
         /\ Base * HeaderOctets(d)[5] + HeaderOctets(d)[6] = d.sum
<1>1. PICK w1, w3, w4, w5, w6, w7 \in Word :
        /\ w1 = d.id /\ w3 = d.sum /\ w4 = High(d.src) /\ w5 = Low(d.src)
        /\ w6 = High(d.dst) /\ w7 = Low(d.dst)
  BY FieldTypes, AddressWords
<1>2. PICK a1, b1 \in Octet : OctetsOf(w1) = <<a1, b1>> /\ Base * a1 + b1 = w1
  BY OctetPair
<1>3. PICK a3, b3 \in Octet : OctetsOf(w3) = <<a3, b3>> /\ Base * a3 + b3 = w3
  BY OctetPair
<1>4. PICK a4, b4 \in Octet : OctetsOf(w4) = <<a4, b4>> /\ Base * a4 + b4 = w4
  BY OctetPair
<1>5. PICK a5, b5 \in Octet : OctetsOf(w5) = <<a5, b5>> /\ Base * a5 + b5 = w5
  BY OctetPair
<1>6. PICK a6, b6 \in Octet : OctetsOf(w6) = <<a6, b6>> /\ Base * a6 + b6 = w6
  BY OctetPair
<1>7. PICK a7, b7 \in Octet : OctetsOf(w7) = <<a7, b7>> /\ Base * a7 + b7 = w7
  BY OctetPair
<1>8. PICK t, p \in Octet : t = d.ttl /\ p = d.p BY FieldTypes
<1>9. PICK c2, c4, c6, c8, c10, c12, data :
        /\ c2 = <<a1, b1>> /\ c4 = c2 \o <<t, p>> /\ c6 = c4 \o <<a3, b3>>
        /\ c8 = c6 \o <<a4, b4>> /\ c10 = c8 \o <<a5, b5>>
        /\ c12 = c10 \o <<a6, b6>> /\ data = c12 \o <<a7, b7>>
  OBVIOUS
<1>10. data = HeaderOctets(d)
  <2>1. HeaderOctets(d) = OctetsOf(w1) \o <<t, p>> \o OctetsOf(w3) \o OctetsOf(w4)
                          \o OctetsOf(w5) \o OctetsOf(w6) \o OctetsOf(w7)
    BY <1>1, <1>8 DEF HeaderOctets
  <2>2. HeaderOctets(d) = <<a1, b1>> \o <<t, p>> \o <<a3, b3>> \o <<a4, b4>>
                          \o <<a5, b5>> \o <<a6, b6>> \o <<a7, b7>>
    BY <1>2, <1>3, <1>4, <1>5, <1>6, <1>7, <2>1
  <2>3. QED BY <1>9, <2>2
<1>11. c2 \in Seq(Octet) /\ Len(c2) = 2 /\ c2[1] = a1 /\ c2[2] = b1 BY <1>9
<1>12. /\ c4 \in Seq(Octet) /\ Len(c4) = 4 /\ \A k \in 1 .. 2 : c4[k] = c2[k]
       /\ c4[3] = t /\ c4[4] = p
  <2>1. /\ c4 \in Seq(Octet) /\ Len(c4) = 2 + 2 /\ \A k \in 1 .. 2 : c4[k] = c2[k]
        /\ c4[2 + 1] = t /\ c4[2 + 2] = p
    BY <1>9, <1>11, TwoMore
  <2>2. QED BY <2>1
<1>13. /\ c6 \in Seq(Octet) /\ Len(c6) = 6 /\ \A k \in 1 .. 4 : c6[k] = c4[k]
       /\ c6[5] = a3 /\ c6[6] = b3
  <2>1. /\ c6 \in Seq(Octet) /\ Len(c6) = 4 + 2 /\ \A k \in 1 .. 4 : c6[k] = c4[k]
        /\ c6[4 + 1] = a3 /\ c6[4 + 2] = b3
    BY <1>9, <1>12, TwoMore
  <2>2. QED BY <2>1
<1>14. /\ c8 \in Seq(Octet) /\ Len(c8) = 8 /\ \A k \in 1 .. 6 : c8[k] = c6[k]
       /\ c8[7] = a4 /\ c8[8] = b4
  <2>1. /\ c8 \in Seq(Octet) /\ Len(c8) = 6 + 2 /\ \A k \in 1 .. 6 : c8[k] = c6[k]
        /\ c8[6 + 1] = a4 /\ c8[6 + 2] = b4
    BY <1>9, <1>13, TwoMore
  <2>2. QED BY <2>1
<1>15. /\ c10 \in Seq(Octet) /\ Len(c10) = 10 /\ \A k \in 1 .. 8 : c10[k] = c8[k]
       /\ c10[9] = a5 /\ c10[10] = b5
  <2>1. /\ c10 \in Seq(Octet) /\ Len(c10) = 8 + 2 /\ \A k \in 1 .. 8 : c10[k] = c8[k]
        /\ c10[8 + 1] = a5 /\ c10[8 + 2] = b5
    BY <1>9, <1>14, TwoMore
  <2>2. QED BY <2>1
<1>16. /\ c12 \in Seq(Octet) /\ Len(c12) = 12 /\ \A k \in 1 .. 10 : c12[k] = c10[k]
       /\ c12[11] = a6 /\ c12[12] = b6
  <2>1. /\ c12 \in Seq(Octet) /\ Len(c12) = 10 + 2 /\ \A k \in 1 .. 10 : c12[k] = c10[k]
        /\ c12[10 + 1] = a6 /\ c12[10 + 2] = b6
    BY <1>9, <1>15, TwoMore
  <2>2. QED BY <2>1
<1>17. /\ data \in Seq(Octet) /\ Len(data) = 14 /\ \A k \in 1 .. 12 : data[k] = c12[k]
       /\ data[13] = a7 /\ data[14] = b7
  <2>1. /\ data \in Seq(Octet) /\ Len(data) = 12 + 2 /\ \A k \in 1 .. 12 : data[k] = c12[k]
        /\ data[12 + 1] = a7 /\ data[12 + 2] = b7
    BY <1>9, <1>16, TwoMore
  <2>2. QED BY <2>1
<1>18. /\ data[1] = a1 /\ data[2] = b1 /\ data[3] = t /\ data[4] = p
       /\ data[5] = a3 /\ data[6] = b3 /\ data[7] = a4 /\ data[8] = b4
       /\ data[9] = a5 /\ data[10] = b5 /\ data[11] = a6 /\ data[12] = b6
       /\ data[13] = a7 /\ data[14] = b7
  BY <1>11, <1>12, <1>13, <1>14, <1>15, <1>16, <1>17
<1>19. SumOf(data) = w1 + Base * t + p + w3 + w4 + w5 + w6 + w7
  <2>1. SumOf(data) = (Base * a1 + b1) + Base * t + p + (Base * a3 + b3)
                      + (Base * a4 + b4) + (Base * a5 + b5) + (Base * a6 + b6)
                      + (Base * a7 + b7)
    BY <1>17, <1>18, HeaderLengthSum
  <2>2. QED BY <1>2, <1>3, <1>4, <1>5, <1>6, <1>7, <2>1
<1>20. /\ w1 \in Nat /\ w3 \in Nat /\ w4 \in Nat /\ w5 \in Nat /\ w6 \in Nat
       /\ w7 \in Nat /\ p \in Nat
  BY DEF Word, Octet
<1>21. PICK u \in Nat : u = Base * t BY <1>8, FieldTypes
<1>22. Weight(d) = w1 + u + p + w3 + (w4 + w5) + (w6 + w7)
  BY <1>1, <1>8, <1>21 DEF Weight, AddressSum
<1>23. SumOf(data) = w1 + u + p + w3 + w4 + w5 + w6 + w7 BY <1>19, <1>21
<1>24. SumOf(data) = Weight(d) /\ Weight(d) \in Nat BY <1>20, <1>21, <1>22, <1>23
<1>25. Base * data[1] + data[2] = d.id /\ Base * data[5] + data[6] = d.sum
  BY <1>1, <1>2, <1>3, <1>18
<1>26. QED BY <1>8, <1>10, <1>17, <1>18, <1>24, <1>25

\* A header is valid when it weighs a positive multiple of WordMax.
LEMMA ValidWeight ==
  ASSUME NEW d \in Datagram
  PROVE  RfcValid(HeaderOctets(d)) <=> \E k \in Nat \ {0} : Weight(d) = k * WordMax
BY HeaderSums, ValidIsMultiple

\* What the checksum of a header is computed over, and what it adds.
LEMMA Unsummed ==
  ASSUME NEW d \in Datagram
  PROVE  /\ [d EXCEPT !.sum = 0] \in Datagram
         /\ Weight(d) = Weight([d EXCEPT !.sum = 0]) + d.sum
         /\ HeaderSum(d) \in Word /\ HeaderSum(d) # 0
         /\ \E k \in Nat \ {0} : Weight([d EXCEPT !.sum = 0]) + HeaderSum(d) = k * WordMax
<1>1. PICK e : e = [d EXCEPT !.sum = 0] OBVIOUS
<1>2. 0 \in Word BY WidthFacts DEF Word
<1>3. e \in Datagram BY <1>1, <1>2 DEF Datagram
<1>4. /\ e.id = d.id /\ e.ttl = d.ttl /\ e.p = d.p /\ e.sum = 0
      /\ e.src = d.src /\ e.dst = d.dst
  BY <1>1 DEF Datagram
<1>5. Weight(d) = Weight(e) + d.sum BY <1>4, FieldTypes DEF Weight
<1>6. HeaderOctets(e) \in Seq(Octet) /\ SumOf(HeaderOctets(e)) = Weight(e)
  BY <1>3, HeaderSums
<1>7. HeaderSum(d) = cksum(HeaderOctets(e)) BY <1>1 DEF HeaderSum
<1>8. /\ HeaderSum(d) \in Word /\ HeaderSum(d) # 0
      /\ \E k \in Nat \ {0} : Weight(e) + HeaderSum(d) = k * WordMax
  BY <1>6, <1>7, CksumFacts
<1>9. QED BY <1>1, <1>3, <1>5, <1>8

\* RFC 1071 accepts every header that sr_valid_ip_packet accepts.
LEMMA AcceptedValid ==
  ASSUME NEW d \in Datagram, sr_valid_ip_packet(d)
  PROVE  RfcValid(HeaderOctets(d))
<1>1. d.sum = HeaderSum(d) BY DEF sr_valid_ip_packet
<1>2. \E k \in Nat \ {0} : Weight(d) = k * WordMax BY <1>1, Unsummed
<1>3. QED BY <1>2, ValidWeight

\* Both accept a header whose checksum was computed last.
LEMMA SummedHeader ==
  ASSUME NEW d \in Datagram
  PROVE  /\ SumHeader[d] = [d EXCEPT !.sum = HeaderSum(d)]
         /\ SumHeader[d] \in Datagram
         /\ d.fit => sr_valid_ip_packet(SumHeader[d])
         /\ RfcValid(HeaderOctets(SumHeader[d]))
<1>1. PICK e : e = [d EXCEPT !.sum = HeaderSum(d)] OBVIOUS
<1>2. SumHeader[d] = e BY <1>1 DEF SumHeader
<1>3. HeaderSum(d) \in Word BY Unsummed
<1>4. e \in Datagram /\ e.sum = HeaderSum(d) /\ e.fit = d.fit
  BY <1>1, <1>3 DEF Datagram
<1>5. [e EXCEPT !.sum = 0] = [d EXCEPT !.sum = 0] BY <1>1 DEF Datagram
<1>6. HeaderSum(e) = HeaderSum(d) BY <1>5 DEF HeaderSum
<1>7. d.fit => sr_valid_ip_packet(e) BY <1>4, <1>6 DEF sr_valid_ip_packet
<1>8. Weight(e) = Weight([d EXCEPT !.sum = 0]) + HeaderSum(d) BY <1>4, <1>5, Unsummed
<1>9. \E k \in Nat \ {0} : Weight(e) = k * WordMax BY <1>8, Unsummed
<1>10. RfcValid(HeaderOctets(e)) BY <1>4, <1>9, ValidWeight
<1>11. QED BY <1>1, <1>2, <1>4, <1>7, <1>10

\* The octets of a body.
LEMMA BodySums ==
  ASSUME NEW b \in Body
  PROVE  /\ BodyOctets(b) \in Seq(Octet) /\ Len(BodyOctets(b)) = 4 + Len(b.data)
         /\ \A k \in 5 .. 4 + Len(b.data) : BodyOctets(b)[k] = b.data[k - 4]
         /\ Sums(BodyOctets(b))[4] = Base * b.type + b.code + b.sum
<1>1. PICK t, c \in Octet, w \in Word, z \in Seq(Octet) :
        t = b.type /\ c = b.code /\ w = b.sum /\ z = b.data
  BY DEF Body
<1>2. PICK e, f \in Octet : OctetsOf(w) = <<e, f>> /\ Base * e + f = w
  <2>1. PICK e, f : e = OctetsOf(w)[1] /\ f = OctetsOf(w)[2] OBVIOUS
  <2>2. e \in Octet /\ f \in Octet /\ Base * e + f = w BY <1>1, <2>1, WordOctets
  <2>3. OctetsOf(w) = <<e, f>> BY <2>1 DEF OctetsOf
  <2>4. QED BY <2>2, <2>3
<1>3. PICK c2, c4, data : c2 = <<t, c>> /\ c4 = c2 \o <<e, f>> /\ data = c4 \o z OBVIOUS
<1>4. data = BodyOctets(b) BY <1>1, <1>2, <1>3 DEF BodyOctets
<1>5. c2 \in Seq(Octet) /\ Len(c2) = 2 /\ c2[1] = t /\ c2[2] = c BY <1>1, <1>3
<1>6. /\ c4 \in Seq(Octet) /\ Len(c4) = 4
      /\ c4[1] = t /\ c4[2] = c /\ c4[3] = e /\ c4[4] = f
  <2>1. /\ c4 \in Seq(Octet) /\ Len(c4) = 2 + 2 /\ \A k \in 1 .. 2 : c4[k] = c2[k]
        /\ c4[2 + 1] = e /\ c4[2 + 2] = f
    BY <1>2, <1>3, <1>5, TwoMore
  <2>2. QED BY <1>5, <2>1
<1>7. PICK n \in Nat : n = Len(z) BY <1>1
<1>8. /\ data \in Seq(Octet) /\ Len(data) = 4 + n
      /\ \A k \in 1 .. 4 + n : data[k] = IF k <= 4 THEN c4[k] ELSE z[k - 4]
  <2>1. /\ c4 \o z \in Seq(Octet) /\ Len(c4 \o z) = Len(c4) + Len(z)
        /\ \A k \in 1 .. Len(c4) + Len(z) :
             (c4 \o z)[k] = IF k <= Len(c4) THEN c4[k] ELSE z[k - Len(c4)]
    BY <1>1, <1>6, ConcatProperties
  <2>2. QED BY <1>3, <1>6, <1>7, <2>1
<1>9. \A k \in 5 .. 4 + n : data[k] = z[k - 4]
  <2> TAKE k \in 5 .. 4 + n
  <2>1. k \in 1 .. 4 + n /\ ~ (k <= 4) BY <1>7
  <2>2. QED BY <1>8, <2>1
<1>10. data[1] = t /\ data[2] = c /\ data[3] = e /\ data[4] = f
  <2>1. \A k \in 1 .. 4 : k \in 1 .. 4 + n /\ k <= 4 BY <1>7
  <2>2. \A k \in 1 .. 4 : data[k] = c4[k] BY <1>8, <2>1
  <2>3. QED BY <1>6, <2>2
<1>11. PICK s : s = Sums(data) OBVIOUS
<1>12. /\ s[0] = 0 /\ s[1] = s[0] + Added(data, 1) /\ s[2] = s[1] + Added(data, 2)
       /\ s[3] = s[2] + Added(data, 3) /\ s[4] = s[3] + Added(data, 4)
  <2>1. Len(data) \in Nat BY <1>8
  <2>2. Running(s, data) BY <1>11, <2>1, SumsIs
  <2>3. s[0] = 0 /\ \A k \in 1 .. 4 + n : s[k] = s[k - 1] + Added(data, k)
    BY <1>8, <2>2 DEF Running
  <2>4. 1 \in 1 .. 4 + n /\ 2 \in 1 .. 4 + n /\ 3 \in 1 .. 4 + n /\ 4 \in 1 .. 4 + n
    BY <1>7
  <2>5. 1 - 1 = 0 /\ 2 - 1 = 1 /\ 3 - 1 = 2 /\ 4 - 1 = 3 OBVIOUS
  <2>6. QED BY <2>3, <2>4, <2>5
<1>13. PICK B \in Nat : B = Base BY WidthFacts
<1>14. /\ Added(data, 1) = B * t /\ Added(data, 2) = c
       /\ Added(data, 3) = B * e /\ Added(data, 4) = f
  <2>1. 1 % 2 = 1 /\ 3 % 2 = 1 /\ 2 % 2 = 0 /\ 4 % 2 = 0 OBVIOUS
  <2>2. QED BY <1>10, <1>13, <2>1 DEF Added
<1>15. t \in Nat /\ c \in Nat /\ e \in Nat /\ f \in Nat BY <1>1, <1>2 DEF Octet
<1>16. PICK T, E \in Nat : T = B * t /\ E = B * e
  <2>1. B * t \in Nat /\ B * e \in Nat BY <1>13, <1>15
  <2>2. QED BY <2>1
<1>17. s[4] = T + c + E + f BY <1>12, <1>14, <1>15, <1>16
<1>18. E + f = w BY <1>2, <1>13, <1>16
<1>19. s[4] = T + c + w BY <1>15, <1>16, <1>17, <1>18
<1>20. QED BY <1>1, <1>4, <1>7, <1>8, <1>9, <1>11, <1>13, <1>16, <1>19

\* What the checksum of a body is computed over, and what it adds.
LEMMA BodyUnsummed ==
  ASSUME NEW b \in Body, NEW z, z = [b EXCEPT !.sum = 0]
  PROVE  /\ z \in Body /\ BodyOctets(z) \in Seq(Octet)
         /\ SumOf(BodyOctets(b)) = SumOf(BodyOctets(z)) + b.sum
<1>1. 0 \in Word BY WidthFacts DEF Word
<1>2. z \in Body BY <1>1 DEF Body
<1>3. z.type = b.type /\ z.code = b.code /\ z.sum = 0 /\ z.data = b.data BY DEF Body
<1>4. PICK x, y : x = BodyOctets(z) /\ y = BodyOctets(b) OBVIOUS
<1>5. PICK n \in Nat : n = 4 + Len(b.data)
  <2>1. b.data \in Seq(Octet) BY DEF Body
  <2>2. 4 + Len(b.data) \in Nat BY <2>1
  <2>3. QED BY <2>2
<1>6. /\ y \in Seq(Octet) /\ n = Len(y)
      /\ \A j \in 5 .. n : y[j] = b.data[j - 4]
      /\ Sums(y)[4] = Base * b.type + b.code + b.sum
  BY <1>4, <1>5, BodySums
<1>7. /\ x \in Seq(Octet) /\ n = Len(x)
      /\ \A j \in 5 .. n : x[j] = b.data[j - 4]
      /\ Sums(x)[4] = Base * b.type + b.code + 0
  BY <1>2, <1>3, <1>4, <1>5, BodySums
<1>8. PICK c \in Nat : c = b.sum BY DEF Body, Word
<1>9. Sums(y)[4] = Sums(x)[4] + c
  <2>1. b.type \in Nat /\ b.code \in Nat BY DEF Body, Octet
  <2>2. PICK t \in Nat : t = Base * b.type BY <2>1, WidthFacts
  <2>3. QED BY <1>6, <1>7, <1>8, <2>1, <2>2
<1>10. \A j \in 4 + 1 .. n : y[j] = x[j] BY <1>6, <1>7
<1>11. 4 \in 0 .. n
  <2>1. b.data \in Seq(Octet) BY DEF Body
  <2>2. QED BY <1>5, <2>1
<1>12. SumOf(y) = SumOf(x) + c BY <1>6, <1>7, <1>8, <1>9, <1>10, <1>11, SameEnd
<1>13. QED BY <1>2, <1>4, <1>7, <1>8, <1>12

\* A body whose checksum was computed last is valid.
LEMMA SummedBody ==
  ASSUME NEW b \in Body
  PROVE  /\ IcmpSum(b) \in Word
         /\ [b EXCEPT !.sum = IcmpSum(b)] \in Body
         /\ RfcValid(BodyOctets([b EXCEPT !.sum = IcmpSum(b)]))
<1>1. PICK z : z = [b EXCEPT !.sum = 0] OBVIOUS
<1>2. PICK x : x = BodyOctets(z) OBVIOUS
<1>3. x \in Seq(Octet) BY <1>1, <1>2, BodyUnsummed
<1>4. PICK c : c = IcmpSum(b) OBVIOUS
<1>5. c = cksum(x) BY <1>1, <1>2, <1>4 DEF IcmpSum
<1>6. c \in Word BY <1>3, <1>5, CksumFacts
<1>7. PICK k \in Nat \ {0} : SumOf(x) + c = k * WordMax BY <1>3, <1>5, CksumFacts
<1>8. PICK e : e = [b EXCEPT !.sum = c] OBVIOUS
<1>9. e \in Body /\ e.sum = c BY <1>6, <1>8 DEF Body
<1>10. z = [e EXCEPT !.sum = 0] BY <1>1, <1>8 DEF Body
<1>11. SumOf(BodyOctets(e)) = SumOf(x) + c BY <1>2, <1>9, <1>10, BodyUnsummed
<1>12. BodyOctets(e) \in Seq(Octet) BY <1>9, BodySums
<1>13. RfcValid(BodyOctets(e)) BY <1>7, <1>11, <1>12, ValidIsMultiple
<1>14. QED BY <1>4, <1>6, <1>8, <1>9, <1>13

\* It is no part of the header.
LEMMA SummedIcmp ==
  ASSUME NEW d \in Datagram
  PROVE  /\ SumIcmp[d] = [d EXCEPT !.body.sum = IcmpSum(d.body)]
         /\ SumIcmp[d] \in Datagram
         /\ RfcValid(BodyOctets(SumIcmp[d].body))
         /\ sr_valid_ip_packet(SumIcmp[d]) <=> sr_valid_ip_packet(d)
         /\ HeaderOctets(SumIcmp[d]) = HeaderOctets(d)
<1>1. PICK b \in Body : b = d.body BY DEF Datagram
<1>2. PICK c : c = [b EXCEPT !.sum = IcmpSum(b)] OBVIOUS
<1>3. c \in Body /\ RfcValid(BodyOctets(c)) BY <1>1, <1>2, SummedBody
<1>4. PICK e : e = [d EXCEPT !.body = c] OBVIOUS
<1>5. e = [d EXCEPT !.body.sum = IcmpSum(d.body)] BY <1>1, <1>2, <1>4
<1>6. SumIcmp[d] = e BY <1>5 DEF SumIcmp
<1>7. e \in Datagram /\ e.body = c BY <1>3, <1>4 DEF Datagram
<1>8. /\ e.id = d.id /\ e.ttl = d.ttl /\ e.p = d.p /\ e.sum = d.sum
      /\ e.src = d.src /\ e.dst = d.dst /\ e.fit = d.fit
  BY <1>4 DEF Datagram
<1>9. HeaderOctets(e) = HeaderOctets(d) BY <1>8 DEF HeaderOctets
<1>10. PICK f, g : f = [e EXCEPT !.sum = 0] /\ g = [d EXCEPT !.sum = 0] OBVIOUS
<1>11. /\ f.id = e.id /\ f.ttl = e.ttl /\ f.p = e.p /\ f.sum = 0
       /\ f.src = e.src /\ f.dst = e.dst
  BY <1>7, <1>10 DEF Datagram
<1>12. /\ g.id = d.id /\ g.ttl = d.ttl /\ g.p = d.p /\ g.sum = 0
       /\ g.src = d.src /\ g.dst = d.dst
  BY <1>10 DEF Datagram
<1>13. HeaderOctets(f) = HeaderOctets(g) BY <1>8, <1>11, <1>12 DEF HeaderOctets
<1>14. HeaderSum(e) = HeaderSum(d) BY <1>10, <1>13 DEF HeaderSum
<1>15. sr_valid_ip_packet(e) <=> sr_valid_ip_packet(d)
  BY <1>8, <1>14 DEF sr_valid_ip_packet
<1>16. QED BY <1>3, <1>5, <1>6, <1>7, <1>9, <1>15

-----------------------------------------------------------------------------
(* What a link may do to a header without the checksum showing it.         *)

\* Two multiples of W that differ in one part, at most W, differ in it by W.
LEMMA NearMultiples ==
  ASSUME NEW W \in Nat \ {0}, NEW z \in Nat, NEW k \in Nat, NEW l \in Nat,
         NEW x \in 0 .. W, NEW y \in 0 .. W, x + z = k * W, y + z = l * W
  PROVE  x = y \/ (x = 0 /\ y = W) \/ (x = W /\ y = 0)
<1>1. CASE k = l BY <1>1
<1>2. CASE k < l
  <2>1. k * W + W <= l * W BY <1>2
  <2>2. PICK a, b \in Nat : a = k * W /\ b = l * W
    <3>1. k * W \in Nat /\ l * W \in Nat OBVIOUS
    <3>2. QED BY <3>1
  <2>3. QED BY <2>1, <2>2
<1>3. CASE l < k
  <2>1. l * W + W <= k * W BY <1>3
  <2>2. PICK a, b \in Nat : a = k * W /\ b = l * W
    <3>1. k * W \in Nat /\ l * W \in Nat OBVIOUS
    <3>2. QED BY <3>1
  <2>3. QED BY <2>1, <2>2
<1>4. QED BY <1>1, <1>2, <1>3

\* One part of a weight, of two valid headers with the same rest.
LEMMA PartOfWeight ==
  ASSUME NEW d \in Datagram, NEW e \in Datagram, NEW z \in Nat, NEW x, NEW y,
         x \in Word, y \in Word, Weight(d) = x + z, Weight(e) = y + z,
         RfcValid(HeaderOctets(d)), RfcValid(HeaderOctets(e))
  PROVE  /\ x = y \/ (x = 0 /\ y = WordMax) \/ (x = WordMax /\ y = 0)
         /\ SameWord(x, y)
<1>1. PICK W \in Nat \ {0} : W = WordMax BY WidthFacts
<1>2. PICK k \in Nat : x + z = k * W BY <1>1, ValidWeight
<1>3. PICK l \in Nat : y + z = l * W BY <1>1, ValidWeight
<1>4. x \in 0 .. W /\ y \in 0 .. W BY <1>1 DEF Word
<1>5. x = y \/ (x = 0 /\ y = W) \/ (x = W /\ y = 0)
  BY <1>2, <1>3, <1>4, NearMultiples
<1>6. 0 % W = 0 /\ W % W = 0 OBVIOUS
<1>7. SameWord(x, y) BY <1>1, <1>5, <1>6 DEF SameWord
<1>8. QED BY <1>1, <1>5, <1>7

\* The fields that Altered names.
LEMMA AlteredFields ==
  /\ DOMAIN Altered = {"id", "ttl", "p", "sum", "src", "dst"}
  /\ Altered["id"] = Word /\ Altered["ttl"] = Octet /\ Altered["p"] = Octet
  /\ Altered["sum"] = Word /\ Altered["src"] = Ip /\ Altered["dst"] = Ip
BY DEF Altered

\* d with another value of one of those fields.
Changed(d, field, v) == [d EXCEPT ![field] = v]

\* A datagram with a field altered is a datagram.
LEMMA AlteredType ==
  ASSUME NEW d \in Datagram, NEW field \in DOMAIN Altered, NEW v \in Altered[field]
  PROVE  Changed(d, field, v) \in Datagram
<1>1. CASE field = "id" BY <1>1, AlteredFields DEF Datagram, Changed
<1>2. CASE field = "ttl" BY <1>2, AlteredFields DEF Datagram, Changed
<1>3. CASE field = "p" BY <1>3, AlteredFields DEF Datagram, Changed
<1>4. CASE field = "sum" BY <1>4, AlteredFields DEF Datagram, Changed
<1>5. CASE field = "src" BY <1>5, AlteredFields DEF Datagram, Changed
<1>6. CASE field = "dst" BY <1>6, AlteredFields DEF Datagram, Changed
<1>7. QED BY <1>1, <1>2, <1>3, <1>4, <1>5, <1>6, AlteredFields

\* Octets that count once or Base times stay below WordMax.
LEMMA OctetParts ==
  ASSUME NEW x \in Octet
  PROVE  /\ x \in Word /\ x < WordMax /\ Base * x \in Word /\ Base * x < WordMax
         /\ \A y \in Octet : Base * x = Base * y => x = y
<1>1. PICK B, M, W \in Nat : B = Base /\ M = OctetMax /\ W = WordMax BY WidthFacts
<1>2. B = M + 1 /\ M # 0 /\ M * B < W BY <1>1, WidthFacts
<1>3. x \in 0 .. M BY <1>1 DEF Octet
<1>4. B * x <= M * B /\ B * x \in Nat BY <1>2, <1>3
<1>5. x <= B * x BY <1>2, <1>3
<1>6. \A y \in 0 .. M : B * x = B * y => x = y BY <1>2, <1>3
<1>7. M * B \in Nat BY <1>1
<1>8. x < W /\ B * x < W BY <1>2, <1>3, <1>4, <1>5, <1>7
<1>9. QED BY <1>1, <1>3, <1>4, <1>6, <1>8 DEF Octet, Word

\* e is d but for its checksum and the two zeros of id.
Alike(e, d) == e = [d EXCEPT !.id = e.id, !.sum = e.sum] /\ SameWord(e.id, d.id)

\* x completes z to a multiple of W.
Completes(x, z, W) == \E k \in Nat : x + z = k * W

\* Numbers that complete the same rest have one remainder.
LEMMA SameRemainder ==
  ASSUME NEW W \in Nat \ {0}, NEW x \in Nat, NEW y \in Nat, NEW z \in Nat,
         Completes(x, z, W), Completes(y, z, W)
  PROVE  x % W = y % W
<1>1. PICK k \in Nat : x + z = k * W BY DEF Completes
<1>2. PICK l \in Nat : y + z = l * W BY DEF Completes
<1>3. PICK q, r \in Nat : r < W /\ x = W * q + r /\ r = x % W
  <2>1. x \div W \in Nat /\ x % W \in Nat /\ x % W < W /\ x = W * (x \div W) + (x % W)
    BY Divide
  <2>2. QED BY <2>1
<1>4. PICK p, t \in Nat : t < W /\ y = W * p + t /\ t = y % W
  <2>1. y \div W \in Nat /\ y % W \in Nat /\ y % W < W /\ y = W * (y \div W) + (y % W)
    BY Divide
  <2>2. QED BY <2>1
<1>5. W * q + r + l * W = W * p + t + k * W
  <2>1. PICK K, L \in Nat : K = k * W /\ L = l * W
    <3>1. k * W \in Nat /\ l * W \in Nat OBVIOUS
    <3>2. QED BY <3>1
  <2>2. x + L = y + K BY <1>1, <1>2, <2>1
  <2>3. QED BY <1>3, <1>4, <2>1, <2>2
<1>6. PICK m, n \in Nat : m = q + l /\ n = p + k OBVIOUS
<1>7. W * m + r = W * n + t
  <2>1. W * m = W * q + l * W /\ W * n = W * p + k * W BY <1>6
  <2>2. PICK A, C, D, E \in Nat : A = W * q /\ C = l * W /\ D = W * p /\ E = k * W
    <3>1. W * q \in Nat /\ l * W \in Nat /\ W * p \in Nat /\ k * W \in Nat OBVIOUS
    <3>2. QED BY <3>1
  <2>3. A + r + C = D + t + E BY <1>5, <2>2
  <2>4. W * m = A + C /\ W * n = D + E BY <2>1, <2>2
  <2>5. QED BY <2>3, <2>4
<1>8. r = t
  <2>1. CASE m = n BY <1>7, <2>1
  <2>2. CASE m < n
    <3>1. W * n >= W * m + W BY <2>2
    <3>2. PICK X, Y \in Nat : X = W * m /\ Y = W * n
      <4>1. W * m \in Nat /\ W * n \in Nat OBVIOUS
      <4>2. QED BY <4>1
    <3>3. QED BY <1>3, <1>7, <3>1, <3>2
  <2>3. CASE n < m
    <3>1. W * m >= W * n + W BY <2>3
    <3>2. PICK X, Y \in Nat : X = W * m /\ Y = W * n
      <4>1. W * m \in Nat /\ W * n \in Nat OBVIOUS
      <4>2. QED BY <4>1
    <3>3. QED BY <1>4, <1>7, <3>1, <3>2
  <2>4. QED BY <2>1, <2>2, <2>3
<1>9. QED BY <1>3, <1>4, <1>8

\* The two addresses of a weight.
LEMMA AddressInWeight ==
  ASSUME NEW d \in Datagram, NEW e \in Datagram, NEW z \in Nat, NEW x \in Ip,
         NEW y \in Ip, Weight(d) = AddressSum(x) + z, Weight(e) = AddressSum(y) + z,
         RfcValid(HeaderOctets(d)), RfcValid(HeaderOctets(e))
  PROVE  SameAddress(y, x)
<1>1. PICK W \in Nat \ {0} : W = WordMax BY WidthFacts
<1>2. PICK u, v \in Nat : u = AddressSum(x) /\ v = AddressSum(y) BY AddressWords
<1>3. Completes(u, z, W)
  <2>1. \E k \in Nat \ {0} : Weight(d) = k * W BY <1>1, ValidWeight
  <2>2. QED BY <1>2, <2>1 DEF Completes
<1>4. Completes(v, z, W)
  <2>1. \E l \in Nat \ {0} : Weight(e) = l * W BY <1>1, ValidWeight
  <2>2. QED BY <1>2, <2>1 DEF Completes
<1>5. u % W = v % W BY <1>3, <1>4, SameRemainder
<1>6. QED BY <1>1, <1>2, <1>5 DEF SameAddress, SameWord

\* An alteration of an address that no checksum shows.
Hidden(d, field, v) == field \in {"src", "dst"} /\ SameAddress(v, d[field])

\* A header that is still valid after one field has changed has changed its
\* checksum, the word id to the other zero, or an address to one whose words
\* have the same sum.
LEMMA OneField ==
  ASSUME NEW d \in Datagram, NEW field \in DOMAIN Altered, NEW v \in Altered[field],
         v # d[field], NEW e, e = Changed(d, field, v),
         RfcValid(HeaderOctets(d)), RfcValid(HeaderOctets(e))
  PROVE  Alike(e, d) \/ Hidden(d, field, v)
<1>1. e \in Datagram BY AlteredType
<1>2. PICK i, t, p, c, s, w \in Nat :
        /\ i = d.id /\ t = Base * d.ttl /\ p = d.p /\ c = d.sum
        /\ s = AddressSum(d.src) /\ w = AddressSum(d.dst)
  BY FieldTypes
<1>3. Weight(d) = i + t + p + c + s + w BY <1>2 DEF Weight
<1>4. /\ d.id \in Word /\ d.ttl \in Octet /\ d.p \in Octet /\ d.src \in Ip
      /\ d.dst \in Ip
  BY FieldTypes
<1>5. ASSUME field = "id" PROVE SameWord(e.id, d.id) /\ e = [d EXCEPT !.id = e.id, !.sum = e.sum]
  <2>1. e = [d EXCEPT !.id = v] /\ e.id = v /\ v \in Word BY <1>5, AlteredFields DEF Datagram, Changed
  <2>2. e.ttl = d.ttl /\ e.p = d.p /\ e.sum = d.sum /\ e.src = d.src /\ e.dst = d.dst
    BY <2>1 DEF Datagram
  <2>3. v \in Nat BY <2>1 DEF Word
  <2>4. Weight(e) = v + t + p + c + s + w BY <1>2, <2>1, <2>2 DEF Weight
  <2>5. PICK z \in Nat : z = t + p + c + s + w BY <1>2
  <2>6. Weight(e) = v + z /\ Weight(d) = i + z
    <3>1. \A x \in Nat : x + t + p + c + s + w = x + z BY <1>2, <2>5
    <3>2. QED BY <1>2, <1>3, <2>3, <2>4, <3>1
  <2>7. SameWord(v, i) BY <1>1, <1>2, <1>4, <2>1, <2>6, PartOfWeight
  <2>8. e = [d EXCEPT !.id = e.id, !.sum = e.sum] BY <2>1, <2>2 DEF Datagram
  <2>9. QED BY <1>2, <2>1, <2>7, <2>8
<1>6. ASSUME field = "sum" PROVE SameWord(e.id, d.id) /\ e = [d EXCEPT !.id = e.id, !.sum = e.sum]
  <2>1. e = [d EXCEPT !.sum = v] /\ e.sum = v /\ e.id = d.id BY <1>6 DEF Datagram, Changed
  <2>2. SameWord(e.id, d.id) BY <2>1 DEF SameWord
  <2>3. e = [d EXCEPT !.id = e.id, !.sum = e.sum] BY <2>1 DEF Datagram
  <2>4. QED BY <2>2, <2>3
<1>7. ASSUME field = "ttl" PROVE FALSE
  <2>1. e = [d EXCEPT !.ttl = v] /\ e.ttl = v /\ v \in Octet BY <1>7, AlteredFields DEF Datagram, Changed
  <2>2. e.id = d.id /\ e.p = d.p /\ e.sum = d.sum /\ e.src = d.src /\ e.dst = d.dst
    BY <2>1 DEF Datagram
  <2>3. PICK u \in Nat : u = Base * v /\ u \in Word /\ u < WordMax
    <3>1. Base * v \in Word /\ Base * v < WordMax BY <2>1, OctetParts
    <3>2. QED BY <3>1 DEF Word
  <2>4. Weight(e) = i + u + p + c + s + w BY <1>2, <2>1, <2>2, <2>3 DEF Weight
  <2>5. PICK z \in Nat : z = i + p + c + s + w BY <1>2
  <2>6. Weight(e) = u + z /\ Weight(d) = t + z
    <3>1. \A x \in Nat : i + x + p + c + s + w = x + z BY <1>2, <2>5
    <3>2. QED BY <1>2, <1>3, <2>3, <2>4, <3>1
  <2>7. t \in Word /\ t < WordMax BY <1>2, <1>4, OctetParts
  <2>8. t = u \/ (t = 0 /\ u = WordMax) \/ (t = WordMax /\ u = 0)
    BY <1>1, <2>3, <2>6, <2>7, PartOfWeight
  <2>9. t = u BY <2>3, <2>7, <2>8, WidthFacts
  <2>10. QED BY <1>2, <1>4, <1>7, <2>1, <2>3, <2>9, OctetParts
<1>8. ASSUME field = "p" PROVE FALSE
  <2>1. e = [d EXCEPT !.p = v] /\ e.p = v /\ v \in Octet
    BY <1>8, AlteredFields DEF Datagram, Changed
  <2>2. e.id = d.id /\ e.ttl = d.ttl /\ e.sum = d.sum /\ e.src = d.src /\ e.dst = d.dst
    BY <2>1 DEF Datagram
  <2>3. v \in Nat /\ v \in Word /\ v < WordMax
    <3>1. v \in Word /\ v < WordMax BY <2>1, OctetParts
    <3>2. QED BY <3>1 DEF Word
  <2>4. Weight(e) = i + t + v + c + s + w BY <1>2, <2>1, <2>2 DEF Weight
  <2>5. PICK z \in Nat : z = i + t + c + s + w BY <1>2
  <2>6. Weight(e) = v + z /\ Weight(d) = p + z BY <1>2, <1>3, <2>3, <2>4, <2>5
  <2>7. p \in Word /\ p < WordMax BY <1>2, <1>4, OctetParts
  <2>8. p = v \/ (p = 0 /\ v = WordMax) \/ (p = WordMax /\ v = 0)
    BY <1>1, <2>3, <2>6, <2>7, PartOfWeight
  <2>9. QED BY <1>2, <1>8, <2>3, <2>7, <2>8, WidthFacts
<1>9. ASSUME field = "src" PROVE SameAddress(v, d.src)
  <2>1. e = [d EXCEPT !.src = v] /\ e.src = v /\ v \in Ip
    BY <1>9, AlteredFields DEF Datagram, Changed
  <2>2. e.id = d.id /\ e.ttl = d.ttl /\ e.sum = d.sum /\ e.p = d.p /\ e.dst = d.dst
    BY <2>1 DEF Datagram
  <2>3. PICK x \in Nat : x = AddressSum(v) BY <2>1, AddressWords
  <2>4. Weight(e) = i + t + p + c + x + w BY <1>2, <2>1, <2>2, <2>3 DEF Weight
  <2>5. PICK z \in Nat : z = i + t + p + c + w BY <1>2
  <2>6. Weight(e) = x + z /\ Weight(d) = s + z BY <1>2, <1>3, <2>3, <2>4, <2>5
  <2>7. QED BY <1>1, <1>2, <1>4, <2>1, <2>3, <2>6, AddressInWeight
<1>10. ASSUME field = "dst" PROVE SameAddress(v, d.dst)
  <2>1. e = [d EXCEPT !.dst = v] /\ e.dst = v /\ v \in Ip
    BY <1>10, AlteredFields DEF Datagram, Changed
  <2>2. e.id = d.id /\ e.ttl = d.ttl /\ e.sum = d.sum /\ e.p = d.p /\ e.src = d.src
    BY <2>1 DEF Datagram
  <2>3. PICK x \in Nat : x = AddressSum(v) BY <2>1, AddressWords
  <2>4. Weight(e) = i + t + p + c + s + x BY <1>2, <2>1, <2>2, <2>3 DEF Weight
  <2>5. PICK z \in Nat : z = i + t + p + c + s BY <1>2
  <2>6. Weight(e) = x + z /\ Weight(d) = w + z BY <1>2, <1>3, <2>3, <2>4, <2>5
  <2>7. QED BY <1>1, <1>2, <1>4, <2>1, <2>3, <2>6, AddressInWeight
<1>11. field \in {"src", "dst"} => Hidden(d, field, v) BY <1>9, <1>10 DEF Hidden
<1>12. QED BY <1>5, <1>6, <1>7, <1>8, <1>11, AlteredFields DEF Alike

-----------------------------------------------------------------------------
(* The datagrams that a router makes.                                      *)

\* An ICMP error quotes the header of the datagram it is about.
LEMMA QuoteFacts ==
  ASSUME NEW d \in Datagram
  PROVE  /\ Quote(d) \in Seq(Octet)
         /\ \A k \in 1 .. 14 : Quote(d)[k] = HeaderOctets(d)[k]
<1>1. PICK n \in Nat : n = ICMP_DATA_SIZE /\ n >= 14 BY SizeAssumption
<1>2. PICK h, b, z, hb, s :
        /\ h = HeaderOctets(d) /\ b = BodyOctets(d.body) /\ z = [k \in 1 .. n |-> 0]
        /\ hb = h \o b /\ s = hb \o z
  OBVIOUS
<1>3. h \in Seq(Octet) /\ Len(h) = 14 BY <1>2, HeaderSums
<1>4. PICK m \in Nat : b \in Seq(Octet) /\ Len(b) = m
  <2>1. d.body \in Body BY DEF Datagram
  <2>2. b \in Seq(Octet) BY <1>2, <2>1, BodySums
  <2>3. QED BY <2>2
<1>5. 0 \in Octet BY OctetAssumption DEF Octet
<1>6. z \in Seq(Octet) /\ Len(z) = n BY <1>1, <1>2, <1>5
<1>7. /\ hb \in Seq(Octet) /\ Len(hb) = 14 + m
      /\ \A k \in 1 .. 14 + m : hb[k] = IF k <= 14 THEN h[k] ELSE b[k - 14]
  <2>1. /\ h \o b \in Seq(Octet) /\ Len(h \o b) = Len(h) + Len(b)
        /\ \A k \in 1 .. Len(h) + Len(b) :
             (h \o b)[k] = IF k <= Len(h) THEN h[k] ELSE b[k - Len(h)]
    BY <1>3, <1>4, ConcatProperties
  <2>2. QED BY <1>2, <1>3, <1>4, <2>1
<1>8. /\ s \in Seq(Octet) /\ Len(s) = 14 + m + n
      /\ \A k \in 1 .. 14 + m + n : s[k] = IF k <= 14 + m THEN hb[k] ELSE z[k - (14 + m)]
  <2>1. /\ hb \o z \in Seq(Octet) /\ Len(hb \o z) = Len(hb) + Len(z)
        /\ \A k \in 1 .. Len(hb) + Len(z) :
             (hb \o z)[k] = IF k <= Len(hb) THEN hb[k] ELSE z[k - Len(hb)]
    BY <1>6, <1>7, ConcatProperties
  <2>2. QED BY <1>2, <1>6, <1>7, <2>1
<1>9. \A k \in 1 .. 14 : s[k] = h[k]
  <2> TAKE k \in 1 .. 14
  <2>1. k \in 1 .. 14 + m /\ k \in 1 .. 14 + m + n /\ k <= 14 /\ k <= 14 + m
    BY <1>1, <1>4
  <2>2. s[k] = hb[k] BY <1>8, <2>1
  <2>3. hb[k] = h[k] BY <1>7, <2>1
  <2>4. QED BY <2>2, <2>3
<1>10. Quote(d) = SubSeq(s, 1, n) BY <1>1, <1>2 DEF Quote
<1>11. PICK q : q = SubSeq(s, 1, n) OBVIOUS
<1>12. 1 \in 1 .. Len(s) + 1 /\ n \in 0 .. Len(s) BY <1>1, <1>4, <1>8
<1>13. q \in Seq(Octet) /\ \A k \in 1 .. n : q[k] = s[k]
  <2>1. \A k \in 1 .. n : s[k] \in Octet
    <3>1. \A k \in 1 .. n : k \in 1 .. Len(s) BY <1>1, <1>4, <1>8
    <3>2. QED BY <1>8, <3>1, ElementOfSeq
  <2>2. q = [k \in 1 .. n |-> s[k]]
    BY <1>1, <1>8, <1>11, <1>12
  <2>3. QED BY <1>1, <2>1, <2>2
<1>14. \A k \in 1 .. 14 : k \in 1 .. n BY <1>1
<1>15. QED BY <1>2, <1>9, <1>10, <1>11, <1>13, <1>14

\* What the next router, and the host at the end, accept.
Sound(d) ==
  /\ d \in Datagram
  /\ sr_valid_ip_packet(d)
  /\ RfcValid(HeaderOctets(d))

\* The last two calls of sr_send_icmp_error and sr_send_icmp_echo_reply.
LEMMA BothSums ==
  ASSUME NEW d \in Datagram, d.fit, NEW e, e = SumIcmp[SumHeader[d]]
  PROVE  /\ Sound(e) /\ RfcValid(BodyOctets(e.body))
         /\ e.src = d.src /\ e.dst = d.dst /\ e.ttl = d.ttl
         /\ e.body.type = d.body.type /\ e.body.data = d.body.data
<1>1. PICK h : h = SumHeader[d] OBVIOUS
<1>2. /\ h = [d EXCEPT !.sum = HeaderSum(d)] /\ h \in Datagram
      /\ sr_valid_ip_packet(h) /\ RfcValid(HeaderOctets(h))
  BY <1>1, SummedHeader
<1>3. h.src = d.src /\ h.dst = d.dst /\ h.ttl = d.ttl /\ h.body = d.body BY <1>2 DEF Datagram
<1>4. e = SumIcmp[h] BY <1>1
<1>5. /\ e = [h EXCEPT !.body.sum = IcmpSum(h.body)] /\ e \in Datagram
      /\ RfcValid(BodyOctets(e.body)) /\ sr_valid_ip_packet(e)
      /\ HeaderOctets(e) = HeaderOctets(h)
  BY <1>2, <1>4, SummedIcmp
<1>6. /\ e.src = h.src /\ e.dst = h.dst /\ e.ttl = h.ttl
      /\ e.body = [h.body EXCEPT !.sum = IcmpSum(h.body)]
  BY <1>2, <1>5 DEF Datagram
<1>7. h.body \in Body BY <1>2 DEF Datagram
<1>8. e.body.type = h.body.type /\ e.body.data = h.body.data BY <1>6, <1>7 DEF Body
<1>9. QED BY <1>2, <1>3, <1>5, <1>6, <1>8 DEF Sound

\* An ICMP error.
LEMMA ErrorFacts ==
  ASSUME NEW d \in Datagram, NEW src \in Ip, NEW type \in {3, 11}, NEW code \in {0, 1, 3},
         NEW e, e = IcmpError(src, d, type, code)
  PROVE  /\ Sound(e) /\ RfcValid(BodyOctets(e.body))
         /\ e.src = src /\ e.dst = d.src /\ e.ttl = INIT_TTL
         /\ e.body.type = type /\ e.body.data = Quote(d)
<1>1. PICK b : b = [type |-> type, code |-> code, sum |-> 0, data |-> Quote(d)] OBVIOUS
<1>2. type \in Octet /\ code \in Octet /\ 0 \in Octet /\ 1 \in Octet
  BY SizeAssumption, OctetAssumption DEF Octet
<1>3. 0 \in Word BY WidthFacts DEF Word
<1>4. b \in Body /\ b.type = type /\ b.data = Quote(d)
  BY <1>1, <1>2, <1>3, QuoteFacts DEF Body
<1>5. PICK m : m = [fit |-> TRUE, id |-> 0, ttl |-> INIT_TTL, p |-> ip_protocol_icmp,
                    sum |-> 0, src |-> src, dst |-> d.src, body |-> b]
  OBVIOUS
<1>6. d.src \in Ip BY DEF Datagram
<1>7. INIT_TTL \in Octet /\ ip_protocol_icmp \in Octet
  BY <1>2, NetworkAssumption DEF ip_protocol_icmp
<1>8. /\ m \in Datagram /\ m.fit /\ m.src = src /\ m.dst = d.src /\ m.body = b
      /\ m.ttl = INIT_TTL
  BY <1>3, <1>4, <1>5, <1>6, <1>7 DEF Datagram
<1>9. e = SumIcmp[SumHeader[m]] BY <1>1, <1>5 DEF IcmpError, IcmpMessage
<1>10. QED BY <1>4, <1>8, <1>9, BothSums

\* An echo reply.
LEMMA ReplyFacts ==
  ASSUME NEW d \in Datagram, d.fit, NEW e, e = EchoReply(d)
  PROVE  /\ Sound(e) /\ RfcValid(BodyOctets(e.body))
         /\ e.src = d.dst /\ e.dst = d.src /\ e.ttl = INIT_TTL
         /\ e.body.type = 0 /\ e.body.data = d.body.data
<1>1. PICK b : b = [d.body EXCEPT !.type = 0, !.code = 0] OBVIOUS
<1>2. d.body \in Body /\ d.src \in Ip /\ d.dst \in Ip BY DEF Datagram
<1>3. 0 \in Octet BY OctetAssumption DEF Octet
<1>4. b \in Body /\ b.type = 0 /\ b.data = d.body.data BY <1>1, <1>2, <1>3 DEF Body
<1>5. PICK m : m = [d EXCEPT !.src = d.dst, !.dst = d.src, !.ttl = INIT_TTL, !.body = b]
  OBVIOUS
<1>6. /\ m \in Datagram /\ m.fit /\ m.src = d.dst /\ m.dst = d.src /\ m.body = b
      /\ m.ttl = INIT_TTL
  BY <1>2, <1>4, <1>5, NetworkAssumption DEF Datagram
<1>7. m = [d EXCEPT !.src = d.dst, !.dst = d.src, !.ttl = INIT_TTL,
                    !.body.type = 0, !.body.code = 0]
  BY <1>1, <1>5
<1>8. e = SumIcmp[SumHeader[m]] BY <1>7 DEF EchoReply
<1>9. QED BY <1>4, <1>6, <1>8, BothSums

\* e is d one router further.
Older(e, d) ==
  /\ Sound(e)
  /\ e = [d EXCEPT !.ttl = e.ttl, !.sum = e.sum]
  /\ e.ttl = d.ttl - 1

\* A datagram that is forwarded.
LEMMA DecrementFacts ==
  ASSUME NEW d \in Datagram, d.fit, d.ttl > 1, NEW e, e = Decrement(d)
  PROVE  Older(e, d)
<1>1. PICK m : m = [d EXCEPT !.ttl = d.ttl - 1] OBVIOUS
<1>2. d.ttl \in Octet BY DEF Datagram
<1>3. d.ttl - 1 \in Octet /\ d.ttl - 1 <= d.ttl
  <2>1. PICK n \in Nat : n = d.ttl /\ n <= OctetMax BY <1>2 DEF Octet
  <2>2. n - 1 \in 0 .. OctetMax /\ n - 1 <= n BY <2>1, OctetAssumption
  <2>3. QED BY <2>1, <2>2 DEF Octet
<1>4. m \in Datagram /\ m.fit /\ m.ttl = d.ttl - 1 BY <1>1, <1>3 DEF Datagram
<1>5. e = SumHeader[m] BY <1>1 DEF Decrement
<1>6. e = [m EXCEPT !.sum = HeaderSum(m)] /\ Sound(e)
  BY <1>4, <1>5, SummedHeader DEF Sound
<1>7. PICK c, t : c = HeaderSum(m) /\ t = d.ttl - 1 OBVIOUS
<1>8. e = [d EXCEPT !.ttl = t, !.sum = c]
  <2>1. m = [d EXCEPT !.ttl = t] /\ e = [m EXCEPT !.sum = c] BY <1>1, <1>6, <1>7
  <2>2. QED BY <2>1 DEF Datagram
<1>9. e.ttl = t /\ e.sum = c BY <1>8 DEF Datagram
<1>10. QED BY <1>6, <1>7, <1>8, <1>9 DEF Older

-----------------------------------------------------------------------------
(* The inductive invariant.                                                *)

\* d is a datagram that a router may have made: an error about orig for its
\* sender, an error about such a datagram for a router, or the reply to orig.
Made(d) ==
  /\ d.src \in RouterIps
  /\ \/ d.body.type \in {3, 11} /\ (d.dst \in RouterIps \/ ErrorAbout(d))
     \/ d.body.type = 0 /\ ReplyTo(d)

\* d has a history, or an alteration that no checksum shows has spoilt it.
Known(d) == unseen \/ Stems(d) \/ Made(d)

\* A frame whose checksum is right, damaged or not, has a history.
Honest == RfcValid(HeaderOctets(frame.d)) => Known(frame.d)

\* What a host takes is addressed to it, with a right checksum.
Arrived == Delivered => RfcValid(HeaderOctets(frame.d)) /\ frame.d.dst \in Hosts

\* Checksums are right until a link damages them.
Undamaged ==
  ~ damaged =>
    /\ ~ unseen
    /\ RfcValid(HeaderOctets(frame.d))
    /\ frame.d.src \in RouterIps => RfcValid(BodyOctets(frame.d.body))

\* A datagram waits as a router sends it, with a header that routers accept.
Placed ==
  /\ stage = "home" => frame.shost \notin RouterIps
  /\ stage = "queue" => frame.shost \in RouterIps /\ sr_valid_ip_packet(frame.d)
  /\ orig.src \in Hosts

JourneyInv == TypeOK /\ LeavesValid /\ Honest /\ Arrived /\ Undamaged /\ Placed

\* Addresses of interfaces are addresses of routers.
LEMMA OwnAddress ==
  ASSUME NEW r \in Routers, NEW i \in Iface
  PROVE  IfIps[r][i] \in RouterIps /\ IfIps[r][i] \in Ip /\ Peer[r][i] \in Ip
<1>1. IfIps[r] \in [Iface -> Ip] /\ Peer[r] \in [Iface -> Ip] BY NetworkAssumption
<1>2. IfIps[r][i] \in Range(IfIps[r]) BY <1>1 DEF Range
<1>3. QED BY <1>1, <1>2 DEF RouterIps

\* A host's gateway is a router.
LEMMA GatewayType ==
  ASSUME NEW h \in Hosts
  PROVE  /\ Gateway(h) \in RouterIps /\ Gateway(h) \in Ip
         /\ Routers # {} /\ Iface # {}
<1>1. PICK r \in Routers, i \in Iface : Peer[r][i] = h BY HostAssumption
<1>2. IfIps[r][i] \in RouterIps BY OwnAddress
<1>3. Gateway(h) \in RouterIps BY <1>1, <1>2 DEF Gateway
<1>4. RouterIps \subseteq Ip
  <2> SUFFICES ASSUME NEW ip \in RouterIps PROVE ip \in Ip OBVIOUS
  <2>1. PICK q \in Routers : ip \in Range(IfIps[q]) BY DEF RouterIps
  <2>2. IfIps[q] \in [Iface -> Ip] BY NetworkAssumption
  <2>3. QED BY <2>1, <2>2 DEF Range
<1>5. QED BY <1>1, <1>3, <1>4

\* Routers and links change of a datagram id, ttl and sum.
LEMMA StemsOn ==
  ASSUME orig \in Datagram, NEW d \in Datagram, NEW e \in Datagram,
         e = [d EXCEPT !.id = e.id, !.ttl = e.ttl, !.sum = e.sum],
         e.ttl <= d.ttl, SameWord(e.id, d.id), Stems(d)
  PROVE  Stems(e)
<1>1. d = [orig EXCEPT !.id = d.id, !.ttl = d.ttl, !.sum = d.sum] BY DEF Stems
<1>2. PICK i, t, c : i = e.id /\ t = e.ttl /\ c = e.sum OBVIOUS
<1>3. PICK j, u, b : j = d.id /\ u = d.ttl /\ b = d.sum OBVIOUS
<1>4. d = [orig EXCEPT !.id = j, !.ttl = u, !.sum = b] BY <1>1, <1>3
<1>5. e = [d EXCEPT !.id = i, !.ttl = t, !.sum = c] BY <1>2
<1>6. e = [orig EXCEPT !.id = i, !.ttl = t, !.sum = c] BY <1>4, <1>5 DEF Datagram
<1>7. SameWord(e.id, orig.id) BY DEF SameWord, Stems
<1>8. e.ttl <= orig.ttl
  <2>1. e.ttl \in Nat /\ d.ttl \in Nat /\ orig.ttl \in Nat BY FieldTypes
  <2>2. d.ttl <= orig.ttl BY DEF Stems
  <2>3. QED BY <2>1, <2>2
<1>9. QED BY <1>2, <1>6, <1>7, <1>8 DEF Stems

\* What a router made stays that when another one forwards it.
LEMMA MadeOn ==
  ASSUME NEW d \in Datagram, NEW e \in Datagram,
         e = [d EXCEPT !.id = e.id, !.ttl = e.ttl, !.sum = e.sum], Made(d)
  PROVE  Made(e)
<1>1. PICK i, t, c : i = e.id /\ t = e.ttl /\ c = e.sum OBVIOUS
<1>2. e = [d EXCEPT !.id = i, !.ttl = t, !.sum = c] BY <1>1
<1>3. e.src = d.src /\ e.dst = d.dst /\ e.body = d.body BY <1>2 DEF Datagram
<1>4. ErrorAbout(d) => ErrorAbout(e) BY <1>3 DEF ErrorAbout
<1>5. ReplyTo(d) => ReplyTo(e) BY <1>3 DEF ReplyTo
<1>6. QED BY <1>3, <1>4, <1>5 DEF Made

\* An error about a datagram with a history has one.
LEMMA ErrorMade ==
  ASSUME orig \in Datagram, NEW d \in Datagram, Stems(d) \/ Made(d),
         NEW e, e.src \in RouterIps, e.dst = d.src, e.body.type \in {3, 11},
         e.body.data = Quote(d)
  PROVE  Made(e)
<1>1. CASE Made(d)
  <2>1. e.dst \in RouterIps BY <1>1 DEF Made
  <2>2. QED BY <2>1 DEF Made
<1>2. CASE Stems(d)
  <2>1. PICK q : q = Quote(d) OBVIOUS
  <2>2. /\ q[1] = HeaderOctets(d)[1] /\ q[2] = HeaderOctets(d)[2]
        /\ q[3] = HeaderOctets(d)[3] /\ q[5] = HeaderOctets(d)[5]
        /\ q[6] = HeaderOctets(d)[6]
    BY <2>1, QuoteFacts
  <2>3. /\ Base * q[1] + q[2] = d.id /\ q[3] = d.ttl /\ Base * q[5] + q[6] = d.sum
    BY <2>2, HeaderSums
  <2>4. d = [orig EXCEPT !.id = d.id, !.ttl = d.ttl, !.sum = d.sum] BY <1>2 DEF Stems
  <2>5. Quoted(q) = d BY <2>3, <2>4 DEF Quoted
  <2>6. e.dst = orig.src
    <3>1. PICK i, t, c : i = d.id /\ t = d.ttl /\ c = d.sum OBVIOUS
    <3>2. d = [orig EXCEPT !.id = i, !.ttl = t, !.sum = c] BY <2>4, <3>1
    <3>3. d.src = orig.src BY <3>2 DEF Datagram
    <3>4. QED BY <3>3
  <2>7. ErrorAbout(e) BY <1>2, <2>1, <2>5, <2>6 DEF ErrorAbout
  <2>8. QED BY <2>7 DEF Made
<1>3. QED BY <1>1, <1>2

\* A datagram that stems from orig has its addresses, protocol and body.
LEMMA StemsSame ==
  ASSUME orig \in Datagram, NEW d \in Datagram, Stems(d)
  PROVE  /\ d.src = orig.src /\ d.dst = orig.dst /\ d.p = orig.p /\ d.body = orig.body
<1>1. PICK i, t, c : i = d.id /\ t = d.ttl /\ c = d.sum OBVIOUS
<1>2. d = [orig EXCEPT !.id = i, !.ttl = t, !.sum = c] BY <1>1 DEF Stems
<1>3. QED BY <1>2 DEF Datagram

\* So has the reply to an echo request, which no router makes.
LEMMA ReplyMade ==
  ASSUME orig \in Datagram, NEW d \in Datagram, Stems(d) \/ Made(d), IsEcho(d),
         d.dst \in RouterIps,
         NEW e, e.src = d.dst, e.dst = d.src, e.body.type = 0,
         e.body.data = d.body.data
  PROVE  Made(e)
<1>1. d.p = ip_protocol_icmp /\ d.body.type = 8 BY DEF IsEcho
<1>2. ~ Made(d) BY <1>1 DEF Made
<1>3. Stems(d) BY <1>2
<1>4. d.src = orig.src /\ d.dst = orig.dst /\ d.p = orig.p /\ d.body = orig.body
  BY <1>3, StemsSame
<1>5. ReplyTo(e) BY <1>1, <1>4 DEF ReplyTo
<1>6. QED BY <1>5 DEF Made

\* A datagram that a router may send.
Fit(d) ==
  /\ Sound(d)
  /\ Known(d)
  /\ ~ damaged /\ d.src \in RouterIps => RfcValid(BodyOctets(d.body))

\* The history of a datagram does not depend on where it is.
LEMMA HistoryKept ==
  ASSUME orig' = orig, unseen' = unseen, NEW f, frame' = f
  PROVE  Known(frame.d)' <=> Known(f.d)
<1>1. Stems(frame.d)' <=> Stems(f.d) BY DEF Stems
<1>2. Made(frame.d)' <=> Made(f.d)
  BY DEF Made, ErrorAbout, ReplyTo, Stems, Quoted
<1>3. QED BY <1>1, <1>2 DEF Known

WaitType == [router : Routers, iface : Iface, hop : Ip \cup {0}]

\* A router puts a frame on a link or into a queue.
LEMMA FrameSent ==
  ASSUME JourneyInv, orig' = orig, damaged' = damaged, unseen' = unseen,
         failed' \in BOOLEAN,
         fate' = fate, stage # "over", stage' \in {"link", "queue"},
         NEW f \in Frame, frame' = f, f.shost \in RouterIps, Fit(f.d),
         wait' \in WaitType, stage' = "queue" => wait'.hop # 0
  PROVE  JourneyInv'
<1>1. TypeOK'
  BY DEF JourneyInv, TypeOK, WaitType
<1>2. LeavesValid' BY DEF LeavesValid, Fit, Sound, FromRouter
<1>3. Honest' BY HistoryKept DEF Honest, Fit
<1>4. Arrived' BY DEF Arrived, Delivered
<1>5. Undamaged' BY DEF JourneyInv, Undamaged, Fit, Sound
<1>6. Placed' BY DEF JourneyInv, Placed, Fit, Sound
<1>7. QED BY <1>1, <1>2, <1>3, <1>4, <1>5, <1>6 DEF JourneyInv

\* A journey ends where the frame is.
LEMMA JourneyOver ==
  ASSUME JourneyInv, orig' = orig, damaged' = damaged, unseen' = unseen,
         failed' \in BOOLEAN,
         NEW how \in Fates \ {"none"}, End(how),
         how = "delivered" =>
           RfcValid(HeaderOctets(frame.d)) /\ frame.d.dst \in Hosts
  PROVE  JourneyInv'
<1>0. stage' = "over" /\ fate' = how /\ frame' = frame /\ wait' = wait BY DEF End
<1>1. TypeOK' BY <1>0 DEF JourneyInv, TypeOK, Fates
<1>2. LeavesValid' BY <1>0 DEF LeavesValid, FromRouter
<1>3. Honest'
  <2>1. Honest BY DEF JourneyInv
  <2>2. Known(frame.d)' <=> Known(frame.d) BY <1>0, HistoryKept
  <2>3. QED BY <1>0, <2>1, <2>2 DEF Honest
<1>4. Arrived' BY <1>0 DEF Arrived, Delivered
<1>5. Undamaged' BY <1>0 DEF JourneyInv, Undamaged
<1>6. Placed' BY <1>0 DEF JourneyInv, Placed
<1>7. QED BY <1>1, <1>2, <1>3, <1>4, <1>5, <1>6 DEF JourneyInv

\* sr_send_routed_ip_packet sends what it is given, or loses it.
LEMMA Routed ==
  ASSUME JourneyInv, orig' = orig, damaged' = damaged, unseen' = unseen,
         failed' \in BOOLEAN,
         stage # "over", NEW r \in Routers, NEW fs, NEW dying,
         \A f \in fs : f \in Frame /\ Fit(f.d),
         sr_send_routed_ip_packet(r, fs, dying)
  PROVE  JourneyInv'
<1>1. "lost" \in Fates \ {"none"} /\ "lost" # "delivered" BY DEF Fates
<1>2. CASE End("lost") BY <1>1, <1>2, JourneyOver
<1>3. ASSUME NEW f \in fs, HasRouteIn(RTables[r], f.d.dst),
             NEW i, i = OutIn(RTables[r], f.d.dst),
             NEW hop, hop = HopIn(RTables[r], f.d.dst),
             NEW out, out = [f EXCEPT !.shost = IfIps[r][i]],
             \/ hop = Peer[r][i] /\ OnLink([out EXCEPT !.dhost = hop])
             \/ InQueue(out, r, i, hop)
      PROVE  JourneyInv'
  <2>1. f \in Frame /\ Fit(f.d) /\ f.d.dst \in Ip BY DEF Frame, Datagram
  <2>2. RTables[r] \in Seq(Route) BY NetworkAssumption
  <2>3. i \in Iface /\ hop \in Ip BY <1>3, <2>1, <2>2, RouteInTypes
  <2>4. IfIps[r][i] \in RouterIps /\ IfIps[r][i] \in Ip BY <2>3, OwnAddress
  <2>5. out \in Frame /\ out.d = f.d /\ out.shost \in RouterIps
    BY <1>3, <2>1, <2>4 DEF Frame
  <2>6. CASE OnLink([out EXCEPT !.dhost = hop])
    <3>1. PICK g : g = [out EXCEPT !.dhost = hop] OBVIOUS
    <3>2. g \in Frame /\ g.d = f.d /\ g.shost \in RouterIps
      BY <2>3, <2>5, <3>1 DEF Frame
    <3>3. stage' = "link" /\ frame' = g /\ wait' = wait /\ fate' = fate
      BY <2>6, <3>1 DEF OnLink
    <3>4. wait' \in WaitType BY <3>3 DEF JourneyInv, TypeOK, WaitType
    <3>5. QED BY <2>1, <3>2, <3>3, <3>4, FrameSent
  <2>7. CASE InQueue(out, r, i, hop)
    <3>1. /\ stage' = "queue" /\ frame' = out /\ fate' = fate
          /\ wait' = [router |-> r, iface |-> i, hop |-> hop]
      BY <2>7 DEF InQueue
    <3>2. wait' \in WaitType /\ wait'.hop # 0
      BY <2>3, <3>1, IpAssumption DEF WaitType
    <3>3. QED BY <2>1, <2>5, <3>1, <3>2, FrameSent
  <2>8. QED BY <1>3, <2>6, <2>7
<1>4. QED BY <1>2, <1>3 DEF sr_send_routed_ip_packet

\* sr_send_icmp_error makes datagrams that a router may send.
LEMMA ErrorSent ==
  ASSUME orig \in Datagram, NEW r \in Routers, NEW f \in Frame,
         RfcValid(HeaderOctets(f.d)) => Known(f.d),
         NEW type \in {3, 11}, NEW code \in {0, 1, 3},
         NEW g \in sr_send_icmp_error(r, f, type, code)
  PROVE  /\ g \in Frame /\ Fit(g.d)
         /\ g.d.src \in RouterIps /\ g.d.dst = f.d.src /\ g.d.ttl = INIT_TTL
<1>1. f.d \in Datagram /\ f.shost \in Ip /\ f.d.src \in Ip BY DEF Frame, Datagram
<1>2. sr_valid_ip_packet(f.d) BY DEF sr_send_icmp_error
<1>3. PICK i \in IcmpSourceIn(IfIps[r], RTables[r], f.shost, f.dhost, f.d.src) :
        g = [shost |-> IfIps[r][i], dhost |-> f.shost,
             d |-> IcmpError(IfIps[r][i], f.d, type, code)]
  BY <1>2 DEF sr_send_icmp_error
<1>4. RTables[r] \in Seq(Route) BY NetworkAssumption
<1>5. i \in Iface BY <1>1, <1>3, <1>4, SourceInIface
<1>6. PICK a : a = IfIps[r][i] OBVIOUS
<1>7. a \in RouterIps /\ a \in Ip BY <1>5, <1>6, OwnAddress
<1>8. PICK e : e = IcmpError(a, f.d, type, code) OBVIOUS
<1>9. /\ Sound(e) /\ RfcValid(BodyOctets(e.body))
      /\ e.src = a /\ e.dst = f.d.src /\ e.ttl = INIT_TTL
      /\ e.body.type = type /\ e.body.data = Quote(f.d)
  BY <1>1, <1>7, <1>8, ErrorFacts
<1>10. Known(f.d) BY <1>1, <1>2, AcceptedValid
<1>11. Known(e) BY <1>1, <1>7, <1>9, <1>10, ErrorMade DEF Known
<1>12. Fit(e) BY <1>9, <1>11 DEF Fit
<1>13. e \in Datagram BY <1>9 DEF Sound
<1>14. g = [shost |-> a, dhost |-> f.shost, d |-> e] BY <1>3, <1>6, <1>8
<1>15. QED BY <1>1, <1>7, <1>9, <1>12, <1>13, <1>14 DEF Frame

-----------------------------------------------------------------------------
(* The steps of a journey.                                                 *)

\* A datagram at home is as its sender made it.
LEMMA JourneyInit == Init => JourneyInv
<1> SUFFICES ASSUME Init PROVE JourneyInv OBVIOUS
<1>1. PICK d \in Datagrams : frame = [shost |-> d.src, dhost |-> Gateway(d.src), d |-> d]
  BY DEF Init
<1>2. d \in Datagram /\ d.src \in Hosts /\ RfcValid(HeaderOctets(d)) BY SenderAssumption
<1>3. Gateway(d.src) \in Ip /\ Routers # {} /\ Iface # {} BY <1>2, GatewayType
<1>4. d.src \in Ip /\ d.src \notin RouterIps BY <1>2, HostAssumption DEF Datagram
<1>5. frame \in Frame /\ frame.d = d /\ frame.shost = d.src
  BY <1>1, <1>2, <1>3, <1>4 DEF Frame
<1>6. /\ orig = d /\ stage = "home" /\ fate = "none"
      /\ damaged = FALSE /\ unseen = FALSE /\ failed = FALSE
  BY <1>5 DEF Init
<1>7. wait \in WaitType
  <2>1. (CHOOSE r \in Routers : TRUE) \in Routers /\ (CHOOSE i \in Iface : TRUE) \in Iface
    BY <1>3
  <2>2. QED BY <2>1 DEF Init, WaitType
<1>8. TypeOK BY <1>2, <1>5, <1>6, <1>7 DEF TypeOK, WaitType, Fates
<1>9. LeavesValid BY <1>6 DEF LeavesValid, FromRouter
<1>10. Stems(d)
  <2>1. d = [d EXCEPT !.id = d.id, !.ttl = d.ttl, !.sum = d.sum] BY <1>2 DEF Datagram
  <2>2. d.ttl <= d.ttl BY <1>2, FieldTypes
  <2>3. QED BY <1>6, <2>1, <2>2 DEF Stems, SameWord
<1>11. Honest BY <1>5, <1>10 DEF Honest, Known
<1>12. Arrived BY <1>6 DEF Arrived, Delivered
<1>13. Undamaged BY <1>2, <1>4, <1>5, <1>6 DEF Undamaged
<1>14. Placed BY <1>2, <1>4, <1>5, <1>6 DEF Placed
<1>15. QED BY <1>8, <1>9, <1>11, <1>12, <1>13, <1>14 DEF JourneyInv

\* What a router has accepted has a history.
LEMMA AcceptedFacts ==
  ASSUME JourneyInv, NEW r \in Routers, NEW i \in Iface, Accepted(r, i)
  PROVE  /\ frame \in Frame /\ frame.d \in Datagram /\ frame.d.fit /\ orig \in Datagram
         /\ sr_valid_ip_packet(frame.d) /\ RfcValid(HeaderOctets(frame.d))
         /\ Known(frame.d)
         /\ stage = "link" /\ IfIps[r][i] = frame.dhost
         /\ orig' = orig /\ damaged' = damaged /\ unseen' = unseen
         /\ failed' = failed /\ failed' \in BOOLEAN
<1>1. /\ stage = "link" /\ IfIps[r][i] = frame.dhost
      /\ orig' = orig /\ damaged' = damaged /\ unseen' = unseen /\ failed' = failed
      /\ sr_valid_ip_packet(frame.d)
  BY DEF Accepted, Received
<1>2. frame \in Frame /\ orig \in Datagram /\ failed \in BOOLEAN BY DEF JourneyInv, TypeOK
<1>3. frame.d \in Datagram BY <1>2 DEF Frame
<1>4. frame.d.fit BY <1>1 DEF sr_valid_ip_packet
<1>5. RfcValid(HeaderOctets(frame.d)) BY <1>1, <1>3, AcceptedValid
<1>6. Known(frame.d) BY <1>5 DEF JourneyInv, Honest
<1>7. QED BY <1>1, <1>2, <1>3, <1>4, <1>5, <1>6

\* An invalid datagram ends its journey.
LEMMA RefuseInv ==
  ASSUME JourneyInv, NEW r \in Routers, NEW i \in Iface, Refuse(r, i)
  PROVE  JourneyInv'
<1>1. "invalid" \in Fates \ {"none"} /\ "invalid" # "delivered" BY DEF Fates
<1>2. /\ End("invalid") /\ orig' = orig /\ damaged' = damaged
      /\ unseen' = unseen /\ failed' = failed
  BY DEF Refuse, Received
<1>3. failed' \in BOOLEAN BY <1>2 DEF JourneyInv, TypeOK
<1>4. QED BY <1>1, <1>2, <1>3, JourneyOver

\* An echo reply answers the request in hand, and goes out valid.
LEMMA ReplyInv ==
  ASSUME JourneyInv, NEW r \in Routers, NEW i \in Iface, sr_send_icmp_echo_reply(r, i)
  PROVE  JourneyInv'
<1>1. Accepted(r, i) /\ sr_is_router_ip(r, frame.d.dst) /\ IsEcho(frame.d)
  BY DEF sr_send_icmp_echo_reply, ForUs
<1>2. /\ frame \in Frame /\ frame.d \in Datagram /\ frame.d.fit /\ orig \in Datagram
      /\ Known(frame.d) /\ stage = "link"
      /\ orig' = orig /\ damaged' = damaged /\ unseen' = unseen /\ failed' \in BOOLEAN
  BY <1>1, AcceptedFacts
<1>3. frame.d.dst \in RouterIps BY <1>1 DEF sr_is_router_ip, RouterIps
<1>4. PICK d : d = frame.d OBVIOUS
<1>5. PICK e : e = EchoReply(d) OBVIOUS
<1>6. /\ Sound(e) /\ RfcValid(BodyOctets(e.body))
      /\ e.src = d.dst /\ e.dst = d.src
      /\ e.body.type = 0 /\ e.body.data = d.body.data
  BY <1>2, <1>4, <1>5, ReplyFacts
<1>7. Known(e) BY <1>1, <1>2, <1>3, <1>4, <1>6, ReplyMade DEF Known
<1>8. Fit(e) BY <1>6, <1>7 DEF Fit
<1>9. IfIps[r][i] \in RouterIps /\ IfIps[r][i] \in Ip BY OwnAddress
<1>10. PICK f : f = [shost |-> IfIps[r][i], dhost |-> frame.shost, d |-> e] OBVIOUS
<1>11. e \in Datagram BY <1>6 DEF Sound
<1>12. f \in Frame /\ f.d = e /\ f.shost \in RouterIps
  BY <1>2, <1>9, <1>10, <1>11 DEF Frame
<1>13. stage' = "link" /\ frame' = f /\ wait' = wait /\ fate' = fate
  BY <1>4, <1>5, <1>10 DEF sr_send_icmp_echo_reply, OnLink
<1>14. wait' \in WaitType BY <1>13 DEF JourneyInv, TypeOK, WaitType
<1>15. QED BY <1>2, <1>8, <1>12, <1>13, <1>14, FrameSent

\* Port unreachable is an error about the datagram in hand.
LEMMA PortInv ==
  ASSUME JourneyInv, NEW r \in Routers, NEW i \in Iface, PortUnreachable(r, i)
  PROVE  JourneyInv'
<1>1. Accepted(r, i) BY DEF PortUnreachable, ForUs
<1>2. /\ frame \in Frame /\ orig \in Datagram /\ stage = "link"
      /\ Known(frame.d)
      /\ orig' = orig /\ damaged' = damaged /\ unseen' = unseen /\ failed' \in BOOLEAN
  BY <1>1, AcceptedFacts
<1>3. PICK fs : fs = sr_send_icmp_error(r, frame, 3, 3) OBVIOUS
<1>4. \A f \in fs : f \in Frame /\ Fit(f.d) BY <1>2, <1>3, ErrorSent
<1>5. sr_send_routed_ip_packet(r, fs, 0) BY <1>3 DEF PortUnreachable
<1>6. QED BY <1>2, <1>4, <1>5, Routed

\* What a router has no answer to ends its journey.
LEMMA AbsorbInv ==
  ASSUME JourneyInv, NEW r \in Routers, NEW i \in Iface, Absorb(r, i)
  PROVE  JourneyInv'
<1>1. "absorbed" \in Fates \ {"none"} /\ "absorbed" # "delivered" BY DEF Fates
<1>2. Accepted(r, i) /\ End("absorbed") BY DEF Absorb, ForUs
<1>3. orig' = orig /\ damaged' = damaged /\ unseen' = unseen /\ failed' \in BOOLEAN
  BY <1>2, AcceptedFacts
<1>4. QED BY <1>1, <1>2, <1>3, JourneyOver

\* Time exceeded is an error about the datagram in hand.
LEMMA TimeInv ==
  ASSUME JourneyInv, NEW r \in Routers, NEW i \in Iface, TimeExceeded(r, i)
  PROVE  JourneyInv'
<1>1. Accepted(r, i) BY DEF TimeExceeded, Transit
<1>2. /\ frame \in Frame /\ orig \in Datagram /\ stage = "link"
      /\ Known(frame.d)
      /\ orig' = orig /\ damaged' = damaged /\ unseen' = unseen /\ failed' \in BOOLEAN
  BY <1>1, AcceptedFacts
<1>3. PICK fs : fs = sr_send_icmp_error(r, frame, 11, 0) OBVIOUS
<1>4. \A f \in fs : f \in Frame /\ Fit(f.d) BY <1>2, <1>3, ErrorSent
<1>5. sr_send_routed_ip_packet(r, fs, 0) BY <1>3 DEF TimeExceeded
<1>6. QED BY <1>2, <1>4, <1>5, Routed

\* What the router makes of a datagram that it passes on.
LEMMA ForwardFacts ==
  ASSUME JourneyInv, NEW r \in Routers, NEW i \in Iface, Accepted(r, i),
         frame.d.ttl > 1, NEW e, e = Decrement(frame.d)
  PROVE  /\ e \in Datagram /\ Fit(e)
         /\ e.src = frame.d.src /\ e.dst = frame.d.dst /\ e.ttl = frame.d.ttl - 1
<1>1. /\ frame \in Frame /\ frame.d \in Datagram /\ frame.d.fit /\ orig \in Datagram
      /\ Known(frame.d)
  BY AcceptedFacts
<1>2. PICK d \in Datagram : d = frame.d BY <1>1
<1>3. Older(e, d) BY <1>1, <1>2, DecrementFacts
<1>4. Sound(e) /\ e \in Datagram BY <1>3 DEF Older, Sound
<1>5. PICK t, c : t = e.ttl /\ c = e.sum OBVIOUS
<1>6. e = [d EXCEPT !.ttl = t, !.sum = c] BY <1>3, <1>5 DEF Older
<1>7. e.id = d.id /\ e.src = d.src /\ e.dst = d.dst /\ e.body = d.body
  BY <1>6 DEF Datagram
<1>8. e = [d EXCEPT !.id = e.id, !.ttl = e.ttl, !.sum = e.sum]
  <2>1. PICK j : j = e.id OBVIOUS
  <2>2. e = [d EXCEPT !.id = j, !.ttl = t, !.sum = c] BY <1>6, <1>7, <2>1 DEF Datagram
  <2>3. QED BY <1>5, <2>1, <2>2
<1>9. SameWord(e.id, d.id) BY <1>7 DEF SameWord
<1>10. e.ttl <= d.ttl
  <2>1. d.ttl \in Nat BY FieldTypes
  <2>2. QED BY <1>3, <2>1 DEF Older
<1>11. Known(e)
  BY <1>1, <1>2, <1>4, <1>8, <1>9, <1>10, StemsOn, MadeOn DEF Known
<1>12. ~ damaged /\ e.src \in RouterIps => RfcValid(BodyOctets(e.body))
  BY <1>2, <1>7 DEF JourneyInv, Undamaged
<1>13. Fit(e) BY <1>4, <1>11, <1>12 DEF Fit
<1>14. e.ttl = frame.d.ttl - 1 BY <1>2, <1>3 DEF Older
<1>15. QED BY <1>2, <1>4, <1>7, <1>13, <1>14

\* Forwarding keeps all that Stems asks for and restores the checksum.
LEMMA ForwardInv ==
  ASSUME JourneyInv, NEW r \in Routers, NEW i \in Iface, sr_forward_ip_packet(r, i)
  PROVE  JourneyInv'
<1>1. Accepted(r, i) /\ frame.d.ttl > 1 BY DEF sr_forward_ip_packet, Transit
<1>2. /\ frame \in Frame /\ orig \in Datagram /\ stage = "link"
      /\ orig' = orig /\ damaged' = damaged /\ unseen' = unseen /\ failed' \in BOOLEAN
  BY <1>1, AcceptedFacts
<1>3. PICK e : e = Decrement(frame.d) OBVIOUS
<1>4. e \in Datagram /\ Fit(e) BY <1>1, <1>3, ForwardFacts
<1>5. PICK f : f = [frame EXCEPT !.d = e] OBVIOUS
<1>6. f \in Frame /\ f.d = e BY <1>2, <1>4, <1>5 DEF Frame
<1>7. f = [frame EXCEPT !.d = Decrement(@)] BY <1>3, <1>5
<1>8. PICK fs : fs = IF HasRouteIn(RTables[r], f.d.dst) THEN {f}
                     ELSE sr_send_icmp_error(r, f, 3, 0)
  OBVIOUS
<1>9. \A g \in fs : g \in Frame /\ Fit(g.d)
  <2>1. CASE HasRouteIn(RTables[r], f.d.dst) BY <1>4, <1>6, <1>8, <2>1
  <2>2. CASE ~ HasRouteIn(RTables[r], f.d.dst)
    <3>1. fs = sr_send_icmp_error(r, f, 3, 0) BY <1>8, <2>2
    <3>2. Known(f.d) BY <1>4, <1>6 DEF Fit
    <3>3. QED BY <1>2, <1>6, <3>1, <3>2, ErrorSent
  <2>3. QED BY <2>1, <2>2
<1>10. sr_send_routed_ip_packet(r, fs, 0) BY <1>7, <1>8 DEF sr_forward_ip_packet
<1>11. QED BY <1>2, <1>9, <1>10, Routed

\* A datagram leaves the queue as it was.
LEMMA FlushInv ==
  ASSUME JourneyInv, Flush
  PROVE  JourneyInv'
<1>1. /\ stage = "queue" /\ wait.hop = Peer[wait.router][wait.iface]
      /\ orig' = orig /\ damaged' = damaged /\ unseen' = unseen /\ failed' = failed
  BY DEF Flush
<1>2. /\ frame \in Frame /\ wait \in WaitType /\ failed' \in BOOLEAN
  BY <1>1 DEF JourneyInv, TypeOK, WaitType
<1>3. PICK r \in Routers, i \in Iface : r = wait.router /\ i = wait.iface
  BY <1>2 DEF WaitType
<1>4. IfIps[r][i] \in RouterIps /\ IfIps[r][i] \in Ip /\ Peer[r][i] \in Ip BY OwnAddress
<1>5. PICK f : f = [frame EXCEPT !.dhost = Peer[r][i], !.shost = IfIps[r][i]] OBVIOUS
<1>6. f \in Frame /\ f.shost \in RouterIps /\ f.d = frame.d BY <1>2, <1>4, <1>5 DEF Frame
<1>7. frame.d \in Datagram BY <1>2 DEF Frame
<1>8. sr_valid_ip_packet(frame.d) BY <1>1 DEF JourneyInv, Placed
<1>9. RfcValid(HeaderOctets(frame.d)) BY <1>7, <1>8, AcceptedValid
<1>10. Known(frame.d) BY <1>9 DEF JourneyInv, Honest
<1>11. Fit(frame.d)
  BY <1>7, <1>8, <1>9, <1>10 DEF JourneyInv, Undamaged, Fit, Sound
<1>12. stage' = "link" /\ frame' = f /\ wait' = wait /\ fate' = fate
  BY <1>1, <1>3, <1>5 DEF Flush, OnLink
<1>13. QED BY <1>1, <1>2, <1>6, <1>11, <1>12, FrameSent

\* Host unreachable is an error about the datagram that waited.
LEMMA GiveUpInv ==
  ASSUME JourneyInv, GiveUp
  PROVE  JourneyInv'
<1>1. /\ stage = "queue" /\ orig' = orig /\ damaged' = damaged
      /\ unseen' = unseen /\ failed' \in BOOLEAN
  BY DEF GiveUp
<1>2. frame \in Frame /\ orig \in Datagram /\ wait \in WaitType
  BY DEF JourneyInv, TypeOK, WaitType
<1>3. wait.router \in Routers BY <1>2 DEF WaitType
<1>4. PICK r, hop : r = wait.router /\ hop = wait.hop OBVIOUS
<1>5. PICK fs : fs = sr_send_icmp_error(r, frame, 3, 1) OBVIOUS
<1>6. RfcValid(HeaderOctets(frame.d)) => Known(frame.d)
  BY DEF JourneyInv, Honest
<1>7. \A f \in fs : f \in Frame /\ Fit(f.d) BY <1>2, <1>3, <1>4, <1>5, <1>6, ErrorSent
<1>8. sr_send_routed_ip_packet(r, fs, hop) BY <1>4, <1>5 DEF GiveUp
<1>9. QED BY <1>1, <1>3, <1>4, <1>7, <1>8, Routed

\* A datagram leaves home as its sender made it.
LEMMA HostSendInv ==
  ASSUME JourneyInv, HostSend
  PROVE  JourneyInv'
<1>1. /\ stage = "home" /\ stage' = "link" /\ frame' = frame /\ wait' = wait
      /\ orig' = orig /\ fate' = fate /\ damaged' = damaged /\ unseen' = unseen
      /\ failed' = failed
  BY DEF HostSend
<1>2. TypeOK' BY <1>1 DEF JourneyInv, TypeOK
<1>3. LeavesValid' BY <1>1 DEF JourneyInv, Placed, LeavesValid, FromRouter
<1>4. Honest'
  <2>1. Honest BY DEF JourneyInv
  <2>2. Known(frame.d)' <=> Known(frame.d) BY <1>1, HistoryKept
  <2>3. QED BY <1>1, <2>1, <2>2 DEF Honest
<1>5. Arrived' BY <1>1 DEF Arrived, Delivered
<1>6. Undamaged' BY <1>1 DEF JourneyInv, Undamaged
<1>7. Placed' BY <1>1 DEF JourneyInv, Placed
<1>8. QED BY <1>2, <1>3, <1>4, <1>5, <1>6, <1>7 DEF JourneyInv

\* A host takes only what is addressed to it and sums up.
LEMMA HostReceiveInv ==
  ASSUME JourneyInv, HostReceive
  PROVE  JourneyInv'
<1>1. /\ frame.dhost \in Hosts
      /\ orig' = orig /\ damaged' = damaged /\ unseen' = unseen /\ failed' = failed
  BY DEF HostReceive
<1>2. failed' \in BOOLEAN BY <1>1 DEF JourneyInv, TypeOK
<1>3. {"delivered", "ignored"} \subseteq Fates \ {"none"} BY DEF Fates
<1>4. \/ /\ frame.d.dst = frame.dhost /\ RfcValid(HeaderOctets(frame.d))
         /\ End("delivered")
      \/ End("ignored")
  BY DEF HostReceive
<1>5. CASE frame.d.dst = frame.dhost /\ RfcValid(HeaderOctets(frame.d)) /\ End("delivered")
  BY <1>1, <1>2, <1>3, <1>5, JourneyOver
<1>6. CASE End("ignored")
  <2>1. "ignored" # "delivered" OBVIOUS
  <2>2. QED BY <1>1, <1>2, <1>3, <1>6, <2>1, JourneyOver
<1>7. QED BY <1>4, <1>5, <1>6

\* One altered field: nothing else is wrong with the datagram, and the next
\* test of the checksum finds it, unless it is the other zero of id or an
\* address whose words have the same sum.
LEMMA DamageInv ==
  ASSUME JourneyInv, Damage
  PROVE  JourneyInv'
<1>1. /\ stage = "link" /\ ~ damaged /\ damaged' = TRUE /\ stage' = stage
      /\ wait' = wait /\ orig' = orig /\ fate' = fate /\ failed' = failed
  BY DEF Damage
<1>2. frame \in Frame /\ orig \in Datagram BY DEF JourneyInv, TypeOK
<1>3. PICK d \in Datagram : d = frame.d BY <1>2 DEF Frame
<1>4. PICK field \in DOMAIN Noise : \E v \in Noise[field] \ {frame.d[field]} :
        /\ frame' = [frame EXCEPT !.d[field] = v]
        /\ unseen' = Hidden(frame.d, field, v)
  BY DEF Damage, Hidden
<1>5. PICK v \in Noise[field] \ {frame.d[field]} :
        /\ frame' = [frame EXCEPT !.d[field] = v]
        /\ unseen' = Hidden(frame.d, field, v)
  BY <1>4
<1>6. field \in DOMAIN Altered /\ v \in Altered[field] /\ v # d[field]
  BY <1>3, <1>4, <1>5, NetworkAssumption
<1>7. PICK e : e = Changed(d, field, v) OBVIOUS
<1>8. e \in Datagram BY <1>6, <1>7, AlteredType
<1>9. PICK f : f = [frame EXCEPT !.d = e] OBVIOUS
<1>10. frame' = f BY <1>3, <1>5, <1>7, <1>9 DEF Changed
<1>11. f \in Frame /\ f.d = e BY <1>2, <1>8, <1>9 DEF Frame
<1>12. RfcValid(HeaderOctets(d)) /\ (Stems(d) \/ Made(d))
  BY <1>1, <1>3 DEF JourneyInv, Undamaged, Honest, Known
<1>13. ASSUME RfcValid(HeaderOctets(e)), ~ Hidden(d, field, v)
       PROVE  Stems(e) \/ Made(e)
  <2>0. Alike(e, d) BY <1>3, <1>6, <1>7, <1>12, <1>13, OneField
  <2>1. e = [d EXCEPT !.id = e.id, !.sum = e.sum] /\ SameWord(e.id, d.id)
    BY <2>0 DEF Alike
  <2>2. PICK i, t, c : i = e.id /\ t = e.ttl /\ c = e.sum OBVIOUS
  <2>3. e = [d EXCEPT !.id = i, !.sum = c] BY <2>1, <2>2
  <2>4. e.ttl = d.ttl BY <2>3 DEF Datagram
  <2>5. e = [d EXCEPT !.id = i, !.ttl = t, !.sum = c] BY <2>2, <2>3, <2>4 DEF Datagram
  <2>6. e = [d EXCEPT !.id = e.id, !.ttl = e.ttl, !.sum = e.sum] BY <2>2, <2>5
  <2>7. e.ttl <= d.ttl BY <1>8, <2>4, FieldTypes
  <2>8. QED BY <1>2, <1>8, <1>12, <2>1, <2>6, <2>7, StemsOn, MadeOn
<1>14. TypeOK'
  <2>1. unseen' \in BOOLEAN BY <1>5 DEF Hidden
  <2>2. QED BY <1>1, <1>10, <1>11, <2>1 DEF JourneyInv, TypeOK
<1>15. LeavesValid' BY <1>1 DEF LeavesValid
<1>16. Honest'
  <2>1. (Stems(frame.d) \/ Made(frame.d))' <=> Stems(e) \/ Made(e)
    BY <1>1, <1>10, <1>11 DEF Made, ErrorAbout, ReplyTo, Stems, Quoted
  <2>2. CASE unseen' BY <2>2 DEF Honest, Known
  <2>3. CASE ~ unseen'
    <3>1. ~ Hidden(d, field, v) BY <1>3, <1>5, <2>3
    <3>2. QED BY <1>10, <1>11, <1>13, <2>1, <3>1 DEF Honest, Known
  <2>4. QED BY <2>2, <2>3
<1>17. Arrived' BY <1>1 DEF Arrived, Delivered
<1>18. Undamaged' BY <1>1 DEF Undamaged
<1>19. Placed' BY <1>1 DEF JourneyInv, Placed
<1>20. QED BY <1>14, <1>15, <1>16, <1>17, <1>18, <1>19 DEF JourneyInv

\* The invariant is kept by every step.
LEMMA JourneyStep == JourneyInv /\ [Next]_vars => JourneyInv'
<1> SUFFICES ASSUME JourneyInv, [Next]_vars PROVE JourneyInv' OBVIOUS
<1>1. CASE HostSend BY <1>1, HostSendInv
<1>2. ASSUME NEW r \in Routers, NEW i \in Iface, Handle(r, i) PROVE JourneyInv'
  BY <1>2, RefuseInv, ReplyInv, PortInv, AbsorbInv, TimeInv, ForwardInv DEF Handle
<1>3. CASE Flush BY <1>3, FlushInv
<1>4. CASE GiveUp BY <1>4, GiveUpInv
<1>5. CASE HostReceive BY <1>5, HostReceiveInv
<1>6. CASE Damage BY <1>6, DamageInv
<1>7. CASE UNCHANGED vars
  <2>1. /\ stage' = stage /\ frame' = frame /\ wait' = wait /\ orig' = orig
        /\ fate' = fate /\ damaged' = damaged /\ unseen' = unseen /\ failed' = failed
    BY <1>7 DEF vars
  <2>2. TypeOK' /\ LeavesValid' /\ Undamaged' /\ Placed' /\ Arrived'
    BY <2>1 DEF JourneyInv, TypeOK, LeavesValid, FromRouter, Undamaged, Placed,
                Arrived, Delivered
  <2>3. Honest'
    <3>1. Honest BY DEF JourneyInv
    <3>2. Known(frame.d)' <=> Known(frame.d) BY <2>1, HistoryKept
    <3>3. QED BY <2>1, <3>1, <3>2 DEF Honest
  <2>4. QED BY <2>2, <2>3 DEF JourneyInv
<1>8. QED BY <1>1, <1>2, <1>3, <1>4, <1>5, <1>6, <1>7 DEF Next, Progress

\* The invariant always holds.
LEMMA JourneyInvariant == Spec => []JourneyInv
<1>1. Init => JourneyInv BY JourneyInit
<1>2. JourneyInv /\ [Next]_vars => JourneyInv' BY JourneyStep
<1>3. QED BY <1>1, <1>2, PTL DEF Spec

-----------------------------------------------------------------------------
(* What the journey of a datagram promises.                                *)

\* A datagram on its way is well formed whatever the routers make of it: in
\* particular every reply and every ICMP error is a datagram with addresses,
\* and a packet never waits for the next hop 0.
THEOREM JourneyTypes == Spec => []TypeOK
<1>1. JourneyInv => TypeOK BY DEF JourneyInv
<1>2. QED BY <1>1, JourneyInvariant, PTL

\* Whatever a router puts on an undamaged path carries checksums that RFC 1071
\* and the next router accept, for every width of the octet.
THEOREM JourneyLeavesValid == Spec => []LeavesValid
<1>1. JourneyInv => LeavesValid BY DEF JourneyInv
<1>2. QED BY <1>1, JourneyInvariant, PTL

\* What a delivered frame is: the datagram of the host that was sent, or one
\* that a router made, with an address of a host.
LEMMA DeliveredFacts ==
  ASSUME JourneyInv, Delivered, ~ unseen
  PROVE  \/ Stems(frame.d) /\ frame.d.src \in Hosts /\ frame.d.src \notin RouterIps
         \/ /\ Made(frame.d) /\ frame.d.src \in RouterIps /\ frame.d.src \notin Hosts
            /\ frame.d.dst \notin RouterIps
<1>1. RfcValid(HeaderOctets(frame.d)) /\ frame.d.dst \in Hosts BY DEF JourneyInv, Arrived
<1>2. Stems(frame.d) \/ Made(frame.d) BY <1>1 DEF JourneyInv, Honest, Known
<1>3. frame \in Frame /\ orig \in Datagram /\ orig.src \in Hosts
  BY DEF JourneyInv, TypeOK, Placed
<1>4. frame.d \in Datagram BY <1>3 DEF Frame
<1>5. CASE Stems(frame.d)
  <2>1. frame.d.src = orig.src BY <1>3, <1>4, <1>5, StemsSame
  <2>2. QED BY <1>3, <1>5, <2>1, HostAssumption
<1>6. CASE Made(frame.d) BY <1>1, <1>6, HostAssumption DEF Made
<1>7. QED BY <1>2, <1>5, <1>6

\* A datagram that a host receives from a host is the one that was sent to it,
\* although a link may have damaged its header on the way: two valid headers that
\* differ in one field differ in the checksum, in the two zeros of id, or in an
\* address whose two words have changed and kept their sum.  Only the last makes
\* another datagram of it, and those journeys are excepted.
THEOREM JourneyIntact == Spec => []Intact
<1>1. JourneyInv => Intact BY DeliveredFacts DEF Intact
<1>2. QED BY <1>1, JourneyInvariant, PTL

\* An ICMP error that a host receives is about the datagram that it sent, unless
\* a link has altered an address in a way that no checksum shows.
THEOREM JourneyQuotesSender == Spec => []QuotesSender
<1>1. JourneyInv => QuotesSender
  <2> SUFFICES ASSUME JourneyInv, Delivered, ~ unseen, IsError(frame.d)
               PROVE  ErrorAbout(frame.d)
    BY DEF QuotesSender
  <2>1. Made(frame.d) /\ frame.d.dst \notin RouterIps BY DeliveredFacts DEF IsError
  <2>2. QED BY <2>1 DEF Made, IsError
<1>2. QED BY <1>1, JourneyInvariant, PTL

\* Any other datagram that a host receives from a router is the reply to the
\* echo request that it sent, with the same exception.
THEOREM JourneyEchoReturns == Spec => []EchoReturns
<1>1. JourneyInv => EchoReturns
  <2> SUFFICES ASSUME JourneyInv, Delivered, ~ unseen, frame.d.src \in RouterIps,
                      ~ IsError(frame.d)
               PROVE  ReplyTo(frame.d)
    BY DEF EchoReturns
  <2>1. Made(frame.d) BY DeliveredFacts
  <2>2. QED BY <2>1 DEF Made, IsError
<1>2. QED BY <1>1, JourneyInvariant, PTL

-----------------------------------------------------------------------------
(* No datagram vanishes.                                                   *)

\* A checksum other than 0 that RFC 1071 accepts is the one that cksum computes.
LEMMA OneChecksum ==
  ASSUME NEW x \in Nat, NEW b, NEW c, b \in Word, c \in Word, b # 0, c # 0,
         \E k \in Nat \ {0} : x + b = k * WordMax,
         \E k \in Nat \ {0} : x + c = k * WordMax
  PROVE  b = c
<1>1. PICK W \in Nat \ {0} : W = WordMax BY WidthFacts
<1>2. PICK k \in Nat : x + b = k * W BY <1>1
<1>3. PICK l \in Nat : x + c = l * W BY <1>1
<1>4. b \in 0 .. W /\ c \in 0 .. W BY <1>1 DEF Word
<1>5. b + x = k * W /\ c + x = l * W BY <1>2, <1>3, <1>4
<1>6. QED BY <1>1, <1>4, <1>5, NearMultiples

\* A header whose sum is right and not 0 passes the comparison of the router.
LEMMA ValidAccepted ==
  ASSUME NEW d \in Datagram, d.fit, d.sum # 0, RfcValid(HeaderOctets(d))
  PROVE  sr_valid_ip_packet(d)
<1>1. PICK z : z = [d EXCEPT !.sum = 0] OBVIOUS
<1>2. z \in Datagram /\ Weight(d) = Weight(z) + d.sum BY <1>1, Unsummed
<1>3. PICK x \in Nat : x = Weight(z) BY <1>2, HeaderSums
<1>4. \E k \in Nat \ {0} : x + d.sum = k * WordMax BY <1>2, <1>3, ValidWeight
<1>5. /\ HeaderSum(d) \in Word /\ HeaderSum(d) # 0
      /\ \E k \in Nat \ {0} : x + HeaderSum(d) = k * WordMax
  BY <1>1, <1>3, Unsummed
<1>6. d.sum \in Word BY FieldTypes
<1>7. d.sum = HeaderSum(d) BY <1>4, <1>5, <1>6, OneChecksum
<1>8. QED BY <1>7 DEF sr_valid_ip_packet

\* The same for an ICMP message.
LEMMA ValidBodyAccepted ==
  ASSUME NEW b \in Body, b.sum # 0, RfcValid(BodyOctets(b))
  PROVE  b.sum = IcmpSum(b)
<1>1. PICK z : z = [b EXCEPT !.sum = 0] OBVIOUS
<1>2. /\ BodyOctets(z) \in Seq(Octet)
      /\ SumOf(BodyOctets(b)) = SumOf(BodyOctets(z)) + b.sum
  BY <1>1, BodyUnsummed
<1>3. PICK x \in Nat : x = SumOf(BodyOctets(z)) BY <1>2, SumNat
<1>4. BodyOctets(b) \in Seq(Octet) BY BodySums
<1>5. \E k \in Nat \ {0} : x + b.sum = k * WordMax BY <1>2, <1>3, <1>4, ValidIsMultiple
<1>6. PICK c : c = IcmpSum(b) OBVIOUS
<1>7. c = cksum(BodyOctets(z)) BY <1>1, <1>6 DEF IcmpSum
<1>8. c \in Word /\ c # 0 /\ \E k \in Nat \ {0} : x + c = k * WordMax
  BY <1>2, <1>3, <1>7, CksumFacts
<1>9. b.sum \in Word BY DEF Body
<1>10. QED BY <1>5, <1>6, <1>8, <1>9, OneChecksum

\* hop is on the way of d: a host only if it is the last one; and what a router
\* made is on its way to the sender of orig, with enough time to live.
Track(d, hop) ==
  /\ hop \in Hosts => hop = d.dst
  /\ d.src \in RouterIps =>
       /\ d.dst = orig.src
       /\ \A r \in Routers, i \in Iface :
            IfIps[r][i] = hop => Dist[r][orig.src] < d.ttl

\* Journeys without damage and failures.
FateInv ==
  ~ damaged /\ ~ failed =>
    /\ stage \in {"home", "link"} => Track(frame.d, frame.dhost)
    /\ stage = "queue" => Track(frame.d, wait.hop)
    /\ frame.shost \notin RouterIps => frame.d = orig /\ frame.shost = orig.src
    /\ NothingVanishes

\* What NothingVanishes allows of the end of a journey.
Verdict(how) ==
  \/ how = "delivered"
  \/ how = "invalid" /\ (~ orig.fit \/ orig.sum = 0)
  \/ how = "ignored" /\ ~ RfcValid(BodyOctets(orig.body))
  \/ /\ how = "absorbed"
     /\ frame.d.src = orig.src
     /\ orig.dst \in RouterIps
     /\ ~ Answerable(orig)

\* At home the datagram is the one that was sent.
LEMMA FateInit == Init => FateInv
<1> SUFFICES ASSUME Init PROVE FateInv OBVIOUS
<1>1. PICK d \in Datagrams : frame = [shost |-> d.src, dhost |-> Gateway(d.src), d |-> d]
  BY DEF Init
<1>2. d.src \in Hosts BY SenderAssumption
<1>3. Gateway(d.src) \in RouterIps BY <1>2, GatewayType
<1>4. frame.d = d /\ frame.shost = d.src /\ frame.dhost = Gateway(d.src) BY <1>1
<1>5. orig = d /\ stage = "home" BY <1>4 DEF Init
<1>6. frame.dhost \notin Hosts /\ d.src \notin RouterIps BY <1>2, <1>3, <1>4, HostAssumption
<1>7. Track(frame.d, frame.dhost) BY <1>4, <1>6 DEF Track
<1>8. QED BY <1>4, <1>5, <1>7 DEF FateInv, NothingVanishes

\* A frame that a router sends on its way.
LEMMA LinkFate ==
  ASSUME orig' = orig, stage' = "link", NEW f, frame' = f, f.shost \in RouterIps,
         Track(f.d, f.dhost)
  PROVE  FateInv'
<1>1. Track(frame.d, frame.dhost)' BY DEF Track
<1>2. QED BY <1>1 DEF FateInv, NothingVanishes

\* The same for a datagram that is queued.
LEMMA QueueFate ==
  ASSUME orig' = orig, stage' = "queue", NEW f, frame' = f, f.shost \in RouterIps,
         NEW w, wait' = w, Track(f.d, w.hop)
  PROVE  FateInv'
<1>1. Track(frame.d, wait.hop)' BY DEF Track
<1>2. QED BY <1>1 DEF FateInv, NothingVanishes

\* A journey that ends must end in one of the ways of NothingVanishes.
LEMMA OverFate ==
  ASSUME FateInv, orig' = orig, damaged' = damaged, failed' = failed,
         NEW how, End(how), ~ damaged /\ ~ failed => Verdict(how)
  PROVE  FateInv'
<1>1. stage' = "over" /\ fate' = how /\ frame' = frame BY DEF End
<1>2. Answerable(orig)' <=> Answerable(orig) BY DEF Answerable
<1>3. CASE ~ damaged /\ ~ failed
  <2>1. NothingVanishes' BY <1>1, <1>2, <1>3 DEF NothingVanishes, Verdict
  <2>2. (frame.shost \notin RouterIps => frame.d = orig /\ frame.shost = orig.src)'
    BY <1>1, <1>3 DEF FateInv
  <2>3. QED BY <1>1, <2>1, <2>2 DEF FateInv
<1>4. CASE damaged \/ failed BY <1>4 DEF FateInv
<1>5. QED BY <1>3, <1>4

\* The routing tables lead the right way.
LEMMA HopTrack ==
  ASSUME orig.src \in Hosts, NEW r \in Routers, NEW d \in Datagram,
         HasRouteIn(RTables[r], d.dst), NEW hop, hop = HopIn(RTables[r], d.dst),
         d.src \in RouterIps => d.dst = orig.src /\ Dist[r][orig.src] <= d.ttl
  PROVE  Track(d, hop)
<1>1. d.dst \in Ip /\ d.ttl \in Nat BY FieldTypes DEF Datagram
<1>2. hop \in Hosts => hop = d.dst BY <1>1, RoutingAssumption
<1>3. ASSUME d.src \in RouterIps, NEW q \in Routers, NEW i \in Iface, IfIps[q][i] = hop
      PROVE  Dist[q][orig.src] < d.ttl
  <2>1. PICK h \in Hosts : h = orig.src /\ h = d.dst BY <1>3
  <2>2. Dist[q][h] < Dist[r][h] BY <1>3, <2>1, RoutingAssumption
  <2>3. Dist[q][h] \in Nat /\ Dist[r][h] \in Nat BY NetworkAssumption
  <2>4. Dist[r][h] <= d.ttl BY <1>3, <2>1
  <2>5. QED BY <1>1, <2>1, <2>2, <2>3, <2>4
<1>4. QED BY <1>2, <1>3 DEF Track

\* sr_send_routed_ip_packet does not lose what has a route.
LEMMA RoutedFate ==
  ASSUME orig.src \in Hosts, orig' = orig, NEW r \in Routers, NEW fs, fs # {},
         \A f \in fs :
           /\ f \in Frame /\ HasRouteIn(RTables[r], f.d.dst)
           /\ f.d.src \in RouterIps => f.d.dst = orig.src /\ Dist[r][orig.src] <= f.d.ttl,
         sr_send_routed_ip_packet(r, fs, 0)
  PROVE  FateInv'
<1>1. ASSUME NEW f \in fs, NEW i, i = OutIn(RTables[r], f.d.dst),
             NEW hop, hop = HopIn(RTables[r], f.d.dst),
             NEW out, out = [f EXCEPT !.shost = IfIps[r][i]],
             \/ OnLink([out EXCEPT !.dhost = hop])
             \/ InQueue(out, r, i, hop)
             \/ hop = 0
      PROVE  FateInv'
  <2>1. f \in Frame /\ f.d \in Datagram /\ f.d.dst \in Ip BY DEF Frame, Datagram
  <2>2. RTables[r] \in Seq(Route) BY NetworkAssumption
  <2>3. i \in Iface /\ hop \in Ip BY <1>1, <2>1, <2>2, RouteInTypes
  <2>4. IfIps[r][i] \in RouterIps BY <2>3, OwnAddress
  <2>5. out.d = f.d /\ out.shost \in RouterIps BY <1>1, <2>1, <2>4 DEF Frame
  <2>6. Track(f.d, hop) BY <1>1, <2>1, HopTrack
  <2>7. CASE OnLink([out EXCEPT !.dhost = hop])
    <3>1. PICK g : g = [out EXCEPT !.dhost = hop] OBVIOUS
    <3>2. g.d = f.d /\ g.shost \in RouterIps /\ g.dhost = hop
      BY <1>1, <2>1, <2>4, <3>1 DEF Frame
    <3>3. stage' = "link" /\ frame' = g BY <2>7, <3>1 DEF OnLink
    <3>4. QED BY <2>6, <3>2, <3>3, LinkFate
  <2>8. CASE InQueue(out, r, i, hop)
    <3>1. PICK w : w = [router |-> r, iface |-> i, hop |-> hop] OBVIOUS
    <3>2. stage' = "queue" /\ frame' = out /\ wait' = w /\ w.hop = hop
      BY <2>8, <3>1 DEF InQueue
    <3>3. QED BY <2>5, <2>6, <3>2, QueueFate
  <2>9. CASE hop = 0 BY <2>3, <2>9, IpAssumption
  <2>10. QED BY <1>1, <2>7, <2>8, <2>9
<1>2. PICK f \in fs : TRUE OBVIOUS
<1>3. \E g \in fs : HasRouteIn(RTables[r], g.d.dst) BY <1>2
<1>4. QED BY <1>1, <1>3 DEF sr_send_routed_ip_packet

\* An error about what the router has received is made.
LEMMA ErrorFound ==
  ASSUME NEW r \in Routers, NEW i \in Iface, NEW f, IfIps[r][i] = f.dhost,
         sr_valid_ip_packet(f.d), NEW type, NEW code
  PROVE  sr_send_icmp_error(r, f, type, code) # {}
<1> DEFINE S == HavingMac(IfIps[r], f.shost)
           D == HavingMac(IfIps[r], f.dhost)
           X == IcmpSourceIn(IfIps[r], RTables[r], f.shost, f.dhost, f.d.src)
<1>1. D # {} BY DEF HavingMac
<1> HIDE DEF S, D
<1>2. X # {}
  <2>1. CASE S # {} BY <2>1 DEF IcmpSourceIn, S
  <2>2. CASE S = {} BY <1>1, <2>2 DEF IcmpSourceIn, S, D
  <2>3. QED BY <2>1, <2>2
<1> HIDE DEF X
<1>3. PICK x \in X : TRUE BY <1>2
<1>4. [shost |-> IfIps[r][x], dhost |-> f.shost, d |-> IcmpError(IfIps[r][x], f.d, type, code)]
        \in sr_send_icmp_error(r, f, type, code)
  BY <1>3 DEF sr_send_icmp_error, X
<1>5. QED BY <1>4

\* It goes home if it is about the datagram of a host.
LEMMA ErrorFate ==
  ASSUME JourneyInv, orig' = orig, NEW r \in Routers, NEW i \in Iface,
         NEW f \in Frame, IfIps[r][i] = f.dhost, Fit(f.d), f.d.src = orig.src,
         NEW type \in {3, 11}, NEW code \in {0, 1, 3},
         sr_send_routed_ip_packet(r, sr_send_icmp_error(r, f, type, code), 0)
  PROVE  FateInv'
<1>1. orig \in Datagram /\ orig.src \in Hosts BY DEF JourneyInv, TypeOK, Placed
<1>2. sr_valid_ip_packet(f.d) /\ Known(f.d) BY DEF Fit, Sound
<1>3. PICK fs : fs = sr_send_icmp_error(r, f, type, code) OBVIOUS
<1>4. fs # {} BY <1>2, <1>3, ErrorFound
<1>5. \A g \in fs : g \in Frame /\ g.d.dst = orig.src /\ g.d.ttl = INIT_TTL
  BY <1>1, <1>2, <1>3, ErrorSent
<1>6. HasRouteIn(RTables[r], orig.src) /\ Dist[r][orig.src] < INIT_TTL
  BY <1>1, RoutingAssumption
<1>7. Dist[r][orig.src] <= INIT_TTL
  <2>1. Dist[r][orig.src] \in Nat /\ INIT_TTL \in Octet BY <1>1, NetworkAssumption
  <2>2. INIT_TTL \in Nat BY <2>1 DEF Octet
  <2>3. QED BY <1>6, <2>1, <2>2
<1>8. \A g \in fs :
        /\ g \in Frame /\ HasRouteIn(RTables[r], g.d.dst)
        /\ g.d.src \in RouterIps => g.d.dst = orig.src /\ Dist[r][orig.src] <= g.d.ttl
  BY <1>5, <1>6, <1>7
<1>9. QED BY <1>1, <1>3, <1>4, <1>8, RoutedFate

\* A datagram on an undamaged link.
LEMMA OnTheWay ==
  ASSUME JourneyInv, FateInv, ~ damaged, ~ failed, stage = "link"
  PROVE  /\ frame \in Frame /\ frame.d \in Datagram /\ orig \in Datagram
         /\ orig.src \in Hosts /\ orig.src \notin RouterIps
         /\ RfcValid(HeaderOctets(frame.d)) /\ Track(frame.d, frame.dhost)
         /\ \/ /\ frame.d.src \in RouterIps /\ frame.d.dst = orig.src
               /\ RfcValid(BodyOctets(frame.d.body))
            \/ /\ frame.d.src = orig.src /\ frame.d.dst = orig.dst
               /\ frame.d.p = orig.p /\ frame.d.body = orig.body
<1>1. frame \in Frame /\ orig \in Datagram /\ orig.src \in Hosts
  BY DEF JourneyInv, TypeOK, Placed
<1>2. frame.d \in Datagram BY <1>1 DEF Frame
<1>3. orig.src \notin RouterIps BY <1>1, HostAssumption
<1>4. /\ RfcValid(HeaderOctets(frame.d))
      /\ frame.d.src \in RouterIps => RfcValid(BodyOctets(frame.d.body))
  BY DEF JourneyInv, Undamaged
<1>5. Track(frame.d, frame.dhost) BY DEF FateInv
<1>6. Stems(frame.d) \/ Made(frame.d) BY <1>4 DEF JourneyInv, Honest, Known, Undamaged
<1>7. CASE Stems(frame.d)
  <2>1. /\ frame.d.src = orig.src /\ frame.d.dst = orig.dst
        /\ frame.d.p = orig.p /\ frame.d.body = orig.body
    BY <1>1, <1>2, <1>7, StemsSame
  <2>2. QED BY <1>1, <1>2, <1>3, <1>4, <1>5, <2>1
<1>8. CASE Made(frame.d)
  <2>1. frame.d.src \in RouterIps BY <1>8 DEF Made
  <2>2. frame.d.dst = orig.src BY <1>5, <2>1 DEF Track
  <2>3. QED BY <1>1, <1>2, <1>3, <1>4, <1>5, <2>1, <2>2
<1>9. QED BY <1>6, <1>7, <1>8

\* Only a malformed datagram, or one with checksum 0, is refused.
LEMMA RefuseFate ==
  ASSUME JourneyInv, FateInv, ~ damaged, ~ failed, NEW r \in Routers, NEW i \in Iface,
         Refuse(r, i)
  PROVE  FateInv'
<1>1. /\ stage = "link" /\ ~ sr_valid_ip_packet(frame.d) /\ End("invalid")
      /\ orig' = orig /\ damaged' = damaged /\ failed' = failed
  BY DEF Refuse, Received
<1>2. orig \in Datagram /\ RfcValid(HeaderOctets(frame.d)) BY <1>1, OnTheWay
<1>3. frame.shost \notin RouterIps BY <1>1 DEF JourneyInv, LeavesValid, FromRouter
<1>4. frame.d = orig BY <1>3 DEF FateInv
<1>5. ~ orig.fit \/ orig.sum = 0 BY <1>1, <1>2, <1>4, ValidAccepted
<1>6. Verdict("invalid") BY <1>5 DEF Verdict
<1>7. QED BY <1>1, <1>6, OverFate

\* A datagram for the router that has received it is the one that was sent.
LEMMA ForUsFacts ==
  ASSUME JourneyInv, FateInv, ~ damaged, ~ failed, NEW r \in Routers, NEW i \in Iface,
         ForUs(r, i)
  PROVE  /\ Accepted(r, i) /\ frame.d.dst \in RouterIps
         /\ frame.d.src = orig.src /\ frame.d.dst = orig.dst
         /\ frame.d.p = orig.p /\ frame.d.body = orig.body
<1>1. Accepted(r, i) /\ sr_is_router_ip(r, frame.d.dst) BY DEF ForUs
<1>2. stage = "link" BY <1>1 DEF Accepted, Received
<1>3. frame.d.dst \in RouterIps BY <1>1 DEF sr_is_router_ip, RouterIps
<1>4. QED BY <1>1, <1>2, <1>3, OnTheWay

\* What a router has accepted, it may send.
LEMMA AcceptedFit ==
  ASSUME JourneyInv, ~ damaged, NEW r \in Routers, NEW i \in Iface, Accepted(r, i)
  PROVE  Fit(frame.d)
<1>1. /\ frame.d \in Datagram /\ sr_valid_ip_packet(frame.d)
      /\ RfcValid(HeaderOctets(frame.d)) /\ Known(frame.d)
  BY AcceptedFacts
<1>2. QED BY <1>1 DEF Fit, Sound, JourneyInv, Undamaged

\* An echo reply is on its way back to a host.
LEMMA ReplyFate ==
  ASSUME JourneyInv, FateInv, ~ damaged, ~ failed, NEW r \in Routers, NEW i \in Iface,
         sr_send_icmp_echo_reply(r, i)
  PROVE  FateInv'
<1>1. ForUs(r, i) BY DEF sr_send_icmp_echo_reply
<1>2. Accepted(r, i) /\ frame.d.dst \in RouterIps /\ frame.d.src = orig.src
  BY <1>1, ForUsFacts
<1>3. /\ frame.d \in Datagram /\ frame.d.fit /\ stage = "link" /\ orig' = orig
  BY <1>2, AcceptedFacts
<1>4. PICK d : d = frame.d OBVIOUS
<1>5. PICK e : e = EchoReply(d) OBVIOUS
<1>6. e.src = d.dst /\ e.dst = d.src /\ e.ttl = INIT_TTL BY <1>3, <1>4, <1>5, ReplyFacts
<1>7. orig.src \in Hosts BY DEF JourneyInv, Placed
<1>8. PICK s : s = frame.shost OBVIOUS
<1>9. s \in Hosts => s = orig.src BY <1>8, HostAssumption DEF FateInv
<1>10. \A q \in Routers, j \in Iface : IfIps[q][j] = s => Dist[q][orig.src] < INIT_TTL
  BY <1>7, RoutingAssumption
<1>11. Track(e, s) BY <1>2, <1>4, <1>6, <1>9, <1>10 DEF Track
<1>12. IfIps[r][i] \in RouterIps BY OwnAddress
<1>13. PICK f : f = [shost |-> IfIps[r][i], dhost |-> s, d |-> e] OBVIOUS
<1>14. f.d = e /\ f.shost \in RouterIps /\ f.dhost = s BY <1>12, <1>13
<1>15. stage' = "link" /\ frame' = f
  BY <1>4, <1>5, <1>8, <1>13 DEF sr_send_icmp_echo_reply, OnLink
<1>16. QED BY <1>3, <1>11, <1>14, <1>15, LinkFate

\* So is a port unreachable error.
LEMMA PortFate ==
  ASSUME JourneyInv, FateInv, ~ damaged, ~ failed, NEW r \in Routers, NEW i \in Iface,
         PortUnreachable(r, i)
  PROVE  FateInv'
<1>1. ForUs(r, i) /\ sr_send_routed_ip_packet(r, sr_send_icmp_error(r, frame, 3, 3), 0)
  BY DEF PortUnreachable
<1>2. Accepted(r, i) /\ frame.d.src = orig.src BY <1>1, ForUsFacts
<1>3. frame \in Frame /\ orig' = orig /\ IfIps[r][i] = frame.dhost
  BY <1>2, AcceptedFacts
<1>4. Fit(frame.d) BY <1>2, AcceptedFit
<1>5. QED BY <1>1, <1>2, <1>3, <1>4, ErrorFate

\* A router absorbs only what it cannot answer.
LEMMA AbsorbFate ==
  ASSUME JourneyInv, FateInv, ~ damaged, ~ failed, NEW r \in Routers, NEW i \in Iface,
         Absorb(r, i)
  PROVE  FateInv'
<1>1. /\ ForUs(r, i) /\ ~ IsEcho(frame.d) /\ frame.d.p # ip_protocol_tcp
      /\ End("absorbed")
  BY DEF Absorb
<1>2. /\ Accepted(r, i) /\ frame.d.dst \in RouterIps
      /\ frame.d.src = orig.src /\ frame.d.dst = orig.dst
      /\ frame.d.p = orig.p /\ frame.d.body = orig.body
  BY <1>1, ForUsFacts
<1>3. frame.d \in Datagram /\ orig' = orig /\ damaged' = damaged /\ failed' = failed
  BY <1>2, AcceptedFacts
<1>4. frame.d.body \in Body BY <1>3 DEF Datagram
<1>5. ASSUME Answerable(orig) PROVE FALSE
  <2>1. /\ orig.p = ip_protocol_icmp /\ orig.body.type = 8
        /\ Len(orig.body.data) >= EchoSize
        /\ RfcValid(BodyOctets(orig.body)) /\ orig.body.sum # 0
    BY <1>1, <1>2, <1>5 DEF Answerable
  <2>2. orig.body.sum = IcmpSum(orig.body) BY <1>2, <1>4, <2>1, ValidBodyAccepted
  <2>3. IsEcho(frame.d) BY <1>2, <2>1, <2>2 DEF IsEcho
  <2>4. QED BY <1>1, <2>3
<1>6. Verdict("absorbed") BY <1>2, <1>5 DEF Verdict
<1>7. QED BY <1>1, <1>3, <1>6, OverFate

\* What a router made has time left, wherever it is.
LEMMA TimeLeft ==
  ASSUME JourneyInv, NEW r \in Routers, NEW i \in Iface, IfIps[r][i] = frame.dhost,
         frame \in Frame, Track(frame.d, frame.dhost), frame.d.src \in RouterIps
  PROVE  /\ Dist[r][orig.src] <= frame.d.ttl - 1 /\ frame.d.ttl > 1
         /\ HasRouteIn(RTables[r], frame.d.dst) /\ frame.d.dst = orig.src
<1>1. PICK h \in Hosts : h = orig.src BY DEF JourneyInv, Placed
<1>2. frame.d.dst = h /\ Dist[r][h] < frame.d.ttl BY <1>1 DEF Track
<1>3. HasRouteIn(RTables[r], h) /\ 0 < Dist[r][h] BY RoutingAssumption
<1>4. Dist[r][h] \in Nat BY NetworkAssumption
<1>5. frame.d \in Datagram BY DEF Frame
<1>6. frame.d.ttl \in Nat BY <1>5, FieldTypes
<1>7. QED BY <1>1, <1>2, <1>3, <1>4, <1>6

\* Only the datagram of the host runs out of time, and its sender hears of it.
LEMMA TimeFate ==
  ASSUME JourneyInv, FateInv, ~ damaged, ~ failed, NEW r \in Routers, NEW i \in Iface,
         TimeExceeded(r, i)
  PROVE  FateInv'
<1>1. /\ Accepted(r, i) /\ frame.d.ttl <= 1
      /\ sr_send_routed_ip_packet(r, sr_send_icmp_error(r, frame, 11, 0), 0)
  BY DEF TimeExceeded, Transit
<1>2. /\ frame \in Frame /\ stage = "link" /\ orig' = orig /\ IfIps[r][i] = frame.dhost
      /\ frame.d \in Datagram
  BY <1>1, AcceptedFacts
<1>3. Fit(frame.d) BY <1>1, AcceptedFit
<1>4. Track(frame.d, frame.dhost) /\ (frame.d.src \in RouterIps \/ frame.d.src = orig.src)
  BY <1>2, OnTheWay
<1>5. frame.d.src \notin RouterIps
  <2>1. frame.d.ttl \in Nat BY <1>2, FieldTypes
  <2>2. QED BY <1>1, <1>2, <1>4, <2>1, TimeLeft
<1>6. QED BY <1>1, <1>2, <1>3, <1>4, <1>5, ErrorFate

\* A forwarded datagram is nearer to its host, or its sender hears of it.
LEMMA ForwardFate ==
  ASSUME JourneyInv, FateInv, ~ damaged, ~ failed, NEW r \in Routers, NEW i \in Iface,
         sr_forward_ip_packet(r, i)
  PROVE  FateInv'
<1>1. Accepted(r, i) /\ frame.d.ttl > 1 BY DEF sr_forward_ip_packet, Transit
<1>2. frame \in Frame /\ stage = "link" /\ orig' = orig /\ IfIps[r][i] = frame.dhost
  BY <1>1, AcceptedFacts
<1>3. PICK e : e = Decrement(frame.d) OBVIOUS
<1>4. /\ e \in Datagram /\ Fit(e)
      /\ e.src = frame.d.src /\ e.dst = frame.d.dst /\ e.ttl = frame.d.ttl - 1
  BY <1>1, <1>3, ForwardFacts
<1>5. PICK f : f = [frame EXCEPT !.d = e] OBVIOUS
<1>6. f \in Frame /\ f.d = e /\ f.dhost = frame.dhost BY <1>2, <1>4, <1>5 DEF Frame
<1>7. f = [frame EXCEPT !.d = Decrement(@)] BY <1>3, <1>5
<1>8. PICK fs : fs = IF HasRouteIn(RTables[r], f.d.dst) THEN {f}
                     ELSE sr_send_icmp_error(r, f, 3, 0)
  OBVIOUS
<1>9. sr_send_routed_ip_packet(r, fs, 0) BY <1>7, <1>8 DEF sr_forward_ip_packet
<1>10. /\ Track(frame.d, frame.dhost) /\ orig.src \in Hosts
       /\ frame.d.src \in RouterIps \/ frame.d.src = orig.src
  BY <1>2, OnTheWay
<1>11. e.src \in RouterIps => /\ Dist[r][orig.src] <= e.ttl
                              /\ HasRouteIn(RTables[r], e.dst) /\ e.dst = orig.src
  BY <1>2, <1>4, <1>10, TimeLeft
<1>12. CASE HasRouteIn(RTables[r], f.d.dst)
  <2>1. fs = {f} BY <1>8, <1>12
  <2>2. \A g \in fs :
          /\ g \in Frame /\ HasRouteIn(RTables[r], g.d.dst)
          /\ g.d.src \in RouterIps => g.d.dst = orig.src /\ Dist[r][orig.src] <= g.d.ttl
    BY <1>6, <1>11, <1>12, <2>1
  <2>3. QED BY <1>2, <1>9, <1>10, <2>1, <2>2, RoutedFate
<1>13. CASE ~ HasRouteIn(RTables[r], f.d.dst)
  <2>1. sr_send_routed_ip_packet(r, sr_send_icmp_error(r, f, 3, 0), 0)
    BY <1>8, <1>9, <1>13
  <2>2. f.d.src = orig.src BY <1>4, <1>6, <1>10, <1>11, <1>13
  <2>3. IfIps[r][i] = f.dhost /\ Fit(f.d) BY <1>2, <1>4, <1>6
  <2>4. QED BY <1>2, <1>6, <2>1, <2>2, <2>3, ErrorFate
<1>14. QED BY <1>12, <1>13

\* A datagram that leaves the queue goes to the next hop it waited for.
LEMMA FlushFate ==
  ASSUME JourneyInv, FateInv, ~ damaged, ~ failed, Flush
  PROVE  FateInv'
<1>1. stage = "queue" /\ orig' = orig BY DEF Flush
<1>2. frame \in Frame /\ wait \in WaitType BY DEF JourneyInv, TypeOK, WaitType
<1>3. PICK r \in Routers, i \in Iface : r = wait.router /\ i = wait.iface
  BY <1>2 DEF WaitType
<1>4. IfIps[r][i] \in RouterIps BY OwnAddress
<1>5. PICK f : f = [frame EXCEPT !.dhost = wait.hop, !.shost = IfIps[r][i]] OBVIOUS
<1>6. f.shost \in RouterIps /\ f.d = frame.d /\ f.dhost = wait.hop
  BY <1>2, <1>4, <1>5 DEF Frame
<1>7. stage' = "link" /\ frame' = f BY <1>3, <1>5 DEF Flush, OnLink
<1>8. Track(frame.d, wait.hop) BY <1>1 DEF FateInv
<1>9. QED BY <1>1, <1>6, <1>7, <1>8, LinkFate

\* Leaving home is no change.
LEMMA HostSendFate ==
  ASSUME JourneyInv, FateInv, HostSend
  PROVE  FateInv'
<1>1. /\ stage = "home" /\ stage' = "link" /\ frame' = frame
      /\ orig' = orig /\ damaged' = damaged /\ failed' = failed
  BY DEF HostSend
<1>2. Track(frame.d, frame.dhost) => Track(frame.d, frame.dhost)' BY <1>1 DEF Track
<1>3. QED BY <1>1, <1>2 DEF FateInv, NothingVanishes

\* A host ignores nothing but an ICMP message with a wrong checksum.
LEMMA HostReceiveFate ==
  ASSUME JourneyInv, FateInv, ~ damaged, ~ failed, HostReceive
  PROVE  FateInv'
<1>1. /\ stage = "link" /\ frame.dhost \in Hosts
      /\ orig' = orig /\ damaged' = damaged /\ failed' = failed
  BY DEF HostReceive
<1>2. /\ RfcValid(HeaderOctets(frame.d)) /\ Track(frame.d, frame.dhost)
      /\ RfcValid(BodyOctets(frame.d.body)) \/ frame.d.body = orig.body
  BY <1>1, OnTheWay
<1>3. frame.d.dst = frame.dhost BY <1>1, <1>2 DEF Track
<1>4. \/ End("delivered")
      \/ End("ignored") /\ ~ RfcValid(BodyOctets(frame.d.body))
  BY <1>2, <1>3 DEF HostReceive
<1>5. CASE End("delivered")
  <2>1. Verdict("delivered") BY DEF Verdict
  <2>2. QED BY <1>1, <1>5, <2>1, OverFate
<1>6. CASE End("ignored") /\ ~ RfcValid(BodyOctets(frame.d.body))
  <2>1. Verdict("ignored") BY <1>2, <1>6 DEF Verdict
  <2>2. QED BY <1>1, <1>6, <2>1, OverFate
<1>7. QED BY <1>4, <1>5, <1>6

\* The invariant is kept by every step.
LEMMA FateStep == JourneyInv /\ FateInv /\ [Next]_vars => FateInv'
<1> SUFFICES ASSUME JourneyInv, FateInv, [Next]_vars PROVE FateInv' OBVIOUS
<1>1. CASE HostSend BY <1>1, HostSendFate
<1>2. ASSUME NEW r \in Routers, NEW i \in Iface, Handle(r, i) PROVE FateInv'
  <2>1. damaged' = damaged /\ failed' = failed
    BY <1>2 DEF Handle, Refuse, sr_send_icmp_echo_reply, PortUnreachable, Absorb,
                TimeExceeded, sr_forward_ip_packet, ForUs, Transit, Accepted, Received
  <2>2. CASE damaged \/ failed BY <2>1, <2>2 DEF FateInv
  <2>3. CASE ~ damaged /\ ~ failed
    BY <1>2, <2>3, RefuseFate, ReplyFate, PortFate, AbsorbFate, TimeFate, ForwardFate
    DEF Handle
  <2>4. QED BY <2>2, <2>3
<1>3. CASE Flush
  <2>1. damaged' = damaged /\ failed' = failed BY <1>3 DEF Flush
  <2>2. CASE damaged \/ failed BY <2>1, <2>2 DEF FateInv
  <2>3. CASE ~ damaged /\ ~ failed BY <1>3, <2>3, FlushFate
  <2>4. QED BY <2>2, <2>3
<1>4. CASE GiveUp
  <2>1. failed' = TRUE BY <1>4 DEF GiveUp
  <2>2. QED BY <2>1 DEF FateInv
<1>5. CASE HostReceive
  <2>1. damaged' = damaged /\ failed' = failed BY <1>5 DEF HostReceive
  <2>2. CASE damaged \/ failed BY <2>1, <2>2 DEF FateInv
  <2>3. CASE ~ damaged /\ ~ failed BY <1>5, <2>3, HostReceiveFate
  <2>4. QED BY <2>2, <2>3
<1>6. CASE Damage
  <2>1. damaged' = TRUE BY <1>6 DEF Damage
  <2>2. QED BY <2>1 DEF FateInv
<1>7. CASE UNCHANGED vars
  <2>1. /\ stage' = stage /\ frame' = frame /\ wait' = wait /\ orig' = orig
        /\ fate' = fate /\ damaged' = damaged /\ failed' = failed
    BY <1>7 DEF vars
  <2>2. /\ Track(frame.d, frame.dhost)' <=> Track(frame.d, frame.dhost)
        /\ Track(frame.d, wait.hop)' <=> Track(frame.d, wait.hop)
    BY <2>1 DEF Track
  <2>3. NothingVanishes' <=> NothingVanishes BY <2>1 DEF NothingVanishes, Answerable
  <2>4. QED BY <2>1, <2>2, <2>3 DEF FateInv
<1>8. QED BY <1>1, <1>2, <1>3, <1>4, <1>5, <1>6, <1>7 DEF Next, Progress

\* In a network whose routing tables lead to its hosts no datagram vanishes: as
\* long as nothing is damaged and next hops answer, it arrives, or its sender
\* hears of it, or it was one of those that the code has no answer to.
THEOREM JourneyNothingVanishes == Spec => []NothingVanishes
<1>1. Init => JourneyInv /\ FateInv BY JourneyInit, FateInit
<1>2. JourneyInv /\ FateInv /\ [Next]_vars => JourneyInv' /\ FateInv'
  BY JourneyStep, FateStep
<1>3. JourneyInv /\ FateInv => NothingVanishes BY DEF FateInv, NothingVanishes
<1>4. QED BY <1>1, <1>2, <1>3, PTL DEF Spec

=============================================================================
