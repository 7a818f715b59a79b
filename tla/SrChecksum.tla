----------------------------- MODULE SrChecksum -----------------------------
(***************************************************************************)
(* The Internet checksum as sr_utils.c computes it, over sequences of      *)
(* octets.  The number of values of an octet is a parameter: a word is two *)
(* octets, and nothing below depends on its width.                         *)
(***************************************************************************)
EXTENDS Naturals, SequencesExt

CONSTANT OctetMax  \* the largest octet: 255 in the code

ASSUME OctetAssumption == OctetMax \in Nat \ {0}

Octet   == 0 .. OctetMax
Base    == OctetMax + 1
WordMax == Base * Base - 1
Word    == 0 .. WordMax

\* The two octets of a word in network byte order.
OctetsOf(w) == <<w \div Base, w % Base>>

\* What octet k adds to the sum: data[0] << 8 | data[1] over the pairs; a last odd
\* octet counts as the first one of a pair.
Added(data, k) == IF k % 2 = 1 THEN Base * data[k] ELSE data[k]

\* The sum after each octet.  (Datagrams are far too short for 32 bits to overflow.)
Sums(data) ==
  LET sum[k \in 0 .. Len(data)] ==
        IF k = 0 THEN 0 ELSE sum[k - 1] + Added(data, k)
  IN  sum

SumOf(data) == Sums(data)[Len(data)]

\* The end-around carry: sum = (sum >> 16) + (sum & 0xffff) while it is longer
\* than a word.
Carry[s \in Nat] ==
  IF s <= WordMax THEN s ELSE Carry[(s \div (WordMax + 1)) + (s % (WordMax + 1))]

\* What RFC 1071 makes a sender store: the complement, which may be 0.
RfcSum(data) == WordMax - Carry[SumOf(data)]

\* Mutant: the carry out of the word is lost.
cksum_no_carry(data) ==
  LET c == WordMax - (SumOf(data) % (WordMax + 1))
  IN  IF c = 0 THEN WordMax ELSE c

\* cksum never returns 0: it puts the other zero of one's complement there.
cksum(data) ==
  LET c == WordMax - Carry[SumOf(data)]
  IN  IF c = 0 THEN WordMax ELSE c

\* What RFC 1071 makes a receiver test, over data that holds its checksum.
RfcValid(data) == Carry[SumOf(data)] = WordMax

=============================================================================
