------------------------------- MODULE SrLpm --------------------------------
(***************************************************************************)
(* The walk of sr_find_lpm_route over the routing table, one entry per     *)
(* step, for any table and any destination.                                *)
(***************************************************************************)
EXTENDS SrRoutes

CONSTANTS
  Tables,  \* routing tables to walk over
  Width,   \* bits of an address
  Block    \* per length of a prefix, the number of addresses that share one

ASSUME TablesAssumption == Tables \subseteq Seq(Route)

\* A bit more halves the block, down to a single address.
ASSUME BlockAssumption ==
  /\ Width \in Nat
  /\ Block \in [0 .. Width -> Nat]
  /\ Block[0] = IpMax + 1 /\ Block[Width] = 1
  /\ \A n \in 1 .. Width : Block[n - 1] = 2 * Block[n]

\* The netmask of a prefix of n bits: n ones and then zeros.
MaskOf(n) == IpMax + 1 - Block[n]

\* Under such a mask, & clears the bits after the prefix.
ASSUME AndAssumption ==
  \A a \in 0 .. IpMax, n \in 0 .. Width : BitAnd(a, MaskOf(n)) = a - (a % Block[n])

VARIABLES
  table,      \* sr->routing_table
  ip,         \* the destination
  rt,         \* index of the entry looked at; past the end when rt is NULL
  best,       \* index of the best entry so far; 0 when best is NULL
  best_mask   \* its mask

vars == <<table, ip, rt, best, best_mask>>

Init ==
  /\ table \in Tables
  /\ ip \in Ip
  /\ rt = 1
  /\ best = 0
  /\ best_mask = 0

\* Mutant: the first candidate must also beat the initial mask of 0.
ImprovesNoFirst(e) == Matches(e, ip) /\ e.mask > best_mask

\* Mutant: >= for >, later entries win ties.
ImprovesOnTie(e) == Matches(e, ip) /\ (best = 0 \/ e.mask >= best_mask)

\* The condition of the walk: (ip & mask) == (dest & mask) &&
\* (!best || mask > best_mask).
Improves(e) == Matches(e, ip) /\ (best = 0 \/ e.mask > best_mask)

\* Mutant: best_mask is not updated.
TakeKeepsMask ==
  /\ rt <= Len(table)
  /\ Improves(table[rt])
  /\ best' = rt
  /\ rt' = rt + 1
  /\ UNCHANGED <<table, ip, best_mask>>

Take ==
  /\ rt <= Len(table)
  /\ Improves(table[rt])
  /\ best' = rt
  /\ best_mask' = table[rt].mask
  /\ rt' = rt + 1
  /\ UNCHANGED <<table, ip>>

\* Mutant: the entry after one that does not fit is not looked at.
SkipTwo ==
  /\ rt <= Len(table)
  /\ ~ Improves(table[rt])
  /\ rt' = rt + 2
  /\ UNCHANGED <<table, ip, best, best_mask>>

Skip ==
  /\ rt <= Len(table)
  /\ ~ Improves(table[rt])
  /\ rt' = rt + 1
  /\ UNCHANGED <<table, ip, best, best_mask>>

Next == Take \/ Skip

Spec == Init /\ [][Next]_vars

Done == rt > Len(table)

-----------------------------------------------------------------------------
\* Type invariant: rt walks the table to its end and no further, and best is an
\* entry behind it.
TypeOK ==
  /\ table \in Tables
  /\ ip \in Ip
  /\ rt \in 1 .. Len(table) + 1
  /\ best \in 0 .. rt - 1
  /\ best_mask \in Nat

\* Entries the walk has passed that match.
Passed == {k \in 1 .. rt - 1 : Matches(table[k], ip)}

\* What the walk knows at every step: best is the entry to prefer among the
\* matching entries that it has passed.
BestSoFar ==
  /\ best = 0 <=> Passed = {}
  /\ best # 0 => /\ best \in Passed
                 /\ best_mask = table[best].mask
                 /\ \A j \in Passed : Prefers(table, best, j)

\* The walk ends at the entry that BestRoute defines: the routing decisions of
\* SrRouting are those of the code.
WalkIsBestRoute == Done => best = BestRoute(table, ip)

\* The entry is a prefix of n bits, the destination is among its addresses.
Covers(e, n) == e.mask = MaskOf(n) /\ ip \div Block[n] = e.dest \div Block[n]

\* Nothing in sr_load_rt or sr_find_lpm_route asks that masks be contiguous.
Contiguous == \A k \in DOMAIN table : \E n \in 0 .. Width : table[k].mask = MaskOf(n)

\* If its masks are contiguous, the walk through a table ends at the longest
\* prefix that covers the destination, and at an entry if any covers it: the
\* comparison of masks as numbers in sr_find_lpm_route is one of lengths.
LongestPrefix ==
  Done /\ Contiguous =>
    /\ best # 0 => \E n \in 0 .. Width : Covers(table[best], n)
    /\ \A k \in DOMAIN table, n \in 0 .. Width :
         Covers(table[k], n) =>
           best # 0 /\ \E m \in n .. Width : Covers(table[best], m)

=============================================================================
