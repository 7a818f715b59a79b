------------------------------ MODULE MCSrLpm -------------------------------
(***************************************************************************)
(* Instance of SrLpm for TLC: 3-bit addresses, every table of at most      *)
(* three entries, with contiguous masks (0 is the default route) or the    *)
(* one that is not.                                                        *)
(***************************************************************************)
EXTENDS SrLpm, SequencesExt
LOCAL INSTANCE Bitwise

CONSTANTS eth1

AndTable == [a \in 0 .. 7, b \in 0 .. 7 |-> a & b]

MCAnd(a, b) == AndTable[a, b]

MCIp == 1 .. 7

Entry(dest, mask) == [dest |-> dest, gw |-> 0, mask |-> mask, iface |-> eth1]

MCTables ==
  SeqOf({Entry(d, m) : d \in {0, 3, 4, 5}, m \in {0, 4, 5, 6, 7}}, 3)

MCBlock == [n \in 0 .. 3 |-> 2 ^ (3 - n)]

=============================================================================
