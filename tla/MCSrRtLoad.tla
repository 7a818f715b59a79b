----------------------------- MODULE MCSrRtLoad -----------------------------
(***************************************************************************)
(* Instance of SrRtLoad for TLC: 2-bit addresses and files of up to three  *)
(* lines, complete, blank, cut short or wrong.                             *)
(***************************************************************************)
EXTENDS SrRtLoad, SequencesExt
LOCAL INSTANCE Bitwise

CONSTANTS eth1, eth2, junk

AndTable == [a \in 0 .. 3, b \in 0 .. 3 |-> a & b]

MCAnd(a, b) == AndTable[a, b]

MCIp == 1 .. 3

Complete == {<<d, 0, m, i>> : d \in {2, 3}, m \in {0, 2, 3}, i \in {eth1, eth2}}

Short == {<<>>, <<1>>, <<1, 0>>, <<1, 0, 3>>, <<Bad>>, <<2, 0, Bad, eth1>>}

MCFiles == SeqOf(Complete \cup Short, 3)

\* Nothing that converts, or the remains of another line.
MCLocals == {<<Bad, Bad, Bad, junk>>, <<3, 0, 2, eth2>>}

MCPrevious == {<<>>, <<[dest |-> 1, gw |-> 0, mask |-> 3, iface |-> eth1]>>}

=============================================================================
