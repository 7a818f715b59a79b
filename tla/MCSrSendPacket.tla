--------------------------- MODULE MCSrSendPacket ---------------------------
(***************************************************************************)
(* Instance of SrSendPacket for TLC: messages of two pieces, a frame that  *)
(* is too short and one with a foreign source address, and a buffer that   *)
(* holds one message and a part of another.                                *)
(***************************************************************************)
EXTENDS SrSendPacket

Proper == [len |-> 1, sane |-> TRUE]

MCFrames == {Proper, [len |-> 0, sane |-> TRUE], [len |-> 1, sane |-> FALSE]}

MCReceived == {Proper}

=============================================================================
