---------------------------- MODULE MCSrArpCache ----------------------------
(***************************************************************************)
(* Instance of SrArpCache for TLC.                                         *)
(***************************************************************************)
EXTENDS SrArpCache

MCIp == 1 .. 4

=============================================================================
