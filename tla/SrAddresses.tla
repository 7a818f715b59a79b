---------------------------- MODULE SrAddresses -----------------------------
(***************************************************************************)
(* The addresses all other modules speak about.                            *)
(***************************************************************************)
EXTENDS Naturals

CONSTANTS
  IpMax,  \* the largest 32-bit number
  Ip,     \* IPv4 addresses, as numbers; 0 is never one
  Mac,    \* Ethernet addresses
  NoMac   \* the all-zero Ethernet address of memory cleared with memset

ASSUME IpAssumption  == IpMax \in Nat /\ Ip \subseteq 1 .. IpMax
ASSUME MacAssumption == NoMac \notin Mac

=============================================================================
