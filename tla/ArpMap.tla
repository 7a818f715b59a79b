------------------------------- MODULE ArpMap -------------------------------
(***************************************************************************)
(* What the ARP table promises: a finite map from addresses to hardware    *)
(* addresses.  It has no slots.  An address has one mapping, the one       *)
(* learned last; a mapping of a new address is only taken while there is   *)
(* room; a sweep forgets the mappings older than SR_ARPCACHE_TO seconds    *)
(* and no others.                                                          *)
(***************************************************************************)
EXTENDS SrAddresses, FiniteSets

CONSTANTS SR_ARPCACHE_SZ, SR_ARPCACHE_TO

VARIABLES
  map,   \* the mappings: address -> hardware address and age
  op     \* the last operation and its result

vars == <<map, op>>

Idle == [name |-> "none", ip |-> 0, mac |-> NoMac]

Init == map = <<>> /\ op = Idle

\* The map with one more, or one newer, mapping.
With(ip, mac) ==
  [x \in DOMAIN map \cup {ip} |->
     IF x = ip THEN [mac |-> mac, age |-> 0] ELSE map[x]]

HasRoom == Cardinality(DOMAIN map) < SR_ARPCACHE_SZ

Learn(ip, mac) ==
  /\ map' = IF ip \in DOMAIN map \/ HasRoom THEN With(ip, mac) ELSE map
  /\ op' = [name |-> "insert", ip |-> ip, mac |-> mac]

Lookup(ip) ==
  /\ op' = [name |-> "lookup", ip |-> ip,
            mac |-> IF ip \in DOMAIN map THEN map[ip].mac ELSE NoMac]
  /\ UNCHANGED map

Sweep ==
  /\ map' = [x \in {y \in DOMAIN map : map[y].age <= SR_ARPCACHE_TO} |-> map[x]]
  /\ op' = Idle

Tick ==
  /\ map' = [x \in DOMAIN map |->
               [map[x] EXCEPT !.age = IF @ > SR_ARPCACHE_TO THEN @ ELSE @ + 1]]
  /\ op' = Idle

Next ==
  \/ \E ip \in Ip, mac \in Mac : Learn(ip, mac)
  \/ \E ip \in Ip : Lookup(ip)
  \/ Sweep
  \/ Tick

Spec == Init /\ [][Next]_vars

=============================================================================
