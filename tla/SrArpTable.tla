----------------------------- MODULE SrArpTable -----------------------------
(***************************************************************************)
(* The ARP table of the router: the array cache->entries of sr_arpcache.c  *)
(* and the three loops that scan it (lookup, insert, timeout).             *)
(*                                                                         *)
(* A timestamp is kept as the number of seconds elapsed since it, which    *)
(* stops counting once it has passed the only threshold that the code      *)
(* compares it with (SR_ARPCACHE_TO).                                      *)
(***************************************************************************)
EXTENDS SrAddresses, FiniteSetsExt

CONSTANTS
  SR_ARPCACHE_SZ,  \* number of slots of the table (100 in the code)
  SR_ARPCACHE_TO   \* lifetime of a mapping in seconds (15 in the code)

ASSUME SzAssumption  == SR_ARPCACHE_SZ \in Nat \ {0}
ASSUME TtlAssumption == SR_ARPCACHE_TO \in Nat

Slots == 1 .. SR_ARPCACHE_SZ

\* struct sr_arpentry; "added" is kept as the age of the mapping.
ArpEntry == [valid : BOOLEAN, ip : Ip \cup {0}, mac : Mac \cup {NoMac},
             age : 0 .. SR_ARPCACHE_TO + 1]

\* sr_arpcache_init: memset(cache->entries, 0, ...).
EmptyTable ==
  [i \in Slots |->
     [valid |-> FALSE, ip |-> 0, mac |-> NoMac, age |-> SR_ARPCACHE_TO + 1]]

\* The slots that hold a valid mapping of ip.
Hits(entries, ip) == {i \in Slots : entries[i].valid /\ entries[i].ip = ip}

Cached(entries, ip) == Hits(entries, ip) # {}

\* Mutant: the slot itself is returned instead of a copy of the mapping.
LookupReturnsSlot(entries, ip) ==
  IF Cached(entries, ip) THEN Max(Hits(entries, ip)) ELSE NoMac

\* sr_arpcache_lookup keeps the LAST slot that matches.
sr_arpcache_lookup(entries, ip) ==
  IF Cached(entries, ip) THEN entries[Max(Hits(entries, ip))].mac ELSE NoMac

\* Mutant: the scan stops at the first free slot.
InsertSlotFirstFree(entries, ip) ==
  LET usable == {i \in Slots : ~ entries[i].valid} \cup Hits(entries, ip)
  IN  IF usable = {} THEN 0 ELSE Min(usable)

\* The slot sr_arpcache_insert picks: the FIRST valid slot of this address,
\* or else the first invalid slot, or none (0) when every slot is taken.
InsertSlot(entries, ip) ==
  LET free == {i \in Slots : ~ entries[i].valid}
  IN  CASE Cached(entries, ip)                -> Min(Hits(entries, ip))
        [] ~ Cached(entries, ip) /\ free # {} -> Min(free)
        [] OTHER                              -> 0

\* The table after sr_arpcache_insert(cache, mac, ip).
TableInsert(entries, mac, ip) ==
  LET slot == InsertSlot(entries, ip)
  IN  IF slot = 0
      THEN entries
      ELSE [entries EXCEPT ![slot] =
              [valid |-> TRUE, ip |-> ip, mac |-> mac, age |-> 0]]

\* Mutant: >= for >, mappings expire a second early.
TableTimeoutEarly(entries) ==
  [i \in Slots |->
     IF entries[i].valid /\ entries[i].age >= SR_ARPCACHE_TO
     THEN [entries[i] EXCEPT !.valid = FALSE]
     ELSE entries[i]]

\* The table after one pass of the loop of sr_arpcache_timeout.
TableTimeout(entries) ==
  [i \in Slots |->
     IF entries[i].valid /\ entries[i].age > SR_ARPCACHE_TO
     THEN [entries[i] EXCEPT !.valid = FALSE]
     ELSE entries[i]]

\* One second passes.
TableTick(entries) ==
  [i \in Slots |->
     [entries[i] EXCEPT !.age = IF @ > SR_ARPCACHE_TO THEN @ ELSE @ + 1]]

=============================================================================
