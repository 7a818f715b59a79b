----------------------------- MODULE SrArpCache -----------------------------
(***************************************************************************)
(* The ARP table on its own, as a machine whose steps are the locked       *)
(* sections of sr_arpcache.c that touch it, in any order and from any      *)
(* thread.  It implements the map of ArpMap.                               *)
(***************************************************************************)
EXTENDS SrArpTable

VARIABLES
  entries,  \* cache->entries
  op        \* the last operation and its result

vars == <<entries, op>>

Idle == [name |-> "none", ip |-> 0, mac |-> NoMac]

Init == entries = EmptyTable /\ op = Idle

\* sr_arpcache_insert
Insert(ip, mac) ==
  /\ entries' = TableInsert(entries, mac, ip)
  /\ op' = [name |-> "insert", ip |-> ip, mac |-> mac]

\* sr_arpcache_lookup
Lookup(ip) ==
  /\ op' = [name |-> "lookup", ip |-> ip, mac |-> sr_arpcache_lookup(entries, ip)]
  /\ UNCHANGED entries

\* The loop over the table in sr_arpcache_timeout.
Timeout == entries' = TableTimeout(entries) /\ op' = Idle

Tick == entries' = TableTick(entries) /\ op' = Idle

Next ==
  \/ \E ip \in Ip, mac \in Mac : Insert(ip, mac)
  \/ \E ip \in Ip : Lookup(ip)
  \/ Timeout
  \/ Tick

Spec == Init /\ [][Next]_vars

-----------------------------------------------------------------------------
\* Type invariant: the slots hold entries and a lookup returns a hardware
\* address by value.
TypeOK ==
  /\ entries \in [Slots -> ArpEntry]
  /\ op \in [name : {"none", "insert", "lookup"}, ip : Ip \cup {0},
             mac : Mac \cup {NoMac}]

\* No address has two valid slots.  sr_arpcache_insert refreshes the first slot
\* of an address and sr_arpcache_lookup answers from the last one, so a second
\* slot would make the table answer with a mapping that can no longer be
\* corrected.
UniqueMapping ==
  \A i, j \in Slots :
    /\ entries[i].valid
    /\ entries[j].valid
    /\ entries[i].ip = entries[j].ip
    => i = j

\* The map that a table stands for.
SlotOf(ip) == CHOOSE i \in Slots : entries[i].valid /\ entries[i].ip = ip

CachedIps == {entries[i].ip : i \in {j \in Slots : entries[j].valid}}

AsMap == [ip \in CachedIps |-> [mac |-> entries[SlotOf(ip)].mac,
                                age |-> entries[SlotOf(ip)].age]]

Map == INSTANCE ArpMap WITH map <- AsMap

\* The array with its slots and its three different scans behaves as the map
\* of ArpMap.
ImplementsMap == Map!Spec

\* sr_arpcache.c:167 "Inserts this IP to MAC mapping in the cache, and marks it
\* valid" (and :271 "kick out a random entry if all entries full"): after
\* sr_arpcache_insert the table holds the mapping.
InsertStores == op.name = "insert" => sr_arpcache_lookup(entries, op.ip) = op.mac

=============================================================================
