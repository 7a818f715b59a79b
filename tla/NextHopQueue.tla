---------------------------- MODULE NextHopQueue ----------------------------
(***************************************************************************)
(* What the forwarding part of the router promises, without threads,       *)
(* locks, lists or memory.  A datagram that is accepted has a next hop.    *)
(* If the hardware address of the hop is known it is sent, otherwise it    *)
(* waits.  When the hop is heard of, all that wait for it are sent,        *)
(* together; when the router gives up on the hop, the sources of those     *)
(* that wait for it are told, one by one.  No datagram is sent or reported *)
(* in any other way, or again.                                             *)
(***************************************************************************)
EXTENDS Naturals

CONSTANTS Ids, Hops

VARIABLES
  known,     \* the next hops whose hardware address is known
  hand,      \* accepted datagrams with their next hops: <<id, hop>>
  waiting,   \* per next hop, the datagrams that wait for it
  released,  \* the datagrams whose next hop has been heard of
  sent,      \* how often each datagram was sent
  told       \* how often its source was told that the hop is unreachable

vars == <<known, hand, waiting, released, sent, told>>

Nobody == [h \in Hops |-> {}]

Init ==
  /\ known = {}
  /\ hand = {}
  /\ waiting = Nobody
  /\ released = {}
  /\ sent = [i \in Ids |-> 0]
  /\ told = [i \in Ids |-> 0]

Unused(i) ==
  /\ sent[i] = 0 /\ told[i] = 0
  /\ i \notin released
  /\ \A h \in Hops : <<i, h>> \notin hand /\ i \notin waiting[h]

Accept(i, h) ==
  /\ hand' = hand \cup {<<i, h>>}
  /\ Unused(i)
  /\ UNCHANGED <<known, waiting, released, sent, told>>

Forward(i, h) ==
  /\ <<i, h>> \in hand
  /\ h \in known
  /\ hand' = hand \ {<<i, h>>}
  /\ sent' = [sent EXCEPT ![i] = @ + 1]
  /\ UNCHANGED <<known, waiting, released, told>>

Wait(i, h) ==
  /\ <<i, h>> \in hand
  /\ h \notin known
  /\ hand' = hand \ {<<i, h>>}
  /\ waiting' = [waiting EXCEPT ![h] = @ \cup {i}]
  /\ UNCHANGED <<known, released, sent, told>>

\* The hardware address of h is heard, and remembered if there is room.
Learn(h) ==
  /\ known' \in {known, known \cup {h}}
  /\ waiting' = [waiting EXCEPT ![h] = {}]
  /\ released' = released \cup waiting[h]
  /\ UNCHANGED <<hand, sent, told>>

Release ==
  /\ sent' = [i \in Ids |-> IF i \in released THEN sent[i] + 1 ELSE sent[i]]
  /\ released' = {}
  /\ UNCHANGED <<known, hand, waiting, told>>

Forget ==
  /\ known' \in SUBSET known
  /\ UNCHANGED <<hand, waiting, released, sent, told>>

Report(i, h) ==
  /\ told' = [told EXCEPT ![i] = @ + 1]
  /\ i \in waiting[h]
  /\ waiting' = [waiting EXCEPT ![h] = @ \ {i}]
  /\ UNCHANGED <<known, hand, released, sent>>

Next ==
  \/ Release
  \/ Forget
  \/ \E i \in Ids, h \in Hops :
       Accept(i, h) \/ Forward(i, h) \/ Wait(i, h) \/ Report(i, h)
  \/ \E h \in Hops : Learn(h)

Spec == Init /\ [][Next]_vars

=============================================================================
