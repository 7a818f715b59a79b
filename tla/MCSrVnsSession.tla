--------------------------- MODULE MCSrVnsSession ---------------------------
(***************************************************************************)
(* Instance of SrVnsSession for TLC: two interfaces, a length field of two *)
(* bytes, and messages of three, four and (too long) seven bytes.          *)
(***************************************************************************)
EXTENDS SrVnsSession

CONSTANTS eth1, eth2, m1, m2

MCIp == {1, 2}

\* SrRoutes is here for its type of entries only.
MCAnd(a, b) == 0

Entry(i) == [dest |-> 2, gw |-> 0, mask |-> 3, iface |-> i]

\* An entry for the second interface; one for each; no entry.
MCRTables == {<<Entry(eth2)>>, <<Entry(eth1), Entry(eth2)>>, <<>>}

\* No template; a template with the file of the host that -v names, and with the
\* file of another host, which the server does not write.
MCOptions == [template : {FALSE}, host : {"vrhost"}, rtable : {DEFAULT_RTABLE}]
        \cup [template : {TRUE}, host : {"sw1"}, rtable : {RtableOf(h) : h \in Hosts}]

\* Lengths differ, and some messages are too long.
MCLens == [c \in Commands |-> CASE c \in {"VNS_AUTH_STATUS", "VNSHWINFO"} -> {4}
                                [] c = "VNSBANNER" -> {3, 7}
                                [] OTHER -> {3}]

Interface(i, ip, mac) == << [key |-> "HWINTERFACE", value |-> i],
                            [key |-> "HWMASK", value |-> 3],
                            [key |-> "HWETHIP", value |-> ip],
                            [key |-> "HWETHER", value |-> mac] >>

\* Both interfaces; only the second.
MCHwInfos == {Interface(eth1, 1, m1) \o Interface(eth2, 2, m2),
              Interface(eth2, 2, m2)}

=============================================================================
