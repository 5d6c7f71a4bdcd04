---------------------------- MODULE MC_DnsSystem ----------------------------
(***************************************************************************)
(* DnsSystem with two names that are carried, one of them of two labels    *)
(* with a dot too many, and with two that are not.                         *)
(***************************************************************************)
EXTENDS DnsSystem

CONSTANTS port1, port2, client1, client2

MCAddrs == {port1, port2}
MCClients == {client1, client2}
MCFlags == {<<255, 255>>}

\* A name that fills the arrays, in labels that fit their length octets, and one
\* whose first length octet is read as a pointer.
MCLongHost ==
    [k \in 1 .. HOST_NAME_SIZE |-> IF k = 128 \/ k % 256 = 0 THEN Dot ELSE 97]
MCPointerHost == Filled(192, 193) \o <<Dot>> \o Filled(190, 97)

\* "a", ".b.cd" and those two
MCHosts == {<<97>>, <<46, 98, 46, 99, 100>>, MCLongHost, MCPointerHost}
=============================================================================
