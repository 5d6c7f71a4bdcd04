------------------------------ MODULE Checksum ------------------------------
(***************************************************************************)
(* checksum and udp4_checksum of TD5/RawIP_TD/header.c.  Data is a         *)
(* sequence of octets; the machine is little-endian, so the words the sum  *)
(* is made of have their low octet first.                                  *)
(***************************************************************************)
EXTENDS CStrings

\* The unsigned shorts in data: an odd last octet makes one of its own.
Words(data) == (Len(data) + 1) \div 2

\* The k-th unsigned short of data; the last one of an odd number of octets has
\* a zero octet behind it.
Word(data, k) ==
    data[2 * k - 1] + (IF 2 * k <= Len(data) THEN 256 * data[2 * k] ELSE 0)

\* What the loop and the odd octet add up to.
WordSum(data) ==
    LET sum[k \in 0 .. Words(data)] == IF k = 0 THEN 0 ELSE sum[k - 1] + Word(data, k)
    IN  sum[Words(data)]

\* Mutant: the carry of adding the carries is dropped.
FoldOnce(sum) == sum \div 65536 + (sum % 65536)

\* The carries are added to the low 16 bits, and the carry of that once more.
Fold(sum) ==
    LET once == sum \div 65536 + (sum % 65536)
    IN  once + once \div 65536

\* The low 16 bits of ~sum.
Complement(sum) == 65535 - (sum % 65536)

checksum(data) == Complement(Fold(WordSum(data)))

\* A field in network order, and one stored as the machine has it.
NetworkOrder(n) == <<n \div 256, n % 256>>
HostOrder(n) == <<n % 256, n \div 256>>

\* Mutant: the length is left out of the pseudo-header.
DatagramWithoutLength(ip, udp, payload) ==
    ip.saddr \o ip.daddr \o <<0, ip.protocol>>
    \o NetworkOrder(udp.source) \o NetworkOrder(udp.dest)
    \o NetworkOrder(udp.len) \o <<0, 0>>
    \o payload \o (IF Len(payload) % 2 = 1 THEN <<0>> ELSE <<>>)

\* The buffer that udp4_checksum sums up: the pseudo-header, the UDP header with
\* a zero checksum, the payload and its padding.
PseudoDatagram(ip, udp, payload) ==
    ip.saddr \o ip.daddr \o <<0, ip.protocol>> \o NetworkOrder(udp.len)
    \o NetworkOrder(udp.source) \o NetworkOrder(udp.dest)
    \o NetworkOrder(udp.len) \o <<0, 0>>
    \o payload \o (IF Len(payload) % 2 = 1 THEN <<0>> ELSE <<>>)

udp4_checksum(ip, udp, payload) == checksum(PseudoDatagram(ip, udp, payload))
=============================================================================
