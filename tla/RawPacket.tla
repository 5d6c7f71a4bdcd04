----------------------------- MODULE RawPacket -----------------------------
(***************************************************************************)
(* The packet that TD5/RawIP_TD/rawip_example.c builds around a payload,   *)
(* with the checksums of header.c.  The payload, a constant of the program *)
(* to be edited, is chosen octet by octet.                                 *)
(***************************************************************************)
EXTENDS Checksum

CONSTANTS
    Values,     \* the octets a payload is made of
    MaxPayload  \* bound: how many of them

ASSUME ValuesAssumption == Values \subseteq Octet \ {NUL}

\* tot_len has 16 bits, and main's packet is no longer than it allows.
ASSUME MaxPayloadAssumption == MaxPayload \in 0 .. 65507

VARIABLE payload

Init == payload = <<>>

\* One more octet in TEST_STRING.
Extend == Len(payload) < MaxPayload /\ \E v \in Values : payload' = Append(payload, v)

Next == Extend

Spec == Init /\ [][Next]_payload

-----------------------------------------------------------------------------
\* rawip_example.c.

\* The fields of the two headers; main has cleared the packet before.
iph(data) ==
    [saddr |-> <<10, 200, 0, 124>>, daddr |-> <<192, 168, 1, 123>>,
     protocol |-> 17, tot_len |-> Len(data) + 28, ttl |-> 255]

udph(data) == [source |-> 54321, dest |-> 5555, len |-> 8 + Len(data)]

\* The IP header.  tot_len is not converted, and the checksum is computed while
\* the addresses are still zero; for a raw socket the kernel sets both.
IpHeader(ip, check, saddr, daddr) ==
    <<69, 0>> \o HostOrder(ip.tot_len) \o <<0, 0, 0, 0, ip.ttl, ip.protocol>>
    \o HostOrder(check) \o saddr \o daddr

NoAddress == <<0, 0, 0, 0>>

Packet(data) ==
    LET ip == iph(data)
        udp == udph(data)
        check == checksum(IpHeader(ip, 0, NoAddress, NoAddress))
    IN  IpHeader(ip, check, ip.saddr, ip.daddr)
        \o NetworkOrder(udp.source) \o NetworkOrder(udp.dest)
        \o NetworkOrder(udp.len) \o HostOrder(udp4_checksum(ip, udp, data))
        \o data

-----------------------------------------------------------------------------
\* Properties.

\* Addition with end-around carry, and the sum of data read in network order.
OnesAdd(a, b) == IF a + b > 65535 THEN a + b - 65535 ELSE a + b
NetworkWord(data, k) ==
    256 * data[2 * k - 1] + (IF 2 * k <= Len(data) THEN data[2 * k] ELSE 0)
OnesSum(data) ==
    LET sum[k \in 0 .. Words(data)] ==
            IF k = 0 THEN 0 ELSE OnesAdd(sum[k - 1], NetworkWord(data, k))
    IN  sum[Words(data)]

\* A receiver that sums up any data in network order, with the checksum stored
\* as the machine has it, finds no difference: neither the byte order nor an
\* odd last octet nor a second carry (header.c:241-263) spoils it.
ChecksumVerifies == OnesSum(HostOrder(checksum(payload)) \o payload) = 65535

\* The UDP checksum of the packet handed to sendto (rawip_example.c:95) verifies
\* over the pseudo-header and the datagram, as they are in the packet.
UdpChecksumVerifies ==
    LET packet == Packet(payload)
        datagram == SubSeq(packet, 21, Len(packet))
        pseudo == SubSeq(packet, 13, 20) \o <<0, packet[10]>> \o SubSeq(packet, 25, 26)
    IN  OnesSum(pseudo \o datagram) = 65535
=============================================================================
