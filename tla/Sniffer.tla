------------------------------ MODULE Sniffer ------------------------------
(***************************************************************************)
(* The sniffer of TD5/Sniffing_TD/pcap_example.c with the printing         *)
(* functions of header.c.  main lists the devices, reads the name of one   *)
(* from a line and opens it; a name is kept as the number of its letters.  *)
(* The capture filter is "udp port 53", so every frame holds a DNS message *)
(* in a UDP datagram, over IPv4 or IPv6.  process_packet takes each of     *)
(* them for IPv4.                                                          *)
(*                                                                         *)
(* Of the log file the model keeps the dumps of the last packet: which     *)
(* octets of the frame were handed to PrintData, under which heading.      *)
(***************************************************************************)
EXTENDS Integers, Sequences, FiniteSets, SequencesExt, FiniteSetsExt

CONSTANTS
    DeviceLists,    \* what pcap_findalldevs may find: the lengths of the names
    NameLengths,    \* how many letters the user may type
    HeaderLengths,  \* the header lengths of IPv4, in words
    TrafficClasses, \* the high halves of the traffic classes of IPv6
    SourceOctets,   \* what octet 1 of an IPv6 source address is
    OffsetOctets,   \* what lies where a TCP header has its data offset
    MessageSizes,   \* the sizes of the DNS messages
    BUF_SIZE,       \* how much of a frame libpcap captures: 65536
    MaxPackets      \* bound: how many frames are captured

\* The longest name libpcap gives to a device is bluetooth-monitor.
ASSUME SnifferAssumption ==
    /\ DeviceLists \subseteq Seq(1 .. 17)
    /\ NameLengths \subseteq Nat
    /\ HeaderLengths \subseteq 5 .. 15
    /\ TrafficClasses \subseteq 0 .. 15
    /\ SourceOctets \subseteq 0 .. 255 /\ OffsetOctets \subseteq 0 .. 255
    /\ MessageSizes \subseteq {n \in Nat : n >= 17}
    /\ BUF_SIZE \in Nat /\ BUF_SIZE >= 79  \* the shortest frame of IPv6
    /\ MaxPackets \in Nat

VARIABLES
    devices,  \* the devices found
    line,     \* what is typed: letters, and whether a newline ends them
    dev_name, \* the letters of the name given to libpcap, or NoName
    tcp, udp, icmp, igmp, others, total,  \* the counters
    logfile,  \* fopen could create log.txt
    pc,       \* "list", "choose", "open", "sniff", "crashed", "exited", or
              \* "overrun" and "undefined": C says nothing of what follows
    frame,    \* buffer, header->len and header->caplen of the last frame
    log       \* the dumps of the last packet

counters == <<tcp, udp, icmp, igmp, others, total>>
vars_device == <<devices, line, dev_name>>
vars_sniff == <<counters, logfile, frame, log>>
vars == <<pc, vars_device, vars_sniff>>

-----------------------------------------------------------------------------
\* What the network delivers.

EthernetHeader == 14
PointerSize == 8    \* sizeof udph and sizeof icmph, both of them pointers

\* The network pads a short frame.
Padded(n) == Max({n, 60})

\* How much of a frame is captured.
Captured(len) == Min({len, BUF_SIZE})

\* The fields of a frame that process_packet looks at: the low half of octet 0
\* and octet 9 behind the Ethernet header, and the data offset of a TCP header
\* behind both.  start is where the DNS message is.
IPv4Frame(ihl, n) ==
    LET start == EthernetHeader + 4 * ihl + 8
        len == Padded(start + n)
    IN  [version |-> 4, ihl |-> ihl, protocol |-> 17, doff |-> 0,
         start |-> start, len |-> len, caplen |-> Captured(len)]

\* Of an IPv6 header these are the high half of the traffic class and an octet of
\* the source address.  What they make of a data offset is in the addresses, the
\* ports, the length of the datagram, which is not arbitrary, the message, or
\* behind it.
IPv6Frame(class, second, octet, n) ==
    LET start == EthernetHeader + 48
        len == Padded(start + n)
        offset == IF class = 8 THEN (8 + n) \div 256 ELSE octet
    IN  [version |-> 6, ihl |-> class, protocol |-> second, doff |-> (offset \div 16) % 16,
         start |-> start, len |-> len, caplen |-> Captured(len)]

Frames ==
    {IPv4Frame(ihl, n) : ihl \in HeaderLengths, n \in MessageSizes} \cup
    {IPv6Frame(class, second, octet, n) :
        class \in TrafficClasses, second \in SourceOctets, octet \in OffsetOctets,
        n \in MessageSizes}

NoFrame ==
    [version |-> 0, ihl |-> 0, protocol |-> 0, doff |-> 0, start |-> 0, len |-> 0, caplen |-> 0]

-----------------------------------------------------------------------------
\* header.c.

Dump(heading, from, size) == [heading |-> heading, from |-> from, size |-> size]

\* Mutant: the payload is dumped from behind the IP header.
DumpsWithoutEthernet(f, transport) ==
    LET iphdrlen == 4 * f.ihl
        header_size == iphdrlen + transport
    IN  <<Dump("IP Header", 0, iphdrlen), Dump("transport header", iphdrlen, transport),
          Dump("Data Payload", header_size, f.len - header_size)>>

\* Mutant: the size is not reduced by the headers.
DumpsOfFullSize(f, transport) ==
    LET iphdrlen == 4 * f.ihl
        header_size == EthernetHeader + iphdrlen + transport
    IN  <<Dump("IP Header", 0, iphdrlen), Dump("transport header", iphdrlen, transport),
          Dump("Data Payload", header_size, f.len)>>

\* The dumps of print_udp_packet and print_icmp_packet, and of print_tcp_packet.
\* The headers are dumped from the start of the frame, the payload from behind
\* all headers.
Dumps(f, transport) ==
    LET iphdrlen == 4 * f.ihl
        header_size == EthernetHeader + iphdrlen + transport
    IN  <<Dump("IP Header", 0, iphdrlen), Dump("transport header", iphdrlen, transport),
          Dump("Data Payload", header_size, f.len - header_size)>>

\* What PrintData writes is a sequence of marks: the octet at an index in
\* hexadecimal or as a character, the space of a missing octet, the end of a line.
Mark(kind, i) == [kind |-> kind, at |-> i]
Chars(from, to) == [n \in 1 .. to - from + 1 |-> Mark("chr", from + n - 1)]
Gaps(n) == [k \in 1 .. n |-> Mark("gap", 0)]
EndLine == <<Mark("endl", 0)>>

\* Mutant: the characters of a full line are written behind its last octet, too.
StepTwice(size, i) ==
    (IF i # 0 /\ i % 16 = 0 THEN Chars(i - 16, i - 1) \o EndLine ELSE <<>>)
    \o <<Mark("hex", i)>>
    \o (IF i = size - 1 \/ i % 16 = 15
        THEN Gaps(15 - (i % 16)) \o Chars(i - (i % 16), i) \o EndLine
        ELSE <<>>)

\* The body of the loop for the octet at index i.
PrintStep(size, i) ==
    (IF i # 0 /\ i % 16 = 0 THEN Chars(i - 16, i - 1) \o EndLine ELSE <<>>)
    \o <<Mark("hex", i)>>
    \o (IF i = size - 1
        THEN Gaps(15 - (i % 16)) \o Chars(i - (i % 16), i) \o EndLine
        ELSE <<>>)

PrintData(size) == FlattenSeq([n \in 1 .. size |-> PrintStep(size, n - 1)])

-----------------------------------------------------------------------------
\* pcap_example.c: the device.

NoName == -1
NoLine == [letters |-> 0, newline |-> FALSE]

Init ==
    /\ tcp = 0 /\ udp = 0 /\ icmp = 0 /\ igmp = 0 /\ others = 0 /\ total = 0
    /\ logfile = FALSE
    /\ pc = "list"
    /\ devices = <<>>
    /\ line = NoLine
    /\ dev_name = NoName
    /\ frame = NoFrame
    /\ log = <<>>

\* Mutant: the list has 20 rows.
TwentyRows == 40

\* The octets of dev_list, thirty rows of two.
dev_list == 60

\* Where the copy of the c-th name, without its terminator, ends: it starts at row
\* c, and a long name goes on in the rows behind.
CopyEnd(list, c) == 2 * c + list[c]

\* The devices are found, listed and copied.
FindDevices ==
    /\ pc = "list"
    /\ devices' \in DeviceLists
    /\ pc' = IF \E c \in DOMAIN devices' : CopyEnd(devices', c) > dev_list
             THEN "overrun" ELSE "choose"
    /\ UNCHANGED <<line, dev_name, vars_sniff>>

\* pcap_findalldevs fails, or finds none.
FindDevicesFails ==
    /\ pc = "list"
    /\ pc' = "exited"
    /\ UNCHANGED <<vars_device, vars_sniff>>

\* What fgets stores of a line, in 20 octets with the NUL.
Stored(typed) == Min({typed.letters + (IF typed.newline THEN 1 ELSE 0), 19})

\* Mutant: the newline is left where it is.
WithNewline(typed) == Stored(typed)

\* The last character is cut off.
WithoutLast(typed) == Stored(typed) - 1

\* fgets reads a line, of which the last may have no newline.
Choose ==
    /\ pc = "choose"
    /\ line' \in [letters : NameLengths, newline : BOOLEAN] \ {NoLine}
    /\ dev_name' = WithoutLast(line')
    /\ pc' = "open"
    /\ UNCHANGED <<devices, vars_sniff>>

\* There is no line: strlen looks for a NUL in memory that malloc did not clear.
ChooseNothing ==
    /\ pc = "choose"
    /\ pc' = "undefined"
    /\ UNCHANGED <<vars_device, vars_sniff>>

\* libpcap finds and opens the device and installs the filter; main goes on when
\* fopen fails.
Open ==
    /\ pc = "open"
    /\ logfile' \in BOOLEAN
    /\ pc' = "sniff"
    /\ UNCHANGED <<vars_device, counters, frame, log>>

\* There is no such device, it cannot be opened, or the filter not installed.
OpenFails ==
    /\ pc = "open"
    /\ pc' = "exited"
    /\ UNCHANGED <<vars_device, vars_sniff>>

-----------------------------------------------------------------------------
\* pcap_example.c: the packets.

\* Mutant: the printf with total++ in front of the function is no comment.
CountedTwice(n) == n + 2

\* ++total
Counted(n) == n + 1

Capture(f) ==
    /\ pc = "sniff"
    /\ total < MaxPackets
    /\ frame' = f
    /\ total' = Counted(total)
    /\ UNCHANGED <<logfile, vars_device>>

\* The first fprintf to the log file that could not be opened ends the process.
PrintDumps(f, transport) ==
    IF logfile
    THEN log' = Dumps(f, transport) /\ UNCHANGED pc
    ELSE pc' = "crashed" /\ UNCHANGED log

PrintNothing == log' = <<>> /\ UNCHANGED pc

IcmpPacket(f) ==
    /\ f.protocol = 1 /\ Capture(f)
    /\ icmp' = icmp + 1
    /\ PrintDumps(f, PointerSize)
    /\ UNCHANGED <<tcp, udp, igmp, others>>

IgmpPacket(f) ==
    /\ f.protocol = 2 /\ Capture(f)
    /\ igmp' = igmp + 1
    /\ PrintNothing
    /\ UNCHANGED <<tcp, udp, icmp, others>>

TcpPacket(f) ==
    /\ f.protocol = 6 /\ Capture(f)
    /\ tcp' = tcp + 1
    /\ PrintDumps(f, 4 * f.doff)
    /\ UNCHANGED <<udp, icmp, igmp, others>>

UdpPacket(f) ==
    /\ f.protocol = 17 /\ Capture(f)
    /\ udp' = udp + 1
    /\ PrintDumps(f, PointerSize)
    /\ UNCHANGED <<tcp, icmp, igmp, others>>

OtherPacket(f) ==
    /\ f.protocol \notin {1, 2, 6, 17} /\ Capture(f)
    /\ others' = others + 1
    /\ PrintNothing
    /\ UNCHANGED <<tcp, udp, icmp, igmp>>

process_packet(f) ==
    IcmpPacket(f) \/ IgmpPacket(f) \/ TcpPacket(f) \/ UdpPacket(f) \/ OtherPacket(f)

Next ==
    \/ FindDevices
    \/ FindDevicesFails
    \/ Choose
    \/ ChooseNothing
    \/ Open
    \/ OpenFails
    \/ \E f \in Frames : process_packet(f)

Spec == Init /\ [][Next]_vars

-----------------------------------------------------------------------------
\* Properties.

TypeOK ==
    /\ tcp \in Nat /\ udp \in Nat /\ icmp \in Nat /\ igmp \in Nat /\ others \in Nat
    /\ total \in 0 .. MaxPackets
    /\ logfile \in BOOLEAN
    /\ pc \in {"list", "choose", "open", "sniff", "crashed", "exited",
               "overrun", "undefined"}
    /\ devices \in DeviceLists \cup {<<>>}
    /\ dev_name \in {NoName} \cup 0 .. 18
    /\ frame \in Frames \cup {NoFrame}
    /\ Len(log) \in {0, 3}

\* Up to 21 devices the list of their names is not overrun, although a row of it
\* holds two octets and each name runs over the rows behind (pcap_example.c:31, 58).
ListHoldsDevices == pc = "overrun" => Len(devices) > 21

\* libpcap gets the name that was typed, if a newline ends it and it has at most 18
\* letters (pcap_example.c:67-69): of a longer or an unended one the last letter
\* is cut off for the newline.
ChosenDeviceIsOpened ==
    pc = "sniff" /\ line.newline /\ line.letters <= 18 => dev_name = line.letters

\* The dump under "Data Payload" is the DNS message of the frame, and what pads it,
\* whatever options its IPv4 header has (header.c:118, 140).
PayloadIsMessage ==
    frame.version = 4 /\ log # <<>> =>
        log[3].from = frame.start /\ log[3].from + log[3].size = frame.len

\* The octet behind a dump.
End(dump) == dump.from + dump.size

\* A frame that is no IPv4 is read at offsets of a header it does not have
\* (pcap_example.c:150, header.c:66-69).  Still the dumps leave the captured octets
\* in two cases only: that of the payload, when the frame was not captured as a
\* whole, as it goes to the end of the frame (pcap_example.c:147); and that of the
\* transport header, by a bounded number of octets, when a traffic class of 80 or
\* more stands for the header length of what looks like TCP.
DumpsStayInFrame ==
    \A k \in DOMAIN log : log[k].size > 0 =>
        /\ log[k].from >= 0
        /\ \/ End(log[k]) <= frame.caplen
           \/ k = 3 /\ frame.caplen < frame.len /\ End(log[k]) = frame.len
           \/ /\ k = 2 /\ End(log[k]) <= 120
              /\ frame.version = 6 /\ frame.protocol = 6 /\ frame.ihl >= 5

\* How many of the first n marks are of a kind.
Number(marks, kind, n) == Cardinality({m \in 1 .. n : marks[m].kind = kind})

\* PrintData shows every octet it is given once in hexadecimal and once as a
\* character, in order and sixteen to a line, and the characters of a line are
\* those of its octets (header.c:194-239).
EachOctetOnALine ==
    \A k \in DOMAIN log :
        LET size == IF log[k].size > 0 THEN log[k].size ELSE 0
            marks == PrintData(size)
        IN  /\ \A kind \in {"hex", "chr"} : Number(marks, kind, Len(marks)) = size
            /\ \A n \in DOMAIN marks : marks[n].kind \in {"hex", "chr"} =>
                  /\ marks[n].at = Number(marks, marks[n].kind, n - 1)
                  /\ marks[n].at \div 16 = Number(marks, "endl", n - 1)
=============================================================================
