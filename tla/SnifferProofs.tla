---------------------------- MODULE SnifferProofs ----------------------------
(***************************************************************************)
(* The safety of Sniffer for every machine's devices, every name typed and *)
(* any number of frames, and the lines that PrintData writes of a dump of  *)
(* any size.                                                               *)
(***************************************************************************)
EXTENDS Sniffer, CStringsProofs, FiniteSetTheorems

-----------------------------------------------------------------------------
\* Frames.

\* A frame has room for what is in it.
LEMMA PaddedHolds ==
    ASSUME NEW n \in Nat
    PROVE  Padded(n) \in Nat /\ Padded(n) >= n
  <1> DEFINE S == {n, 60}
  <1>1. \E x \in S : \A y \in S : x >= y
    <2>1. CASE n >= 60
      BY <2>1
    <2>2. CASE n < 60
      BY <2>2
    <2> QED BY <2>1, <2>2
  <1>2. PICK x \in S : x = Max(S) /\ \A y \in S : x >= y
    BY <1>1 DEF Max
  <1> QED BY <1>2 DEF Padded

\* A frame is captured as a whole, or cut behind the headers.
LEMMA CapturedIs ==
    ASSUME NEW len \in Nat
    PROVE  /\ Captured(len) = IF len <= BUF_SIZE THEN len ELSE BUF_SIZE
           /\ Captured(len) \in Nat
  <1> DEFINE S == {len, BUF_SIZE}
  <1>1. BUF_SIZE \in Nat
    BY SnifferAssumption
  <1>2. \E x \in S : \A y \in S : x <= y
    <2>1. CASE len <= BUF_SIZE
      BY <1>1, <2>1
    <2>2. CASE len > BUF_SIZE
      BY <1>1, <2>2
    <2> QED BY <1>1, <2>1, <2>2
  <1>3. PICK x \in S : x = Min(S) /\ \A y \in S : x <= y
    BY <1>2 DEF Min
  <1> QED BY <1>1, <1>3 DEF Captured

\* What process_packet finds in a frame, how long the frame at least is (an IPv6
\* frame has 14 + 40 + 8 octets of headers and 17 of a message), and how much of it
\* is captured.
FrameFact(f) ==
    /\ f.ihl \in 0 .. 15 /\ f.len \in Nat /\ f.doff \in 0 .. 15 /\ f.start \in Nat
    /\ f.version \in {4, 6}
    /\ f.version = 4 => /\ f.protocol = 17
                        /\ f.start = 14 + 4 * f.ihl + 8
                        /\ f.len >= f.start + 17
    /\ f.version = 6 => f.len >= 79
    /\ f.caplen \in Nat /\ f.caplen <= f.len
    /\ f.caplen < f.len => f.caplen >= 79

LEMMA FrameFacts ==
    ASSUME NEW f \in Frames
    PROVE  FrameFact(f)
  <1>1. CASE \E ihl \in HeaderLengths, n \in MessageSizes : f = IPv4Frame(ihl, n)
    <2>1. PICK ihl \in HeaderLengths, n \in MessageSizes : f = IPv4Frame(ihl, n)
      BY <1>1
    <2>2. ihl \in 0 .. 15 /\ n \in Nat /\ n >= 17
      BY SnifferAssumption
    <2> DEFINE start == EthernetHeader + 4 * ihl + 8
               len == Padded(start + n)
    <2>3. start \in Nat /\ start + n \in Nat /\ start = 14 + 4 * ihl + 8
      BY <2>2 DEF EthernetHeader
    <2>4. len \in Nat /\ len >= start + n
      BY <2>3, PaddedHolds
    <2>5. f = [version |-> 4, ihl |-> ihl, protocol |-> 17, doff |-> 0,
               start |-> start, len |-> len, caplen |-> Captured(len)]
      BY <2>1 DEF IPv4Frame
    <2> HIDE DEF start, len
    <2>6. /\ Captured(len) = IF len <= BUF_SIZE THEN len ELSE BUF_SIZE
          /\ Captured(len) \in Nat
      BY <2>4, CapturedIs
    <2>7. Captured(len) <= len /\ (Captured(len) < len => Captured(len) >= 79)
      BY <2>4, <2>6, SnifferAssumption
    <2> HIDE DEF Captured
    <2>8. len >= start + 17
      BY <2>2, <2>3, <2>4
    <2> QED BY <2>2, <2>3, <2>4, <2>5, <2>6, <2>7, <2>8 DEF FrameFact
  <1>2. CASE \E class \in TrafficClasses, second \in SourceOctets,
                octet \in OffsetOctets, n \in MessageSizes :
                 f = IPv6Frame(class, second, octet, n)
    <2>1. PICK class \in TrafficClasses, second \in SourceOctets,
               octet \in OffsetOctets, n \in MessageSizes :
              f = IPv6Frame(class, second, octet, n)
      BY <1>2
    <2>2. class \in 0 .. 15 /\ octet \in 0 .. 255 /\ n \in Nat /\ n >= 17
      BY SnifferAssumption
    <2> DEFINE start == EthernetHeader + 48
               len == Padded(start + n)
               offset == IF class = 8 THEN (8 + n) \div 256 ELSE octet
               doff == (offset \div 16) % 16
    <2>3. offset \in Nat
      BY <2>2
    <2>4. doff \in 0 .. 15
      BY <2>3
    <2>5. start = 62 /\ start + n \in Nat
      BY <2>2 DEF EthernetHeader
    <2>6. len \in Nat /\ len >= start + n
      BY <2>5, PaddedHolds
    <2>7. f = [version |-> 6, ihl |-> class, protocol |-> second, doff |-> doff,
               start |-> start, len |-> len, caplen |-> Captured(len)]
      BY <2>1 DEF IPv6Frame
    <2> HIDE DEF start, len, offset, doff
    <2>8. /\ Captured(len) = IF len <= BUF_SIZE THEN len ELSE BUF_SIZE
          /\ Captured(len) \in Nat
      BY <2>6, CapturedIs
    <2>9. Captured(len) <= len /\ (Captured(len) < len => Captured(len) >= 79)
      BY <2>6, <2>8, SnifferAssumption
    <2>10. len >= 79
      BY <2>2, <2>5, <2>6
    <2> QED BY <2>2, <2>4, <2>5, <2>6, <2>7, <2>8, <2>9, <2>10 DEF FrameFact
  <1> QED BY <1>1, <1>2 DEF Frames

\* The three dumps of a frame, one by one.
LEMMA ThreeDumps ==
    ASSUME NEW f, NEW t
    PROVE  LET d == Dumps(f, t)
               header_size == EthernetHeader + 4 * f.ihl + t
           IN  /\ DOMAIN d = 1 .. 3
               /\ d[1].from = 0 /\ d[1].size = 4 * f.ihl
               /\ d[2].from = 4 * f.ihl /\ d[2].size = t
               /\ d[3].from = header_size /\ d[3].size = f.len - header_size
  <1> DEFINE ip == Dump("IP Header", 0, 4 * f.ihl)
             transport == Dump("transport header", 4 * f.ihl, t)
             header_size == EthernetHeader + 4 * f.ihl + t
             payload == Dump("Data Payload", header_size, f.len - header_size)
  <1>1. Dumps(f, t) = <<ip, transport, payload>>
    BY DEF Dumps
  <1>2. ip.from = 0 /\ ip.size = 4 * f.ihl
    BY DEF Dump
  <1>3. transport.from = 4 * f.ihl /\ transport.size = t
    BY DEF Dump
  <1>4. payload.from = header_size /\ payload.size = f.len - header_size
    BY DEF Dump
  <1> HIDE DEF ip, transport, payload, header_size
  <1>5. DOMAIN Dumps(f, t) = 1 .. 3
    BY <1>1
  <1>6. Dumps(f, t)[1] = ip /\ Dumps(f, t)[2] = transport /\ Dumps(f, t)[3] = payload
    BY <1>1
  <1> QED BY <1>2, <1>3, <1>4, <1>5, <1>6 DEF header_size

-----------------------------------------------------------------------------
\* The invariant.

\* The size of the transport header that a dump of f is made with: that of a
\* pointer, or, for what looks like TCP, what its data offset says.
Transports(f) == {PointerSize} \cup (IF f.protocol = 6 THEN {4 * f.doff} ELSE {})

\* The log holds nothing, or the dumps of the last frame; nothing, if there is no
\* log file, which is not opened before the device.
Logged ==
    /\ log # <<>> =>
           /\ logfile
           /\ frame \in Frames /\ \E t \in Transports(frame) : log = Dumps(frame, t)
    /\ pc \in {"list", "choose", "open"} => ~logfile

\* The name given to libpcap is the line's, without its last character.
Named == pc \in {"open", "sniff"} => dev_name = WithoutLast(line)

Lines == [letters : NameLengths, newline : BOOLEAN] \cup {NoLine}

IInv ==
    /\ TypeOK
    /\ line \in Lines
    /\ Logged
    /\ Named
    /\ ListHoldsDevices

LEMMA InitIInv == Init => IInv
  <1> SUFFICES ASSUME Init PROVE IInv
    OBVIOUS
  <1>1. total \in 0 .. MaxPackets
    BY SnifferAssumption DEF Init
  <1>2. TypeOK
    BY <1>1 DEF Init, TypeOK, NoName
  <1> QED BY <1>2 DEF Init, IInv, Logged, Named, ListHoldsDevices, Lines

\* Each of the first 21 names fits (pcap_example.c:58).
LEMMA NamesFit ==
    ASSUME NEW list \in DeviceLists, NEW c \in DOMAIN list, c <= 21
    PROVE  CopyEnd(list, c) <= dev_list
  <1>1. list[c] \in 1 .. 17 /\ c \in Nat
    BY SnifferAssumption
  <1> QED BY <1>1 DEF CopyEnd, dev_list

\* A dump keeps the log's shape.
LEMMA DumpsLogged ==
    ASSUME NEW f \in Frames, NEW t \in Transports(f),
           log' = Dumps(f, t), frame' = f, logfile', pc' = "sniff"
    PROVE  Logged' /\ Len(log') = 3
  BY DEF Logged, Dumps

-----------------------------------------------------------------------------
\* The device.

LEMMA FindDevicesKeeps == IInv /\ FindDevices => IInv'
  <1> SUFFICES ASSUME IInv, FindDevices PROVE IInv'
    OBVIOUS
  <1> USE DEF IInv, FindDevices, vars_sniff, counters
  <1>1. devices' \in Seq(1 .. 17)
    BY SnifferAssumption
  <1>2. ListHoldsDevices'
    <2> SUFFICES ASSUME pc' = "overrun" PROVE Len(devices') > 21
      BY DEF ListHoldsDevices
    <2>1. PICK c \in DOMAIN devices' : CopyEnd(devices', c) > dev_list
      OBVIOUS
    <2>2. ~(c <= 21)
      <3>1. c <= 21 => CopyEnd(devices', c) <= dev_list
        BY NamesFit
      <3>2. c \in Int /\ devices'[c] \in Int
        BY <1>1
      <3>3. CopyEnd(devices', c) \in Int /\ dev_list \in Int
        BY <3>2 DEF CopyEnd, dev_list
      <3> QED BY <2>1, <3>1, <3>3
    <2> QED BY <1>1, <2>2
  <1>3. TypeOK'
    BY DEF TypeOK
  <1>4. Logged' /\ Named' /\ line' \in Lines
    BY DEF Logged, Named
  <1> QED BY <1>2, <1>3, <1>4

\* fgets stores one to nineteen characters of a line.
LEMMA StoredSize ==
    ASSUME NEW typed \in [letters : NameLengths, newline : BOOLEAN] \ {NoLine}
    PROVE  /\ Stored(typed) \in 1 .. 19
           /\ typed.newline /\ typed.letters <= 18 => Stored(typed) = typed.letters + 1
  <1>1. typed.letters \in Nat
    BY SnifferAssumption
  <1>2. ~typed.newline => typed.letters # 0
    <2> SUFFICES ASSUME ~typed.newline, typed.letters = 0 PROVE FALSE
      OBVIOUS
    <2>1. typed.newline = FALSE
      BY Zenon
    <2>2. typed = NoLine
      BY <2>1 DEF NoLine
    <2> QED BY <2>2
  <1> DEFINE n == typed.letters + (IF typed.newline THEN 1 ELSE 0)
  <1>3. n \in Nat /\ n >= 1
    BY <1>1, <1>2
  <1>4. \E x \in {n, 19} : \A y \in {n, 19} : x <= y
    <2>1. CASE n <= 19
      BY <1>3, <2>1
    <2>2. CASE n > 19
      BY <1>3, <2>2
    <2> QED BY <1>3, <2>1, <2>2
  <1>5. PICK x \in {n, 19} : x = Min({n, 19}) /\ \A y \in {n, 19} : x <= y
    BY <1>4 DEF Min
  <1>6. Stored(typed) = x
    BY <1>5 DEF Stored
  <1>7. x \in 1 .. 19 /\ (n <= 19 => x = n)
    BY <1>3, <1>5
  <1>8. typed.newline /\ typed.letters <= 18 => n = typed.letters + 1 /\ n <= 19
    BY <1>1
  <1> QED BY <1>6, <1>7, <1>8

LEMMA ChooseKeeps == IInv /\ Choose => IInv'
  <1> SUFFICES ASSUME IInv, Choose PROVE IInv'
    OBVIOUS
  <1> USE DEF IInv, Choose, vars_sniff, counters
  <1>1. Stored(line') \in 1 .. 19
    BY StoredSize
  <1>2. dev_name' \in 0 .. 18
    BY <1>1 DEF WithoutLast
  <1>3. TypeOK'
    BY <1>2 DEF TypeOK
  <1> QED BY <1>3 DEF Logged, Named, ListHoldsDevices, Lines

LEMMA DeviceStepsKeep ==
    IInv /\ (FindDevicesFails \/ ChooseNothing \/ Open \/ OpenFails) => IInv'
  <1> SUFFICES ASSUME IInv, FindDevicesFails \/ ChooseNothing \/ Open \/ OpenFails
               PROVE  IInv'
    OBVIOUS
  <1> USE DEF IInv, vars_device, vars_sniff, counters
  <1>1. /\ UNCHANGED <<vars_device, counters, frame, log>>
        /\ logfile' \in BOOLEAN
        /\ pc' \in {"exited", "undefined", "sniff"}
        /\ pc' = "sniff" => pc = "open"
    BY DEF FindDevicesFails, ChooseNothing, Open, OpenFails, TypeOK
  <1>2. TypeOK'
    BY <1>1 DEF TypeOK
  <1>3. log = <<>>
    BY DEF FindDevicesFails, ChooseNothing, Open, OpenFails, Logged
  <1>4. Logged'
    BY <1>1, <1>3 DEF Logged
  <1> QED BY <1>1, <1>2, <1>4 DEF Named, ListHoldsDevices

-----------------------------------------------------------------------------
\* The packets.

\* What is common to all packets.
LEMMA CaptureKeeps ==
    ASSUME IInv, NEW f \in Frames, Capture(f), pc' \in {"sniff", "crashed"}
    PROVE  /\ total' \in 0 .. MaxPackets /\ total' = total + 1
           /\ frame' = f
           /\ logfile' \in BOOLEAN /\ devices' \in DeviceLists \cup {<<>>}
           /\ dev_name' \in {NoName} \cup 0 .. 18
           /\ line' \in Lines /\ Named' /\ ListHoldsDevices'
  BY SnifferAssumption
  DEF IInv, TypeOK, Capture, Counted, vars_device, Named, ListHoldsDevices

\* The log after a packet that is printed, or is not.
LEMMA DumpsKeepLog ==
    ASSUME IInv, NEW f \in Frames, Capture(f), NEW t \in Transports(f),
           PrintDumps(f, t)
    PROVE  /\ pc' \in {"sniff", "crashed"}
           /\ Logged' /\ Len(log') \in {0, 3}
  <1>1. pc = "sniff" /\ frame' = f /\ logfile' = logfile
    BY DEF Capture
  <1>2. CASE logfile
    <2>1. log' = Dumps(f, t) /\ pc' = "sniff" /\ logfile'
      BY <1>1, <1>2 DEF PrintDumps
    <2> QED BY <1>1, <2>1, DumpsLogged
  <1>3. CASE ~logfile
    <2>1. pc' = "crashed" /\ log' = log
      BY <1>3 DEF PrintDumps
    <2>2. log = <<>>
      BY <1>3 DEF IInv, Logged
    <2> QED BY <2>1, <2>2 DEF Logged
  <1> QED BY <1>2, <1>3

\* One action for each case of the switch.
LEMMA PacketsKeep ==
    ASSUME IInv, NEW f \in Frames, process_packet(f)
    PROVE  IInv'
  <1> USE DEF IInv
  <1>1. PointerSize \in Transports(f)
    BY DEF Transports
  <1>2. f.protocol = 6 => 4 * f.doff \in Transports(f)
    BY DEF Transports
  <1>3. /\ tcp \in Nat /\ udp \in Nat /\ icmp \in Nat /\ igmp \in Nat /\ others \in Nat
        /\ total \in Nat
    BY SnifferAssumption DEF TypeOK
  <1>4. /\ Capture(f)
        /\ pc' \in {"sniff", "crashed"} /\ Logged' /\ Len(log') \in {0, 3}
        /\ tcp' \in Nat /\ udp' \in Nat /\ icmp' \in Nat /\ igmp' \in Nat /\ others' \in Nat
    <2>1. CASE IcmpPacket(f)
      <3>1. Capture(f) /\ PrintDumps(f, PointerSize)
        BY <2>1 DEF IcmpPacket
      <3> QED BY <1>1, <1>3, <2>1, <3>1, DumpsKeepLog DEF IcmpPacket
    <2>2. CASE IgmpPacket(f)
      <3>1. Capture(f) /\ log' = <<>> /\ pc' = "sniff"
        BY <2>2 DEF IgmpPacket, PrintNothing, Capture
      <3> QED BY <1>3, <2>2, <3>1 DEF IgmpPacket, Logged
    <2>3. CASE TcpPacket(f)
      <3>1. Capture(f) /\ PrintDumps(f, 4 * f.doff) /\ f.protocol = 6
        BY <2>3 DEF TcpPacket
      <3> QED BY <1>2, <1>3, <2>3, <3>1, DumpsKeepLog DEF TcpPacket
    <2>4. CASE UdpPacket(f)
      <3>1. Capture(f) /\ PrintDumps(f, PointerSize)
        BY <2>4 DEF UdpPacket
      <3> QED BY <1>1, <1>3, <2>4, <3>1, DumpsKeepLog DEF UdpPacket
    <2>5. CASE OtherPacket(f)
      <3>1. Capture(f) /\ log' = <<>> /\ pc' = "sniff"
        BY <2>5 DEF OtherPacket, PrintNothing, Capture
      <3> QED BY <1>3, <2>5, <3>1 DEF OtherPacket, Logged
    <2> QED BY <2>1, <2>2, <2>3, <2>4, <2>5 DEF process_packet
  <1>5. TypeOK'
    BY <1>4, CaptureKeeps DEF TypeOK
  <1> QED BY <1>4, <1>5, CaptureKeeps

LEMMA StepIInv == IInv /\ [Next]_vars => IInv'
  <1> SUFFICES ASSUME IInv, [Next]_vars PROVE IInv'
    OBVIOUS
  <1>1. CASE FindDevices
    BY <1>1, FindDevicesKeeps
  <1>2. CASE FindDevicesFails \/ ChooseNothing \/ Open \/ OpenFails
    BY <1>2, DeviceStepsKeep
  <1>3. CASE Choose
    BY <1>3, ChooseKeeps
  <1>4. CASE \E f \in Frames : process_packet(f)
    BY <1>4, PacketsKeep
  <1>5. CASE UNCHANGED vars
    BY <1>5 DEF vars, vars_device, vars_sniff, counters, IInv, TypeOK, Logged, Named, ListHoldsDevices
  <1> QED BY <1>1, <1>2, <1>3, <1>4, <1>5 DEF Next

LEMMA Invariance == Spec => []IInv
  <1> QED BY InitIInv, StepIInv, PTL DEF Spec

-----------------------------------------------------------------------------
\* The lines of a dump.

Kinds == {"hex", "chr", "gap", "endl"}
Marks == [kind : Kinds, at : Nat]

\* Every octet in s comes at its place: behind all before it, and on its line.
Placed(s) ==
    \A n \in 1 .. Len(s) : s[n].kind \in {"hex", "chr"} =>
        /\ s[n].at = Number(s, s[n].kind, n - 1)
        /\ s[n].at \div 16 = Number(s, "endl", n - 1)

\* So far h octets are shown in hexadecimal, c as characters, on e full lines.
Laid(s, h, c, e) ==
    /\ s \in Seq(Marks) /\ Placed(s)
    /\ Number(s, "hex", Len(s)) = h
    /\ Number(s, "chr", Len(s)) = c
    /\ Number(s, "endl", Len(s)) = e

\* Number counts.
CountsUp(s, kind) ==
    /\ Number(s, kind, 0) = 0
    /\ \A n \in Nat :
          /\ Number(s, kind, n) \in Nat
          /\ Number(s, kind, n + 1) =
                 IF s[n + 1].kind = kind THEN Number(s, kind, n) + 1
                 ELSE Number(s, kind, n)

LEMMA NumberIs ==
    ASSUME NEW s, NEW kind
    PROVE  CountsUp(s, kind)
<1> DEFINE S(n) == {m \in 1 .. n : s[m].kind = kind}
<1>1. S(0) = {}
  OBVIOUS
<1>2. ASSUME NEW n \in Nat
      PROVE  /\ IsFiniteSet(S(n)) /\ Cardinality(S(n)) \in Nat
             /\ Cardinality(S(n + 1)) = IF s[n + 1].kind = kind THEN Cardinality(S(n)) + 1
                                        ELSE Cardinality(S(n))
  <2>1. IsFiniteSet(1 .. n)
    BY FS_Interval
  <2>2. S(n) \in SUBSET (1 .. n)
    OBVIOUS
  <2>3. n + 1 \notin S(n)
    OBVIOUS
  <2>4. s[n + 1].kind = kind => S(n + 1) = S(n) \cup {n + 1}
    OBVIOUS
  <2>5. s[n + 1].kind # kind => S(n + 1) = S(n)
    OBVIOUS
  <2> HIDE DEF S
  <2>6. IsFiniteSet(S(n)) /\ Cardinality(S(n)) \in Nat
    BY <2>1, <2>2, FS_Subset, FS_CardinalityType
  <2> QED BY <2>3, <2>4, <2>5, <2>6, FS_AddElement
<1>3. \A n : Number(s, kind, n) = Cardinality(S(n))
  BY DEF Number
<1> HIDE DEF S
<1> QED BY <1>1, <1>2, <1>3, FS_EmptySet DEF CountsUp

\* A mark more changes nothing in front of it.
LEMMA NumberOfMore ==
    ASSUME NEW s \in Seq(Marks), NEW m \in Marks, NEW kind, NEW n \in 0 .. Len(s)
    PROVE  Number(Append(s, m), kind, n) = Number(s, kind, n)
<1>1. \A k \in 1 .. n : Append(s, m)[k] = s[k]
  OBVIOUS
<1>2. {k \in 1 .. n : Append(s, m)[k].kind = kind} = {k \in 1 .. n : s[k].kind = kind}
  BY <1>1
<1> QED BY <1>2 DEF Number

LEMMA OneMore ==
    ASSUME NEW s, NEW h \in Nat, NEW c \in Nat, NEW e \in Nat, Laid(s, h, c, e),
           NEW m \in Marks,
           m.kind = "hex" => m.at = h /\ h \div 16 = e,
           m.kind = "chr" => m.at = c /\ c \div 16 = e
    PROVE  Laid(Append(s, m), IF m.kind = "hex" THEN h + 1 ELSE h,
                              IF m.kind = "chr" THEN c + 1 ELSE c,
                              IF m.kind = "endl" THEN e + 1 ELSE e)
<1> DEFINE n == Len(s)
           a == Append(s, m)
<1>1. s \in Seq(Marks) /\ Placed(s) /\ n \in Nat
      /\ Number(s, "hex", n) = h /\ Number(s, "chr", n) = c /\ Number(s, "endl", n) = e
  BY DEF Laid
<1>2. a \in Seq(Marks) /\ Len(a) = n + 1 /\ a[n + 1] = m
      /\ \A k \in 1 .. n : a[k] = s[k]
  BY <1>1
<1>3. \A kind, k : k \in 0 .. n => Number(a, kind, k) = Number(s, kind, k)
  <2> SUFFICES ASSUME NEW kind, NEW k \in 0 .. n
               PROVE  Number(a, kind, k) = Number(s, kind, k)
    OBVIOUS
  <2> QED BY <1>1, NumberOfMore
<1> HIDE DEF a
<1>4. \A kind : Number(a, kind, n + 1) = IF m.kind = kind THEN Number(s, kind, n) + 1
                                         ELSE Number(s, kind, n)
  <2> SUFFICES ASSUME NEW kind
               PROVE  Number(a, kind, n + 1) = IF m.kind = kind THEN Number(s, kind, n) + 1
                                               ELSE Number(s, kind, n)
    OBVIOUS
  <2>1. Number(a, kind, n) = Number(s, kind, n)
    BY <1>1, <1>3
  <2>2. Number(a, kind, n + 1) = IF a[n + 1].kind = kind THEN Number(a, kind, n) + 1
                                 ELSE Number(a, kind, n)
    <3>1. CountsUp(a, kind)
      BY NumberIs, Zenon
    <3> QED BY <1>1, <3>1 DEF CountsUp
  <2> QED BY <1>2, <2>1, <2>2
<1>5. Placed(a)
  <2> SUFFICES ASSUME NEW k \in 1 .. n + 1, a[k].kind \in {"hex", "chr"}
               PROVE  /\ a[k].at = Number(a, a[k].kind, k - 1)
                      /\ a[k].at \div 16 = Number(a, "endl", k - 1)
    BY <1>2 DEF Placed
  <2>1. k - 1 \in 0 .. n
    BY <1>1
  <2>2. /\ Number(a, a[k].kind, k - 1) = Number(s, a[k].kind, k - 1)
        /\ Number(a, "endl", k - 1) = Number(s, "endl", k - 1)
    BY <1>3, <2>1
  <2>3. CASE k <= n
    <3>1. k \in 1 .. n /\ a[k] = s[k]
      BY <1>1, <1>2, <2>3
    <3>2. /\ s[k].at = Number(s, s[k].kind, k - 1)
          /\ s[k].at \div 16 = Number(s, "endl", k - 1)
      BY <1>1, <3>1 DEF Placed
    <3> QED BY <2>2, <3>1, <3>2
  <2>4. CASE k = n + 1
    <3>1. a[k] = m /\ k - 1 = n
      BY <1>1, <1>2, <2>4
    <3> QED BY <1>1, <2>2, <3>1
  <2> QED BY <1>1, <2>3, <2>4
<1>6. /\ Number(a, "hex", n + 1) = IF m.kind = "hex" THEN h + 1 ELSE h
      /\ Number(a, "chr", n + 1) = IF m.kind = "chr" THEN c + 1 ELSE c
      /\ Number(a, "endl", n + 1) = IF m.kind = "endl" THEN e + 1 ELSE e
  BY <1>1, <1>4, Zenon
<1>7. Len(a) = n + 1 /\ a \in Seq(Marks)
  BY <1>2
<1> HIDE DEF n
<1>8. Laid(a, IF m.kind = "hex" THEN h + 1 ELSE h, IF m.kind = "chr" THEN c + 1 ELSE c,
              IF m.kind = "endl" THEN e + 1 ELSE e)
  BY <1>5, <1>6, <1>7, Zenon DEF Laid
<1> QED BY <1>8 DEF a

\* Sequences of marks join as texts do.
LEMMA MarksJoin ==
    \A a, b \in Seq(Marks) : a \o b \in Seq(Marks)
<1>1. ASSUME NEW a \in Seq(Marks), NEW b \in Seq(Marks)
      PROVE  a \o b \in Seq(Marks)
  BY ConcatProperties
<1> QED BY <1>1

LEMMA MarksAssociate ==
    ASSUME NEW a \in Seq(Marks), NEW b \in Seq(Marks), NEW d \in Seq(Marks)
    PROVE  (a \o b) \o d = a \o (b \o d)
  BY ConcatAssociative

LEMMA NothingJoins ==
    ASSUME NEW a \in Seq(Marks)
    PROVE  a \o <<>> = a /\ <<>> \o a = a
  BY ConcatEmptySeq

LEMMA OneJoins ==
    ASSUME NEW a \in Seq(Marks), NEW m \in Marks
    PROVE  Append(a, m) = a \o <<m>>
  BY AppendIsConcat

LEMMA AppendJoins ==
    ASSUME NEW a \in Seq(Marks), NEW b \in Seq(Marks), NEW m \in Marks
    PROVE  a \o Append(b, m) = Append(a \o b, m)
<1>1. a \o b \in Seq(Marks) /\ <<m>> \in Seq(Marks)
  BY MarksJoin
<1>2. Append(b, m) = b \o <<m>> /\ Append(a \o b, m) = (a \o b) \o <<m>>
  BY <1>1, OneJoins
<1> QED BY <1>1, <1>2, MarksAssociate

\* One mark more, by its kind.
LEMMA MoreHex ==
    ASSUME NEW s, NEW h \in Nat, NEW c \in Nat, NEW e \in Nat, Laid(s, h, c, e),
           h \div 16 = e
    PROVE  Laid(s \o <<Mark("hex", h)>>, h + 1, c, e)
<1>1. Mark("hex", h) \in Marks /\ Mark("hex", h).kind = "hex" /\ Mark("hex", h).at = h
  BY DEF Mark, Marks, Kinds
<1>2. s \in Seq(Marks)
  BY DEF Laid
<1>3. Append(s, Mark("hex", h)) = s \o <<Mark("hex", h)>>
  BY <1>1, <1>2, OneJoins, Zenon
<1>4. Laid(Append(s, Mark("hex", h)), h + 1, c, e)
  BY <1>1, OneMore
<1> QED BY <1>3, <1>4

LEMMA MoreLines ==
    ASSUME NEW s, NEW h \in Nat, NEW c \in Nat, NEW e \in Nat, Laid(s, h, c, e)
    PROVE  Laid(s \o EndLine, h, c, e + 1)
<1> DEFINE m == Mark("endl", 0)
<1>1. m \in Marks /\ m.kind = "endl"
  BY DEF Mark, Marks, Kinds
<1>2. s \in Seq(Marks)
  BY DEF Laid
<1> HIDE DEF m
<1>3. Append(s, m) = s \o <<m>>
  BY <1>1, <1>2, OneJoins, Zenon
<1>4. Laid(Append(s, m), h, c, e + 1)
  BY <1>1, OneMore
<1> QED BY <1>3, <1>4 DEF EndLine, m

\* The characters of one line, up to the octet in front of c + n.
LEMMA MoreChars ==
    ASSUME NEW s, NEW h \in Nat, NEW c \in Nat, NEW e \in Nat, Laid(s, h, c, e),
           NEW n \in Nat, \A i \in c .. c + n - 1 : i \div 16 = e
    PROVE  Laid(s \o Chars(c, c + n - 1), h, c + n, e)
<1> DEFINE P == {k \in Nat : k <= n =>
                    /\ Chars(c, c + k - 1) \in Seq(Marks)
                    /\ Laid(s \o Chars(c, c + k - 1), h, c + k, e)}
<1>1. s \in Seq(Marks)
  BY DEF Laid
<1>2. 0 \in P
  <2>1. Chars(c, c + 0 - 1) = <<>>
    BY DEF Chars
  <2>2. s \o <<>> = s
    BY <1>1, NothingJoins, Zenon
  <2>3. c + 0 = c
    OBVIOUS
  <2>4. <<>> \in Seq(Marks) /\ Laid(s \o <<>>, h, c + 0, e)
    BY <2>2, <2>3
  <2>5. Chars(c, c + 0 - 1) \in Seq(Marks) /\ Laid(s \o Chars(c, c + 0 - 1), h, c + 0, e)
    BY <2>1, <2>4, Zenon
  <2>6. 0 \in Nat
    OBVIOUS
  <2> QED BY <2>5, <2>6, Zenon
<1>3. ASSUME NEW k \in Nat, k \in P
      PROVE  k + 1 \in P
  <2> SUFFICES ASSUME k + 1 <= n
               PROVE  /\ Chars(c, c + (k + 1) - 1) \in Seq(Marks)
                      /\ Laid(s \o Chars(c, c + (k + 1) - 1), h, c + (k + 1), e)
    OBVIOUS
  <2> DEFINE t == Chars(c, c + k - 1)
             u == Chars(c, c + (k + 1) - 1)
             m == Mark("chr", c + k)
  <2>1. t \in Seq(Marks) /\ Laid(s \o t, h, c + k, e)
    BY <1>3
  <2>2. m \in Marks /\ m.kind = "chr" /\ m.at = c + k
    BY DEF Mark, Marks, Kinds
  <2>3. (c + k) \div 16 = e
    <3>1. c + k \in c .. c + n - 1
      OBVIOUS
    <3> QED BY <3>1
  <2>4. u = Append(t, m)
    <3>1. t = [j \in 1 .. k |-> Mark("chr", c + j - 1)]
          /\ u = [j \in 1 .. k + 1 |-> Mark("chr", c + j - 1)]
      BY DEF Chars
    <3>2. Len(t) = k /\ Len(u) = k + 1
      BY <3>1
    <3>3. m = Mark("chr", c + (k + 1) - 1)
      OBVIOUS
    <3> HIDE DEF t, u, m
    <3>4. Append(t, m) \in Seq(Marks) /\ Len(Append(t, m)) = k + 1
          /\ Append(t, m)[k + 1] = m /\ \A j \in 1 .. k : Append(t, m)[j] = t[j]
      BY <2>1, <2>2, <3>2
    <3>5. \A j \in 1 .. k + 1 : Append(t, m)[j] = Mark("chr", c + j - 1)
      BY <3>1, <3>3, <3>4
    <3>6. \A j \in 1 .. k + 1 : u[j] = Append(t, m)[j]
      BY <3>1, <3>5
    <3>7. u \in Seq(Marks)
      <4>1. \A j \in 1 .. k + 1 : Append(t, m)[j] \in Marks
        BY <3>4
      <4>2. u \in [1 .. k + 1 -> Marks]
        BY <3>1, <3>6, <4>1
      <4> QED BY <4>2, FunctionIsSeq
    <3> QED BY <3>2, <3>4, <3>6, <3>7, SeqEqual
  <2> HIDE DEF t, u, m
  <2>5. s \o u = Append(s \o t, m) /\ u \in Seq(Marks)
    <3>1. s \o u = Append(s \o t, m)
      BY <1>1, <2>1, <2>2, <2>4, AppendJoins, Zenon
    <3>2. u \in Seq(Marks)
      BY <2>1, <2>2, <2>4
    <3> QED BY <3>1, <3>2
  <2>6. Laid(Append(s \o t, m), h, (c + k) + 1, e)
    <3>1. c + k \in Nat
      OBVIOUS
    <3> QED BY <2>1, <2>2, <2>3, <3>1, OneMore
  <2>7. (c + k) + 1 = c + (k + 1)
    OBVIOUS
  <2> QED BY <2>5, <2>6, <2>7 DEF u
<1> HIDE DEF P
<1>4. n \in P
  BY <1>2, <1>3, AllNumbers
<1> QED BY <1>4 DEF P

LEMMA MoreGaps ==
    ASSUME NEW s, NEW h \in Nat, NEW c \in Nat, NEW e \in Nat, Laid(s, h, c, e),
           NEW n \in Nat
    PROVE  Laid(s \o Gaps(n), h, c, e)
<1> DEFINE P == {k \in Nat : Laid(s \o Gaps(k), h, c, e)}
           m == Mark("gap", 0)
<1>1. s \in Seq(Marks)
  BY DEF Laid
<1>2. m \in Marks /\ m.kind = "gap"
  BY DEF Mark, Marks, Kinds
<1>3. \A k : Gaps(k) = [j \in 1 .. k |-> m]
  BY DEF Gaps
<1> HIDE DEF m
<1>4. \A k \in Nat : Gaps(k) \in Seq(Marks) /\ Gaps(k + 1) = Append(Gaps(k), m)
  <2> SUFFICES ASSUME NEW k \in Nat
               PROVE  Gaps(k) \in Seq(Marks) /\ Gaps(k + 1) = Append(Gaps(k), m)
    OBVIOUS
  <2>1. Gaps(k) = [j \in 1 .. k |-> m] /\ Gaps(k + 1) = [j \in 1 .. k + 1 |-> m]
    BY <1>3, Zenon
  <2>2. Gaps(k) \in Seq(Marks) /\ Len(Gaps(k)) = k
    BY <1>2, <2>1
  <2>3. Append(Gaps(k), m) \in Seq(Marks) /\ Len(Append(Gaps(k), m)) = k + 1
        /\ \A j \in 1 .. k + 1 : Append(Gaps(k), m)[j] = m
    BY <1>2, <2>1, <2>2
  <2>4. Gaps(k + 1) \in Seq(Marks) /\ Len(Gaps(k + 1)) = k + 1
        /\ \A j \in 1 .. k + 1 : Gaps(k + 1)[j] = m
    <3>1. k + 1 \in Nat /\ Gaps(k + 1) \in [1 .. k + 1 -> Marks]
      BY <1>2, <2>1
    <3> QED BY <2>1, <3>1, FunctionIsSeq
  <2>5. Gaps(k + 1) = Append(Gaps(k), m)
    BY <2>3, <2>4, SeqEqual
  <2> QED BY <2>2, <2>5
<1>5. 0 \in P
  <2>1. Gaps(0) = <<>>
    BY DEF Gaps
  <2>2. s \o <<>> = s
    BY <1>1, NothingJoins, Zenon
  <2> QED BY <2>1, <2>2
<1>6. ASSUME NEW k \in Nat, k \in P
      PROVE  k + 1 \in P
  <2>1. Laid(s \o Gaps(k), h, c, e)
    BY <1>6
  <2>2. s \o Gaps(k + 1) = Append(s \o Gaps(k), m)
    <3>1. Gaps(k) \in Seq(Marks) /\ Gaps(k + 1) = Append(Gaps(k), m)
      BY <1>4
    <3>2. s \o Append(Gaps(k), m) = Append(s \o Gaps(k), m)
      BY <1>1, <1>2, <3>1, AppendJoins, Zenon
    <3> QED BY <3>1, <3>2
  <2>3. Laid(Append(s \o Gaps(k), m), h, c, e)
    BY <1>2, <2>1, OneMore
  <2>4. Laid(s \o Gaps(k + 1), h, c, e)
    BY <2>2, <2>3
  <2>5. k + 1 \in Nat
    OBVIOUS
  <2> QED BY <2>4, <2>5
<1> HIDE DEF P
<1>7. n \in P
  BY <1>5, <1>6, AllNumbers
<1> QED BY <1>7 DEF P

\* How many lines are full when i octets have been shown: the characters of a line
\* wait for the first octet of the next.
Full(i) == IF i = 0 THEN 0 ELSE (i - 1) \div 16

\* The two blocks of the loop's body.
LineBefore(i) == IF i # 0 /\ i % 16 = 0 THEN Chars(i - 16, i - 1) \o EndLine ELSE <<>>
LastLine(i) == Gaps(15 - (i % 16)) \o Chars(i - (i % 16), i) \o EndLine

LEMMA MarkTypes ==
    /\ \A i : Mark("endl", 0) \in Marks /\ EndLine \in Seq(Marks)
    /\ \A i \in Nat : <<Mark("hex", i)>> \in Seq(Marks)
    /\ \A from \in Nat, to \in Nat : from <= to + 1 => Chars(from, to) \in Seq(Marks)
    /\ \A n \in Nat : Gaps(n) \in Seq(Marks)
<1>1. Mark("endl", 0) \in Marks /\ EndLine \in Seq(Marks)
  BY DEF Mark, Marks, Kinds, EndLine
<1>2. \A i \in Nat : <<Mark("hex", i)>> \in Seq(Marks)
  BY DEF Mark, Marks, Kinds
<1>3. ASSUME NEW from \in Nat, NEW to \in Nat, from <= to + 1
      PROVE  Chars(from, to) \in Seq(Marks)
  <2>1. \A j \in 1 .. to - from + 1 : Mark("chr", from + j - 1) \in Marks
    BY DEF Mark, Marks, Kinds
  <2>2. to - from + 1 \in Nat /\ Chars(from, to) \in [1 .. to - from + 1 -> Marks]
    BY <1>3, <2>1 DEF Chars
  <2> QED BY <2>2, FunctionIsSeq
<1>4. ASSUME NEW n \in Nat
      PROVE  Gaps(n) \in Seq(Marks)
  <2>1. Mark("gap", 0) \in Marks
    BY DEF Mark, Marks, Kinds
  <2>2. Gaps(n) \in [1 .. n -> Marks]
    BY <2>1 DEF Gaps
  <2> QED BY <2>2, FunctionIsSeq
<1> QED BY <1>1, <1>2, <1>3, <1>4

\* A full line is ended in front of the first octet of the next.
LEMMA LineIsEnded ==
    ASSUME NEW i \in Nat, NEW s, Laid(s, i, 16 * Full(i), Full(i))
    PROVE  Laid(s \o LineBefore(i), i, 16 * (i \div 16), i \div 16)
           /\ LineBefore(i) \in Seq(Marks)
<1>1. s \in Seq(Marks)
  BY DEF Laid
<1>2. CASE i # 0 /\ i % 16 = 0
  <2> DEFINE c == 16 * Full(i)
             e == Full(i)
  <2>1. /\ c \in Nat /\ e \in Nat /\ c = i - 16 /\ e + 1 = i \div 16 /\ c + 16 = i
        /\ \A x \in c .. c + 16 - 1 : x \div 16 = e
    BY <1>2 DEF Full
  <2>2. 16 * (i \div 16) = i
    BY <1>2
  <2> HIDE DEF c, e
  <2>3. Laid(s \o Chars(c, c + 16 - 1), i, c + 16, e)
    <3>1. Laid(s, i, c, e)
      BY DEF c, e
    <3>2. 16 \in Nat
      OBVIOUS
    <3> QED BY <2>1, <3>1, <3>2, MoreChars
  <2>4. c + 16 - 1 = i - 1 /\ c + 16 \in Nat
    BY <2>1
  <2>5. Laid((s \o Chars(c, c + 16 - 1)) \o EndLine, i, c + 16, e + 1)
    BY <2>1, <2>3, <2>4, MoreLines
  <2>6. Chars(c, i - 1) \in Seq(Marks) /\ EndLine \in Seq(Marks)
    <3>1. i - 1 \in Nat /\ c <= (i - 1) + 1
      BY <2>1
    <3> QED BY <2>1, <3>1, MarkTypes
  <2>7. (s \o Chars(c, i - 1)) \o EndLine = s \o (Chars(c, i - 1) \o EndLine)
        /\ Chars(c, i - 1) \o EndLine \in Seq(Marks)
    BY <1>1, <2>6, MarksJoin, MarksAssociate, Zenon
  <2>8. LineBefore(i) = Chars(c, i - 1) \o EndLine
    BY <1>2, <2>1 DEF LineBefore
  <2> QED BY <2>1, <2>2, <2>4, <2>5, <2>7, <2>8
<1>3. CASE ~(i # 0 /\ i % 16 = 0)
  <2>1. Full(i) = i \div 16
    BY <1>3 DEF Full
  <2>2. LineBefore(i) = <<>>
    BY <1>3 DEF LineBefore
  <2>3. s \o <<>> = s
    BY <1>1, NothingJoins, Zenon
  <2> QED BY <2>1, <2>2, <2>3
<1> QED BY <1>2, <1>3

\* The last line is filled up, shown and ended.
LEMMA LastLineIsEnded ==
    ASSUME NEW i \in Nat, NEW s, Laid(s, i + 1, 16 * (i \div 16), i \div 16)
    PROVE  Laid(s \o LastLine(i), i + 1, i + 1, (i \div 16) + 1)
           /\ LastLine(i) \in Seq(Marks)
<1> DEFINE c == 16 * (i \div 16)
           e == i \div 16
           n == (i % 16) + 1
           g == 15 - (i % 16)
<1>1. /\ c \in Nat /\ e \in Nat /\ n \in Nat /\ g \in Nat /\ c + n = i + 1
      /\ c = i - (i % 16) /\ c <= i /\ i + 1 \in Nat
      /\ \A x \in c .. c + n - 1 : x \div 16 = e
  OBVIOUS
<1>2. Laid(s, i + 1, c, e) /\ s \in Seq(Marks)
  BY DEF Laid
<1>3. LastLine(i) = (Gaps(g) \o Chars(c, i)) \o EndLine
  BY <1>1 DEF LastLine
<1> HIDE DEF c, e, n, g
<1>4. Gaps(g) \in Seq(Marks) /\ Chars(c, i) \in Seq(Marks) /\ EndLine \in Seq(Marks)
  <2>1. c <= i + 1
    BY <1>1
  <2> QED BY <1>1, <2>1, MarkTypes
<1>5. Laid(s \o Gaps(g), i + 1, c, e)
  BY <1>1, <1>2, MoreGaps
<1>6. Laid((s \o Gaps(g)) \o Chars(c, c + n - 1), i + 1, c + n, e)
  BY <1>1, <1>5, MoreChars
<1>7. c + n - 1 = i /\ c + n = i + 1
  BY <1>1
<1>8. Laid((s \o Gaps(g)) \o Chars(c, i), i + 1, i + 1, e)
  BY <1>6, <1>7
<1>9. Laid(((s \o Gaps(g)) \o Chars(c, i)) \o EndLine, i + 1, i + 1, e + 1)
  BY <1>1, <1>8, MoreLines
<1>10. /\ Gaps(g) \o Chars(c, i) \in Seq(Marks)
       /\ (s \o Gaps(g)) \o Chars(c, i) = s \o (Gaps(g) \o Chars(c, i))
  BY <1>2, <1>4, MarksJoin, MarksAssociate, Zenon
<1>11. /\ (s \o (Gaps(g) \o Chars(c, i))) \o EndLine
              = s \o ((Gaps(g) \o Chars(c, i)) \o EndLine)
       /\ (Gaps(g) \o Chars(c, i)) \o EndLine \in Seq(Marks)
  BY <1>2, <1>4, <1>10, MarksJoin, MarksAssociate, Zenon
<1>12. Laid(s \o LastLine(i), i + 1, i + 1, e + 1) /\ LastLine(i) \in Seq(Marks)
  BY <1>3, <1>9, <1>10, <1>11, Zenon
<1> QED BY <1>12 DEF e

\* The body of the loop for the octet at index i.
LEMMA StepIsLaid ==
    ASSUME NEW size \in Nat, NEW i \in Nat, i < size, NEW s,
           Laid(s, i, 16 * Full(i), Full(i))
    PROVE  /\ PrintStep(size, i) \in Seq(Marks)
           /\ i # size - 1 => Laid(s \o PrintStep(size, i), i + 1,
                                   16 * Full(i + 1), Full(i + 1))
           /\ i = size - 1 => Laid(s \o PrintStep(size, i), size, size,
                                   (i \div 16) + 1)
<1> DEFINE a == LineBefore(i)
           x == <<Mark("hex", i)>>
           b == LastLine(i)
           e == i \div 16
<1>1. s \in Seq(Marks) /\ e \in Nat /\ 16 * e \in Nat
  BY DEF Laid
<1>2. x \in Seq(Marks)
  BY MarkTypes
<1>3. Laid(s \o a, i, 16 * e, e) /\ a \in Seq(Marks)
  BY LineIsEnded
<1>4. Laid((s \o a) \o x, i + 1, 16 * e, e)
  BY <1>1, <1>3, MoreHex
<1>5. Full(i + 1) = e
  BY DEF Full
<1>6. PrintStep(size, i) = IF i = size - 1 THEN (a \o x) \o b ELSE (a \o x) \o <<>>
  BY DEF PrintStep, LineBefore, LastLine
<1> HIDE DEF a, x, b, e
<1>7. a \o x \in Seq(Marks) /\ (s \o a) \o x = s \o (a \o x)
  BY <1>1, <1>2, <1>3, MarksJoin, MarksAssociate, Zenon
<1>8. CASE i # size - 1
  <2>1. (a \o x) \o <<>> = a \o x
    BY <1>7, NothingJoins, Zenon
  <2> QED BY <1>4, <1>5, <1>6, <1>7, <1>8, <2>1
<1>9. CASE i = size - 1
  <2>1. Laid(((s \o a) \o x) \o b, i + 1, i + 1, e + 1) /\ b \in Seq(Marks)
    BY <1>4, LastLineIsEnded DEF b, e
  <2>2. (s \o (a \o x)) \o b = s \o ((a \o x) \o b) /\ (a \o x) \o b \in Seq(Marks)
    BY <1>1, <1>7, <2>1, MarksJoin, MarksAssociate, Zenon
  <2>3. i + 1 = size
    BY <1>9
  <2>4. PrintStep(size, i) = (a \o x) \o b
    BY <1>6, <1>9
  <2> QED BY <1>7, <1>9, <2>1, <2>2, <2>3, <2>4 DEF e
<1> QED BY <1>8, <1>9

\* Sequences of marks one behind the other.
LEMMA FlattenIs ==
    ASSUME NEW n \in Nat \ {0}, NEW f \in [1 .. n -> Seq(Marks)]
    PROVE  \E v \in [0 .. n -> Seq(Marks)] :
              /\ v[0] = <<>> /\ \A k \in 1 .. n : v[k] = v[k - 1] \o f[k]
              /\ FlattenSeq(f) = v[n]
<1> DEFINE Sol(g) == g = [k \in 1 .. n |-> IF k = 1 THEN f[k] ELSE g[k - 1] \o f[k]]
           flat == CHOOSE g : Sol(g)
           S == Seq(Marks)
           round == [k \in 1 .. n |-> [s \in S |-> s \o f[k]]]
<1>1. Len(f) = n /\ n # 0
  BY FunctionIsSeq
<1>2. FlattenSeq(f) = flat[n]
  BY <1>1, Zenon DEF FlattenSeq
<1> HIDE DEF flat
<1>3. round \in [1 .. n -> [S -> S]]
  <2>1. ASSUME NEW k \in 1 .. n, NEW s \in S
        PROVE  s \o f[k] \in S
    <3>1. f[k] \in Seq(Marks)
      OBVIOUS
    <3> QED BY <3>1, MarksJoin, Zenon
  <2> HIDE DEF S
  <2> QED BY <2>1
<1>4. \A k \in 1 .. n, s \in S : round[k][s] = s \o f[k]
  OBVIOUS
<1> HIDE DEF round
<1>5. PICK v \in [0 .. n -> S] : v[0] = <<>> /\ \A k \in 1 .. n : v[k] = round[k][v[k - 1]]
  <2>1. <<>> \in S /\ n \in Nat
    OBVIOUS
  <2>2. \E v \in [0 .. n -> S] : IsLoop(v, <<>>, n, round)
    <3> HIDE DEF S
    <3> QED BY <1>3, <2>1, LoopExists, Zenon
  <2> QED BY <2>2, Zenon DEF IsLoop
<1> HIDE DEF S
<1>6. \A k \in 1 .. n : v[k] = v[k - 1] \o f[k]
  <2> SUFFICES ASSUME NEW k \in 1 .. n PROVE v[k] = v[k - 1] \o f[k]
    OBVIOUS
  <2>1. v[k - 1] \in S
    BY <1>5
  <2> QED BY <1>4, <1>5, <2>1
<1> DEFINE w == [k \in 1 .. n |-> v[k]]
<1>7. Sol(w)
  <2> SUFFICES ASSUME NEW k \in 1 .. n
               PROVE  v[k] = IF k = 1 THEN f[k] ELSE w[k - 1] \o f[k]
    OBVIOUS
  <2>1. CASE k = 1
    <3>1. v[1] = v[0] \o f[1] /\ f[1] \in Seq(Marks)
      BY <1>6
    <3>2. <<>> \o f[1] = f[1]
      BY <3>1, NothingJoins, Zenon
    <3> QED BY <1>5, <2>1, <3>1, <3>2
  <2>2. CASE k # 1
    <3>1. k - 1 \in 1 .. n
      BY <2>2
    <3>2. w[k - 1] = v[k - 1]
      BY <3>1
    <3> QED BY <1>6, <2>2, <3>2
  <2> QED BY <2>1, <2>2
<1>8. Sol(flat)
  <2> HIDE DEF Sol, w
  <2> QED BY <1>7 DEF flat
<1>9. \A k \in 1 .. n : flat[k] = v[k]
  <2> DEFINE P == {k \in Nat : k + 1 <= n => flat[k + 1] = v[k + 1]}
  <2>1. \A k \in 1 .. n : flat[k] = IF k = 1 THEN f[k] ELSE flat[k - 1] \o f[k]
    BY <1>8, Zenon
  <2>2. \A k \in 1 .. n : v[k] = IF k = 1 THEN f[k] ELSE v[k - 1] \o f[k]
    <3> SUFFICES ASSUME NEW k \in 1 .. n
                 PROVE  v[k] = IF k = 1 THEN f[k] ELSE v[k - 1] \o f[k]
      OBVIOUS
    <3>1. w[k] = IF k = 1 THEN f[k] ELSE w[k - 1] \o f[k]
      <4> HIDE DEF w
      <4> QED BY <1>7, Zenon
    <3>2. k # 1 => k - 1 \in 1 .. n
      OBVIOUS
    <3>3. w[k] = v[k] /\ (k # 1 => w[k - 1] = v[k - 1])
      BY <3>2
    <3> HIDE DEF w
    <3> QED BY <3>1, <3>3
  <2> HIDE DEF Sol, w
  <2>3. 0 \in P
    <3>1. 1 \in 1 .. n
      OBVIOUS
    <3>2. flat[1] = v[1]
      BY <2>1, <2>2, <3>1
    <3> QED BY <3>2
  <2>4. ASSUME NEW k \in Nat, k \in P
        PROVE  k + 1 \in P
    <3> SUFFICES ASSUME k + 1 + 1 <= n PROVE flat[k + 1 + 1] = v[k + 1 + 1]
      OBVIOUS
    <3>1. PICK l \in 1 .. n : l = k + 1 + 1 /\ l # 1 /\ l - 1 = k + 1
      OBVIOUS
    <3>2. flat[k + 1] = v[k + 1]
      BY <2>4
    <3>3. flat[l] = v[l]
      BY <2>1, <2>2, <3>1, <3>2
    <3> QED BY <3>1, <3>3
  <2> HIDE DEF P
  <2>5. \A k \in Nat : k \in P
    BY <2>3, <2>4, AllNumbers
  <2> SUFFICES ASSUME NEW k \in 1 .. n PROVE flat[k] = v[k]
    OBVIOUS
  <2>6. k - 1 \in Nat /\ (k - 1) + 1 = k
    OBVIOUS
  <2>7. k - 1 \in P
    BY <2>5, <2>6
  <2> QED BY <2>6, <2>7 DEF P
<1>10. n \in 1 .. n
  OBVIOUS
<1> HIDE DEF Sol, w
<1> QED BY <1>2, <1>5, <1>6, <1>9, <1>10 DEF S

\* What PrintData writes, for a dump of any size.
LEMMA DumpIsLaid ==
    ASSUME NEW size \in Nat
    PROVE  \E e \in Nat : Laid(PrintData(size), size, size, e)
<1> DEFINE f == [k \in 1 .. size |-> PrintStep(size, k - 1)]
<1>1. Laid(<<>>, 0, 0, 0)
  <2>1. Len(<<>>) = 0 /\ <<>> \in Seq(Marks)
    OBVIOUS
  <2>2. Placed(<<>>)
    BY <2>1 DEF Placed
  <2>3. \A kind : Number(<<>>, kind, 0) = 0
    <3> SUFFICES ASSUME NEW kind PROVE Number(<<>>, kind, 0) = 0
      OBVIOUS
    <3>1. CountsUp(<<>>, kind)
      BY NumberIs, Zenon
    <3> QED BY <3>1 DEF CountsUp
  <2> QED BY <2>1, <2>2, <2>3 DEF Laid
<1>2. CASE size = 0
  <2>1. PrintData(size) = <<>>
    <3>1. f = <<>> /\ Len(f) = 0
      BY <1>2
    <3> QED BY <3>1, Zenon DEF PrintData, FlattenSeq
  <2> QED BY <1>1, <1>2, <2>1
<1>3. CASE size # 0
  <2>1. \A k \in Nat : k < size => PrintStep(size, k) \in Seq(Marks)
    <3> SUFFICES ASSUME NEW k \in Nat, k < size PROVE PrintStep(size, k) \in Seq(Marks)
      OBVIOUS
    <3>1. LineBefore(k) \in Seq(Marks)
      <4>1. CASE k # 0 /\ k % 16 = 0
        <5>1. k - 16 \in Nat /\ k - 1 \in Nat /\ k - 16 <= (k - 1) + 1
          BY <4>1
        <5>2. Chars(k - 16, k - 1) \in Seq(Marks) /\ EndLine \in Seq(Marks)
          BY <5>1, MarkTypes
        <5>3. Chars(k - 16, k - 1) \o EndLine \in Seq(Marks)
          BY <5>2, MarksJoin, Zenon
        <5> QED BY <4>1, <5>3 DEF LineBefore
      <4>2. CASE ~(k # 0 /\ k % 16 = 0)
        BY <4>2 DEF LineBefore
      <4> QED BY <4>1, <4>2
    <3>2. LastLine(k) \in Seq(Marks)
      <4>1. 15 - (k % 16) \in Nat /\ k - (k % 16) \in Nat /\ k - (k % 16) <= k + 1
        OBVIOUS
      <4>2. /\ Gaps(15 - (k % 16)) \in Seq(Marks) /\ Chars(k - (k % 16), k) \in Seq(Marks)
            /\ EndLine \in Seq(Marks)
        BY <4>1, MarkTypes
      <4>3. Gaps(15 - (k % 16)) \o Chars(k - (k % 16), k) \in Seq(Marks)
        BY <4>2, MarksJoin, Zenon
      <4>4. (Gaps(15 - (k % 16)) \o Chars(k - (k % 16), k)) \o EndLine \in Seq(Marks)
        BY <4>2, <4>3, MarksJoin, Zenon
      <4> QED BY <4>4 DEF LastLine
    <3>3. <<Mark("hex", k)>> \in Seq(Marks)
      BY MarkTypes
    <3>4. LineBefore(k) \o <<Mark("hex", k)>> \in Seq(Marks)
      BY <3>1, <3>3, MarksJoin, Zenon
    <3>5. (LineBefore(k) \o <<Mark("hex", k)>>) \o LastLine(k) \in Seq(Marks)
      BY <3>2, <3>4, MarksJoin, Zenon
    <3>6. (LineBefore(k) \o <<Mark("hex", k)>>) \o <<>> \in Seq(Marks)
      BY <3>4, NothingJoins, Zenon
    <3> QED BY <3>5, <3>6 DEF PrintStep, LineBefore, LastLine
  <2>2. f \in [1 .. size -> Seq(Marks)]
    <3> SUFFICES ASSUME NEW k \in 1 .. size PROVE PrintStep(size, k - 1) \in Seq(Marks)
      OBVIOUS
    <3>1. k - 1 \in Nat /\ k - 1 < size
      OBVIOUS
    <3> QED BY <2>1, <3>1
  <2>3. \A k \in 1 .. size : f[k] = PrintStep(size, k - 1)
    OBVIOUS
  <2>4. PrintData(size) = FlattenSeq(f)
    BY DEF PrintData
  <2> HIDE DEF f
  <2>5. PICK v \in [0 .. size -> Seq(Marks)] :
           /\ v[0] = <<>> /\ \A k \in 1 .. size : v[k] = v[k - 1] \o f[k]
           /\ PrintData(size) = v[size]
    BY <1>3, <2>2, <2>4, FlattenIs
  <2> DEFINE P == {k \in Nat : k < size => Laid(v[k], k, 16 * Full(k), Full(k))}
  <2>6. 0 \in P
    BY <1>1, <2>5 DEF Full
  <2>7. ASSUME NEW k \in Nat, k \in P
        PROVE  k + 1 \in P
    <3> SUFFICES ASSUME k + 1 < size
                 PROVE  Laid(v[k + 1], k + 1, 16 * Full(k + 1), Full(k + 1))
      OBVIOUS
    <3>1. Laid(v[k], k, 16 * Full(k), Full(k))
      BY <2>7
    <3>2. k + 1 \in 1 .. size /\ (k + 1) - 1 = k /\ k < size /\ k # size - 1
      OBVIOUS
    <3>3. v[k + 1] = v[k] \o PrintStep(size, k)
      BY <2>3, <2>5, <3>2
    <3> QED BY <3>1, <3>2, <3>3, StepIsLaid
  <2>8. PICK l \in Nat : l = size - 1
    BY <1>3
  <2>9. Laid(v[l], l, 16 * Full(l), Full(l))
    <3> HIDE DEF P
    <3>1. l \in P
      BY <2>6, <2>7, AllNumbers
    <3> QED BY <2>8, <3>1 DEF P
  <2>10. v[size] = v[l] \o PrintStep(size, l)
    <3>1. size \in 1 .. size /\ size - 1 = l
      BY <1>3, <2>8
    <3> QED BY <2>3, <2>5, <3>1
  <2>11. Laid(v[size], size, size, (l \div 16) + 1) /\ (l \div 16) + 1 \in Nat
    <3>1. l < size
      BY <2>8
    <3>2. Laid(v[l] \o PrintStep(size, l), size, size, (l \div 16) + 1)
      BY <2>8, <2>9, <3>1, StepIsLaid
    <3> QED BY <2>10, <3>2
  <2> QED BY <2>5, <2>11
<1> QED BY <1>2, <1>3

-----------------------------------------------------------------------------
\* The theorems.

\* For all devices, names and frames the variables of pcap_example.c's model keep
\* their types, the counters within the bound on the packets.
THEOREM TypeCorrect == Spec => []TypeOK
  <1>1. IInv => TypeOK
    BY DEF IInv
  <1> QED BY <1>1, Invariance, PTL

\* For every list of devices, however long, the copies of the first 21 names stay
\* in dev_list (pcap_example.c:31, 58).
THEOREM ListIsLargeEnough == Spec => []ListHoldsDevices
  <1>1. IInv => ListHoldsDevices
    BY DEF IInv
  <1> QED BY <1>1, Invariance, PTL

\* For every header length and message size the dump under "Data Payload" is what
\* is behind the headers of an IPv4 frame (header.c:118, 140).
THEOREM PayloadIsShown == Spec => []PayloadIsMessage
  <1>1. IInv => PayloadIsMessage
    <2> SUFFICES ASSUME IInv, frame.version = 4, log # <<>>
                 PROVE  log[3].from = frame.start /\ log[3].from + log[3].size = frame.len
      BY DEF PayloadIsMessage
    <2>1. frame \in Frames /\ \E t \in Transports(frame) : log = Dumps(frame, t)
      BY DEF IInv, Logged
    <2>2. FrameFact(frame)
      BY <2>1, FrameFacts
    <2>3. log = Dumps(frame, PointerSize)
      BY <2>1, <2>2 DEF Transports, FrameFact
    <2>4. /\ log[3].from = EthernetHeader + 4 * frame.ihl + PointerSize
          /\ log[3].size = frame.len - (EthernetHeader + 4 * frame.ihl + PointerSize)
      BY <2>3, ThreeDumps
    <2> QED BY <2>2, <2>4 DEF FrameFact, EthernetHeader, PointerSize
  <1> QED BY <1>1, Invariance, PTL

\* For every frame, of IPv4 or IPv6: the dumps stay in what was captured of it, but for
\* the end of a payload that was cut, and, with a traffic class of 80 or more, for some
\* octets of what is taken for a TCP header (header.c:59-192).
THEOREM DumpsInsideFrame == Spec => []DumpsStayInFrame
  <1>1. IInv => DumpsStayInFrame
    <2> SUFFICES ASSUME IInv, NEW k \in DOMAIN log, log[k].size > 0
                 PROVE  /\ log[k].from >= 0
                        /\ \/ End(log[k]) <= frame.caplen
                           \/ k = 3 /\ frame.caplen < frame.len /\ End(log[k]) = frame.len
                           \/ /\ k = 2 /\ End(log[k]) <= 120
                              /\ frame.version = 6 /\ frame.protocol = 6
                              /\ frame.ihl >= 5
      BY DEF DumpsStayInFrame
    <2>1. frame \in Frames /\ \E t \in Transports(frame) : log = Dumps(frame, t)
      BY DEF IInv, Logged
    <2>2. PICK t \in Transports(frame) : log = Dumps(frame, t)
      BY <2>1
    <2>3. FrameFact(frame)
      BY <2>1, FrameFacts
    <2>4. /\ t \in 0 .. 60
          /\ t = 8 \/ (frame.version = 6 /\ frame.protocol = 6)
      <3>1. CASE frame.protocol = 6
        <4>1. frame.version = 6
          BY <2>3, <3>1 DEF FrameFact
        <4>2. t = 8 \/ t = 4 * frame.doff
          BY <3>1 DEF Transports, PointerSize
        <4>3. frame.doff \in 0 .. 15
          BY <2>3 DEF FrameFact
        <4> QED BY <3>1, <4>1, <4>2, <4>3
      <3>2. CASE frame.protocol # 6
        BY <3>2 DEF Transports, PointerSize
      <3> QED BY <3>1, <3>2
    <2>5. /\ DOMAIN log = 1 .. 3
          /\ log[1].from = 0 /\ log[1].size = 4 * frame.ihl
          /\ log[2].from = 4 * frame.ihl /\ log[2].size = t
          /\ log[3].from = 14 + 4 * frame.ihl + t
          /\ log[3].size = frame.len - (14 + 4 * frame.ihl + t)
      BY <2>2, ThreeDumps DEF EthernetHeader
    <2>6. /\ frame.ihl \in 0 .. 15 /\ frame.len \in Nat /\ frame.caplen \in Nat
          /\ frame.caplen <= frame.len
      BY <2>3 DEF FrameFact
    <2>7. 4 * frame.ihl + 8 <= frame.caplen
      <3>1. 4 * frame.ihl + 8 <= frame.len
        BY <2>3, <2>6 DEF FrameFact
      <3> QED BY <2>3, <2>6, <3>1 DEF FrameFact
    <2> USE DEF End
    <2>8. k = 1 \/ k = 2 \/ k = 3
      BY <2>5
    <2>9. CASE k = 1
      BY <2>5, <2>6, <2>7, <2>9
    <2>10. CASE k = 2
      <3>1. CASE t = 8
        BY <2>5, <2>6, <2>7, <2>10, <3>1
      <3>2. CASE t # 8 /\ frame.ihl >= 5
        BY <2>4, <2>5, <2>6, <2>10, <3>2
      <3>3. CASE t # 8 /\ frame.ihl <= 4
        <4>1. frame.caplen >= 79
          BY <2>3, <2>4, <2>6, <3>3 DEF FrameFact
        <4> QED BY <2>4, <2>5, <2>6, <2>10, <3>3, <4>1
      <3> QED BY <2>6, <3>1, <3>2, <3>3
    <2>11. CASE k = 3
      BY <2>4, <2>5, <2>6, <2>11
    <2> QED BY <2>8, <2>9, <2>10, <2>11
  <1> QED BY <1>1, Invariance, PTL

\* For every name of at most 18 letters that a newline ends, libpcap is given just
\* that name (pcap_example.c:67-69).
THEOREM TypedDeviceIsOpened == Spec => []ChosenDeviceIsOpened
  <1>1. IInv => ChosenDeviceIsOpened
    <2> SUFFICES ASSUME IInv, pc = "sniff", line.newline, line.letters <= 18
                 PROVE  dev_name = line.letters
      BY DEF ChosenDeviceIsOpened
    <2>1. line # NoLine
      BY DEF NoLine
    <2>2. line \in [letters : NameLengths, newline : BOOLEAN] \ {NoLine}
      BY <2>1 DEF IInv, Lines
    <2>3. Stored(line) = line.letters + 1 /\ line.letters \in Nat
      BY <2>2, StoredSize, SnifferAssumption
    <2>4. dev_name = Stored(line) - 1
      BY DEF IInv, Named, WithoutLast
    <2> QED BY <2>3, <2>4
  <1> QED BY <1>1, Invariance, PTL

\* For every frame, what PrintData writes of each dump shows every octet once in
\* hexadecimal and once as a character, in order, sixteen to a line
\* (header.c:194-239).
THEOREM LinesOfSixteen == Spec => []EachOctetOnALine
  <1>1. IInv => EachOctetOnALine
    <2> SUFFICES ASSUME IInv, NEW k \in DOMAIN log
                 PROVE  LET size == IF log[k].size > 0 THEN log[k].size ELSE 0
                            marks == PrintData(size)
                        IN  /\ \A kind \in {"hex", "chr"} :
                                  Number(marks, kind, Len(marks)) = size
                            /\ \A n \in DOMAIN marks : marks[n].kind \in {"hex", "chr"} =>
                                  /\ marks[n].at = Number(marks, marks[n].kind, n - 1)
                                  /\ marks[n].at \div 16 = Number(marks, "endl", n - 1)
      BY Zenon DEF EachOctetOnALine
    <2> DEFINE size == IF log[k].size > 0 THEN log[k].size ELSE 0
               marks == PrintData(size)
    <2>1. frame \in Frames /\ \E t \in Transports(frame) : log = Dumps(frame, t)
      BY DEF IInv, Logged
    <2>2. PICK t \in Transports(frame) : log = Dumps(frame, t)
      BY <2>1
    <2>3. FrameFact(frame)
      BY <2>1, FrameFacts
    <2>4. t \in 0 .. 60
      BY <2>3 DEF Transports, FrameFact, PointerSize
    <2>5. /\ DOMAIN log = 1 .. 3
          /\ log[1].size = 4 * frame.ihl
          /\ log[2].size = t
          /\ log[3].size = frame.len - (14 + 4 * frame.ihl + t)
      BY <2>2, ThreeDumps DEF EthernetHeader
    <2>6. frame.ihl \in Nat /\ frame.len \in Nat
      BY <2>3 DEF FrameFact
    <2>7. k = 1 \/ k = 2 \/ k = 3
      BY <2>5
    <2>8. log[k].size \in Int
      BY <2>4, <2>5, <2>6, <2>7
    <2>9. size \in Nat
      BY <2>8
    <2> HIDE DEF size
    <2>10. PICK e \in Nat : Laid(marks, size, size, e)
      BY <2>9, DumpIsLaid
    <2> HIDE DEF marks
    <2>11. marks \in Seq(Marks) /\ DOMAIN marks = 1 .. Len(marks)
      BY <2>10 DEF Laid
    <2>12. /\ \A kind \in {"hex", "chr"} : Number(marks, kind, Len(marks)) = size
           /\ \A n \in DOMAIN marks : marks[n].kind \in {"hex", "chr"} =>
                 /\ marks[n].at = Number(marks, marks[n].kind, n - 1)
                 /\ marks[n].at \div 16 = Number(marks, "endl", n - 1)
      BY <2>10, <2>11 DEF Laid, Placed
    <2> QED BY <2>12, Zenon DEF marks, size
  <1> QED BY <1>1, Invariance, PTL
=============================================================================
