-------------------------- MODULE EchoSystemProofs --------------------------
(***************************************************************************)
(* For every buffer size and every set of datagrams, TD2/server.c alone    *)
(* implements EchoSpec: the string it finds in its buffer is that of the   *)
(* datagram just received, whatever the buffer held before.  With its      *)
(* clients: for any number of them, ports, losses and duplicates, a        *)
(* fancyclient prints nothing but the echo of a text that was sent from    *)
(* its own address.                                                        *)
(***************************************************************************)
EXTENDS EchoSystem, CStringsProofs

-----------------------------------------------------------------------------
\* The server alone.  Its invariant: between a recvfrom and its sendto, the
\* string in the buffer and the address in clientaddr are the answer to the last
\* datagram.

ServerAnswering ==
    /\ Len(rcvd) = Len(sent) + 1
    /\ Reply = Echoes!Echo(rcvd[Len(rcvd)])
    /\ IsTerminated(buf)

ServerIInv ==
    /\ TypeOK
    /\ pc = "recv" => Len(rcvd) = Len(sent)
    /\ pc = "send" => ServerAnswering

\* The operators of EchoSpec are those of CStrings, which it extends too.
LEMMA EchoIs ==
    \A d : Echoes!Echo(d) = [addr |-> d.addr, data |-> CStr(Truncate(d.data, BUFSIZE - 1))]
  BY DEF Echoes!Echo, Echoes!CStr, Echoes!StrLen, Echoes!IsStrLen,
         Echoes!Truncate, Echoes!NUL, CStr, StrLen, IsStrLen, Truncate, NUL

\* A datagram is received with its answer in the buffer.
LEMMA ServerReceives ==
    ASSUME ServerIInv, NEW a \in Addrs, NEW d \in Payloads, Recv(a, d)
    PROVE  ServerIInv'
<1> DEFINE dgram == [addr |-> a, data |-> d]
<1>1. /\ pc' = "send" /\ clientaddr' = a /\ buf' = Received(buf, d)
      /\ rcvd' = Append(rcvd, dgram) /\ sent' = sent
      /\ TypeOK /\ Len(rcvd) = Len(sent)
  BY DEF ServerIInv, Recv
<1>2. d \in Seq(Octet)
  BY PayloadsAssumption
<1>3. /\ buf' \in Seq(Octet) /\ Len(buf') = BUFSIZE /\ IsTerminated(buf)'
      /\ CStr(buf)' = CStr(Truncate(d, BUFSIZE - 1))
  <2>1. buf \in Seq(Octet) /\ Len(buf) = BUFSIZE /\ buf # <<>>
    BY <1>1, BufSizeAssumption DEF TypeOK
  <2>2. Truncate(d, BUFSIZE - 1) \in Seq(Octet) /\ Len(Truncate(d, BUFSIZE - 1)) < BUFSIZE
    BY <1>2, BufSizeAssumption, TruncateFits
  <2> QED BY <1>1, <1>2, <2>1, <2>2, ReceivedHolds, HeldText DEF IsTerminated
<1>4. /\ rcvd' \in Seq(Datagrams(Payloads)) /\ Len(rcvd') = Len(sent') + 1
      /\ rcvd'[Len(rcvd')] = dgram
  BY <1>1 DEF TypeOK, Datagrams
<1>5. Reply' = Echoes!Echo(dgram)
  BY <1>1, <1>3, EchoIs DEF Reply
<1>6. TypeOK'
  BY <1>1, <1>3, <1>4 DEF TypeOK
<1> QED BY <1>1, <1>3, <1>4, <1>5, <1>6 DEF ServerIInv, ServerAnswering

\* Sending the answer settles the datagram.
LEMMA ServerSends == ServerIInv /\ Send => ServerIInv'
<1> SUFFICES ASSUME ServerIInv, Send PROVE ServerIInv'
  OBVIOUS
<1>1. /\ pc = "send" /\ pc' = "recv" /\ sent' = Append(sent, Reply)
      /\ UNCHANGED <<buf, clientaddr, rcvd>> /\ TypeOK /\ ServerAnswering
  BY DEF ServerIInv, Send
<1>2. rcvd[Len(rcvd)] \in Datagrams(Payloads)
  BY <1>1 DEF TypeOK, ServerAnswering
<1>3. Reply \in Datagrams(Seq(Octet))
  <2>2. CStr(buf) \in Seq(Octet)
    BY <1>1, StrLenType DEF TypeOK
  <2>3. clientaddr \in Addrs
    BY <1>1, <1>2, EchoIs DEF ServerAnswering, Reply, Datagrams
  <2> QED BY <2>2, <2>3 DEF Reply, Datagrams
<1>4. sent' \in Seq(Datagrams(Seq(Octet))) /\ Len(sent') = Len(sent) + 1
  BY <1>1, <1>3 DEF TypeOK
<1> QED BY <1>1, <1>4 DEF ServerIInv, TypeOK, ServerAnswering

\* The invariant holds from the start and is preserved.
THEOREM ServerInvariant == Spec => []ServerIInv
<1>1. Init => ServerIInv
  <2> SUFFICES ASSUME Init PROVE ServerIInv
    OBVIOUS
  <2>1. Filled(BUFSIZE, Zero) \in [1 .. BUFSIZE -> Octet]
    BY DEF Filled, Zero, Octet
  <2>2. buf \in Seq(Octet) /\ Len(buf) = BUFSIZE
    BY <2>1, FunctionIsSeq, BufSizeAssumption DEF Init
  <2> QED BY <2>2 DEF Init, ServerIInv, TypeOK
<1>2. ASSUME ServerIInv, [Next]_vars
      PROVE  ServerIInv'
  <2>1. CASE RecvFails \/ SendFails \/ UNCHANGED vars
    BY <1>2, <2>1 DEF RecvFails, SendFails, vars, ServerIInv, TypeOK,
                      ServerAnswering, Reply, IsTerminated
  <2> QED BY <1>2, <2>1, ServerReceives, ServerSends DEF Next
<1> QED BY <1>1, <1>2, PTL DEF Spec

\* The shape of the state; in particular the buffer keeps its size.
THEOREM ServerTypeCorrect == Spec => []TypeOK
<1>1. ServerIInv => TypeOK
  BY DEF ServerIInv
<1> QED BY <1>1, ServerInvariant, PTL

\* sendto's strlen stays inside the buffer (server.c:68).
THEOREM TerminatedReply == Spec => []ReplyIsTerminated
<1>1. ServerIInv => ReplyIsTerminated
  BY DEF ServerIInv, ServerAnswering, ReplyIsTerminated
<1> QED BY <1>1, ServerInvariant, PTL

\* server.c answers every datagram as EchoSpec says, for every BUFSIZE.
THEOREM Refinement == Spec => IsEcho
<1> USE DEF Echoes!evars
<1>1. Init => Echoes!Init
  BY DEF Init, Echoes!Init
<1>2. ASSUME ServerIInv, [Next]_vars
      PROVE  [Echoes!Next]_(Echoes!evars)
  <2>1. ASSUME NEW a \in Addrs, NEW d \in Payloads, Recv(a, d)
        PROVE  Echoes!Receive
    BY <1>2, <2>1 DEF Recv, ServerIInv, Echoes!Receive
  <2>2. CASE Send
    <3>1. Len(sent) < Len(rcvd)
      BY <1>2, <2>2 DEF Send, ServerIInv, TypeOK, ServerAnswering
    <3>2. Echoes!Reply
      BY <1>2, <2>2, <3>1 DEF Send, ServerIInv, ServerAnswering, Echoes!Reply
    <3> QED BY <3>2 DEF Echoes!Next
  <2>3. CASE RecvFails \/ SendFails \/ UNCHANGED vars
    BY <2>3 DEF RecvFails, SendFails, vars
  <2> QED BY <1>2, <2>1, <2>2, <2>3 DEF Next, Echoes!Next
<1> QED BY <1>1, <1>2, ServerInvariant, PTL DEF Spec, IsEcho, Echoes!Spec
-----------------------------------------------------------------------------
\* The system: its invariant.

\* A client that has had address a sent the text d.
SentFrom(a, d) == \E k \in 1 .. Len(users[a]) : d = query[users[a][k]]

\* ... or a text of which d is the echo.
EchoFrom(a, d) == \E k \in 1 .. Len(users[a]) : d = EchoOf(query[users[a][k]])

Types ==
    /\ SysTypeOK
    /\ pc \in {"recv", "send", "exited"}
    /\ buf \in Seq(Octet) /\ Len(buf) = BUFSIZE
    /\ message \in [Clients -> Seq(Octet)]
    /\ query \in [Clients -> Seq(Octet)]
    /\ DOMAIN printed = Clients

\* Every text on its way to the server was sent from its address, and every one
\* to a client is the echo of one that was.
InFlight ==
    \A dgram \in DOMAIN net :
        /\ dgram.addr \in Addrs
        /\ dgram.to = "server" => SentFrom(dgram.addr, dgram.data)
        /\ dgram.to = "client" => EchoFrom(dgram.addr, dgram.data)

\* So is what the server is about to send.
Answering == pc = "send" => clientaddr \in Addrs /\ EchoFrom(clientaddr, CStr(buf))

\* A client that waits is the last that was given its address.
LastUser ==
    \A c \in Clients : cpc[c] = "wait" =>
        LET u == users[caddr[c]]
        IN  caddr[c] \in Addrs /\ Len(u) > 0 /\ u[Len(u)] = c

\* A client that has not sent its text has had no address.
NotYet ==
    \A c \in Clients, a \in Addrs : cpc[c] \in {"type", "send"} =>
        \A k \in 1 .. Len(users[a]) : users[a][k] # c

\* A client has printed nothing, or once: an echo to a user of its address that
\* was not after it.
Printed ==
    \A c \in Clients : printed[c] # <<>> =>
        LET u == users[caddr[c]]
        IN  /\ cpc[c] = "closed" /\ caddr[c] \in Addrs
            /\ \E k, l \in 1 .. Len(u) :
                  k <= l /\ u[l] = c /\ printed[c] = <<EchoOf(query[u[k]])>>

IInv ==
    /\ Types
    /\ InFlight
    /\ Answering
    /\ LastUser
    /\ NotYet
    /\ Printed

-----------------------------------------------------------------------------
\* Bags and buffers.

\* A datagram more in the network.
LEMMA Added ==
    ASSUME NEW B, IsABag(B), NEW x
    PROVE  IsABag(BagAdd(B, x)) /\ DOMAIN BagAdd(B, x) = DOMAIN B \cup {x}
  BY DEF IsABag, BagAdd

\* A datagram less.
LEMMA Removed ==
    ASSUME NEW B, IsABag(B), NEW x
    PROVE  IsABag(BagRemove(B, x)) /\ DOMAIN BagRemove(B, x) \subseteq DOMAIN B
  BY DEF IsABag, BagRemove

\* An echo fits the buffer it comes back to: echoed again, it stays as it is.
LEMMA EchoOfEcho ==
    ASSUME NEW q \in Seq(Octet)
    PROVE  EchoOf(q) \in Seq(Octet) /\ EchoOf(EchoOf(q)) = EchoOf(q)
<1> DEFINE t == Truncate(q, BUFSIZE - 1)
           e == CStr(t)
<1>1. BUFSIZE - 1 \in Nat
  BY BufSizeAssumption
<1>2. t \in Seq(Octet) /\ Len(t) \in 0 .. BUFSIZE - 1
  BY <1>1, TruncateFits
<1> HIDE DEF t
<1>3. /\ StrLen(t) \in 0 .. Len(t) /\ IsStrLen(t, StrLen(t))
      /\ e \in Seq(Octet) /\ Len(e) = StrLen(t)
      /\ \A j \in 1 .. StrLen(t) : e[j] = t[j]
  BY <1>2, StrLenType
<1> HIDE DEF e
<1>4. Truncate(e, BUFSIZE - 1) = e
  BY <1>1, <1>2, <1>3 DEF Truncate
<1>5. IsStrLen(e, Len(e))
  BY <1>2, <1>3 DEF IsStrLen
<1>6. CStr(e) = e
  <2>1. StrLen(e) = Len(e)
    BY <1>3, <1>5, StrLenIs
  <2> QED BY <1>3, <2>1 DEF CStr
<1>7. EchoOf(q) = e
  BY DEF EchoOf, t, e
<1> QED BY <1>3, <1>4, <1>6, <1>7 DEF EchoOf

\* The text that the server or a client takes into its buffer.
LEMMA TakenText ==
    ASSUME NEW b \in Seq(Octet), NEW d \in Seq(Octet), Len(b) \in {BUFSIZE, BUFSIZE + 1}
    PROVE  LET t == Truncate(d, BUFSIZE - 1)
               r == Received(b, t)
           IN  /\ t \in Seq(Octet) /\ Len(t) \in 0 .. BUFSIZE - 1
               /\ Truncate(t, Len(b) - 1) = t
               /\ r \in Seq(Octet) /\ Len(r) = Len(b)
               /\ CStr(r) = EchoOf(d)
<1> DEFINE t == Truncate(d, BUFSIZE - 1)
           r == Received(b, t)
<1>1. BUFSIZE - 1 \in Nat /\ Len(b) \in Nat \ {0} /\ b # <<>>
  BY BufSizeAssumption
<1>2. t \in Seq(Octet) /\ Len(t) \in 0 .. BUFSIZE - 1
  BY <1>1, TruncateFits
<1>3. Len(t) <= Len(b) - 1
  BY <1>2, BufSizeAssumption
<1> HIDE DEF t
<1>4. Truncate(t, Len(b) - 1) = t
  BY <1>3 DEF Truncate
<1>5. r \in Seq(Octet) /\ Len(r) = Len(b) /\ HoldsText(r, t)
  BY <1>1, <1>2, <1>4, ReceivedHolds
<1> HIDE DEF r
<1>6. CStr(r) = CStr(t)
  BY <1>1, <1>2, <1>3, <1>5, HeldText
<1> QED BY <1>2, <1>4, <1>5, <1>6 DEF EchoOf, t, r

\* The server's buffer has the echo of what it receives.
LEMMA ReceivedText ==
    ASSUME NEW b \in Seq(Octet), NEW d \in Seq(Octet), Len(b) = BUFSIZE
    PROVE  /\ Received(b, d) \in Seq(Octet) /\ Len(Received(b, d)) = BUFSIZE
           /\ CStr(Received(b, d)) = EchoOf(d)
<1>1. Received(b, d) = Received(b, Truncate(d, BUFSIZE - 1))
  BY TakenText DEF Received
<1> QED BY <1>1, TakenText

\* The client's buffer has the string of what arrives.
LEMMA AnswerText ==
    ASSUME NEW c \in Clients, NEW d \in Seq(Octet),
           message[c] \in Seq(Octet), Len(message[c]) = BUFSIZE + 1
    PROVE  /\ Answer(c, d) \in Seq(Octet) /\ Len(Answer(c, d)) = BUFSIZE + 1
           /\ CStr(Answer(c, d)) = EchoOf(d)
<1>1. Answer(c, d) = Received(message[c], Truncate(d, BUFSIZE - 1))
  BY TakenText DEF Answer, Received
<1> QED BY <1>1, TakenText

\* A client's buffer before anything is typed.
LEMMA BlankType == Blank \in Seq(Octet) /\ Len(Blank) = BUFSIZE + 1
<1>1. Filled(BUFSIZE, Zero) \in [1 .. BUFSIZE -> Octet]
  BY DEF Filled, Zero, Octet
<1>2. Filled(BUFSIZE, Zero) \in Seq(Octet) /\ Len(Filled(BUFSIZE, Zero)) = BUFSIZE
  BY <1>1, FunctionIsSeq, BufSizeAssumption
<1> QED BY <1>2 DEF Blank, NUL, Octet

\* fgets leaves octets in the client's buffer, and its size.
LEMMA TypedType ==
    ASSUME NEW line \in Lines
    PROVE  Typed(line) \in Seq(Octet) /\ Len(Typed(line)) = BUFSIZE + 1
<1> DEFINE s == Append(Truncate(line, BUFSIZE - 2), NUL)
<1>1. Blank \in Seq(Octet) /\ Len(Blank) = BUFSIZE + 1
  BY BlankType
<1>2. s \in Seq(Octet)
  <2>1. line \in Seq(Octet)
    BY LinesAssumption
  <2>2. Truncate(line, BUFSIZE - 2) \in Seq(Octet)
    <3>1. CASE Len(line) <= BUFSIZE - 2
      BY <2>1, <3>1 DEF Truncate
    <3>2. CASE ~(Len(line) <= BUFSIZE - 2)
      <4>1. Truncate(line, BUFSIZE - 2) = SubSeq(line, 1, BUFSIZE - 2)
        BY <3>2 DEF Truncate
      <4>2. \A i \in 1 .. BUFSIZE - 2 : line[i] \in Octet
        BY <2>1, <3>2, BufSizeAssumption
      <4>3. SubSeq(line, 1, BUFSIZE - 2) \in Seq(Octet)
        BY <2>1, <3>2, <4>2, BufSizeAssumption
      <4> QED BY <4>1, <4>3
    <3> QED BY <3>1, <3>2
  <2> QED BY <2>2 DEF NUL, Octet
<1> HIDE DEF s
<1>3. Overwrite(Blank, s) \in [1 .. BUFSIZE + 1 -> Octet]
  BY <1>1, <1>2, BufSizeAssumption DEF Overwrite
<1>4. BUFSIZE + 1 \in Nat
  BY BufSizeAssumption
<1>5. Typed(line) = Overwrite(Blank, s)
  BY DEF Typed, s
<1> QED BY <1>3, <1>4, <1>5, FunctionIsSeq

-----------------------------------------------------------------------------
\* Steps.

\* While addresses only get more users, and theirs keep their texts, what came from
\* an address stays so.
LEMMA UsersKeep ==
    ASSUME \A a \in Addrs : Len(users[a]) \in Nat /\ Len(users'[a]) \in Nat,
           \A a \in Addrs : Len(users[a]) <= Len(users'[a]),
           \A a \in Addrs : \A k \in 1 .. Len(users[a]) :
               /\ users'[a][k] = users[a][k]
               /\ query'[users[a][k]] = query[users[a][k]]
    PROVE  \A a \in Addrs : \A d : /\ SentFrom(a, d) => SentFrom(a, d)'
                                   /\ EchoFrom(a, d) => EchoFrom(a, d)'
<1> SUFFICES ASSUME NEW a \in Addrs
             PROVE  \A d : /\ SentFrom(a, d) => SentFrom(a, d)'
                           /\ EchoFrom(a, d) => EchoFrom(a, d)'
  OBVIOUS
<1>1. \A k \in 1 .. Len(users[a]) : k \in 1 .. Len(users'[a])
  OBVIOUS
<1> QED BY <1>1 DEF SentFrom, EchoFrom, EchoOf

\* The invariant holds when the server and the clients start.
LEMMA InitIInv == SysInit => IInv
<1> SUFFICES ASSUME SysInit PROVE IInv
  OBVIOUS
<1> USE DEF SysInit, Init, NetInit
<1>1. Blank \in Seq(Octet) /\ Len(Blank) = BUFSIZE + 1
  BY BlankType
<1>2. SysTypeOK
  BY <1>1, NetworkAssumption DEF SysTypeOK, NetTypeOK, IsABag, EmptyBag, SetToBag
<1>3. buf \in Seq(Octet) /\ Len(buf) = BUFSIZE
  <2>1. Filled(BUFSIZE, Zero) \in [1 .. BUFSIZE -> Octet]
    BY DEF Filled, Zero, Octet
  <2> QED BY <2>1, FunctionIsSeq, BufSizeAssumption
<1>4. Types
  BY <1>1, <1>2, <1>3 DEF Types
<1>5. DOMAIN net = {}
  BY DEF EmptyBag, SetToBag
<1> QED BY <1>4, <1>5 DEF IInv, InFlight, Answering, LastUser, NotYet, Printed

\* The server receives a text: its buffer has the echo.
LEMMA ServerRecvIInv == IInv /\ ServerRecv => IInv'
<1> SUFFICES ASSUME IInv, ServerRecv PROVE IInv'
  OBVIOUS
<1>1. PICK dgram \in DOMAIN net :
          /\ dgram.to = "server" /\ RecvFrom(dgram) /\ Recv(dgram.addr, dgram.data)
          /\ UNCHANGED cvars
  BY DEF ServerRecv
<1>2. Types /\ InFlight /\ LastUser /\ NotYet /\ Printed
  BY DEF IInv
<1>3. /\ IsABag(net') /\ DOMAIN net' \subseteq DOMAIN net /\ UNCHANGED <<losses, dups>>
      /\ pc' = "send" /\ clientaddr' = dgram.addr /\ buf' = Received(buf, dgram.data)
      /\ UNCHANGED <<cpc, message, caddr, query, printed, users>>
  BY <1>1, <1>2, Removed DEF RecvFrom, Recv, cvars, Types, SysTypeOK, NetTypeOK
<1>4. dgram.addr \in Addrs /\ SentFrom(dgram.addr, dgram.data)
  BY <1>1, <1>2 DEF InFlight
<1>5. PICK k \in 1 .. Len(users[dgram.addr]) :
          dgram.data = query[users[dgram.addr][k]]
  BY <1>4 DEF SentFrom
<1>6. dgram.data \in Seq(Octet)
  BY <1>2, <1>4, <1>5 DEF Types, SysTypeOK
<1>7. buf' \in Seq(Octet) /\ Len(buf') = BUFSIZE /\ CStr(buf') = EchoOf(dgram.data)
  BY <1>2, <1>3, <1>6, ReceivedText DEF Types
<1>8. EchoFrom(dgram.addr, CStr(buf'))
  BY <1>5, <1>7 DEF EchoFrom
<1>9. Types'
  BY <1>2, <1>3, <1>7 DEF Types, SysTypeOK, NetTypeOK
<1>10. InFlight'
  BY <1>2, <1>3 DEF InFlight, SentFrom, EchoFrom, EchoOf
<1>11. Answering'
  <2>1. CStr(buf)' = CStr(buf')
    BY Zenon DEF CStr, StrLen, IsStrLen
  <2> QED BY <1>3, <1>4, <1>8, <2>1 DEF Answering, EchoFrom, EchoOf
<1>12. LastUser' /\ NotYet' /\ Printed'
  BY <1>2, <1>3 DEF LastUser, NotYet, Printed, EchoOf
<1> QED BY <1>9, <1>10, <1>11, <1>12 DEF IInv

\* The echo is in flight.
LEMMA ServerSendIInv == IInv /\ ServerSend => IInv'
<1> SUFFICES ASSUME IInv, ServerSend PROVE IInv'
  OBVIOUS
<1> DEFINE dgram == ToClient(Reply.addr, Reply.data)
<1>1. Types /\ InFlight /\ LastUser /\ NotYet /\ Printed
  BY DEF IInv
<1>2. /\ pc' = "recv" /\ UNCHANGED <<buf, losses, dups>>
      /\ UNCHANGED <<cpc, message, caddr, query, printed, users>>
      /\ net' = BagAdd(net, dgram)
  BY DEF ServerSend, Send, SendTo, cvars
<1>3. /\ dgram.to = "client" /\ dgram.addr \in Addrs
      /\ EchoFrom(dgram.addr, dgram.data)
  BY DEF ServerSend, Send, IInv, Answering, ToClient, Reply
<1> HIDE DEF dgram
<1>4. IsABag(net') /\ DOMAIN net' = DOMAIN net \cup {dgram}
  BY <1>1, <1>2, Added DEF Types, SysTypeOK, NetTypeOK
<1>5. Types'
  BY <1>1, <1>2, <1>4 DEF Types, SysTypeOK, NetTypeOK
<1>6. InFlight'
  BY <1>1, <1>2, <1>3, <1>4 DEF InFlight, SentFrom, EchoFrom, EchoOf
<1>7. Answering' /\ LastUser' /\ NotYet' /\ Printed'
  BY <1>1, <1>2 DEF Answering, LastUser, NotYet, Printed, EchoOf
<1> QED BY <1>5, <1>6, <1>7 DEF IInv

\* Steps that change neither texts nor addresses: a typed line, failing calls, what
\* the network does to datagrams in flight.
LEMMA QuietIInv ==
    ASSUME IInv,
           UNCHANGED <<buf, clientaddr, caddr, query, printed, users>>,
           IsABag(net'), DOMAIN net' \subseteq DOMAIN net,
           losses' \in 0 .. MaxLosses, dups' \in 0 .. MaxDups,
           pc' \in {pc, "exited"},
           cpc' \in [Clients -> {"type", "send", "wait", "closed"}],
           message' \in [Clients -> Seq(Octet)],
           \A c \in Clients : Len(message'[c]) = BUFSIZE + 1,
           \A c \in Clients : \/ cpc'[c] \in {cpc[c], "closed"}
                              \/ cpc[c] = "type" /\ cpc'[c] = "send"
    PROVE  IInv'
<1>1. Types'
  BY DEF IInv, Types, SysTypeOK, NetTypeOK
<1>2. InFlight'
  BY DEF IInv, InFlight, SentFrom, EchoFrom, EchoOf
<1>3. Answering'
  BY DEF IInv, Answering, EchoFrom, EchoOf
<1>4. LastUser' /\ NotYet'
  BY DEF IInv, LastUser, NotYet
<1>5. Printed'
  BY DEF IInv, Printed, EchoOf
<1> QED BY <1>1, <1>2, <1>3, <1>4, <1>5 DEF IInv

LEMMA TypeIInv ==
    ASSUME IInv, NEW c \in Clients, Type(c)
    PROVE  IInv'
<1>1. Types
  BY DEF IInv
<1>2. /\ cpc[c] = "type" /\ cpc' = [cpc EXCEPT ![c] = "send"]
      /\ UNCHANGED <<caddr, query, printed, users, net, losses, dups>>
      /\ UNCHANGED <<pc, buf, clientaddr>>
  BY DEF Type, netvars, vars
<1>3. /\ message' \in [Clients -> Seq(Octet)]
      /\ \A b \in Clients : Len(message'[b]) = BUFSIZE + 1
  <2>1. CASE UNCHANGED message
    BY <1>1, <2>1 DEF Types, SysTypeOK
  <2>2. CASE \E line \in Lines : message' = [message EXCEPT ![c] = Typed(line)]
    BY <1>1, <2>2, TypedType DEF Types, SysTypeOK
  <2> QED BY <2>1, <2>2 DEF Type
<1>4. cpc' \in [Clients -> {"type", "send", "wait", "closed"}]
  BY <1>1, <1>2 DEF Types, SysTypeOK
<1>5. \A b \in Clients : cpc'[b] = cpc[b] \/ (cpc[b] = "type" /\ cpc'[b] = "send")
  BY <1>1, <1>2 DEF Types, SysTypeOK
<1> QED BY <1>1, <1>2, <1>3, <1>4, <1>5, QuietIInv DEF Types, SysTypeOK, NetTypeOK

LEMMA ClientFailsIInv ==
    ASSUME IInv, NEW c \in Clients, ClientFails(c)
    PROVE  IInv'
<1>1. Types
  BY DEF IInv
<1>2. /\ cpc' = [cpc EXCEPT ![c] = "closed"]
      /\ UNCHANGED <<message, caddr, query, printed, users, net, losses, dups>>
      /\ UNCHANGED <<pc, buf, clientaddr>>
  BY DEF ClientFails, netvars, vars
<1>3. cpc' \in [Clients -> {"type", "send", "wait", "closed"}]
  BY <1>1, <1>2 DEF Types, SysTypeOK
<1>4. \A b \in Clients : cpc'[b] \in {cpc[b], "closed"}
  BY <1>1, <1>2 DEF Types, SysTypeOK
<1> QED BY <1>1, <1>2, <1>3, <1>4, QuietIInv DEF Types, SysTypeOK, NetTypeOK

\* The server's failing calls, and the network.
LEMMA OthersIInv ==
    ASSUME IInv, ServerFails \/ (Network(Open) /\ UNCHANGED <<cvars, vars>>)
    PROVE  IInv'
<1>1. Types
  BY DEF IInv
<1>2. /\ UNCHANGED <<cpc, message, caddr, query, printed, users, buf, clientaddr>>
      /\ pc' \in {pc, "exited"}
  BY DEF ServerFails, RecvFails, SendFails, cvars, vars
<1>3. /\ IsABag(net') /\ DOMAIN net' \subseteq DOMAIN net
      /\ losses' \in 0 .. MaxLosses /\ dups' \in 0 .. MaxDups
  <2>1. IsABag(net) /\ losses \in 0 .. MaxLosses /\ dups \in 0 .. MaxDups
    BY <1>1 DEF Types, SysTypeOK, NetTypeOK
  <2>2. CASE ServerFails
    BY <2>1, <2>2 DEF ServerFails, netvars
  <2>3. CASE Refuse(Open)
    BY <2>1, <2>3, Removed DEF Refuse
  <2>4. CASE Lose
    BY <2>1, <2>4, Removed, NetworkAssumption DEF Lose
  <2>5. CASE Duplicate
    <3>1. PICK dgram \in DOMAIN net : net' = BagAdd(net, dgram)
      BY <2>5 DEF Duplicate
    <3>2. IsABag(net') /\ DOMAIN net' = DOMAIN net
      BY <2>1, <3>1, Added
    <3> QED BY <2>1, <2>5, <3>2, NetworkAssumption DEF Duplicate
  <2> QED BY <2>2, <2>3, <2>4, <2>5 DEF Network
<1> QED BY <1>1, <1>2, <1>3, QuietIInv DEF Types, SysTypeOK

\* A client sends its text from an address that nobody has open.
LEMMA QueryIInv ==
    ASSUME IInv, NEW c \in Clients, Query(c)
    PROVE  IInv'
<1>0. PICK d : d = CStr(message[c])
  OBVIOUS
<1>1. Types /\ InFlight /\ LastUser /\ NotYet /\ Printed /\ Answering
  BY DEF IInv
<1>2. PICK a \in Addrs \ Open :
          /\ caddr' = [caddr EXCEPT ![c] = a]
          /\ users' = [users EXCEPT ![a] = Append(@, c)]
          /\ net' = BagAdd(net, ToServer(a, d))
  BY <1>0 DEF Query, SendTo
<1>3. /\ cpc[c] = "send" /\ query' = [query EXCEPT ![c] = d]
      /\ cpc' = [cpc EXCEPT ![c] = IF c \in Fancy THEN "wait" ELSE "closed"]
      /\ UNCHANGED <<message, printed, losses, dups, pc, buf, clientaddr>>
  BY <1>0 DEF Query, SendTo, vars
<1>4. d \in Seq(Octet)
  BY <1>0, <1>1, StrLenType DEF Types
<1>5. IsABag(net') /\ DOMAIN net' = DOMAIN net \cup {ToServer(a, d)}
  BY <1>1, <1>2, Added DEF Types, SysTypeOK, NetTypeOK
<1>6. /\ \A b \in Addrs : Len(users[b]) \in Nat /\ Len(users'[b]) \in Nat
      /\ \A b \in Addrs : users[b] \in Seq(Clients) /\ users'[b] \in Seq(Clients)
      /\ \A b \in Addrs \ {a} : users'[b] = users[b]
      /\ Len(users'[a]) = Len(users[a]) + 1 /\ users'[a][Len(users[a]) + 1] = c
      /\ \A k \in 1 .. Len(users[a]) : users'[a][k] = users[a][k]
  BY <1>1, <1>2 DEF Types, SysTypeOK
<1>7. /\ users' \in [Addrs -> Seq(Clients)] /\ query' \in [Clients -> Seq(Octet)]
      /\ caddr' \in [Clients -> Addrs \union {NoAddr}]
      /\ cpc' \in [Clients -> {"type", "send", "wait", "closed"}]
  BY <1>1, <1>2, <1>3, <1>4, <1>6 DEF Types, SysTypeOK
<1>8. /\ query'[c] = d /\ caddr'[c] = a /\ cpc'[c] \in {"wait", "closed"}
      /\ \A b \in Clients \ {c} :
            query'[b] = query[b] /\ caddr'[b] = caddr[b] /\ cpc'[b] = cpc[b]
  BY <1>1, <1>2, <1>3 DEF Types, SysTypeOK
<1>9. \A b \in Addrs : \A k \in 1 .. Len(users[b]) : users[b][k] \in Clients \ {c}
  BY <1>1, <1>3, <1>6 DEF NotYet
<1>10. \A b \in Addrs : \A t : /\ SentFrom(b, t) => SentFrom(b, t)'
                               /\ EchoFrom(b, t) => EchoFrom(b, t)'
  <2>1. \A b \in Addrs : Len(users[b]) <= Len(users'[b])
    BY <1>6
  <2>2. \A b \in Addrs : \A k \in 1 .. Len(users[b]) :
            users'[b][k] = users[b][k] /\ query'[users[b][k]] = query[users[b][k]]
    BY <1>6, <1>8, <1>9
  <2> QED BY <1>6, <2>1, <2>2, UsersKeep
<1>11. Types'
  BY <1>1, <1>3, <1>5, <1>7 DEF Types, SysTypeOK, NetTypeOK
<1>12. InFlight'
  <2>1. SentFrom(a, d)'
    <3>1. PICK k : k = Len(users'[a])
      OBVIOUS
    <3>2. k \in 1 .. Len(users'[a]) /\ users'[a][k] = c
      BY <1>6, <3>1
    <3> QED BY <1>8, <3>2 DEF SentFrom
  <2>2. ASSUME NEW dgram \in DOMAIN net
        PROVE  /\ dgram.addr \in Addrs
               /\ dgram.to = "server" => SentFrom(dgram.addr, dgram.data)'
               /\ dgram.to = "client" => EchoFrom(dgram.addr, dgram.data)'
    BY <1>1, <1>10 DEF InFlight
  <2>3. LET t == ToServer(a, d)
        IN  t.addr = a /\ t.to = "server" /\ t.data = d
    BY DEF ToServer
  <2>4. PICK dgram : dgram = ToServer(a, d)
    OBVIOUS
  <2>5. /\ dgram.addr \in Addrs /\ dgram.to = "server"
        /\ SentFrom(dgram.addr, dgram.data)'
    BY <2>1, <2>3, <2>4
  <2> QED BY <1>5, <2>2, <2>4, <2>5 DEF InFlight
<1>13. Answering'
  <2> SUFFICES ASSUME pc = "send"
               PROVE  (clientaddr \in Addrs /\ EchoFrom(clientaddr, CStr(buf)))'
    BY <1>3 DEF Answering
  <2>1. PICK b, t : b = clientaddr /\ t = CStr(buf)
    OBVIOUS
  <2>2. b \in Addrs /\ EchoFrom(b, t)
    BY <1>1, <2>1 DEF Answering
  <2>3. EchoFrom(b, t)'
    BY <1>10, <2>2
  <2>4. b = clientaddr' /\ t = CStr(buf')
    BY <1>3, <2>1
  <2> QED BY <2>2, <2>3, <2>4 DEF EchoFrom
<1>14. LastUser'
  <2> SUFFICES ASSUME NEW b \in Clients, cpc'[b] = "wait"
               PROVE  LET u == users'[caddr'[b]]
                      IN  caddr'[b] \in Addrs /\ Len(u) > 0 /\ u[Len(u)] = b
    BY DEF LastUser
  <2>1. CASE b = c
    BY <1>2, <1>6, <1>8, <2>1
  <2>2. CASE b # c
    <3>1. cpc[b] = "wait" /\ caddr'[b] = caddr[b]
      BY <1>8, <2>2
    <3>2. caddr[b] # a /\ caddr[b] \in Addrs
      BY <1>1, <1>2, <3>1 DEF Open, LastUser
    <3> QED BY <1>1, <1>6, <3>1, <3>2 DEF LastUser
  <2> QED BY <2>1, <2>2
<1>15. NotYet'
  <2> SUFFICES ASSUME NEW b \in Clients, NEW e \in Addrs, cpc'[b] \in {"type", "send"},
                      NEW k \in 1 .. Len(users'[e])
               PROVE  users'[e][k] # b
    BY DEF NotYet
  <2>1. b # c /\ cpc[b] \in {"type", "send"}
    BY <1>8
  <2>2. CASE e = a /\ k = Len(users[a]) + 1
    BY <1>6, <2>1, <2>2
  <2>3. CASE ~(e = a /\ k = Len(users[a]) + 1)
    <3>1. k \in 1 .. Len(users[e]) /\ users'[e][k] = users[e][k]
      BY <1>6, <2>3
    <3> QED BY <1>1, <2>1, <3>1 DEF NotYet
  <2> QED BY <2>2, <2>3
<1>16. Printed'
  <2> SUFFICES ASSUME NEW b \in Clients, printed[b] # <<>>
               PROVE  LET u == users'[caddr'[b]]
                      IN  /\ cpc'[b] = "closed" /\ caddr'[b] \in Addrs
                          /\ \E k, l \in 1 .. Len(u) :
                                k <= l /\ u[l] = b /\ printed[b] = <<EchoOf(query'[u[k]])>>
    BY <1>3 DEF Printed, EchoOf
  <2> DEFINE u == users[caddr[b]]
  <2>1. /\ cpc[b] = "closed" /\ caddr[b] \in Addrs
        /\ \E k, l \in 1 .. Len(u) :
              k <= l /\ u[l] = b /\ printed[b] = <<EchoOf(query[u[k]])>>
    BY <1>1 DEF Printed
  <2>2. b # c /\ cpc'[b] = "closed" /\ caddr'[b] = caddr[b]
    BY <1>3, <1>8, <2>1
  <2>3. PICK k \in 1 .. Len(u), l \in 1 .. Len(u) :
            k <= l /\ u[l] = b /\ printed[b] = <<EchoOf(query[u[k]])>>
    BY <2>1
  <2>4. /\ k \in 1 .. Len(u) /\ Len(u) <= Len(users'[caddr[b]])
        /\ users'[caddr[b]][l] = u[l] /\ users'[caddr[b]][k] = u[k]
    <3>1. Len(u) \in Nat
      BY <1>6, <2>1
    <3>2. CASE caddr[b] = a
      BY <1>6, <2>3, <3>1, <3>2
    <3>3. CASE caddr[b] # a
      BY <1>6, <2>1, <3>1, <3>3
    <3> QED BY <3>2, <3>3
  <2>5. query'[u[k]] = query[u[k]]
    BY <1>8, <1>9, <2>1, <2>4
  <2>6. l \in 1 .. Len(users'[caddr[b]])
    BY <1>6, <2>1, <2>4
  <2> QED BY <2>1, <2>2, <2>3, <2>4, <2>5, <2>6
<1> QED BY <1>11, <1>12, <1>13, <1>14, <1>15, <1>16 DEF IInv

\* A fancyclient prints what arrives: the last user of an address can have an echo to
\* any of its users.
LEMMA PrintAnswerIInv ==
    ASSUME IInv, NEW c \in Clients, PrintAnswer(c)
    PROVE  IInv'
<1>1. Types /\ InFlight /\ LastUser /\ NotYet /\ Printed /\ Answering
  BY DEF IInv
<1>2. PICK dgram \in DOMAIN net :
          /\ dgram.to = "client" /\ dgram.addr = caddr[c]
          /\ message' = [message EXCEPT ![c] = Answer(c, dgram.data)]
          /\ net' = BagRemove(net, dgram)
          /\ UNCHANGED <<losses, dups>>
  BY DEF PrintAnswer, RecvFrom
<1>3. /\ cpc[c] = "wait" /\ cpc' = [cpc EXCEPT ![c] = "closed"]
      /\ printed' = [printed EXCEPT ![c] = Append(@, CStr(message'[c]))]
      /\ UNCHANGED <<caddr, query, users, pc, buf, clientaddr>>
  BY DEF PrintAnswer, vars
<1>4. IsABag(net') /\ DOMAIN net' \subseteq DOMAIN net
  BY <1>1, <1>2, Removed DEF Types, SysTypeOK, NetTypeOK
<1>5. caddr[c] \in Addrs /\ EchoFrom(caddr[c], dgram.data)
  BY <1>1, <1>2 DEF InFlight
<1> DEFINE u == users[caddr[c]]
<1>6. PICK k \in 1 .. Len(u) : dgram.data = EchoOf(query[u[k]])
  BY <1>5 DEF EchoFrom
<1>7. query[u[k]] \in Seq(Octet)
  BY <1>1, <1>5 DEF Types, SysTypeOK
<1>8. /\ message'[c] \in Seq(Octet) /\ Len(message'[c]) = BUFSIZE + 1
      /\ CStr(message'[c]) = dgram.data
  <2>1. /\ message[c] \in Seq(Octet) /\ Len(message[c]) = BUFSIZE + 1
        /\ message'[c] = Answer(c, dgram.data)
    BY <1>1, <1>2 DEF Types, SysTypeOK
  <2>2. dgram.data \in Seq(Octet) /\ EchoOf(dgram.data) = dgram.data
    BY <1>6, <1>7, EchoOfEcho
  <2> QED BY <2>1, <2>2, AnswerText
<1>9. /\ message' \in [Clients -> Seq(Octet)]
      /\ \A b \in Clients : Len(message'[b]) = BUFSIZE + 1
  BY <1>1, <1>2, <1>8 DEF Types, SysTypeOK
<1>10. /\ cpc' \in [Clients -> {"type", "send", "wait", "closed"}]
       /\ cpc'[c] = "closed"
       /\ \A b \in Clients \ {c} : cpc'[b] = cpc[b] /\ printed'[b] = printed[b]
       /\ DOMAIN printed' = Clients
  BY <1>1, <1>3 DEF Types, SysTypeOK
<1>11. printed'[c] = <<dgram.data>>
  <2>1. printed[c] = <<>>
    BY <1>1, <1>3 DEF Printed
  <2>2. printed'[c] = Append(printed[c], CStr(message'[c]))
    BY <1>1, <1>3 DEF Types
  <2> QED BY <1>8, <2>1, <2>2
<1>12. Types'
  BY <1>1, <1>2, <1>3, <1>4, <1>9, <1>10 DEF Types, SysTypeOK, NetTypeOK
<1>13. InFlight' /\ Answering'
  BY <1>1, <1>3, <1>4 DEF InFlight, Answering, SentFrom, EchoFrom, EchoOf
<1>14. LastUser' /\ NotYet'
  BY <1>1, <1>3, <1>10 DEF LastUser, NotYet
<1>15. Printed'
  <2> SUFFICES ASSUME NEW b \in Clients, printed'[b] # <<>>
               PROVE  LET v == users[caddr[b]]
                      IN  /\ cpc'[b] = "closed" /\ caddr[b] \in Addrs
                          /\ \E i, l \in 1 .. Len(v) :
                                i <= l /\ v[l] = b /\ printed'[b] = <<EchoOf(query[v[i]])>>
    BY <1>3 DEF Printed, EchoOf
  <2>1. CASE b # c
    BY <1>1, <1>10, <2>1 DEF Printed
  <2>2. CASE b = c
    <3>1. Len(u) > 0 /\ u[Len(u)] = c /\ Len(u) \in Nat
      BY <1>1, <1>3, <1>5 DEF LastUser, Types, SysTypeOK
    <3>2. Len(u) \in 1 .. Len(u) /\ k \in 1 .. Len(u)
      BY <3>1
    <3> QED BY <1>5, <1>6, <1>10, <1>11, <2>2, <3>1, <3>2
  <2> QED BY <2>1, <2>2
<1> QED BY <1>12, <1>13, <1>14, <1>15 DEF IInv

\* Every step preserves the invariant.
LEMMA StepIInv == IInv /\ [SysNext]_svars => IInv'
<1> SUFFICES ASSUME IInv, [SysNext]_svars PROVE IInv'
  OBVIOUS
<1>1. CASE Server
  BY <1>1, ServerRecvIInv, ServerSendIInv, OthersIInv DEF Server
<1>2. CASE \E c \in Clients : Client(c)
  BY <1>2, TypeIInv, QueryIInv, PrintAnswerIInv, ClientFailsIInv DEF Client
<1>3. CASE Network(Open) /\ UNCHANGED <<cvars, vars>>
  BY <1>3, OthersIInv
<1>4. CASE UNCHANGED svars
  <2>1. UNCHANGED <<net, losses, dups, cpc, message, caddr, query, printed, users,
                    pc, buf, clientaddr>>
    BY <1>4 DEF svars, netvars, cvars, vars
  <2> QED BY <2>1, QuietIInv DEF IInv, Types, SysTypeOK, NetTypeOK
<1> QED BY <1>1, <1>2, <1>3, <1>4 DEF SysNext

LEMMA Invariance == SysSpec => []IInv
<1> QED BY InitIInv, StepIInv, PTL DEF SysSpec

-----------------------------------------------------------------------------
\* The theorems.

\* The network is a bag of datagrams within its bounds, and every client has a
\* buffer of its size, for any number of clients and datagrams.
THEOREM TypeCorrect == SysSpec => []SysTypeOK
<1>1. IInv => SysTypeOK
  BY DEF IInv, Types
<1> QED BY <1>1, Invariance, PTL

\* What fancyclient.c:67 prints is the echo of a text sent from its own address,
\* its own or an earlier owner's, whatever is lost, duplicated or reordered.
THEOREM PrintsEchoes == SysSpec => []PrintsAnEchoToItsAddress
<1>1. IInv => PrintsAnEchoToItsAddress
  <2> SUFFICES ASSUME IInv, NEW c \in Fancy, printed[c] # <<>>
               PROVE  \E d \in UsersUpTo(c) : printed[c] = <<EchoOf(query[d])>>
    BY DEF PrintsAnEchoToItsAddress
  <2> DEFINE u == users[caddr[c]]
  <2>1. PICK k \in 1 .. Len(u), l \in 1 .. Len(u) :
            k <= l /\ u[l] = c /\ printed[c] = <<EchoOf(query[u[k]])>>
    BY DEF IInv, Printed, Clients
  <2>2. Len(u) \in Nat
    BY DEF IInv, Types, SysTypeOK, Printed, Clients
  <2>3. k \in 1 .. Len(u) /\ l \in k .. Len(u)
    BY <2>1, <2>2
  <2> QED BY <2>1, <2>3 DEF UsersUpTo
<1> QED BY <1>1, Invariance, PTL
=============================================================================
