----------------------------- MODULE EchoServer -----------------------------
(***************************************************************************)
(* TD2/server.c: one process, one socket, one buffer that every datagram   *)
(* reuses.  recvfrom overwrites the start of the buffer, the server        *)
(* terminates what it received and sends the string it finds there back to *)
(* the address recvfrom left in clientaddr.  A failing call ends the       *)
(* process.  The datagrams received and sent are kept as histories.        *)
(***************************************************************************)
EXTENDS CStrings, FiniteSets

CONSTANTS
    Addrs,        \* the addresses datagrams come from
    NoAddr,       \* what clientaddr holds before the first one
    Payloads,     \* what they may carry
    BUFSIZE,      \* #define BUFSIZE
    MaxDatagrams  \* bound: how many datagrams the server receives

ASSUME AddrsAssumption == NoAddr \notin Addrs
ASSUME PayloadsAssumption == Payloads \subseteq Seq(Octet)
ASSUME BufSizeAssumption == BUFSIZE \in Nat \ {0}

VARIABLES
    pc,          \* where main is: "recv", "send", or "exited"
    buf,         \* the buffer, its stale tail included
    clientaddr,  \* who sent the datagram in the buffer
    rcvd,        \* history: the datagrams received
    sent         \* history: the datagrams sent

vars == <<pc, buf, clientaddr, rcvd, sent>>

Datagrams(payloads) == [addr : Addrs, data : payloads]

TypeOK ==
    /\ pc \in {"recv", "send", "exited"}
    /\ buf \in Seq(Octet) /\ Len(buf) = BUFSIZE
    /\ clientaddr \in Addrs \union {NoAddr}
    /\ rcvd \in Seq(Datagrams(Payloads))
    /\ sent \in Seq(Datagrams(Seq(Octet)))

Init ==
    /\ pc = "recv"
    /\ buf = Filled(BUFSIZE, Zero)
    /\ clientaddr = NoAddr
    /\ rcvd = <<>>
    /\ sent = <<>>

-----------------------------------------------------------------------------

\* Mutant: the sender of the first datagram is kept.
RecvKeepsAddr(a, d) ==
    /\ pc = "recv"
    /\ buf' = Received(buf, d)
    /\ clientaddr' = IF clientaddr = NoAddr THEN a ELSE clientaddr
    /\ pc' = "send"
    /\ rcvd' = Append(rcvd, [addr |-> a, data |-> d])
    /\ UNCHANGED sent

\* recvfrom returns datagram d, sent from address a.
Recv(a, d) ==
    /\ pc = "recv"
    /\ buf' = Received(buf, d)
    /\ clientaddr' = a
    /\ pc' = "send"
    /\ rcvd' = Append(rcvd, [addr |-> a, data |-> d])
    /\ UNCHANGED sent

\* recvfrom fails, and the server exits.
RecvFails ==
    /\ pc = "recv"
    /\ pc' = "exited"
    /\ UNCHANGED <<buf, clientaddr, rcvd, sent>>

Reply == [addr |-> clientaddr, data |-> CStr(buf)]

Send ==
    /\ pc = "send"
    /\ sent' = Append(sent, Reply)
    /\ pc' = "recv"
    /\ UNCHANGED <<buf, clientaddr, rcvd>>

\* sendto fails, and the server exits.
SendFails ==
    /\ pc = "send"
    /\ pc' = "exited"
    /\ UNCHANGED <<buf, clientaddr, rcvd, sent>>

Next ==
    \/ \E a \in Addrs, d \in Payloads : Len(rcvd) < MaxDatagrams /\ Recv(a, d)
    \/ RecvFails
    \/ Send
    \/ SendFails

Spec == Init /\ [][Next]_vars

-----------------------------------------------------------------------------
\* Properties.

\* sendto always finds a terminator inside the buffer (server.c:66, 68): the
\* reply never reads beyond it.
ReplyIsTerminated == pc = "send" => IsTerminated(buf)

\* The server answers each datagram with its own text and to its own sender:
\* nothing an earlier datagram left in the buffer or in clientaddr shows.
Echoes == INSTANCE EchoSpec
IsEcho == Echoes!Spec
=============================================================================
