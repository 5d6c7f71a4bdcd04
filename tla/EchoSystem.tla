----------------------------- MODULE EchoSystem -----------------------------
(***************************************************************************)
(* The echo exercise of TD2 in use: EchoServer, the processes that run     *)
(* fancyclient.c and client.c against it, and UDP between them, which may  *)
(* lose, duplicate and reorder datagrams.  A client gets its address, an   *)
(* ephemeral port, from its first sendto and gives it back when it closes  *)
(* its socket; a later client may get the same one.  client.c closes       *)
(* without waiting for the echo, and fancyclient.c takes the first         *)
(* datagram that arrives for the server's answer.                          *)
(***************************************************************************)
EXTENDS EchoServer, Udp

CONSTANTS
    Fancy,  \* the processes running fancyclient.c
    Plain,  \* the processes running client.c
    Lines   \* what may be typed at them

ASSUME ClientsAssumption == Fancy \cap Plain = {}
ASSUME LinesAssumption == Lines \subseteq Seq(Octet)

VARIABLES
    cpc,      \* where each client is
    message,  \* each client's buffer, and the octet behind it
    caddr,    \* each client's address, or NoAddr
    query,    \* history: the text each client has sent
    printed,  \* history: the texts each fancyclient has printed
    users     \* history: the clients that have had each address, in order

cvars == <<cpc, message, caddr, query, printed, users>>
svars == <<netvars, cvars, vars>>

Clients == Fancy \union Plain

\* The client's buffer after memset(message, '0', BUFSIZE), and the NUL that
\* message[BUFSIZE] = '\0' writes to the octet behind it.
Blank == Append(Filled(BUFSIZE, Zero), NUL)

\* Mutant: a buffer as long as what was typed.
TypedShort(line) == Append(Truncate(line, BUFSIZE - 2), NUL)

\* ... and after fgets(message, BUFSIZE-1, stdin).
Typed(line) == Overwrite(Blank, Append(Truncate(line, BUFSIZE - 2), NUL))

SysTypeOK ==
    /\ NetTypeOK
    /\ cpc \in [Clients -> {"type", "send", "wait", "closed"}]
    /\ \A c \in Clients : message[c] \in Seq(Octet) /\ Len(message[c]) = BUFSIZE + 1
    /\ caddr \in [Clients -> Addrs \union {NoAddr}]
    /\ users \in [Addrs -> Seq(Clients)]

SysInit ==
    /\ Init
    /\ NetInit
    /\ cpc = [c \in Clients |-> "type"]
    /\ message = [c \in Clients |-> Blank]
    /\ caddr = [c \in Clients |-> NoAddr]
    /\ query = [c \in Clients |-> <<>>]
    /\ printed = [c \in Clients |-> <<>>]
    /\ users = [a \in Addrs |-> <<>>]

-----------------------------------------------------------------------------
\* The server, on the network.

ServerRecv ==
    /\ \E dgram \in DOMAIN net :
          /\ dgram.to = "server"
          /\ RecvFrom(dgram)
          /\ Recv(dgram.addr, dgram.data)
    /\ UNCHANGED cvars

ServerSend ==
    /\ Send
    /\ SendTo(ToClient(Reply.addr, Reply.data))
    /\ UNCHANGED cvars

ServerFails ==
    /\ RecvFails \/ SendFails
    /\ UNCHANGED <<cvars, netvars>>

Server == ServerRecv \/ ServerSend \/ ServerFails

-----------------------------------------------------------------------------
\* A client.

\* The user types a line, or closes the input: then fgets stores nothing.
Type(c) ==
    /\ cpc[c] = "type"
    /\ \/ \E line \in Lines : message' = [message EXCEPT ![c] = Typed(line)]
       \/ UNCHANGED message
    /\ cpc' = [cpc EXCEPT ![c] = "send"]
    /\ UNCHANGED <<caddr, query, printed, users, netvars, vars>>

\* The addresses of open sockets.
Open == {caddr[c] : c \in {c \in Clients : cpc[c] = "wait"}}

\* sendto: the socket gets an address, and the string is on its way.  client.c
\* closes the socket at once.
Query(c) ==
    /\ cpc[c] = "send"
    /\ \E a \in Addrs \ Open :
          /\ caddr' = [caddr EXCEPT ![c] = a]
          /\ users' = [users EXCEPT ![a] = Append(@, c)]
          /\ SendTo(ToServer(a, CStr(message[c])))
    /\ query' = [query EXCEPT ![c] = CStr(message[c])]
    /\ cpc' = [cpc EXCEPT ![c] = IF c \in Fancy THEN "wait" ELSE "closed"]
    /\ UNCHANGED <<message, printed, vars>>

\* fancyclient's buffer after recvfrom(..., BUFSIZE-1, ...) and the terminator.
Answer(c, d) ==
    LET taken == Truncate(d, BUFSIZE - 1)
    IN  Terminate(Overwrite(message[c], taken), Len(taken))

\* Mutant: an answer that is not the text sent is ignored.
PrintOnlyOwn(c) ==
    /\ cpc[c] = "wait"
    /\ \E dgram \in DOMAIN net :
          /\ dgram.to = "client" /\ dgram.addr = caddr[c]
          /\ dgram.data = query[c]
          /\ message' = [message EXCEPT ![c] = Answer(c, dgram.data)]
          /\ RecvFrom(dgram)
    /\ printed' = [printed EXCEPT ![c] = Append(@, CStr(message'[c]))]
    /\ cpc' = [cpc EXCEPT ![c] = "closed"]
    /\ UNCHANGED <<caddr, query, users, vars>>

\* recvfrom returns a datagram sent to the client's address, fancyclient prints
\* its string and exits.
PrintAnswer(c) ==
    /\ cpc[c] = "wait"
    /\ \E dgram \in DOMAIN net :
          /\ dgram.to = "client" /\ dgram.addr = caddr[c]
          /\ message' = [message EXCEPT ![c] = Answer(c, dgram.data)]
          /\ RecvFrom(dgram)
    /\ printed' = [printed EXCEPT ![c] = Append(@, CStr(message'[c]))]
    /\ cpc' = [cpc EXCEPT ![c] = "closed"]
    /\ UNCHANGED <<caddr, query, users, vars>>

\* sendto or recvfrom fails, and the client exits.
ClientFails(c) ==
    /\ cpc[c] \in {"send", "wait"}
    /\ cpc' = [cpc EXCEPT ![c] = "closed"]
    /\ UNCHANGED <<message, caddr, query, printed, users, netvars, vars>>

Client(c) == Type(c) \/ Query(c) \/ PrintAnswer(c) \/ ClientFails(c)

-----------------------------------------------------------------------------

SysNext ==
    \/ Server
    \/ \E c \in Clients : Client(c)
    \/ Network(Open) /\ UNCHANGED <<cvars, vars>>

SysSpec == SysInit /\ [][SysNext]_svars

\* The server and the clients are scheduled.  Datagrams in flight arrive: the
\* server takes one whenever it waits for one.
SysFairness ==
    /\ WF_svars(ServerRecv)
    /\ WF_svars(ServerSend)
    /\ \A c \in Clients : WF_svars(Query(c) \/ PrintAnswer(c))

FairSysSpec == SysSpec /\ SysFairness

-----------------------------------------------------------------------------
\* Properties.

\* What the server makes of a text it receives.
EchoOf(d) == CStr(Truncate(d, BUFSIZE - 1))

\* The clients that have had c's address, up to c itself.
UsersUpTo(c) ==
    LET u == users[caddr[c]]
    IN  {u[k] : k \in {k \in 1 .. Len(u) : \E l \in k .. Len(u) : u[l] = c}}

\* What a fancyclient prints as "Echo from server" (fancyclient.c:63-67) is the
\* echo of a text sent from its own address: its own, or that of an earlier
\* owner of the address whose echo was late.  The first owner of an address
\* prints its own: losses, duplicates and other clients do not confuse it.
PrintsAnEchoToItsAddress ==
    \A c \in Fancy : printed[c] # <<>> =>
        \E d \in UsersUpTo(c) : printed[c] = <<EchoOf(query[d])>>

\* A fancyclient that has sent its text ends, unless the server exits or the
\* network loses a datagram: it has no timeout, and depends on the answer.
SenderEnds ==
    \A c \in Fancy :
        cpc[c] = "wait" ~> cpc[c] = "closed" \/ pc = "exited" \/ losses > 0
=============================================================================
