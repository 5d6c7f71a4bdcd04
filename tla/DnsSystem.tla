----------------------------- MODULE DnsSystem -----------------------------
(***************************************************************************)
(* The DNS exercise TD4/L03-ex02-dns_TD in use: dns_server.c, processes    *)
(* running dns_client.c, and UDP between them.  The server ignores what    *)
(* recvfrom returns, so that a call that fails makes it parse what is in   *)
(* its buffer: the character '0' throughout, until the first reply is      *)
(* sent, and zeros from then on.  A client takes the first datagram that   *)
(* reaches its port for its answer, and looks at neither the sender nor    *)
(* the identifier.  It may be given any host name, and sends what that     *)
(* comes to.  Datagrams of other programs are not modelled.                *)
(***************************************************************************)
EXTENDS Dns, Udp

CONSTANTS
    Clients,   \* the processes running dns_client
    Hosts,     \* the host names they may be given
    Addrs,     \* the addresses they may send from
    NoAddr,    \* no address yet
    MaxErrors  \* bound: how many calls of recvfrom fail in the server

ASSUME HostsAssumption == \A h \in Hosts : h \in Seq(Octet \ {NUL})
ASSUME AddrsAssumption == NoAddr \notin Addrs
ASSUME ErrorsAssumption == MaxErrors \in Nat

VARIABLES
    pc,          \* the server: "recv", "serve", "crashed" or "exited"
    buf,         \* its buffer: what it has received, and what lies behind
    clientaddr,  \* the last sender
    send_flags,  \* the flag octets of send_buf
    errors,      \* how many calls of recvfrom have failed
    served,      \* history: how many replies have been sent
    cpc,         \* each client: "send", "wait", "done", "crashed" or "exited"
    host_name,   \* the name each client asks for
    caddr,       \* each client's address, or NoAddr
    answer,      \* what each client has parsed, or NoAnswer
    users        \* history: the clients that have had each address, in order

vars_server == <<pc, buf, clientaddr, send_flags, errors, served>>
vars_client == <<cpc, host_name, caddr, answer, users>>
vars == <<netvars, vars_server, vars_client>>

NoAnswer == [id |-> 0, qname |-> <<>>, answers |-> <<>>]

Empty(fill) == Buffer(<<>>, fill)

\* The addresses of open sockets.
Open == {caddr[c] : c \in {c \in Clients : cpc[c] = "wait"}}

TypeOK ==
    /\ NetTypeOK
    /\ pc \in {"recv", "serve", "crashed", "exited"}
    /\ ToSet(buf.data) \subseteq Octet /\ buf.fill \in {NUL, Zero}
    /\ clientaddr \in Addrs \union {NoAddr}
    /\ pc = "recv" /\ served > 0 => clientaddr \in Addrs /\ send_flags = <<NUL, NUL>>
    /\ cpc \in [Clients -> {"send", "wait", "done", "crashed", "exited"}]
    /\ caddr \in [Clients -> Addrs \union {NoAddr}]

Init ==
    /\ NetInit
    /\ pc = "recv"
    /\ buf = Empty(Zero)
    /\ clientaddr = NoAddr
    /\ send_flags \in Flags
    /\ errors = 0
    /\ served = 0
    /\ cpc = [c \in Clients |-> "send"]
    /\ host_name \in [Clients -> Hosts]
    /\ caddr = [c \in Clients |-> NoAddr]
    /\ answer = [c \in Clients |-> NoAnswer]
    /\ users = [a \in Addrs |-> <<>>]

-----------------------------------------------------------------------------
\* The server.

\* Mutant: the address of the first sender is kept.
FirstSender(a) == IF clientaddr = NoAddr THEN a ELSE clientaddr

\* The address recvfrom stores for a datagram from a.
Sender(a) == a

Recv ==
    /\ pc = "recv"
    /\ \E dgram \in DOMAIN net :
          /\ dgram.to = "server"
          /\ RecvFrom(dgram)
          /\ buf' = Buffer(dgram.data, buf.fill)
          /\ clientaddr' = Sender(dgram.addr)
    /\ pc' = "serve"
    /\ UNCHANGED <<send_flags, errors, served, vars_client>>

\* recvfrom fails, and nobody notices.
RecvFails ==
    /\ pc = "recv"
    /\ errors < MaxErrors
    /\ errors' = errors + 1
    /\ pc' = "serve"
    /\ UNCHANGED <<buf, clientaddr, send_flags, served, vars_client, netvars>>

\* Mutant: the buffer is filled with '0' after a reply, as it is at the start.
AsAtTheStart == Empty(Zero)

\* The buffer after a reply.
Cleared == Empty(NUL)

\* Mutant: only the buffer is cleared after a reply.
FlagsKept(flags) == flags

\* The flag octets of send_buf after a reply.
FlagsCleared(flags) == <<NUL, NUL>>

\* Parse what is in the buffer, reply to the last sender, and clear the buffers.
Serve ==
    /\ pc = "serve" /\ ~Overruns(buf)
    /\ LET parsed == parse_dns_query(buf)
       IN  SendTo(ToClient(clientaddr,
                           ReplyMessage(send_flags, parsed.id, parsed.qname)))
    /\ buf' = Cleared
    /\ send_flags' = FlagsCleared(send_flags)
    /\ served' = served + 1
    /\ pc' = "recv"
    /\ UNCHANGED <<clientaddr, errors, vars_client>>

\* Parsing runs over the arrays on the stack.
Crash ==
    /\ pc = "serve" /\ Overruns(buf)
    /\ pc' = "crashed"
    /\ UNCHANGED <<buf, clientaddr, send_flags, errors, served, vars_client, netvars>>

\* sendto fails, and the server exits.
SendFails ==
    /\ pc = "serve" /\ ~Overruns(buf)
    /\ pc' = "exited"
    /\ UNCHANGED <<buf, clientaddr, send_flags, errors, served, vars_client, netvars>>

Server == Recv \/ RecvFails \/ Serve \/ Crash \/ SendFails

-----------------------------------------------------------------------------
\* A client.

\* What may lie behind host_cp, before the next NUL.
Behind == {<<>>} \union {<<fill>> : fill \in Fills \ {NUL}}

\* What get_dns_name splits into labels.  host_name and host_cp have no NUL
\* behind a name that fills them.
HostText(host, behind) ==
    IF Len(host) < HOST_NAME_SIZE THEN host
    ELSE SubSeq(host, 1, HOST_NAME_SIZE) \o behind

\* send_dns_query, from an ephemeral port.
Query(c) ==
    /\ cpc[c] = "send"
    /\ \E a \in Addrs \ Open, flags \in Flags, behind \in Behind :
          /\ caddr' = [caddr EXCEPT ![c] = a]
          /\ users' = [users EXCEPT ![a] = Append(@, c)]
          /\ SendTo(ToServer(a, QueryMessage(flags, HostText(host_name[c], behind))))
    /\ cpc' = [cpc EXCEPT ![c] = "wait"]
    /\ UNCHANGED <<host_name, answer, vars_server>>

\* Without a NUL behind host_cp, strtok runs over the stack.
QueryCrashes(c) ==
    /\ cpc[c] = "send" /\ Len(host_name[c]) >= HOST_NAME_SIZE
    /\ cpc' = [cpc EXCEPT ![c] = "crashed"]
    /\ UNCHANGED <<host_name, caddr, answer, users, vars_server, netvars>>

\* recvfrom returns a datagram for the client's port, which the client parses
\* and prints before it ends.
Answer(c) ==
    /\ cpc[c] = "wait"
    /\ \E dgram \in DOMAIN net, fill \in Fills :
          LET b == Buffer(dgram.data, fill)
              parsed == parse_dns_query(b)
          IN  /\ dgram.to = "client" /\ dgram.addr = caddr[c]
              /\ RecvFrom(dgram)
              /\ \/ /\ Overruns(b)
                    /\ cpc' = [cpc EXCEPT ![c] = "crashed"]
                    /\ UNCHANGED answer
                 \/ /\ ~Overruns(b)
                    /\ cpc' = [cpc EXCEPT ![c] = "done"]
                    /\ answer' = [answer EXCEPT ![c] =
                                     [id |-> parsed.id,
                                      qname |-> parsed.qname,
                                      answers |-> parsed.answers]]
    /\ UNCHANGED <<host_name, caddr, users, vars_server>>

\* sendto or recvfrom fails, and the client exits.
ClientFails(c) ==
    /\ cpc[c] \in {"send", "wait"}
    /\ cpc' = [cpc EXCEPT ![c] = "exited"]
    /\ UNCHANGED <<host_name, caddr, answer, users, vars_server, netvars>>

Client(c) == Query(c) \/ QueryCrashes(c) \/ Answer(c) \/ ClientFails(c)

Next ==
    \/ Server
    \/ \E c \in Clients : Client(c)
    \/ Network(Open) /\ UNCHANGED <<vars_server, vars_client>>

Spec == Init /\ [][Next]_vars

\* The steps that end the parsing of a query and the wait of a client, whatever
\* comes of them.
Serves == pc = "serve" /\ pc' \in {"recv", "crashed", "exited"}

Receives(c) ==
    /\ cpc[c] = "wait"
    /\ \E dgram \in DOMAIN net : dgram.to = "client" /\ dgram.addr = caddr[c]
    /\ \E end \in {"done", "crashed", "exited"} : cpc' = [cpc EXCEPT ![c] = end]

\* The server and the clients that wait are scheduled, and receive what has
\* arrived.  Nobody has to start a client.
Fairness ==
    /\ WF_vars(Recv)
    /\ WF_pc(Serves)
    /\ \A c \in Clients : WF_cpc(Receives(c))

FairSpec == Spec /\ Fairness

-----------------------------------------------------------------------------
\* Properties.

\* The clients that have had c's address, up to c itself.
UsersUpTo(c) ==
    LET u == users[caddr[c]]
    IN  {u[k] : k \in {k \in 1 .. Len(u) : \E l \in k .. Len(u) : u[l] = c}}

Found(name) == <<[name |-> name, type |-> TYPE_A, rdata |-> IP]>>

\* What a client prints (dns_client.c:57-66) answers a query sent from its own
\* address, with the query's identifier: its own query, unless an earlier owner
\* of the address left one whose answer was late.  Only if the name of one of
\* them is not carried may it be anything.  A failing recvfrom in the server
\* (dns_server.c:49) adds one other answer, for the empty name: it never repeats
\* the query of a client to another.
AnswersItsAddress ==
    \A c \in Clients : cpc[c] = "done" =>
        \/ \E d \in UsersUpTo(c) :
              LET name == Canonical[host_name[d]]
              IN  Carried(host_name[d]) =>
                      answer[c] = [id |-> 23, qname |-> name, answers |-> Found(name)]
        \/ errors > 0 /\ answer[c].qname = <<>> /\ answer[c].answers = Found(<<>>)

\* A program runs over its arrays only for a name that is not carried: a client
\* for its own, or for one its address was used to ask for, the server for one
\* asked for from the address it was to reply to.  The one other crash is that
\* of a server whose very first recvfrom fails: after a reply the buffer is
\* clear (dns_server.c:97).
CrashesHaveACause ==
    /\ \A c \in Clients : cpc[c] = "crashed" =>
          \/ ~Carried(host_name[c])
          \/ \E d \in UsersUpTo(c) : ~Carried(host_name[d])
    /\ pc = "crashed" =>
          \/ errors > 0 /\ served = 0 /\ clientaddr = NoAddr
          \/ /\ clientaddr \in Addrs
             /\ \E d \in ToSet(users[clientaddr]) : ~Carried(host_name[d])

\* A client that has sent its query ends, unless the network loses a datagram or
\* the server does not run any more.  A failing recvfrom is no exception: the
\* server answers and clears its buffers, and takes the query at the next call.
WaitingClientEnds ==
    \A c \in Clients :
        cpc[c] = "wait" ~> cpc[c] # "wait" \/ pc \in {"crashed", "exited"} \/ losses > 0

\* What dns.h says of a reply:
\* of the identifier, "if set to 0, a random will be taken" (dns.h:298),
HasIdentifier(reply) == Word(reply, 0) # 0

\* of the flag qr, "the query (0)/answer (1) field" (dns.h:299),
IsMarkedAsAnswer(reply) == At(reply, 2) >= 128

\* and of a name, that it "terminates with the zero length octet for the null
\* label of the root" (dns.h:180-181): the TYPE of the answer is behind that octet.
NameIsTerminated(reply) ==
    LET name == 12 + get_domain_name(reply, 12).position + 1 + 4
        end == name + get_domain_name(reply, name).position
    IN  At(reply, end) = NUL /\ Word(reply, end + 1) = TYPE_A

\* A reply of the server keeps one at least of the three promises.  The code keeps
\* none in its reply after a recvfrom that failed: dns.c:23 stores the 0 of the
\* cleared buffer (dns_server.c:54-58), dns.c:24 loses the flag, and the TYPE is
\* written over the octet that ends the name (dns_server.c:80).
RepliesKeepAPromise ==
    \A dgram \in DOMAIN net : dgram.to = "client" =>
        LET reply == Buffer(dgram.data, NUL)
        IN  HasIdentifier(reply) \/ IsMarkedAsAnswer(reply) \/ NameIsTerminated(reply)
=============================================================================
