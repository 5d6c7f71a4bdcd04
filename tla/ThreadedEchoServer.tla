------------------------- MODULE ThreadedEchoServer -------------------------
(***************************************************************************)
(* TD3/multi_thread_server/server.c: the main thread receives datagrams    *)
(* and creates one thread for each; handler, in that thread, answers 15    *)
(* seconds later.  The arguments of a handler are handed over in the       *)
(* struct params p, which is a local of main's loop body: every iteration  *)
(* of the loop fills the same stack slot, field by field, and nothing      *)
(* tells main that a handler has finished copying it.  The text itself is  *)
(* in a heap block of its own, allocated per datagram and never freed.     *)
(*                                                                         *)
(* Each access to p or to a block that another thread may access is a step *)
(* of its own.  p.clientaddr is one access: the address and port are in    *)
(* its first eight bytes, which are copied by one instruction.  strcpy     *)
(* writes the block octet by octet, after p.buf has published it; strlen   *)
(* and sendto read a block in one step, which makes a difference only to   *)
(* the text a late handler sends while another thread writes it.           *)
(* clientlen and sockfd never change after the first datagram and are left *)
(* out.                                                                    *)
(***************************************************************************)
EXTENDS CStrings, FiniteSets

CONSTANTS
    Addrs,         \* the addresses datagrams come from
    NoAddr,        \* an address field not yet written
    Payloads,      \* what datagrams may carry
    BUFSIZE,       \* #define BUFSIZE
    HeapContents,  \* what a block returned by malloc may contain
    MaxDatagrams   \* bound: how many datagrams the server receives

ASSUME AddrsAssumption == NoAddr \notin Addrs
ASSUME BufSizeAssumption == BUFSIZE \in Nat \ {0}
ASSUME BoundAssumption == MaxDatagrams \in Nat

Buffer == [1 .. BUFSIZE -> Octet]

ASSUME PayloadsAssumption == Payloads \subseteq Seq(Octet)
ASSUME HeapAssumption == HeapContents \subseteq Buffer /\ HeapContents # {}

VARIABLES
    pc,          \* where main is
    buf,         \* main's buffer
    n,           \* the length of the datagram in it
    clientaddr,  \* who sent it
    p,           \* the struct params on main's stack
    heap,        \* the blocks allocated; a pointer is an index of heap
    left,        \* the octets of the new block strcpy has not written yet
    handlers,    \* the threads created: where each is, and its locals
    rcvd,        \* history: the datagrams received
    replies,     \* history: what each handler has sent, or NoReply
    raced        \* history: the handlers that were still copying p when main
                 \* began to fill it again

vars == <<pc, buf, n, clientaddr, p, heap, left, handlers, rcvd, replies, raced>>

NoBlock == 0

\* A handler that has sent nothing; datagrams have an address in Addrs.
NoReply == [addr |-> NoAddr, data |-> <<>>]

Datagrams(payloads) == [addr : Addrs, data : payloads]

\* What handler copies from p, or the part of it that it has copied.
Params == [addr : Addrs \union {NoAddr},
           blk : NoBlock .. MaxDatagrams,
           n : 0 .. BUFSIZE - 1]

NoParams == [addr |-> NoAddr, blk |-> NoBlock, n |-> 0]

HandlerPc == {"addr", "buf", "n", "terminate", "sleep", "done"}

MainPc == {"recv", "lookup", "addr", "malloc", "strcpy", "n", "create", "exited"}

TypeOK ==
    /\ pc \in MainPc
    /\ buf \in Buffer
    /\ n \in 0 .. BUFSIZE - 1
    /\ clientaddr \in Addrs \union {NoAddr}
    /\ p \in Params
    /\ heap \in Seq(Buffer) /\ Len(heap) <= MaxDatagrams
    /\ left \subseteq 1 .. BUFSIZE
    /\ handlers \in Seq([pc : HandlerPc, arg : Params])
    /\ rcvd \in Seq(Datagrams(Payloads)) /\ Len(rcvd) <= MaxDatagrams
    /\ replies \in Seq(Datagrams(Seq(Octet)) \union {NoReply})
    /\ raced \subseteq 1 .. Len(handlers)

Init ==
    /\ pc = "recv"
    /\ buf = Filled(BUFSIZE, Zero)
    /\ n = 0
    /\ clientaddr = NoAddr
    /\ p = NoParams
    /\ heap = <<>>
    /\ left = {}
    /\ handlers = <<>>
    /\ rcvd = <<>>
    /\ replies = <<>>
    /\ raced = {}

-----------------------------------------------------------------------------
\* The main thread.

\* Mutant: the sender of the first datagram is kept.
FirstSender(a) == IF clientaddr = NoAddr THEN a ELSE clientaddr

\* The address recvfrom stores for a datagram from a.
Sender(a) == a

\* recvfrom returns datagram d, sent from address a.
Recv(a, d) ==
    /\ pc = "recv"
    /\ Len(rcvd) < MaxDatagrams
    /\ buf' = Received(buf, d)
    /\ n' = Len(Truncate(d, BUFSIZE - 1))
    /\ clientaddr' = Sender(a)
    /\ rcvd' = Append(rcvd, [addr |-> a, data |-> d])
    /\ pc' = "lookup"
    /\ UNCHANGED <<p, heap, left, handlers, replies, raced>>

\* gethostbyaddr finds a name for the sender.
Lookup ==
    /\ pc = "lookup"
    /\ pc' = "addr"
    /\ UNCHANGED <<buf, n, clientaddr, p, heap, left, handlers, rcvd, replies, raced>>

Copying(k) == handlers[k].pc \in {"addr", "buf", "n"}

\* p.clientaddr = clientaddr
SetAddr ==
    /\ pc = "addr"
    /\ p' = [p EXCEPT !.addr = clientaddr]
    /\ raced' = raced \union {k \in 1 .. Len(handlers) : Copying(k)}
    /\ pc' = "malloc"
    /\ UNCHANGED <<buf, n, clientaddr, heap, left, handlers, rcvd, replies>>

\* Mutant: the first block serves every datagram, as p.buf = buf did (line 115).
FirstBlock(blocks) == 1

\* The block just allocated.
NewBlock(blocks) == Len(blocks)

\* Mutant: the terminator is not copied, as by memcpy(p.buf, buf, n).
WithoutNUL(text) == 1 .. StrLen(text)

\* The octets strcpy(p.buf, text) writes.
CopiedOctets(text) == 1 .. StrLen(text) + 1

\* p.buf = malloc(...): a block with arbitrary contents, all of whose text is
\* still to be copied.
Malloc ==
    /\ pc = "malloc"
    /\ \E contents \in HeapContents : heap' = Append(heap, contents)
    /\ p' = [p EXCEPT !.blk = NewBlock(heap')]
    /\ left' = CopiedOctets(buf)
    /\ pc' = "strcpy"
    /\ UNCHANGED <<buf, n, clientaddr, handlers, rcvd, replies, raced>>

\* strcpy(p.buf, buf) writes octet j.  C leaves the order open, and wide stores
\* overlap: an octet may be written again until the last one has been.
CopyOctet(j) ==
    /\ pc = "strcpy"
    /\ heap' = [heap EXCEPT ![p.blk][j] = buf[j]]
    /\ left' = left \ {j}
    /\ pc' = IF left' = {} THEN "n" ELSE "strcpy"
    /\ UNCHANGED <<buf, n, clientaddr, p, handlers, rcvd, replies, raced>>

\* p.n = n
SetN ==
    /\ pc = "n"
    /\ p' = [p EXCEPT !.n = n]
    /\ pc' = "create"
    /\ UNCHANGED <<buf, n, clientaddr, heap, left, handlers, rcvd, replies, raced>>

\* pthread_create(&new_thread, NULL, handler, &p)
Create ==
    /\ pc = "create"
    /\ handlers' = Append(handlers, [pc |-> "addr", arg |-> NoParams])
    /\ replies' = Append(replies, NoReply)
    /\ pc' = "recv"
    /\ UNCHANGED <<buf, n, clientaddr, p, heap, left, rcvd, raced>>

\* recvfrom, gethostbyaddr or pthread_create fails, or malloc returns the NULL
\* that strcpy dereferences: the process ends, with all its threads.
MainFails ==
    /\ pc \in {"recv", "lookup", "malloc", "create"}
    /\ pc' = "exited"
    /\ UNCHANGED <<buf, n, clientaddr, p, heap, left, handlers, rcvd, replies, raced>>

Main ==
    \/ \E a \in Addrs, d \in Payloads : Recv(a, d)
    \/ Lookup
    \/ SetAddr
    \/ Malloc
    \/ \E j \in CopiedOctets(buf) : CopyOctet(j)
    \/ SetN
    \/ Create
    \/ MainFails

-----------------------------------------------------------------------------
\* handler, in the k-th thread created.

\* The thread moves on with the arguments it has copied so far.
Step(k, from, to, arg) ==
    /\ pc # "exited"
    /\ handlers[k].pc = from
    /\ handlers' = [handlers EXCEPT ![k] = [pc |-> to, arg |-> arg]]
    /\ UNCHANGED <<buf, n, clientaddr, p, left, rcvd, raced>>

CopyAddr(k) ==
    /\ Step(k, "addr", "buf", [handlers[k].arg EXCEPT !.addr = p.addr])
    /\ UNCHANGED <<pc, heap, replies>>

CopyBuf(k) ==
    /\ Step(k, "buf", "n", [handlers[k].arg EXCEPT !.blk = p.blk])
    /\ UNCHANGED <<pc, heap, replies>>

\* Mutant: a handler that finds the struct changed waits for its own.
CopyNIfUnchanged(k) ==
    /\ p.blk = handlers[k].arg.blk
    /\ Step(k, "n", "terminate", [handlers[k].arg EXCEPT !.n = p.n])
    /\ UNCHANGED <<pc, heap, replies>>

CopyN(k) ==
    /\ Step(k, "n", "terminate", [handlers[k].arg EXCEPT !.n = p.n])
    /\ UNCHANGED <<pc, heap, replies>>

\* buf[n] = '\0', on the block it was given.
TerminateText(k) ==
    LET arg == handlers[k].arg
    IN  /\ Step(k, "terminate", "sleep", arg)
        /\ heap' = [heap EXCEPT ![arg.blk] = Terminate(@, arg.n)]
        /\ UNCHANGED <<pc, replies>>

\* Mutant: sendto is given p->clientaddr, not the copy.
SlotAddr(arg) == p.addr

\* The address sendto is given.
ReplyAddr(arg) == arg.addr

\* The string at the start of a block; without a terminator it goes on in
\* whatever lies behind the block.
Text(block, behind) == IF IsTerminated(block) THEN CStr(block) ELSE CStr(block \o behind)

\* sleep is over, and sendto sends the string in the block.
SendReply(k) ==
    LET arg == handlers[k].arg
    IN  /\ Step(k, "sleep", "done", arg)
        /\ \E behind \in HeapContents :
               replies' = [replies EXCEPT ![k] =
                             [addr |-> ReplyAddr(arg), data |-> Text(heap[arg.blk], behind)]]
        /\ UNCHANGED <<pc, heap>>

\* sendto fails, and exit_with_error ends the process; a strlen that leaves the
\* heap ends it too.
SendFails(k) ==
    /\ Step(k, "sleep", "sleep", handlers[k].arg)
    /\ pc' = "exited"
    /\ UNCHANGED <<heap, replies>>

Handler(k) ==
    \/ CopyAddr(k)
    \/ CopyBuf(k)
    \/ CopyN(k)
    \/ TerminateText(k)
    \/ SendReply(k)
    \/ SendFails(k)

Next == Main \/ \E k \in 1 .. Len(handlers) : Handler(k)

Spec == Init /\ [][Next]_vars

\* Main and the handlers are scheduled, and a sleep ends; nobody has to send.
Fairness ==
    /\ WF_vars(pc # "recv" /\ Main)
    /\ \A k \in 1 .. MaxDatagrams : WF_vars(k \in DOMAIN handlers /\ Handler(k))

FairSpec == Spec /\ Fairness

-----------------------------------------------------------------------------
\* Properties.

Echo(d) == [addr |-> d.addr, data |-> CStr(Truncate(d.data, BUFSIZE - 1))]

Answered == {k \in 1 .. Len(replies) : replies[k] # NoReply}

\* The hand-over is right as long as every handler created so far copied p
\* before main began to fill it for the next datagram (server.c:112-121 against
\* 37-40): the k-th handler then answers the k-th datagram, even if main and
\* the other handlers overtake it at any later point.  A late handler can also
\* spoil the answer to a later datagram, whose block it may terminate.
CleanHandoff ==
    \A k \in Answered : raced \cap 1 .. k = {} => replies[k] = Echo(rcvd[k])

\* Even a handler that is late mixes only its own datagram and later ones: no
\* reply goes to the sender of an earlier datagram only, and the block it sends
\* was not allocated for an earlier datagram.
NeverAnEarlierClient ==
    \A k \in Answered :
        /\ handlers[k].arg.blk >= k
        /\ \E j \in k .. Len(rcvd) : replies[k].addr = rcvd[j].addr

\* The fields a late handler copies are torn at most one way: it never combines
\* a block with the address of a datagram after the next.  With the block of
\* datagram b goes an address some datagram of k .. b+1 came from.
AddressNotAfterBlock ==
    \A k \in Answered :
        \E j \in k .. Len(rcvd) :
            j <= handlers[k].arg.blk + 1 /\ replies[k].addr = rcvd[j].addr

\* What the comment at server.c:43 says: "echo the datagram back to the
\* client".  The k-th thread is created for the k-th datagram.
EveryReplyIsAnEcho ==
    \A k \in Answered : replies[k] = Echo(rcvd[k])

\* strlen runs past the end of a block, whatever malloc returned, only for a
\* late handler that got hold of the block before its text, and only while main
\* is copying that text over the terminator the handler wrote (server.c:42, 46
\* against 116-117): once strcpy is through, every block a handler is about to
\* send is terminated, whichever it picked up and whoever else wrote to it.
UnterminatedOnlyInCopy ==
    \A k \in 1 .. Len(handlers) :
        LET blk == handlers[k].arg.blk
        IN  pc # "exited" /\ handlers[k].pc = "sleep" /\ ~IsTerminated(heap[blk])
            => k \in raced /\ pc = "strcpy" /\ p.blk = blk

\* Every datagram received has its reply in the end, whatever the handlers do to
\* each other's arguments, unless a failing call ends the process with all its
\* threads (server.c:30-33, 100, 123): no handler waits for another.
EveryoneIsAnswered ==
    <>[](pc = "exited" \/ (pc = "recv" /\ Answered = DOMAIN rcvd))
=============================================================================
