# TLA+ models of the network programming exercises

The repository is a course in C network programming: six directories (`TD1` to
`TD6`) of small programs, most of them a client, a server or a tool of their own.
No program shares code with one of another directory, except that libraries are
copied from one exercise to a later one. So there is no single system to model;
there are several small ones, and most have a part that is hard to test: threads
that share a struct, one buffer that serves all datagrams, a protocol over a
network that loses and reorders, a parser, a checksum.

Every definition is translated from the C source under `src/`, and `map` in
`PROJECT.json` names the lines. What is not there (the kernel, the network, libc)
is modelled from how the source uses it, and marked external in the map.

- [Parts of the system](#parts-of-the-system)
- [Modules](#modules), and how they correspond to the code
- [Runs](#runs), their bounds, and [fairness](#fairness)
- [Proofs](#proofs)
- [What the models found](#what-the-models-found)
- [What is not modelled](#what-is-not-modelled), and the [plan](#plan)

## Parts of the system

**Shared counter** (`TD3/ex06-mutex/mutex.c`). State: a global counter, a mutex, the
`NTHREADS` threads. `main` creates the threads, joins them and prints the counter;
each thread locks, prints the counter, reads it into a local, writes it back plus
one, unlocks. Hard: the two-step increment, and the final read without the mutex.
Correct when no increment is lost, the output counts up, and the total is printed.

**Echo server** (`TD2/server.c`). State: one buffer, one `clientaddr`, both used again
for each datagram. A loop receives, terminates the text, and sends `strlen(buf)`
octets back. Any failing call ends the process. Hard: what an earlier datagram leaves
in the buffer. Correct when each datagram is answered, in order, with its own text and
to its own sender.

**Echo clients** (`TD2/fancyclient.c`, `TD2/client.c`; `TD3` has the same fancyclient).
A client reads a line, sends it, and exits; fancyclient first waits for one datagram,
which it prints. It does not look at who sent it and has no timeout. Hard: loss,
duplication, and a port that a later process is given while an echo is on its way.

**Multi-threaded echo server** (`TD3/multi_thread_server/server.c`). `main` receives,
looks the host up, fills one struct `params`, with a block from `malloc` for the text,
and creates a thread that is handed the struct's address. The handler copies the
struct field by field, sleeps, and sends. Interaction through shared memory with no
lock at all. Hard: a handler that copies late finds a later datagram's fields, or
some of each.

**DNS library, server and client** (`TD4/L03-ex02-dns_TD`). The library writes and
parses messages; the server answers every query with one address, in a loop that
ignores `recvfrom`'s result and clears its buffers after each reply; the client sends
one query and takes the first datagram for its answer. Hard: the compressed name of the
answer, label lengths around 63, 192 and 256, counts in a message that index arrays
without a check, failing calls that are not noticed.

**DNS library of TD6** (`TD6/dns.c`). The second version of the same library: all flag
bits, a random identifier, a pointer at any label of a name, and a position that is
exact. Hard: names that are pointers, end in one, or lead to one that does; the
position behind each, from which the next record is read.

**URL parser** (`TD1/ex05-socket/url.c`, the same function in `TD1/ex04-url`). Pointers
into the URL, which `strtok` cuts at a colon and at a slash while it is searched. Hard:
what is optional (scheme, port, path), colons that are not the port's.

**HTTP download** (`TD1/ex05-socket/wgetX.c`). Parses the URL, connects, sends the query
in as many pieces as `send` takes, receives the response in as many as `recv` returns,
looks for the end of the header in each of them by itself, appends the rest with
`strcat` to a buffer of fixed size, and writes that to a file. Hard: where `recv` cuts;
the size of the query's block.

**Raw packets and checksums** (`TD5/RawIP_TD`). `main` builds an IP and a UDP header
around a text; `header.c` has the checksum, the UDP pseudo-header. Hard: carries, odd
lengths, byte order.

**Packet sniffer** (`TD5/Sniffing_TD`). `main` copies the names of the devices into an
array, reads one name from the user and opens it. `process_packet`, called back by
libpcap for each frame, counts it by protocol and has `header.c` (of `RawIP_TD`, and the
same in `TD6`) print its headers and dump its octets. Hard: names longer than their row,
a line without a newline; offsets and lengths from the frame itself; a filter that lets
IPv6 through to code that takes everything for IPv4.

**Not modelled**: see [below](#what-is-not-modelled).

| part | interacts with | by | modelled in |
|---|---|---|---|
| counter threads | `main`, each other | shared counter, mutex, join | `MutexCounter` |
| echo server | its clients | UDP datagrams | `EchoServer`, `EchoSystem`, `Udp` |
| threaded server's main | its handlers | a shared struct, heap blocks | `ThreadedEchoServer` |
| DNS server | DNS client | UDP datagrams in the library's format | `DnsSystem`, `Dns`, `Udp` |
| TD6's DNS library | a name server | messages with compressed names | `Dns6`, `DnsNames` |
| URL parser | wgetX | a `url_info` | `UrlParser`, `HttpDownload` |
| wgetX | a web server | a TCP stream | `HttpDownload` |
| raw packet program | the receiver | one datagram | `RawPacket`, `Checksum` |
| sniffer | libpcap | list of devices, callback with a frame | `Sniffer` |

## Modules

`A <- B` says that A EXTENDS or INSTANCEs B.

```
AtomicCounter      <- MutexCounter        <- MutexCounterProofs
CStrings           <- CStringsProofs (which all proofs below CStrings extend)
  EchoSpec         <- EchoServer          <- MC_EchoServer
  EchoServer, Udp  <- EchoSystem          <- EchoSystemProofs (and of the server alone), MC_EchoSystem
  ThreadedEchoServer                      <- ThreadedEchoServerProofs, MC_ThreadedEchoServer
  UrlParser        <- HttpDownload        <- HttpDownloadProofs, MC_HttpDownload
  Dns              <- Dns6   <- DnsNames  <- MC_DnsNames
    Dns, Udp       <- DnsSystem           <- MC_DnsSystem
    DnsNames, DnsSystem                   <- DnsProofs
  Checksum         <- RawPacket           <- RawPacketProofs
Sniffer            <- SnifferProofs, MC_Sniffer
```

**`MutexCounter`** has one action per statement that reads or writes shared state:
`Create`, `CreateFails`, `Join`, `PrintFinal` of `main`, and `Lock`, `PrintCurrent`,
`ReadCounter`, `WriteCounter`, `Unlock` of `increase_counter`. `mpc` and `tpc` are the
program counters, `local` a thread's `counter_temp`, `output` the numbers printed. When
`main` returns or exits, the process ends and no thread takes a step any more
(`ProcessAlive`). **`AtomicCounter`** is what it promises: adding one is indivisible.

**`CStrings`** is the part of libc that the programs use on arrays and texts: a `recvfrom`
overwrites the first octets of a buffer and leaves the others (`Overwrite`), the
terminator is stored at the length received (`Terminate`), a string ends at its first
NUL (`StrLen`, `CStr`). `StrLen` is what the standard says of `strlen`, and is only
defined on a buffer that has a NUL (`IsTerminated`). `strtok` is in it as well, and the
searches it is made of (`Find`, `FindOther`), which give a position or 0.

**`EchoServer`** is the loop of `TD2/server.c`: `Recv` (with its terminator),
`Send`, `RecvFails`, `SendFails`. **`EchoSpec`** is its promise: an in-order echo without
a buffer. **`Udp`** keeps a bag of datagrams in flight, and loses, duplicates and
reorders; a datagram for a port that nobody has open disappears. **`EchoSystem`**
composes both with the clients: `Type` (fgets, with the line it cuts), `Query`,
`Answer`, `PrintAnswer` and failures. A closed client's port may be given to the next one.

**`ThreadedEchoServer`** splits `main` where another thread can see a difference
(`Recv`, `Lookup`, `SetAddr`, `Malloc`, `CopyOctet`, `SetN`, `Create`) and the handler
likewise (`CopyAddr`, `CopyBuf`, `CopyN`, `TerminateText`, `SendReply`). `heap[k]` is
the block allocated for the k-th datagram, with whatever it held before; the struct
`p` holds the index of a block where the code has a pointer. `Malloc` publishes the block
to handlers that are late, and `strcpy` then fills it octet by octet, in any order
(`left` are those still to come), while such a handler may write its terminator. `strlen`
on a block without one goes on in whatever lies behind it. `raced` is a history
variable: the handlers that were still copying when `main` began to fill `p` again. The
copy of an address is one step: its family, port and address are the first eight octets
of the struct, copied by one instruction on the 64-bit machines the course uses.

**`Dns`** are the library's functions as operators on sequences of octets: the writers
(`get_dns_name`, `QueryMessage`, `ReplyMessage`) and the parser (`get_domain_name`,
`parse_dns_query`), whose positions are those of the C code, including the two places
where they are one octet off. The loops over a name are recursive functions: `Encoded` turns the
labels behind a position into labels with lengths, `Canonical` turns them back. `strncpy` and the one-octet cut of a label's length are
modelled by what they do. The two flag octets are computed from the bit-field
assignments on a little-endian machine, where `htons(1)` does not fit a one-bit field.
**`Dns6`** has what is different in TD6: the flags, the choice of an identifier,
`get_domain_name6` with a pointer at any label (a recursive function `chain` of the loop's
`p`, `i` and `buffer_len`), and `parse_dns_query6` with its loops over queries and
answers. The name server that answers is not in the repository; `Response` and `Record`
build its messages as the comments of `dns.h` draw them. **`DnsNames`** types a name
piece by piece and lets both sides read what was written, with both libraries.
**`DnsSystem`** composes TD4's server loop (`Recv`, `RecvFails`, `Serve`, `Crash`,
`SendFails`) and the clients with `Udp`. A client asks for any name: `Carried` are those a
message can hold, `HostText` is what the library finds of one that fills `host_cp`, where
there is no NUL to end it, and `QueryCrashes` the run over the stack that may follow.
`Overruns` says that parsing leaves one of its arrays: the ten answers, the name of the
question, the names of the answers. Octets that C leaves uninitialised are a choice from
`Fills`.

**`UrlParser`** are `parse_url` and `build_get_query` as operators on sequences of
characters: a pointer into the URL is the text that starts there. `ParsesNothing` is
where C defines nothing (a read behind the end, a NULL for `atoi`). **`HttpDownload`**
starts from what the URL is written from (`url`, for the properties) and parses its text:
`Parse`, `ParseFails` ("not valid"), and `ParseUndefined`, as `info.path` is a pointer
that nobody has set and a path that is not empty is copied to where it leads. Then come
`Connect` and `ConnectFails`, the send loop (`Send`, `SendFails`, `QuerySent`), the receive
loop (`Recv(n)` for the n octets returned, `Overrun(n)`, `RecvEnds`, `RecvFails`) and
`write_data` (`WriteData`, and `WriteFails`, which leaves the file as it was or with a
beginning of the page in it). `response`, `ends` and `errors` are history variables: the response,
where the pieces ended, whether a call failed. `Overrun` is where `strcat` would write
behind the page's buffer; the model says nothing of what happens then.

**`Checksum`** are `checksum` and `udp4_checksum` on sequences of octets. **`RawPacket`**
chooses a payload octet by octet and builds the packet of `rawip_example.c` around it.

**`Sniffer`** has `main`'s set-up (`FindDevices`, `Choose`, `Open` and their failures; a
name is the number of its letters, and `CopyEnd` is where its copy ends in the array),
one action per case of the switch in `process_packet`, counters as in the code, and the
dumps of the last packet as (heading, offset, size). `PrintData` is
an operator from a size to the sequence of marks written. Frames are records of the
fields that the code looks at, at the offsets where it looks: for IPv6 these are a part of
the traffic class, an octet of the source address, and one that may lie anywhere behind.
`len` and `caplen` are the frame's size and how much of it was captured (`BUF_SIZE`).

Mutants: a definition with the comment "Mutant" is a plausible bug in the
definition behind it, used for nothing but to see that a property notices.

## Runs

| run | what it asks | bounds | states |
|---|---|---|---|
| `mutex_counter` | No lost increment, output 0,1,2..., implements `AtomicCounter`, the total is printed | 4 threads | 914 |
| `echo_server` | Implements `EchoSpec`; the reply ends inside the buffer | 3 datagrams, 2 clients, BUFSIZE 3, all texts of two letters up to BUFSIZE+1 | 969 thousand |
| `echo_system` | What fancyclient prints; that it ends | one client of each kind, 2 ports, 4 datagrams, 1 loss, 2 duplicates | 272 thousand |
| `threaded_echo` | What holds of a reply although the struct is shared; when a block has no terminator; that each datagram has its reply | 3 datagrams and handlers, 2 clients, BUFSIZE 3 | 1.8 million |
| `threaded_race` | Violated: "echo the datagram back to the client" | 2 datagrams | |
| `dns_names` | Both libraries read back what was written | names of up to 5 pieces, labels of 1, 191, 192, 255, 256 letters | 9331 |
| `dns_alias` | Violated: position is the offset behind the name | names of up to 3 pieces | |
| `dns_system` | What a client can print; when a program overruns its arrays; that a client ends | 2 clients, 2 ports, 4 names of up to 512 octets, arrays of 512, 1 loss, 1 duplicate, 1 failing recvfrom | 288 thousand |
| `dns_reply_format` | Violated: a reply keeps one of three promises of `dns.h` | 1 failing recvfrom | |
| `http_download` | What is found in a URL; what is saved; when the page overruns | 121 URLs, 10 responses, pieces of 1..6 octets, page of 13 | 2.0 million |
| `raw_packet` | Both checksums verify at the receiver | all payloads of up to 5 octets of 4 values | 1365 |
| `sniffer` | Device list and name, dumped octets, lines of a dump | 5 lists of devices, 3 frames, every IPv4 header length, 5 traffic classes of IPv6, frames cut at 90 | 95 thousand |

Why the bounds are enough:

- Four threads: one holds the mutex, and others wait in more than one order.
- The echo server's state at the start of a round is its buffer. Two datagrams leave
  in it everything that longer histories can, as each overwrites a prefix; the third
  meets it. The proof covers all numbers and sizes.
- In `echo_system` a port has to be used twice, with the echo to its first owner delayed
  or duplicated: two clients and two ports do this, and allow them to differ. The loss
  is what `SenderEnds` excepts; without it this exception would be untested.
- A handler that is late is hit by the next datagram or the one after that; with three
  datagrams a late first handler also damages the block of a third one. The proofs of
  the safety properties have no bound.
- In `dns_names` the lengths are the boundaries: 191 and 192 (taken for a pointer), 255
  and 256 (one octet). Names outside `Carried` are in the run, and nothing is claimed of
  them. `Fills` are the octets behind the datagram. The responses to each name have a
  record whose name is a pointer, one that ends in a pointer to each of its labels, one
  written out, and one behind them, which is lost if a position is wrong. With TD4's library the proofs
  cover all names that are carried.
- In `dns_system` a second client takes over the port of the first, so that the answer
  to a name that is not carried reaches a client that asked for another. The long name
  fills `host_name`, `host_cp` and the arrays of the parser, which have 512 octets instead
  of 4096 (`HOST_NAME_SIZE`): names are long enough for labels of each kind, and overrun
  them as they would the larger ones. The last name's first label has 192 octets, so that
  its length octet is read as the first of a pointer into the middle of the message. `Fills` is
  one octet that is not NUL; `dns_names` has others. The proofs cover every name and size.
- `dns_reply_format` asks whether some reply breaks all three promises at once, so that its
  one counterexample shows each of them broken: the second reply, after a failing
  `recvfrom`, from the buffer that was cleared. Every reply to a
  name that is carried breaks those of the flag and the name.
- In `http_download` a piece can hold the whole separator of four octets with neighbours
  on each side, or cut it anywhere; responses hold no, one or two separators, a NUL, an
  empty or a too long body. The proofs cover all responses and sizes. The URLs have a
  scheme or none, a port or none, an empty path, one with a slash and one with a colon;
  only one of them is given responses, as the path after the query is the same for all.
- 195 five times is the shortest payload whose sum carries twice; the proofs of
  `RawPacketProofs` cover every payload that a datagram can have.
- The lists of devices fit the array, overrun it by one name, and by the last letter of
  one. Dumps have no, one and several lines, full and not; IPv6 addresses stand for each
  case of the switch, the traffic classes for the headers that just fit every frame, just
  do not, and are as long as possible. `BUF_SIZE` is 65536 in `pcap_example.h`; with 90,
  frames of a few lines are cut. The proofs cover every size from the shortest IPv6 frame on.

What the runs show, in words a user of the programs would care for:

- `PrintsAnEchoToItsAddress`: fancyclient may print another process's text, but only of a
  process that had its port before. The first owner of a port always prints its own.
- `SenderEnds`: fancyclient hangs only after a loss or the server's exit.
- `CleanHandoff`, `NeverAnEarlierClient`, `AddressNotAfterBlock`: the race in the threaded
  server is bounded. A datagram is answered right if no handler up to its own was late; a
  late one takes fields of later datagrams only. `UnterminatedOnlyInCopy`: `strlen` leaves
  its block only in a late handler, and only while `main` is in the `strcpy` to that very
  block, whose octets overwrite the handler's terminator before their own arrives. This
  does happen in the model (the property without its exception is violated by two
  datagrams); once `strcpy` is through, every block is terminated.
- `AnswersItsAddress`: a failing `recvfrom` in the DNS server produces at worst an empty
  answer to the last client, never another client's. `CrashesHaveACause`: client and server
  do run over their arrays for names the format cannot carry (`dns_client` takes any), and
  the damage is that of the name's own address: of the client that asked, of one that is
  given its port, and of the server. Without such a name the server overruns its arrays
  only if its very first `recvfrom` fails, on a buffer nobody has cleared.
- `EveryoneIsAnswered`: and each datagram has its reply in the end, unless a failing call
  (one client that `gethostbyaddr` does not know is enough) ends all handlers.
- `WaitingClientEnds`: the DNS client hangs only after a loss or the server's end; a failing
  `recvfrom` is no exception.
- `ServerReadsQuery`, `ClientReadsAnswer`: the name survives in both directions if its
  first label has at most 191 letters and the others at most 255 (more than DNS allows),
  and nothing behind the datagram is read.
- `ReadsQuery6`, `ReadsAnswers6`: so it does with TD6's library if no label has more than
  191 letters, with the identifier that was drawn for it, and all records of a response
  are found behind names of each form, as long as no pointer leads to a name that ends in
  a pointer (`dns_alias`).
- `UrlUnderstood`: host, port and path are found if the URL has a scheme and, without a
  port, no colon in its path. Then the program always stops being defined at the copy of
  the path, unless that is empty. `QueryFitsBlock`: the query's block is large enough for
  every URL, with nothing to spare.
- `BodyIsSaved`: the file is exactly the body if no call fails, no NUL is in the response
  and `recv` does not cut the separator. `PageIsTail`: if it does, the page is
  still an end of what was received. `FitsBuffer`: only a body as long as the buffer
  overruns it.
- `ListHoldsDevices`: up to 21 devices the array of their names is not overrun, although
  almost every name is longer than its row. `ChosenDeviceIsOpened`: libpcap is given the
  name that was typed, if it has at most 18 letters and a newline; else the end
  of it is lost.
- `PayloadIsMessage`, `DumpsStayInFrame`: the payload's dump is right for every length of
  the IPv4 header, and no dump of an IPv4 frame that was captured as a whole leaves it.
  One of IPv6 may if the first half of its traffic class is 5 or more (that of expedited
  forwarding is 11) and its source address makes it look like TCP: a TCP header of
  up to 60 octets is then dumped from up to octet 60, in a frame of as few as 79. And the
  payload of a frame that libpcap has cut is dumped to the end it had on the wire.

`CHECK_DEADLOCK FALSE` is set where the programs stop: by returning, by exiting at a
failed call, or because clients have ended and nothing is left to receive.

### Fairness

Four runs check liveness (`mutex_counter`, `echo_system`, `threaded_echo`, `dns_system`). None assumes fairness of a failing call, a loss or a duplicate,
nor that anybody sends one more datagram.

- `MutexCounter!FairSpec`: weak fairness of `main` and of each thread: the scheduler runs
  whoever can run. Weak fairness is enough for the mutex, as every thread takes it once:
  a waiting thread can be overtaken only by threads that then are done.
- `EchoSystem!FairSysSpec`: weak fairness of the server's receiving and sending and of
  each client's steps, each of them a process that runs. Weak fairness of receiving says that a datagram the
  kernel has queued is received; which of several comes first is open, and as the number
  of datagrams is bounded, none waits forever.

- `ThreadedEchoServer!FairSpec`: weak fairness of `main` while it is not waiting in
  `recvfrom`, and of each handler: threads that are ready or whose `sleep` is over run.
- `DnsSystem!FairSpec`: weak fairness of the server's receiving, of its reply, and of each
  client's receiving, each of them a process that runs, as for the echo server.

## Proofs

Eight modules hold theorems, checked by TLAPS for all values of the constants, under the
assumptions of the modules: `NTHREADS`, buffer sizes and bounds are naturals, texts are
finite sequences of octets, the values a payload is chosen from are octets and a payload
fits a UDP datagram (`MaxPayload` at most 65507, and no NUL in it), libpcap captures at least
the 79 octets of the shortest IPv6 frame, a URL has a host and
its host and scheme no separators, the hosts of `DnsSystem` have no NUL in them, an
array for a name has at most 4096 octets (so that a pointer reaches every name behind it), a
name typed in `DnsNames` has at most 26 pieces, one letter for each, and what `rand`
returns is a natural. TLC evaluates them all.

**`MutexCounterProofs`**: `TypeCorrect`, `NoLostIncrement`, `CorrectOutput`, and
`Refinement` (`MutexCounter` implements `AtomicCounter`, with `added` the threads
that have printed). `EveryIncrementCounts` is not inductive: it needs who is inside the
mutex (`OwnerInside`), that the value about to be written is one more than the current
counter (`ReadIsFresh`), and for the output and the total which threads main has created
and joined (`LoopProgress`, `LinesPrinted`).

**`CStringsProofs`** is the library of the others. On buffers of every size: `StrLen` is
well defined on a terminated buffer; `ReceivedHolds` and `StrcpyHolds` say that after a
receive or a strcpy the buffer holds exactly the new text, whatever was in it. On texts:
what a part of a part is (`PartOfPart`), that texts join (`TextsJoin`,
`TextsAssociate`), where `strtok` cuts (`StrtokAt`, `StrtokOf`). On loops: the functions
that the models define by recursion exist and equal their bodies, if the argument gets
smaller by some measure (`RecursionExists`, `RecursionBySize`, `LoopExists`). The library's
own theorems on induction take an operator as a parameter, which the provers cannot
instantiate, so `AllNumbers` states induction for a set of numbers instead.

**`EchoSystemProofs`** begins with the server alone: `ServerTypeCorrect`, `TerminatedReply`
and `Refinement` (`EchoServer` implements `EchoSpec`). Between receive and send, the
string in the buffer and `clientaddr` are the echo of the last datagram
(`ServerAnswering`). Then `TypeCorrect` and `PrintsEchoes` (`PrintsAnEchoToItsAddress`)
of the system, for any number of clients, ports, losses and duplicates. The invariant says
of each datagram to the server that some user of its address sent its text, and of each to
a client that it is the echo of one (`InFlight`), the same of what the server is about to
send (`Answering`), and who has had an address: a waiting client is its last user
(`LastUser`), one that has not sent has had none (`NotYet`). Users are only added, so that
what is true of a datagram stays true however long it is delayed (`UsersKeep`).

**`ThreadedEchoServerProofs`**: `TypeCorrect`, `PromptHandlersEcho` (`CleanHandoff`),
`NoEarlierClient`, `TerminatedText` (`UnterminatedOnlyInCopy`), `AtMostOneLater`
(`AddressNotAfterBlock`). The
invariant relates the shared struct to the last handler and the next (`Slot`), main's
locals to the last datagram (`InBuffer`), each block to its datagram unless a late handler
may have terminated it (`Blocks`), and the octets that `strcpy` has written to what it was
to write (`Copied`); it says what a prompt handler still finds
(`PromptHandlers`) and what even a late one has (`AllHandlers`). Each action has its own
lemma. `CleanHandoff` alone is far from inductive: the damage of a race shows several
steps after it. `AtMostOneLater` needs one more fact about every handler that has copied
both fields (`Paired`): its address is of a datagram at most one later than its block's.

**`HttpDownloadProofs`**: `PageIsTheTail`, `WholeBodyIsSaved`, `BodyFitsBuffer`. The
invariant: the stream is what is left of the response and the buffer is clean (`Types`);
the page holds nothing before a separator was found, and no more than what has been
received behind the first one of the response (`PageInside`, with NULs or without); without
a NUL the page is a part of the response that ends where it has been received to
(`PageFrom`); and if the first separator is not cut, that part begins behind it
(`PageOfBody`). The last needs that a separator of a piece is one of the response
(`SeparatorsOfPart`), so that the first one found is the first there is.
The other half is the query: `DownloadType`, `UrlIsUnderstood`, `QueryFits`,
`QueryDoesArrive`. `atoi` gives back the number that was written in decimal, by induction
over the number (`AtoiReadsDecimal`); the searches of the parser find the ends of the parts
that were written (`SeparatorTexts`, `ReadableUrl`); and what has been sent is a beginning
of the query, the rest of which is still to be sent (`BeginsGrows`, `AskedNext`).

**`SnifferProofs`**: `TypeCorrect`, `ListIsLargeEnough`, `TypedDeviceIsOpened`,
`PayloadIsShown`, `DumpsInsideFrame`, `LinesOfSixteen`. The log holds nothing or the dumps of the last
frame (`Logged`), libpcap's name is the line's without its last character (`Named`); the
rest is arithmetic on the frames that the filter lets through (`FrameFacts`, `CapturedIs`) and on the
ends of the names' copies (`NamesFit`). `LinesOfSixteen` (`EachOctetOnALine`) is an
induction over the octets of a dump: before octet i, all octets in front of it are written in
hexadecimal, and those of the full lines as characters too (`Laid`, `StepIsLaid`).

**`RawPacketProofs`**: `AnyChecksumVerifies` and `UdpChecksum`, for every payload. Adding the
carries twice is enough for every sum that a 64 KB buffer can have, and gives the sum
modulo 65535, zero only for zero (`FoldIsOnesComplementSum`), so that sum and checksum
cancel (`ComplementVerifies`). The program sums words with the low octet first, the
receiver with the high octet first: exchanging the octets of a word is multiplying it by
256 modulo 65535, so both sums agree up to that factor (`SameSums`, by induction over the
words). The rest is what the words of the packet are: the checksum's field is zero while it
is computed and does not disturb the others (`SumOfRest`), and the pseudo-header is what
the receiver puts before the datagram (`PseudoDatagramIs`).

**`DnsProofs`**: first TD4's library, then TD6's, then the system of TD4's programs.
`ServerReads` and `ClientReads` (`ServerReadsQuery`, `ClientReadsAnswer`) hold of every name
that is carried, of any number of labels. A name is its first label and the name behind it,
which gives induction over labels (`AllNames`), and with it what is written for a name
(`EncodedIs`, `CanonicalIs`, `WritesType`). That a text lies in a message at a position
(`Lies`) is enough to read it: a field, a label, a name, a question, an answer
(`ReadWord`, `LabelsAreRead`, `NameRead`, `QuestionRead`, `AnswerRead`). As each writer puts
its parts where the reader looks, a query and a reply are read as what they were written
from, with anything behind them (`QueryRead`, `ReplyRead`).
`QueriesRead6` and `AliasesRead6` (`ReadsQuery6`, `ReadsAnswers6`) say the same of TD6's
library, for every name of labels that are no pointers, and, for a response, for each of the
name's ends. `get_domain_name6` is a recursion over places in a message (`Places`): it
exists because every turn adds to the text, up to the bound on it (`ChainIs`). A turn at a
label adds the label (`TurnIs`, `LabelsAreFound`), and one at a pointer adds what is at its
target (`PointerFound`); so a name is read that is written out (`WrittenRead`), that is a
pointer (`PointerRead`), or that has one label in front of a pointer (`SiblingRead`), with a
position that is exact in each case. What a pointer leads to is a name's end where it lies
in the question (`EndingsAre`, by induction over labels). Each record is then taken from
where the one before it ends (`RecordTaken`, `FourTaken`).
`TypeCorrect`, `AnswersAddress` (`AnswersItsAddress`) and `CrashesHaveCauses`
(`CrashesHaveACause`) hold of `DnsSystem` for any number of clients, ports, losses and
duplicates, and any names. The invariant: every message to the server was asked from its address, and
every one to a client is empty of answers or answers a name that was asked from there
(`Travelling`), where a message may be anything if a user of the address asked for a name
that is not carried (`Misused`); a waiting client is the last user of its address (`LastUser`) and a finished
one has such an answer (`HasAnswer`); the server's buffer is as nobody has cleared it
(`AtStart`), as it is cleared after a reply (`HasReplied`), or holds a query (`HasQuery`).
It is needed because a failing `recvfrom` lets the server read whatever is in its buffer:
the cleared buffer is read as a message without questions (`ClearIsRead`), the first one
may be anything (`StartOverruns`).

Checked by TLC only: what is temporal under fairness (`TotalIsPrinted`, `SenderEnds`,
`EveryoneIsAnswered`, `WaitingClientEnds`), as TLAPS does not reason about fairness here.

## What the models found

- `TD3/multi_thread_server/server.c:121`: all handlers share one struct. A reply can go to
  the wrong client, or carry another's text, although line 43 says "echo the datagram
  back to the client" (`threaded_race`).
- `TD4/L03-ex02-dns_TD/dns.c:24`: `htons(query)` in a one-bit field: every reply is marked
  as a query, although `dns.h:299` documents the parameter as "query (0)/answer (1)";
  and `dns_server.c:80`: the answer's TYPE starts on the octet that should end its name
  (`dns.h:180`; both in `dns_reply_format`). The parser makes the opposite mistake.
- `TD4/L03-ex02-dns_TD/dns.c:23`: the identifier of a header is stored as it is given,
  although `dns.h:298` says that for 0 "a random will be taken"; the server does give it 0,
  from a buffer that was cleared and not received (also in `dns_reply_format`). TD6's version draws one.
- `TD6/dns.c:207`: behind a name whose pointer leads to a name that ends in a pointer, the
  position is not the offset that `dns.h:271` promises, and the rest of the message is
  read from the wrong place (`dns_alias`).
- Not against a text that a run could hold the program to: the parser needs the scheme
  that its own format at `url.c:16` shows in brackets (`url.c:21`), takes a colon in the
  path for the port's (`url.c:27`), and copies the path through a pointer that is not
  set (`url.c:26`); `get_ip` refuses addresses of 15 characters (`wgetX.c:136`); the dumps
  "IP Header" and "UDP Header" start at the Ethernet header (`header.c:132`, and
  `log.txt` shows it).

## What is not modelled

- `TD6/dns_hijacking.c`, on purpose: an exercise that answers other hosts' queries. The
  libraries it uses are modelled.
- `TD1`'s first exercises (straight-line printing) and `TD4`'s mutex skeleton, which
  creates no thread.
- Inside the modelled parts: the wording of output; host names that are only printed;
  octets behind the end of an array, and whatever happens after an overrun or a use of an
  uninitialised pointer (`undefined`, `overrun` and `crashed` are final states);
  datagrams of programs other than the modelled ones, with counts and names of their own;
  memory exhaustion beyond a failing `malloc`; fragments; the header fields that the
  sniffer prints from behind a short frame.
- The machine is taken to be little-endian with pointers of eight octets, as the
  binaries in the repository are.

## Plan

The order was the order of importance: the programs in which several actors interact
(counter, threaded server, echo and DNS over UDP), then the sequential ones with a
boundary (download, URL, checksum, sniffer, TD6's library), and then the proofs of
what TLC had confirmed. What is left:

1. The clients composed with `ThreadedEchoServer` over `Udp`: what fancyclient prints when
   the server has raced.
2. Abstract specifications: a name service without messages that `DnsSystem` implements
   as long as `recvfrom` does not fail; a download of a body for `HttpDownload`.
3. Proofs beyond what a run states: a response of any number of records, by an induction
   over records as `AllNames` is one over labels.
