------------------------------ MODULE DnsNames ------------------------------
(***************************************************************************)
(* Host names through both versions of the DNS library, TD4's and TD6's.   *)
(* A host name is typed piece by piece, so that every name of a few labels *)
(* is reached, with leading, repeated and trailing dots, and with labels   *)
(* at the lengths where the format changes: 191 and 192 (a length octet    *)
(* that reads as a pointer), 255 and 256 (one that does not fit).  The     *)
(* properties follow the name through send_dns_query, parse_dns_query in   *)
(* the server, an answer, and parse_dns_query in the client.               *)
(***************************************************************************)
EXTENDS Dns6

CONSTANTS
    Lengths,    \* how many letters a piece may have
    MaxPieces   \* bound: how many pieces

ASSUME PiecesAssumption == Lengths \subseteq Nat /\ MaxPieces \in 0 .. 26

VARIABLES
    host,   \* argv[2] of dns_client
    pieces  \* how many pieces it has

names_vars == <<host, pieces>>

NamesInit == host = <<>> /\ pieces = 0

\* Each piece has a letter of its own, so that no two labels are the same.
TypeLetters(n) ==
    /\ pieces < MaxPieces
    /\ host' = host \o Filled(n, 97 + pieces)
    /\ pieces' = pieces + 1

TypeDot ==
    /\ pieces < MaxPieces
    /\ host' = Append(host, Dot)
    /\ pieces' = pieces + 1

NamesNext == TypeDot \/ \E n \in Lengths : TypeLetters(n)

NamesSpec == NamesInit /\ [][NamesNext]_names_vars

-----------------------------------------------------------------------------
\* Properties of TD4's library.

\* The server reads in a query what was asked: the name, up to superfluous
\* dots and with one at its end (the example at dns.h:262 shows none), and
\* behind it the type and the class, so that get_domain_name (dns.c:169-214)
\* has moved exactly over what get_dns_name (dns.c:251-273) wrote, whatever the
\* buffer holds behind the datagram.
ServerReadsQuery ==
    Carried(host) => \A flags \in Flags, fill \in Fills :
        LET buf == Buffer(QueryMessage(flags, host), fill)
            parsed == parse_dns_query(buf)
        IN  /\ ~Overruns(buf)
            /\ parsed.id = 23
            /\ parsed.qname = Canonical[host]
            /\ parsed.qtype = TYPE_A /\ parsed.qclass = CLASS_IN
            /\ parsed.answers = <<>>

\* The client reads in the server's reply (dns_server.c:56-96) one answer, for
\* the name asked for and with the server's address, although the answer's
\* name has no terminator of its own, and whatever its buffer, which it does
\* not initialise, holds behind the datagram.
ClientReadsAnswer ==
    Carried(host) => \A flags \in Flags, fill \in Fills :
        LET qname == Canonical[host]
            buf == Buffer(ReplyMessage(flags, 23, qname), fill)
            parsed == parse_dns_query(buf)
        IN  /\ ~Overruns(buf)
            /\ parsed.qname = qname
            /\ parsed.answers =
                   <<[name |-> qname, type |-> TYPE_A, rdata |-> IP]>>

-----------------------------------------------------------------------------
\* Properties of TD6's library.

\* The names it can carry: no length octet is taken for a pointer.
Carried6 ==
    /\ LabelsFit(host, 191)
    /\ Len(host) < HOST_NAME_SIZE /\ Len(Canonical[host]) < HOST_NAME_SIZE - 2

\* Where a label starts in the name's text.
LabelStarts ==
    {k \in DOMAIN Canonical[host] : k = 1 \/ Canonical[host][k - 1] = Dot}

\* The text of the name from there on, and where that is in a message that asks
\* for the name: each label's length takes the place of the dot before it.
Suffix(k) == SubSeq(Canonical[host], k, Len(Canonical[host]))
SuffixAt(k) == 12 + k - 1

\* "b" in front of the labels from there on: the compression of the comment at
\* TD6/dns.c:179-184.
Sibling(k) == <<1, 98>> \o Pointer(SuffixAt(k))

Found6(name, type) ==
    [name |-> name, type |-> type, rdata |-> IF type = TYPE_A THEN IP ELSE <<>>]

\* A message that was sent is read as it was meant: name, type and class of the
\* question, no answer, and parse_dns_query returns the very identifier that
\* build_dns_header drew for it (TD6/dns.c:22-69 against 71-127 and 171-228).
ReadsQuery6 ==
    Carried6 => \A id \in Identifiers(0), fill \in Fills :
        LET parsed == parse_dns_query6(Buffer(QueryMessage6(id, host), fill))
        IN  /\ parsed.id = id
            /\ parsed.queries = <<[qname |-> Canonical[host],
                                   qtype |-> TYPE_A, qclass |-> CLASS_IN]>>
            /\ parsed.answers = <<>>

\* From a name server's response every record is read, with its name and its
\* data, whether the name is a pointer, ends in one or is written out, as long as
\* no pointer leads to a name that ends in a pointer itself
\* (TD6/dns.c:171-228): the position behind each name is exact, or the records
\* behind it would be lost.
ReadsAnswers6 ==
    Carried6 => \A k \in LabelStarts, fill \in Fills :
        LET name == Canonical[host]
            response == Response(1, host,
                <<Record(Pointer(12), TYPE_CNAME, Sibling(k)),
                  Record(Sibling(k), TYPE_A, IP),
                  Record(NameSection6(host), TYPE_A, IP),
                  Record(Pointer(12), TYPE_A, IP)>>)
        IN  parse_dns_query6(Buffer(response, fill)).answers =
                <<Found6(name, TYPE_CNAME),
                  Found6(<<98, Dot>> \o Suffix(k), TYPE_A),
                  Found6(name, TYPE_A),
                  Found6(name, TYPE_A)>>

\* "the value is the offset compared to *p" (TD6/dns.h:271) of the pointer after
\* return: 2 behind a name that is a pointer, here to the data of an alias.
PositionIsOffset ==
    Carried6 => \A k \in LabelStarts :
        LET alias == Record(Pointer(12), TYPE_CNAME, Sibling(k))
            first == Len(Response(1, host, <<>>))
            response == Response(1, host,
                <<alias, Record(Pointer(first + 12), TYPE_A, IP)>>)
            domain == get_domain_name6(Buffer(response, NUL), first + Len(alias))
        IN  domain = [name |-> <<98, Dot>> \o Suffix(k), position |-> 2]
=============================================================================
