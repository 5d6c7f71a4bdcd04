-------------------------------- MODULE Dns6 --------------------------------
(***************************************************************************)
(* The DNS library of TD6/dns.c, the second version of the one in Dns: it  *)
(* sets every bit of the flags, takes a random identifier for 0, follows a *)
(* pointer at any label of a name, and moves exactly over a name's end.    *)
(* What is the same in both is taken from Dns.  The name server that       *)
(* answers is not in the repository: its messages are built here the way   *)
(* the comments of dns.h draw them, with the compression they name.        *)
(***************************************************************************)
EXTENDS Dns

CONSTANT RandomIds  \* what rand() may return, of which 16 bits are taken

ASSUME RandomAssumption == RandomIds \subseteq Nat

TYPE_CNAME == 5

-----------------------------------------------------------------------------
\* Building.

\* The two octets of the flags: QR and RD, and no other bit.
Flags6(query) == <<128 * (query % 2) + 1, 0>>

\* build_dns_header.
dns_header6(id, query, qd, an, ns, ar) ==
    U16(id) \o Flags6(query) \o U16(qd) \o U16(an) \o U16(ns) \o U16(ar)

\* The identifiers a header may be given.
Identifiers(id) == IF id = 0 THEN {r % (256 * 256) : r \in RandomIds} ELSE {id}

\* get_dns_name.
get_dns_name6(host) == get_dns_name(host)

\* build_name_section: the caller goes on behind the terminator.
NameSection6(host) == CStr(get_dns_name6(host)) \o <<NUL>>

\* What send_dns_query sends with the identifier that was drawn for it.
QueryMessage6(id, host) ==
    dns_header6(id, 0, 1, 0, 0, 0) \o NameSection6(host) \o Question

\* A resource record: its name, the packed r_element, its data.
Record(name, type, rdata) ==
    name \o U16(type) \o U16(CLASS_IN) \o <<0, 0>> \o U16(TTL)
         \o U16(Len(rdata)) \o rdata

\* A name, or the end of one, that is written elsewhere in the message.
Pointer(offset) == U16(192 * 256 + offset)

\* A name server's answer to the question for host.
Response(id, host, records) ==
    dns_header6(id, 1, 1, Len(records), 0, 0)
    \o NameSection6(host) \o Question \o FlattenSeq(records)

-----------------------------------------------------------------------------
\* Parsing.

\* Mutant: a pointer is looked for only at the name's start, as in TD4.
RestIsElsewhereAtStart(buf, p, i) == i = 0 /\ IsCompressed(buf, p)

\* Whether the rest of a name of which i octets have been written is elsewhere.
RestIsElsewhere(buf, p, i) == IsCompressed(buf, p)

\* The octets a name takes that ends behind i octets of text, without a pointer.
Uncompressed(i) == i + 1

\* Where get_domain_name is: at p in the message, behind i octets of text, and with
\* what buffer_len holds.
Places == [p : Nat, i : Nat, buffer_len : Int]
Place(p, i, buffer_len) == [p |-> p, i |-> i, buffer_len |-> buffer_len]

\* The label that is read there.  At a pointer's target that is done without
\* looking for a pointer.
LabelStart(buf, at) ==
    IF RestIsElsewhere(buf, at.p, at.i) THEN Offset(buf, at.p) ELSE at.p

\* What is copied of it, and where the loop goes on.
Copied(buf, at) ==
    LET label == LabelStart(buf, at)
    IN  strncpy(Octets(buf, label + 1, At(buf, label))) \o <<Dot>>

Further(buf, at) ==
    LET label == LabelStart(buf, at)
        num == At(buf, label)
    IN  Place(label + num + 1, at.i + num + 1,
              IF RestIsElsewhere(buf, at.p, at.i) THEN at.i + 2 ELSE at.buffer_len)

\* get_domain_name: position is what the caller moves on by.  With a pointer
\* that is two octets behind the text so far, and each pointer sets it anew.
get_domain_name6(buf, start) ==
    LET chain[at \in Places] ==
            IF At(buf, at.p) = NUL \/ at.i > HOST_NAME_SIZE
            THEN [name |-> <<>>,
                  position |-> IF at.buffer_len = -1 THEN Uncompressed(at.i)
                               ELSE at.buffer_len]
            ELSE LET rest == chain[Further(buf, at)]
                 IN  [name |-> Copied(buf, at) \o rest.name, position |-> rest.position]
        result == chain[Place(start, 0, -1)]
    IN  [name |-> CStr(result.name), position |-> result.position]

\* Mutant: the identifier is returned as it lies in the message.
HostOrder(buf) == At(buf, 0) + 256 * At(buf, 1)

\* What parse_dns_query returns.
Identifier(buf) == Word(buf, 0)

\* One turn of the loop over the queries.
ParseQuery6(buf, parsed) ==
    LET domain == get_domain_name6(buf, parsed.reader)
        ques == parsed.reader + domain.position
    IN  [reader |-> ques + 4,
         queries |-> Append(parsed.queries,
                            [qname |-> domain.name,
                             qtype |-> Word(buf, ques),
                             qclass |-> Word(buf, ques + 2)])]

\* One turn of the loop over the answers.
ParseAnswer6(buf, parsed) ==
    StoreAnswer(buf, parsed, get_domain_name6(buf, parsed.reader))

\* parse_dns_query, for a message whose counts fit the caller's arrays.
parse_dns_query6(buf) ==
    LET asked[i \in 0 .. qd_count(buf)] ==
            IF i = 0 THEN [reader |-> 12, queries |-> <<>>]
            ELSE ParseQuery6(buf, asked[i - 1])
        answered[i \in 0 .. an_count(buf)] ==
            IF i = 0 THEN [reader |-> asked[qd_count(buf)].reader, answers |-> <<>>]
            ELSE ParseAnswer6(buf, answered[i - 1])
    IN  [id |-> Identifier(buf),
         queries |-> asked[qd_count(buf)].queries,
         answers |-> answered[an_count(buf)].answers]
=============================================================================
