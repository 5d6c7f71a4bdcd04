-------------------------------- MODULE Dns --------------------------------
(***************************************************************************)
(* The functions of TD4/L03-ex02-dns_TD/dns.c that build and parse DNS     *)
(* messages.  A message is the sequence of its octets; an offset counts    *)
(* from 0, as in C.  The machine is little-endian, like the one the        *)
(* repository's object files are for: htons swaps, and a field stored      *)
(* without it has its low octet first.                                     *)
(***************************************************************************)
EXTENDS CStrings

CONSTANTS
    HOST_NAME_SIZE,  \* the size of an array for a name: 4096
    Flags,           \* what the flag octets of an uninitialised buffer may hold
    Fills            \* what the octets behind a datagram in a client's buffer may hold

\* With a larger one a name in a message would be out of a pointer's reach.
ASSUME SizeAssumption == HOST_NAME_SIZE \in 1 .. 4096
ASSUME BuffersAssumption == Flags \subseteq Octet \X Octet /\ Fills \subseteq Octet

Dot == 46  \* the character '.'

MAX_ANSWERS == 10  \* res_record answers[10] in both programs

TYPE_A == 1
CLASS_IN == 1
IP == <<216, 58, 201, 228>>
TTL == 255

-----------------------------------------------------------------------------
\* Building.

\* A 16 bit field in network order.
U16(n) == <<n \div 256, n % 256>>

htons(n) == (n % 256) * 256 + n \div 256

\* The fields of dns_header.  flags holds what the buffer had in the octets of
\* the flags: only the bit qr is written, which is the low bit of what is
\* assigned to it, htons(query).
dns_header(flags, id, query, qd, an, ns, ar) ==
    <<id % 256, id \div 256>>
    \o <<(flags[1] % 128) + 128 * (htons(query) % 2), flags[2]>>
    \o U16(qd) \o U16(an) \o U16(ns) \o U16(ar)

\* Mutant: the length octet counts itself.
PrefixedCountingLength(label) == <<(Len(label) + 1) % 256>> \o label

\* A label behind its length, which has one octet.
Prefixed(label) == <<Len(label) % 256>> \o label

\* The loop of get_dns_name over the tokens of what is left of the name.
Encoded[name \in Seq(Octet)] ==
    LET label == strtok(name, Dot)
    IN  IF label.token = <<>> THEN <<>>
        ELSE Prefixed(label.token) \o Encoded[label.rest]

\* For a name that fits HOST_NAME_SIZE with its terminator: host_cp has no NUL
\* behind a longer one.
get_dns_name(host) == Encoded[host] \o <<NUL>>

\* build_name_section: the caller goes on strlen octets behind the start.
NameSection(host) == CStr(get_dns_name(host))

Question == U16(TYPE_A) \o U16(CLASS_IN)

\* send_dns_query.  Its identifier is 23, its buffer is not initialised.
QueryMessage(flags, host) ==
    dns_header(flags, 23, 0, 1, 0, 0, 0)
    \o NameSection(host) \o <<NUL>> \o Question

\* The r_element of the answer and its address.
Resource == U16(TYPE_A) \o U16(CLASS_IN) \o <<0, 0>> \o U16(TTL) \o U16(4) \o IP

\* What the server sends: its r_element starts on the terminator of the
\* answer's name.
ReplyMessage(flags, id, qname) ==
    dns_header(flags, id, 1, 1, 1, 0, 0)
    \o NameSection(qname) \o <<NUL>> \o Question
    \o NameSection(qname) \o Resource

-----------------------------------------------------------------------------
\* Parsing.

\* A buffer with datagram d at its start and the octet fill behind it.
Buffer(d, fill) == [data |-> d, fill |-> fill]

At(buf, p) == IF p < Len(buf.data) THEN buf.data[p + 1] ELSE buf.fill

\* ntohs of the field at p.
Word(buf, p) == 256 * At(buf, p) + At(buf, p + 1)

Octets(buf, p, n) == [j \in 1 .. n |-> At(buf, p + j - 1)]

\* What strncpy(dst, src, n) writes: behind a NUL, only NULs.
strncpy(s) ==
    IF NUL \in ToSet(s) THEN CStr(s) \o Filled(Len(s) - StrLen(s), NUL) ELSE s

IsCompressed(buf, p) == At(buf, p) >= 192

\* Where the pointer at p leads.
Offset(buf, p) == Word(buf, p) % 16384

\* The loop of get_domain_name from start on, which gives up only here, once the
\* text is longer than any buffer for it.
NameText(buf, start) ==
    LET text[size \in Nat] ==
            LET num == At(buf, start + size)
            IN  IF num = NUL \/ size > HOST_NAME_SIZE
                THEN <<>>
                ELSE strncpy(Octets(buf, start + size + 1, num)) \o <<Dot>>
                     \o text[size + num + 1]
    IN  text[0]

DomainText(buf, p) ==
    NameText(buf, IF IsCompressed(buf, p) THEN Offset(buf, p) ELSE p)

\* Mutant: the dots of the text are not counted.
MovedOverLetters(buf, p) ==
    IF IsCompressed(buf, p) THEN 2
    ELSE Len(SelectSeq(DomainText(buf, p), LAMBDA c : c # Dot))

\* How far the caller moves on.
MovedOver(buf, p) == IF IsCompressed(buf, p) THEN 2 ELSE Len(DomainText(buf, p))

\* get_domain_name: the name at p, and how far the caller moves on.
get_domain_name(buf, p) ==
    [name |-> CStr(DomainText(buf, p)), position |-> MovedOver(buf, p)]

qd_count(buf) == Word(buf, 4)
an_count(buf) == Word(buf, 6)

\* What one turn of the loop over the answers stores behind the name domain, and
\* where it leaves the reader.
StoreAnswer(buf, parsed, domain) ==
    LET element == parsed.reader + domain.position
        type == Word(buf, element)
        rdlength == Word(buf, element + 8)
        rdata == IF type = TYPE_A THEN Octets(buf, element + 10, rdlength) ELSE <<>>
    IN  [reader |-> element + 10 + rdlength,
         answers |-> Append(parsed.answers,
                            [name |-> domain.name, type |-> type, rdata |-> rdata])]

\* One turn of that loop.  The name has no terminator in the answer's own memory:
\* what is printed behind it is not modelled.
ParseAnswer(buf, parsed) ==
    StoreAnswer(buf, parsed, get_domain_name(buf, parsed.reader))

\* Where the question's type is, behind its name.
QuestionAt(buf) == 12 + get_domain_name(buf, 12).position + 1

\* The loop over the answers: the reader, and what it has stored, after i turns.
ParsedAnswers(buf) ==
    LET parsed[i \in 0 .. an_count(buf)] ==
            IF i = 0 THEN [reader |-> QuestionAt(buf) + 4, answers |-> <<>>]
            ELSE ParseAnswer(buf, parsed[i - 1])
    IN  parsed

\* The name at p does not fit name, or the block it is copied to.
OverrunsName(buf, p) == Len(DomainText(buf, p)) >= HOST_NAME_SIZE

\* parse_dns_query stays in answers and in the arrays for names: that of the
\* question, and those of the answers.
StaysInArrays(buf) ==
    /\ an_count(buf) <= MAX_ANSWERS
    /\ ~OverrunsName(buf, 12)
    /\ \A i \in 1 .. an_count(buf) :
          ~OverrunsName(buf, ParsedAnswers(buf)[i - 1].reader)

Overruns(buf) == ~StaysInArrays(buf)

\* parse_dns_query, for a buffer it does not overrun.
parse_dns_query(buf) ==
    LET ques == QuestionAt(buf)
    IN  [id |-> At(buf, 0) + 256 * At(buf, 1),
         qname |-> get_domain_name(buf, 12).name,
         qtype |-> Word(buf, ques),
         qclass |-> Word(buf, ques + 2),
         answers |-> ParsedAnswers(buf)[an_count(buf)].answers]

-----------------------------------------------------------------------------
\* What names come to, for the properties.

\* The name without superfluous dots: one behind each label, and no other.
Canonical[name \in Seq(Octet)] ==
    LET label == strtok(name, Dot)
    IN  IF label.token = <<>> THEN <<>>
        ELSE label.token \o <<Dot>> \o Canonical[label.rest]

\* No label of the name has more than n octets.
LabelsFit(name, n) ==
    \A k \in n + 1 .. Len(name) : \E j \in k - n .. k : name[j] = Dot

\* The names the exercise can carry: the length octet of the first label is not
\* taken for a pointer, the others fit an octet, and the arrays of both sides
\* have room.
Carried(name) ==
    /\ Len(name) < HOST_NAME_SIZE
    /\ LabelsFit(name, 255) /\ Len(strtok(name, Dot).token) <= 191
    /\ Len(Canonical[name]) < HOST_NAME_SIZE
=============================================================================
