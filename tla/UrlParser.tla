----------------------------- MODULE UrlParser -----------------------------
(***************************************************************************)
(* parse_url of TD1/ex05-socket/url.c (TD1/ex04-url/url.c has the same     *)
(* function) and build_get_query of wgetX.c, on sequences of characters.   *)
(* A pointer into the URL is the text that starts there.  A URL starts     *)
(* with a letter or a digit, and its port fits an int.                     *)
(***************************************************************************)
EXTENDS CStrings

CONSTANTS
    Template,  \* tpl in build_get_query: the four texts around its placeholders
    USERAGENT  \* #define USERAGENT

ASSUME TemplateAssumption == Template \in Seq(Seq(Octet)) /\ Len(Template) = 4
ASSUME UserAgentAssumption == USERAGENT \in Seq(Octet)

Slash == 47
Colon == 58
Digit == 48 .. 57

-----------------------------------------------------------------------------

\* Where a text first has no digit; 0 for nowhere.
FindNonDigit(text) == SelectInSeq(text, LAMBDA x : x \notin Digit)

\* The largest value of an int, which atoi returns.
INT_MAX == 2147483647

\* atoi: the number at the text's start, 0 for none.
atoi(text) ==
    LET other == FindNonDigit(text)
        digits == IF other = 0 THEN Len(text) ELSE other - 1
        value[k \in 0 .. digits] == IF k = 0 THEN 0 ELSE 10 * value[k - 1] + text[k] - 48
    IN  value[digits]

\* What the parser keeps of the URL while it looks for path and port: what is
\* behind the first colon, and what is two characters further on.
BehindProtocol(url) == strtok(url, Colon).rest

AuthorityStart(url) == Len(strtok(url, Colon).token) + 4
Rest(url) == SubSeq(url, AuthorityStart(url), Len(url))

HasPath(url) == Slash \in ToSet(Rest(url))
Path(url) == SubSeq(Rest(url), Find(Rest(url), Slash) + 1, Len(Rest(url)))

\* Mutant: the whole URL is searched for the port's colon.
ColonAnywhere(url) == Colon \in ToSet(url)

\* Whether there is a colon to take for the port's.
HasPort(url) == Colon \in ToSet(Rest(url))

\* The text before and the text behind that colon.
BeforePort(url) == strtok(BehindProtocol(url), Colon).token
PortText(url) == strtok(strtok(BehindProtocol(url), Colon).rest, Slash).token

\* parse_url, if it returns.
parse_url(url) ==
    IF HasPort(url)
    THEN [host |-> strtok(BeforePort(url), Slash).token,
          port |-> atoi(PortText(url)), path |-> Path(url)]
    ELSE [host |-> strtok(BehindProtocol(url), Slash).token,
          port |-> 80, path |-> Path(url)]

\* It reads behind the end of the URL or, if it does not stop for want of a
\* path, gives atoi the NULL of strtok or stores that NULL for the host.  Nothing
\* that follows gets as far as a query.
ParsesNothing(url) ==
    \/ AuthorityStart(url) > Len(url) + 1
    \/ /\ HasPath(url)
       /\ \/ HasPort(url) /\ PortText(url) = <<>>
          \/ parse_url(url).host = <<>>

-----------------------------------------------------------------------------

\* The path without its leading slash.
getpage(path) == IF path # <<>> /\ path[1] = Slash THEN Tail(path) ELSE path

\* What sprintf replaces.
Placeholder == <<37, 115>>

\* strlen(tpl)
TemplateLen ==
    Len(Template[1]) + Len(Template[2]) + Len(Template[3]) + Len(Template[4])
    + 3 * Len(Placeholder)

\* build_get_query: sprintf puts its three texts into the template's places.
build_get_query(host, path) ==
    Template[1] \o getpage(path) \o Template[2] \o host \o Template[3]
    \o USERAGENT \o Template[4]

\* Mutant: the size forgets the string's terminator.
QuerySizeWithoutNul(host, path) ==
    Len(host) + Len(getpage(path)) + Len(USERAGENT) + TemplateLen - 6

\* The size of the block allocated for it.
QuerySize(host, path) ==
    Len(host) + Len(getpage(path)) + Len(USERAGENT) + TemplateLen - 5

-----------------------------------------------------------------------------
\* What a URL means, for the properties: the fields it was written from.

Decimal[n \in Nat] ==
    IF n < 10 THEN <<48 + n>> ELSE Append(Decimal[n \div 10], 48 + (n % 10))

NoPort == -1

\* [http://]<hostname>[:<port>]/<path> (url.c:16)
Written(u) ==
    (IF u.scheme = <<>> THEN <<>> ELSE u.scheme \o <<Colon, Slash, Slash>>)
    \o u.host
    \o (IF u.port = NoPort THEN <<>> ELSE <<Colon>> \o Decimal[u.port])
    \o <<Slash>> \o u.path
=============================================================================
