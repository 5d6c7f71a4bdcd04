---------------------------- MODULE HttpDownload ----------------------------
(***************************************************************************)
(* main and download_page of TD1/ex05-socket/wgetX.c: the URL is parsed,   *)
(* the query is sent in as many pieces as send takes, the response is      *)
(* received in as many as recv returns.  The end of the response's header  *)
(* is looked for in each piece by itself; what follows is appended, string *)
(* by string, to the page, which main writes to a file.  The web server is *)
(* the environment: it answers a query with one response and closes the    *)
(* connection.                                                             *)
(***************************************************************************)
EXTENDS UrlParser

CONSTANTS
    Urls,           \* the URLs given to the program, as what they are written from
    Responses,      \* what the web server may answer to each query it understands
    MAXRCVLEN,      \* #define MAXRCVLEN
    B_SIZE          \* #define B_SIZE

ASSUME UrlsAssumption ==
    \A u \in Urls :
        /\ {u.scheme, u.host, u.path} \subseteq Seq(Octet \ {NUL})
        /\ u.host # <<>> /\ {Slash, Colon} \cap ToSet(u.host) = {}
        /\ {Slash, Colon} \cap ToSet(u.scheme) = {}
        /\ u.port \in Nat \union {NoPort} /\ u.port <= INT_MAX
ASSUME ResponsesAssumption ==
    \A query \in DOMAIN Responses : Responses[query] \subseteq Seq(Octet)
ASSUME SizesAssumption == MAXRCVLEN \in Nat \ {0} /\ B_SIZE \in Nat \ {0}

VARIABLES
    pc,         \* "parse", "resolve", "send", "recv", "write", "saved", "exited",
                \* or "undefined": the C standard says nothing of what follows
    url,        \* what argv[1] is written from
    info,       \* what parse_url has found, or NoInfo
    got,        \* what the web server has received
    stream,     \* the octets of the response still to be received
    buf,        \* the receive buffer
    htmlstart,  \* whether the end of the header has been found
    page,       \* the string in recv_buf_t
    file,       \* the contents of received_page, or NoFile
    response,   \* history: the whole response
    ends,       \* history: where the pieces received so far end in it
    errors      \* history: whether a call after the query has failed

vars_url == <<url, info>>
vars_recv == <<stream, buf, htmlstart, page, response, ends>>
vars == <<pc, vars_url, got, vars_recv, file, errors>>

NoInfo == [host |-> <<>>, port |-> 0, path |-> <<>>]

Query == build_get_query(info.host, info.path)

NoFile == <<-1>>

\* The empty line behind the header.
Separator == <<13, 10, 13, 10>>

\* Where the separator begins in a text.
SeparatorsIn(text) ==
    {k \in 1 .. Len(text) - 3 : SubSeq(text, k, k + 3) = Separator}

\* What may be left of a text of which the end is lost.
Beginnings(text) == {SubSeq(text, 1, n) : n \in 0 .. Len(text)}

TypeOK ==
    /\ pc \in {"parse", "resolve", "send", "recv", "write", "saved", "exited",
               "undefined"}
    /\ url \in Urls
    /\ info.host \in Seq(Octet) /\ info.port \in Nat /\ info.path \in Seq(Octet)
    /\ got \in Seq(Octet) /\ stream \in Seq(Octet)
    /\ buf = Filled(MAXRCVLEN + 1, NUL)
    /\ htmlstart \in BOOLEAN
    /\ page \in Seq(Octet \ {NUL}) /\ Len(page) < B_SIZE
    /\ file \in {NoFile} \union Beginnings(page)

Init ==
    /\ pc = "parse"
    /\ url \in Urls
    /\ info = NoInfo
    /\ got = <<>>
    /\ response = <<>>
    /\ stream = <<>>
    /\ buf = Filled(MAXRCVLEN + 1, NUL)
    /\ htmlstart = FALSE
    /\ page = <<>>
    /\ file = NoFile
    /\ ends = {0}
    /\ errors = FALSE

-----------------------------------------------------------------------------

\* parse_url returns.
Parse ==
    /\ pc = "parse"
    /\ HasPath(Written(url)) /\ ~ParsesNothing(Written(url))
    /\ info' = parse_url(Written(url))
    /\ pc' = "resolve"
    /\ UNCHANGED <<url, got, vars_recv, file, errors>>

\* "the url is not valid!"
ParseFails ==
    /\ pc = "parse" /\ ~HasPath(Written(url))
    /\ pc' = "exited"
    /\ UNCHANGED <<vars_url, got, vars_recv, file, errors>>

\* A path is copied to where info.path, which nobody has set, points, or there
\* is nothing to find.
ParseUndefined ==
    /\ pc = "parse"
    /\ Path(Written(url)) # <<>> \/ ParsesNothing(Written(url))
    /\ pc' = "undefined"
    /\ UNCHANGED <<vars_url, got, vars_recv, file, errors>>

\* get_ip and connect succeed.
Connect ==
    /\ pc = "resolve"
    /\ pc' = "send"
    /\ UNCHANGED <<vars_url, got, vars_recv, file, errors>>

\* The host is not found, its address does not fit get_ip's text (iplen does
\* not count the NUL behind "XXX.XXX.XXX.XXX"), or it cannot be connected to.
ConnectFails ==
    /\ pc = "resolve"
    /\ pc' = "exited"
    /\ UNCHANGED <<vars_url, got, vars_recv, file, errors>>

\* Mutant: send is given the query from its start.
FromStart(n) == SubSeq(Query, 1, n)

\* The next n octets of the query.
Piece(n) == SubSeq(Query, Len(got) + 1, Len(got) + n)

\* send takes n octets.
Send ==
    /\ pc = "send" /\ Len(got) < Len(Query)
    /\ \E n \in 1 .. Len(Query) - Len(got) : got' = got \o Piece(n)
    /\ UNCHANGED <<pc, vars_url, vars_recv, file, errors>>

SendFails ==
    /\ pc = "send" /\ Len(got) < Len(Query)
    /\ pc' = "exited"
    /\ UNCHANGED <<vars_url, got, vars_recv, file, errors>>

\* The web server closes the connection on a query it does not understand.
Answers(query) ==
    IF query \in DOMAIN Responses THEN Responses[query] ELSE {<<>>}

\* The query is sent, and the web server answers it.
QuerySent ==
    /\ pc = "send" /\ Len(got) = Len(Query)
    /\ response' \in Answers(got)
    /\ stream' = response'
    /\ pc' = "recv"
    /\ UNCHANGED <<vars_url, got, buf, htmlstart, page, file, ends, errors>>

\* Mutant: the separator is appended with what is behind it.
ContentWithSeparator(text) ==
    IF htmlstart THEN text
    ELSE IF SeparatorsIn(text) = {} THEN <<>>
    ELSE SubSeq(text, Min(SeparatorsIn(text)), Len(text))

\* htmlcontent: the text received, or what is behind its first separator.
Content(text) ==
    IF htmlstart THEN text
    ELSE IF SeparatorsIn(text) = {} THEN <<>>
    ELSE SubSeq(text, Min(SeparatorsIn(text)) + 4, Len(text))

\* Mutant: the buffer is not cleared after a piece.
NotCleared(received, n) == received

\* memset(buf, 0, n)
Cleared(received, n) == Overwrite(received, Filled(n, NUL))

\* recv returns n octets: its string, up to a NUL, is searched and appended, and
\* the n octets are cleared.
Recv(n) ==
    /\ pc = "recv" /\ n <= Len(stream)
    /\ LET received == Overwrite(buf, SubSeq(stream, 1, n))
           text == CStr(received)
       IN  /\ page' = page \o Content(text)
           /\ htmlstart' = (htmlstart \/ SeparatorsIn(text) # {})
           /\ buf' = Cleared(received, n)
    /\ Len(page') < B_SIZE
    /\ stream' = SubSeq(stream, n + 1, Len(stream))
    /\ ends' = ends \union {Len(response) - Len(stream')}
    /\ UNCHANGED <<pc, vars_url, got, file, response, errors>>

\* ... but strcat writes behind recv_buf_t.
Overrun(n) ==
    /\ pc = "recv" /\ n <= Len(stream)
    /\ LET text == CStr(Overwrite(buf, SubSeq(stream, 1, n)))
       IN  Len(page) + Len(Content(text)) >= B_SIZE
    /\ pc' = "undefined"
    /\ UNCHANGED <<vars_url, got, vars_recv, file, errors>>

\* The connection is closed.
RecvEnds ==
    /\ pc = "recv" /\ stream = <<>>
    /\ pc' = "write"
    /\ UNCHANGED <<vars_url, got, vars_recv, file, errors>>

\* recv fails: what has been received so far is kept.
RecvFails ==
    /\ pc = "recv"
    /\ errors' = TRUE
    /\ pc' = "write"
    /\ UNCHANGED <<vars_url, got, vars_recv, file>>

\* write_data
WriteData ==
    /\ pc = "write"
    /\ file' = page
    /\ pc' = "saved"
    /\ UNCHANGED <<vars_url, got, vars_recv, errors>>

\* fopen fails, and the file is as it was, or fputs or fclose, and it holds as much
\* as could be written.  main says in each case that the file is saved.
WriteFails ==
    /\ pc = "write"
    /\ file' \in {file} \union Beginnings(page)
    /\ errors' = TRUE
    /\ pc' = "saved"
    /\ UNCHANGED <<vars_url, got, vars_recv>>

Next ==
    \/ Parse
    \/ ParseFails
    \/ ParseUndefined
    \/ Connect
    \/ ConnectFails
    \/ Send
    \/ SendFails
    \/ QuerySent
    \/ \E n \in 1 .. MAXRCVLEN : Recv(n) \/ Overrun(n)
    \/ RecvEnds
    \/ RecvFails
    \/ WriteData
    \/ WriteFails

Spec == Init /\ [][Next]_vars

-----------------------------------------------------------------------------
\* Properties.

\* The URLs the parser can read: with a scheme, although the format at url.c:16
\* makes it optional, and with no colon that could be taken for the port's.
Readable(u) ==
    u.scheme # <<>> /\ (u.port = NoPort => Colon \notin ToSet(u.path))

\* What such a URL is written from is found in it, with port 80 if it names none
\* (url.c:19-38: three pointers into a text that strtok cuts while it is read), it
\* is never refused, and only the copy of its path can fail.
UrlUnderstood ==
    Readable(url) /\ pc # "parse" =>
        IF info = NoInfo
        THEN pc = "undefined" /\ url.path # <<>>
        ELSE info = [host |-> url.host, path |-> url.path,
                     port |-> IF url.port = NoPort THEN 80 ELSE url.port]

\* The query fits the block allocated for it with its terminator, whatever the
\* URL (wgetX.c:157-163: the -5 counts three placeholders and the NUL).
QueryFitsBlock == Len(Query) + 1 <= QuerySize(info.host, info.path)

\* The octets received so far.
Arrived == SubSeq(response, 1, Len(response) - Len(stream))

\* The web server gets the query once and in order, however send cuts it
\* (wgetX.c:81-89), before anything is received.
QueryArrives ==
    /\ IsPrefix(got, Query)
    /\ pc \in {"recv", "write", "saved"} => got = Query

\* The page is always the end of what has been received, nothing missing inside
\* and nothing of an earlier piece repeated (wgetX.c:96-117), as long as the
\* response has no NUL: behind one the rest of the piece is lost.
PageIsTail ==
    NUL \notin ToSet(response) => IsSuffix(page, Arrived)

\* The body of the response: what is behind the first separator.
Body == SubSeq(response, Min(SeparatorsIn(response)) + 4, Len(response))

\* The separator is received in one piece.
SeparatorWhole ==
    LET first == Min(SeparatorsIn(response))
    IN  (first .. first + 2) \cap ends = {}

\* The file holds the whole body and nothing else, if the separator is not cut
\* by recv (the comment at wgetX.c:99-102), no call fails and there is no NUL.
BodyIsSaved ==
    pc = "saved" /\ ~errors
        /\ NUL \notin ToSet(response)
        /\ SeparatorsIn(response) # {} /\ SeparatorWhole
    => file = Body

\* A response whose body fits recv_buf_t with its NUL never overruns it
\* (wgetX.c:113), whatever its header.
FitsBuffer ==
    pc = "undefined" /\ info # NoInfo =>
        SeparatorsIn(response) # {} /\ Len(Body) >= B_SIZE
=============================================================================
