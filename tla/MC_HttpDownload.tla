-------------------------- MODULE MC_HttpDownload --------------------------
(***************************************************************************)
(* HttpDownload with receive pieces of up to six octets, and responses     *)
(* that are empty, have no header's end, a body that is empty, short, long,*)
(* holds another empty line, a NUL, or does not fit the page's buffer.     *)
(* They all come from one URL; the pages of the others are empty.  URLs    *)
(* have a scheme or not, a port or not (one is too large for 16 bits), and *)
(* paths that start with a slash or hold a colon.                          *)
(***************************************************************************)
EXTENDS HttpDownload

\* "G/%s H%s U%s\n"
MCTemplate == <<<<71, 47>>, <<32, 72>>, <<32, 85>>, <<10>>>>
MCUserAgent == <<120>>

\* "s://h/"
MCMainUrl == [scheme |-> <<115>>, host |-> <<104>>, port |-> NoPort, path |-> <<>>]

MCUrls == {MCMainUrl} \union
    [scheme : {<<>>, <<115>>, <<115, 116>>},
     host : {<<105>>, <<104, 46, 105>>},
     port : {NoPort, 8, 80, 65544},
     path : {<<>>, <<112>>, <<47, 112>>, <<112, 58, 57>>, <<112, 47, 58>>}]

\* its query
MCMainQuery == build_get_query(<<104>>, <<>>)

\* "h" and the end of the header
MCHeader == <<104>> \o Separator

\* as much as fits the page's buffer
MCFitting == <<1, 2, 3, 4, 5, 6, 7, 8, 9, 10, 11, 12>>

MCResponses == [query \in {MCMainQuery} |-> {
    <<>>,
    <<104, 104>>,
    MCHeader,
    MCHeader \o <<97>>,
    MCHeader \o <<97, 98, 99, 100, 101>>,
    MCHeader \o <<97>> \o Separator \o <<98, 99>>,
    MCHeader \o <<97, NUL, 98, 99>>,
    <<13, 10>> \o Separator \o <<10, 97>>,
    MCHeader \o MCFitting,
    MCHeader \o MCFitting \o <<13>>}]
=============================================================================
