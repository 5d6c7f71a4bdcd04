\* Pieces of one to six octets: the header's end may come whole or cut anywhere.
CONSTANTS
    Template <- MCTemplate
    USERAGENT <- MCUserAgent
    Urls <- MCUrls
    Responses <- MCResponses
    MAXRCVLEN = 6
    B_SIZE = 13
SPECIFICATION Spec
INVARIANTS TypeOK UrlUnderstood QueryFitsBlock QueryArrives PageIsTail BodyIsSaved FitsBuffer
\* the program ends
CHECK_DEADLOCK FALSE
