\* The comment at server.c:43; one handler overtaken by one datagram is enough.
CONSTANTS
    client1 = client1
    client2 = client2
    NoAddr = NoAddr
    Addrs <- MCAddrs
    Payloads <- MCPayloads
    HeapContents <- MCHeapContents
    BUFSIZE = 3
    MaxDatagrams = 2
SPECIFICATION Spec
INVARIANTS EveryReplyIsAnEcho
\* the process may end
CHECK_DEADLOCK FALSE
