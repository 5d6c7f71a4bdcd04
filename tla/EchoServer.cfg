\* Three datagrams: each finds the buffer as two others may have left it.
CONSTANTS
    client1 = client1
    client2 = client2
    NoAddr = NoAddr
    Addrs <- MCAddrs
    Payloads <- MCPayloads
    BUFSIZE = 3
    MaxDatagrams = 3
SPECIFICATION Spec
INVARIANTS TypeOK ReplyIsTerminated
PROPERTIES IsEcho
\* the server exits when a call fails
CHECK_DEADLOCK FALSE
