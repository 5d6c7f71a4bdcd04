\* Three datagrams: a handler may be late by one or two, and a third handler
\* may be hit by a late first one.
CONSTANTS
    client1 = client1
    client2 = client2
    NoAddr = NoAddr
    Addrs <- MCAddrs
    Payloads <- MCPayloads
    HeapContents <- MCHeapContents
    BUFSIZE = 3
    MaxDatagrams = 3
SPECIFICATION FairSpec
INVARIANTS TypeOK CleanHandoff NeverAnEarlierClient AddressNotAfterBlock UnterminatedOnlyInCopy
PROPERTY EveryoneIsAnswered
\* the process may end
CHECK_DEADLOCK FALSE
