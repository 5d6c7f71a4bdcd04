\* A client that waits for its echo, one that does not, and two ports: one is
\* used again while the echo to its first owner, delayed or duplicated, is still
\* on its way.
CONSTANTS
    port1 = port1
    port2 = port2
    fancy1 = fancy1
    plain1 = plain1
    NoAddr = NoAddr
    Addrs <- MCAddrs
    Fancy <- MCFancy
    Plain <- MCPlain
    Lines <- MCLines
    Payloads <- MCPayloads
    BUFSIZE = 4
    MaxDatagrams = 4
    MaxLosses = 1
    MaxDups = 2
SPECIFICATION FairSysSpec
INVARIANTS SysTypeOK PrintsAnEchoToItsAddress
PROPERTIES SenderEnds
\* clients and server end
CHECK_DEADLOCK FALSE
