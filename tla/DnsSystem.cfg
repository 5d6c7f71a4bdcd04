\* Two clients and two ports, one loss, one duplicate, one failing recvfrom: a
\* port is used again while an answer to its first owner is on its way, and the
\* server replies to nobody's query before, between and after the clients'.  Any name: carried
\* ones, one that fills the arrays for names, which 512 octets do sooner than 4096,
\* and one whose first length octet reads as a pointer.
CONSTANTS
    port1 = port1
    port2 = port2
    client1 = client1
    client2 = client2
    NoAddr = NoAddr
    Addrs <- MCAddrs
    Clients <- MCClients
    Hosts <- MCHosts
    Flags <- MCFlags
    HOST_NAME_SIZE = 512
    Fills = {255}
    MaxLosses = 1
    MaxDups = 1
    MaxErrors = 1
SPECIFICATION FairSpec
INVARIANTS TypeOK AnswersItsAddress CrashesHaveACause
PROPERTY WaitingClientEnds
\* clients and server end
CHECK_DEADLOCK FALSE
