\* One recvfrom fails: does the reply to nobody's query keep a promise of dns.h?
CONSTANTS
    port1 = port1
    port2 = port2
    client1 = client1
    client2 = client2
    NoAddr = NoAddr
    Addrs <- MCAddrs
    Clients <- MCClients
    Hosts <- MCHosts
    Flags <- MCFlags
    HOST_NAME_SIZE = 512
    Fills = {0}
    MaxLosses = 0
    MaxDups = 0
    MaxErrors = 1
SPECIFICATION Spec
INVARIANT RepliesKeepAPromise
\* clients and server end
CHECK_DEADLOCK FALSE
