\* Names of up to five pieces.  0 and '0' are what the server's buffer holds
\* behind a datagram, 255 stands for the client's stack.
CONSTANTS
    Lengths = {1, 191, 192, 255, 256}
    MaxPieces = 5
    Flags <- MCFlags
    HOST_NAME_SIZE = 4096
    Fills = {0, 48, 255}
    RandomIds <- MCRandomIds
SPECIFICATION NamesSpec
INVARIANTS ServerReadsQuery ClientReadsAnswer ReadsQuery6 ReadsAnswers6
\* the name is typed
CHECK_DEADLOCK FALSE
