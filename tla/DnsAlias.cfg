\* Short names: is the position behind a name right, when the name is a pointer to
\* the data of an alias?
CONSTANTS
    Lengths = {1, 3}
    MaxPieces = 3
    Flags <- MCFlags
    HOST_NAME_SIZE = 4096
    Fills = {0}
    RandomIds <- MCRandomIds
SPECIFICATION NamesSpec
INVARIANT PositionIsOffset
\* the name is typed
CHECK_DEADLOCK FALSE
