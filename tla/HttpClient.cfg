SPECIFICATION FairSpec
CONSTANTS
    Addrs = 2
    MaxReconnect = 2
    MaxRedirect = 1
    BufSize = 2
    MaxBody = 2
    Flags = {TRUE, FALSE}
    Framings = {"chunked", "contlen", "connclose", "other"}
INVARIANTS Woken SocketsClosed FaultsKnown FilterFits DoneIsWhole
PROPERTIES StatusOrder Ended
CHECK_DEADLOCK FALSE
