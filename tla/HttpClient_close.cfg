SPECIFICATION Spec
CONSTANTS
    Addrs = 1
    MaxReconnect = 1
    MaxRedirect = 1
    BufSize = 2
    MaxBody = 2
    Flags = {FALSE}
    Framings = {"chunked", "contlen", "connclose"}
INVARIANTS NoUseAfterClose
CHECK_DEADLOCK FALSE
