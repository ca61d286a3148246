SPECIFICATION FairSpec
CONSTANTS
    Users = {"u1", "u2"}
    Names = {"n", "m"}
    Servers = {s1}
    Wants <- SomeWant
    icrc <- OneCrc
    crc <- OneCrc
    MaxTries = 2
    TxPairs <- OnePair
    QIds = {1, 2}
    RIds = {1, 2}
    MaxFlight = 1
    None = None
INVARIANTS CalledOnce TimersMatch RefsCounted RightName OkHasAddresses
PROPERTIES Answered
CHECK_DEADLOCK FALSE
