SPECIFICATION Spec
CONSTANTS
    nbufs = 2
    bufsize = 4
    bufalign = 2
    Size = 9
    Mod = 64
    Users = {"seeking"}
    None = None
INVARIANTS ReturnedIsIntact
CHECK_DEADLOCK FALSE
