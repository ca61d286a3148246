SPECIFICATION GoodDiskSpec
CONSTANTS
    nbufs = 2
    bufsize = 4
    bufalign = 2
    Size = 8
    Mod = 64
    Users = {"random", "forward", "backward"}
    None = None
INVARIANTS CacheIsFile BusyIsAlive ReturnedIsIntact
PROPERTIES Served
CHECK_DEADLOCK FALSE
