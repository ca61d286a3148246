SPECIFICATION Spec
CONSTANTS
    Items = {i1, i2, i3}
    Keys = {1, 2, 3}
    Hash <- CollidingHash
    KeyLen <- SmallKeyLen
    DataLens = {0, 2, 3}
    MaxItems = 2
    MemLimit = 5
    MaxData = 2
    MaxRefs = 2
    Nil = Nil
INVARIANTS MemAccounted Indexed HeldIsAlive
PROPERTIES StableWhileShared
CHECK_DEADLOCK FALSE
