SPECIFICATION CrewSafety
CONSTANTS
    Writers = {w1, w2}
    Readers = {r1, r2}
    Values = {v1, v2}
    Cap = 4
    Excl = FALSE
    Busy = Busy
    Full = Full
    Empty = Empty
    Ok = Ok
SYMMETRY Alike
INVARIANTS TakeIsFresh SomeoneIsNext
PROPERTIES IsQueueWithHints NoOverwrite
