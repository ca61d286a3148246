SPECIFICATION LapSpec
CONSTANTS
    Writers = {w1}
    Readers = {r1}
    Values = {v1, v2}
    Cap = 4
    Excl = FALSE
    Busy = Busy
    Full = Full
    Empty = Empty
    Ok = Ok
PROPERTIES IsQueue CallsReturn
