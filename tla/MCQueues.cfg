SPECIFICATION QueuesSpec
CONSTANTS
    Tasks = {t1, t2, t3}
    Posters = {p1, p2}
    Consumer = c
    MaxRun = 2
    Sentl = Sentl
    NULL = NULL
    Entries = {e1, e2}
    Intervals <- SmallIntervals
    MaxClock = 4
INVARIANTS FifoInv OrderedByTime
PROPERTIES IsFifo TasksRun OncePerTime DueFires OnFireReturns
