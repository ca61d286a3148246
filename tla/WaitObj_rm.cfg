SPECIFICATION FairSpec
CONSTANTS
    Users = {1, 2}
    MaxWait = 3
    Rounds <- OneRound
    RmInHandler = {}
PROPERTIES RmReturns
CHECK_DEADLOCK FALSE
