SPECIFICATION FairSpec
CONSTANTS
    Threads = {t1, t2}
    Max = 2
    Rounds = 2
CHECK_DEADLOCK FALSE
PROPERTY
    DueCallsReturn
