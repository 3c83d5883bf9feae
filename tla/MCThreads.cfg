SPECIFICATION MCSpec
SYMMETRY Symmetry
CONSTANTS
    Threads = {t1, t2, t3}
    MObjs = {x1, x2}
    CObjs = {y1, y2}
    SpinObjs = {x1, x2}
    SpinVars = {v1, v2}
    Workers = {y1, y2}
    TimerObjs = {z1, z2}
    NULL = NULL
    MaxCount = 2
    MaxOverrun = 1
    Slots = {s1}
    NumCoop = 1
    NumPreempt = 2
    StackMin = 2
    StackSize = 1
    NumCpus = 1
CHECK_DEADLOCK FALSE
INVARIANTS
    WarmMutualExclusion WarmSleepersAreReachable WarmPoolsDoNotLeak
    SpinExclusion CalmTimersNotify CalmThreadsKeepTheirTimer
    PrioritiesReadBack ThreadsEndAsAsked
