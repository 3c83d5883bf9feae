SPECIFICATION FairSpec
CONSTANTS
    Threads = {t1, t2, t3}
    NoThread = NoThread
    Limit = 6
    MaxReads = 2
INVARIANTS
    WrSemIsToken
    ActiveIsOwed
    ReadPermitsConserved
PROPERTIES
    EveryCallReturns
    ExcludesUnlessOvertaken
