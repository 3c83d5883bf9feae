SPECIFICATION FairSpec
CONSTANTS
    Threads = {t1, t2, t3, t4}
    Max = 3
    Rounds = 3
CHECK_DEADLOCK FALSE
INVARIANTS
    CountIsGathering
PROPERTIES
    ImplementsBarrier
    PatientClientsReturn
