SPECIFICATION Spec
CONSTANTS
    Threads = {t1, t2, t3}
    NoThread = NoThread
    Limit = 4
    MaxReads = 1
INVARIANT
    WriterExcludesReaders
