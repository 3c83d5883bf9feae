SPECIFICATION Spec
CONSTANTS
    Names = {n1, n2, n3}
    NameLen = 1
    Values <- MCValues
    NULL = NULL
    Ptr = 2
    MaxAllocated = 36
CHECK_DEADLOCK FALSE
INVARIANTS EverythingFits OneEntryPerName AllocatedCoversUse
PROPERTIES ImplementsMap
