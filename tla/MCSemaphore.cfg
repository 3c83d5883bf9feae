SPECIFICATION Spec
CONSTANTS
    Threads = {t1, t2}
    Handles = {d1, d2, d3}
    Objs = {o1, o2, o3}
    Names = {a, b}
    Unnamed = {u}
    NULL = NULL
    ValueMax = 2
SYMMETRY Symmetry
INVARIANTS
    RefCountExact
    ListedIffReferenced
    NamesAreUnique
    WaitersBlockedOnLiveZero
