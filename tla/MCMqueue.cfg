SPECIFICATION Spec
CONSTANTS
    Threads = {t1, t2, t3}
    Objs = {o1, o2, o3}
    Descs = {d1, d2, d3}
    Names = {n1, n2}
    NULL = NULL
SYMMETRY Symmetry
INVARIANTS RefCountExact SerialNothingDangles SerialNamesAreUnique NothingLeaks
