SPECIFICATION Spec
CONSTANTS
    Threads = {t1, t2}
    Objs = {o1, o2}
    Descs = {d1, d2}
    Names = {n1}
    NULL = NULL
INVARIANTS NamesAreUnique
