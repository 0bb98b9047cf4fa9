\* Every caller returns or raises: the final states have no successor.
CONSTANTS
    t1 = t1
    t2 = t2
    t3 = t3
    d1 = d1
    d2 = d2
    None = None
    Threads <- MCThreads
    Dbs <- MCDbs
SYMMETRY MCSymmetry
SPECIFICATION Spec
INVARIANT
    NoDuplicateFetch
CHECK_DEADLOCK FALSE
