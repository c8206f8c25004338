SPECIFICATION Spec
CONSTANTS
    t1 = t1  t2 = t2  t3 = t3  t4 = t4  s1 = s1  s2 = s2  k1 = k1
    Trees = {t1, t2, t3, t4}
    Sessions = {s1, s2}
    Keepers = {k1}
    PoolSize = 2
SYMMETRY Symmetry
INVARIANTS OneHome NoneLost
CHECK_DEADLOCK FALSE
