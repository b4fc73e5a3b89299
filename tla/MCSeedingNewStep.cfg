SPECIFICATION SeedSpec
CONSTANTS
    s1 = s1
    s2 = s2
    t1 = t1
    t2 = t2
    k1 = k1
    k2 = k2
    Student = {s1}
    Term = {t1}
    Record <- MCRecord
    Key = {k1, k2}
    Predicated = {k1}
    Events = {"deploy"}
    MaxTime = 1
INVARIANTS
    FullRunReachesEveryone
