SPECIFICATION BatchSpec
CONSTANTS
    s1 = s1
    s2 = s2
    t1 = t1
    t2 = t2
    k1 = k1
    c1 = c1
    c2 = c2
    i1 = i1
    j1 = j1
    i2 = i2
    bad = bad
    c3 = c3
    Student = {s1, s2}
    Term = {t1, t2}
    NoTerm = NoTerm
    Unset = Unset
    Campus = {c1, c2, c3}
    NoCampus = NoCampus
    CampusOf <- MCCampusOf
    Processes = {c1, c2}
    Id = {i1, j1, i2, bad}
    NoStudent = NoStudent
    StudentOf <- MCStudentOf
    MaxIds = 2
    MaxOutside = 1
    Record <- MCRecord
    Key = {k1}
    MaxTime = 1
INVARIANTS
    BatchTypeOK
    EachStudentOnce
PROPERTIES
    WritesOnlyEntitled
CHECK_DEADLOCK FALSE
