SPECIFICATION StatsSpec
CONSTANTS
    r1 = r1
    r2 = r2
    k1 = k1
    h1 = h1
    w1 = w1
    w2 = w2
    Record = {r1, r2}
    Key = {k1}
    School = {h1}
    NoSchool = NoSchool
    AnyStep = AnyStep
    Worker = {w1}
    NightlyOnly = FALSE
    MaxChanges = 1
    MaxTime = 2
SYMMETRY RecordSymmetry
INVARIANTS
    StatsTypeOK
    OneRowPerKey
    QuietRunRecordsGroups
    PastDayConsistent
PROPERTIES
    RerunKeepsStats
