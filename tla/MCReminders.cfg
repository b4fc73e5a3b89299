SPECIFICATION Spec
CONSTANTS
    s1 = s1
    s2 = s2
    k1 = k1
    k2 = k2
    c1 = c1
    c2 = c2
    Student = {s1}
    Reachable = {s1}
    Key = {k1}
    Offered = {}
    Cron = {c1}
    ByHand = {c2}
    Staff = {c2}
    Edited = {s1}
    Modes = {"Yes", "No", "Debug"}
    Freqs = {1, 2}
    MaxFreq = 2
    DayLength = 1
    MaxCrashes = 1
INVARIANTS
    TypeOK
PROPERTIES
    EarlyOnlyIfUnrecorded
    RateLimitedWasNotified
CONSTRAINT NothingSelected
