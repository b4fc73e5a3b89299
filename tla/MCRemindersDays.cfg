SPECIFICATION Spec
CONSTANTS
    s1 = s1
    s2 = s2
    k1 = k1
    k2 = k2
    c1 = c1
    c2 = c2
    Student = {s1}
    Reachable = {s1}
    Key = {k1}
    Offered = {k1}
    Cron = {c1}
    ByHand = {}
    Staff = {}
    Edited = {}
    Modes = {"Yes"}
    Freqs = {1}
    MaxFreq = 1
    DayLength = 2
    MaxCrashes = 0
PROPERTIES
    EveryFreqDays
