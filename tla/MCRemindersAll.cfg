SPECIFICATION FairSpec
CONSTANTS
    s1 = s1
    s2 = s2
    k1 = k1
    k2 = k2
    c1 = c1
    c2 = c2
    Student = {s1, s2}
    Reachable = {s1, s2}
    Key = {k1, k2}
    Offered = {k1, k2}
    Cron = {c1}
    ByHand = {}
    Staff = {}
    Edited = {}
    Modes = {"Yes"}
    Freqs = {1}
    MaxFreq = 1
    DayLength = 1
    MaxCrashes = 1
PROPERTIES
    RemindedForever
