SPECIFICATION BusSpec
CONSTANTS
    r1 = r1
    r2 = r2
    k1 = k1
    k2 = k2
    started = started
    finished = finished
    seeder = seeder
    finisher = finisher
    other = other
    Web = Web
    Command = Command
    Record = {r1, r2}
    Key = {k1, k2}
    Event = {started, finished}
    Handler = {seeder, finisher, other}
    Host <- MCHost
    Work <- MCWork
    MayRaise = {other}
    Movable = {other}
    MaxChanges = 1
    MaxTime = 1
SYMMETRY RecordSymmetry
INVARIANTS
    BusTypeOK
    QuietDispatchServesAll
    SentMeansServed
