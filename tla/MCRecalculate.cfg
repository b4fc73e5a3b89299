SPECIFICATION RecalcSpec
CONSTANTS
    r1 = r1
    k1 = k1
    k2 = k2
    k3 = k3
    w1 = w1
    w2 = w2
    Record = {r1}
    Key = {k1, k2, k3}
    AllSteps <- MCAllSteps
    Predicated = {k1, k2}
    Reopenable = {k1}
    Worker = {w1, w2}
    MaxOutside = 1
    MaxTime = 1
SYMMETRY WorkerSymmetry
INVARIANTS
    RecalcTypeOK
    QuietRunBringsInLine
    OverlappingRunsBringInLine
PROPERTIES
    QuietRunKeepsLine
    EarlierWaiversKept
