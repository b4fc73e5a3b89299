SPECIFICATION FairSpec
CONSTANTS
    r1 = r1
    k1 = k1
    k2 = k2
    p1 = p1
    p2 = p2
    Record = {r1}
    Key = {k1, k2}
    Proc = {p1, p2}
    NoProc = NoProc
    MaxTime = 2
INVARIANTS
    TypeOK
    CountersMatchSteps
    CompletionMatchesSteps
    StepTimesMatchStatus
    NoStaleRow
PROPERTIES
    CompletionTimeStable
    ImplementsChecklist
    CallsTerminate
