SPECIFICATION Spec
CONSTANTS
    r1 = r1
    r2 = r2
    t1 = t1
    t2 = t2
    Repo <- MCRepo
    Tag <- MCTag
    Request <- MCRequest
    ChanCap = 1
    ErrorEnvelope = ErrorEnvelope
INVARIANTS
    ScansBounded
    SummaryIsComplete
    ErrorIsLast
    SharedErrIsHarmless
    IInv
PROPERTIES
    JobSpec
    EveryGoroutineEnds
