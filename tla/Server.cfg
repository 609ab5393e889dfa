SPECIFICATION ServerSpec
CONSTANTS
    p1 = p1
    p2 = p2
    None = None
    Post <- MCPost
    type <- MCType
    MaxRestarts = 1
INVARIANTS
    ServerInv
    CreatedIsStarted
    RowsAreWorkedOn
    GracefulLosesNothing
PROPERTIES
    PollsGoForward
    OutcomeIsSeen
    SignalEndsProcess
