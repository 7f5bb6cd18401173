SPECIFICATION FairSpec
CONSTANTS
    Caller = {c1}
    Op <- AllOps
    MaxCalls = 3
    MaxDrops = 2
    Junk = Junk
    TimedOut = TimedOut
    Nothing = Nothing
INVARIANTS
    NothingLeftBehind
PROPERTIES
    KeepsPromise
    CallReturns
    ReceiverComesBack
    LossReported
CHECK_DEADLOCK FALSE
