CONSTANTS
    Clients = {c1}
    Ops = {o1, o2}
    ResetOps = {o2}
    Refusable = {o1}
    Deltas = {d1}
    Boot = Boot
    MaxIncidents = 2
SPECIFICATION FairSpec
CHECK_DEADLOCK FALSE
INVARIANT TypeOK
INVARIANT AtMostOnce
INVARIANT CaughtUp
PROPERTY EveryOperationIsAnswered
PROPERTY ImplementsOperationLog
