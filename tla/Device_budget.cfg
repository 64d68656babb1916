CONSTANTS
    Devices = {d1, d2}
    Tokens = {t1}
    Clis = {c1}
    Requests = {r1, r2}
    Emails = {alice, bob}
    Days = {9}
    Null = Null
    Lifetime = 2
    PollInterval = 1
    SlowStep = 1
    MaxInterval = 600
    CliMaxInterval = 8
    Budget = 1
    Faults = {"network", "server", "body", "user"}
    MaxTime = 2
SPECIFICATION CliFairSpec
CHECK_DEADLOCK FALSE
PROPERTY LoginEnds
INVARIANT BudgetHolds
