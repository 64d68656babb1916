CONSTANTS
    Devices = {d1}
    Tokens = {t1, t2}
    Clis = {c1}
    Requests = {r1, r2}
    Emails = {alice}
    Days = {1}
    Null = Null
    Lifetime = 4
    PollInterval = 1
    SlowStep = 1
    MaxInterval = 600
    CliMaxInterval = 8
    Budget = 1
    Faults = {"network", "server", "body", "user"}
    MaxTime = 4
SPECIFICATION Spec
SYMMETRY Symmetric
CHECK_DEADLOCK FALSE
INVARIANT TypeOK
INVARIANT OneTokenPerDevice
INVARIANT ConsumedMeansIssued
INVARIANT CliKeepsPace
INVARIANT NeverSlowedDown
PROPERTY ImplementsDeviceGrant
