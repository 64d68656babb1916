CONSTANTS
    Asks = {a1, a2}
    MaxAttempts = 2
    MaxIncidents = 2
SPECIFICATION FairSpec
CHECK_DEADLOCK FALSE
INVARIANT TypeOK
INVARIANT OneAnswerPerAsk
INVARIANT TurnsAreRecoverable
PROPERTY TurnsEnd
