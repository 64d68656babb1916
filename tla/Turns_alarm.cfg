CONSTANTS
    Asks = {a1, a2}
    MaxAttempts = 2
    MaxIncidents = 1
SPECIFICATION Spec
CHECK_DEADLOCK FALSE
INVARIANT AlarmFollowsTurns
