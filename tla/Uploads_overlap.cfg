SPECIFICATION Spec
CONSTANTS
    Starts = {s1}
    Files = {f1}
    Requests = {r1, r2}
    Faults = {}
    Overlap = TRUE
    Owner = Owner
    Null = Null
SYMMETRY Symmetric
INVARIANT AcknowledgedIsKept
CHECK_DEADLOCK FALSE
