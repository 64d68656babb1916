SPECIFICATION Spec
CONSTANTS
    Starts = {s1, s2}
    Files = {f1, f2}
    Requests = {r1, r2}
    Faults = {"isolate", "storage"}
    Overlap = FALSE
    Owner = Owner
    Null = Null
SYMMETRY Symmetric
INVARIANT TypeOK
INVARIANT StartsAreSingleUse
INVARIANT AcknowledgedIsKept
INVARIANT DeletedStaysDeleted
CHECK_DEADLOCK FALSE
