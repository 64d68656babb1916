SPECIFICATION Spec
CONSTANTS
    Starts = {s1}
    Files = {f1}
    Requests = {r1, r2, r3}
    Faults = {"database"}
    Overlap = TRUE
    Owner = Owner
    Null = Null
SYMMETRY Symmetric
INVARIANT ObjectsAreClaimed
CHECK_DEADLOCK FALSE
