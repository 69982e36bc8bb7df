CONSTANTS
    f1 = f1
    f2 = f2
    bad = bad
    c1 = c1
    c2 = c2
    u1 = u1
    Findings = {f1, f2}
    Malformed = bad
    Calls = {c1, c2}
    Handlers = {u1}
    FreshLists <- TwoFindings
    ResolveAfter = 2
    Faults = {"store", "crash"}
    Overlap = FALSE
    MaxCalls = 4
SYMMETRY CallSymmetry
SPECIFICATION Spec
INVARIANTS ClosedAfterAbsences
PROPERTIES NoSilentReopen LifeSpec
CHECK_DEADLOCK FALSE
