CONSTANTS
    f1 = f1
    f2 = f2
    bad = bad
    c1 = c1
    c2 = c2
    u1 = u1
    Findings = {f1, f2}
    Malformed = bad
    Calls = {c1, c2}
    Handlers = {}
    FreshLists <- TwoFindings
    ResolveAfter = 2
    Faults = {"store"}
    Overlap = FALSE
    MaxCalls = 4
SYMMETRY CallSymmetry
SPECIFICATION Spec
INVARIANTS NoSilentOpen

CHECK_DEADLOCK FALSE
