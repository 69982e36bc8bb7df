CONSTANTS
    f1 = f1
    f2 = f2
    bad = bad
    c1 = c1
    c2 = c2
    u1 = u1
    Findings = {f1}
    Malformed = bad
    Calls = {c1, c2}
    Handlers = {u1}
    FreshLists <- OneFinding
    ResolveAfter = 2
    Faults = {}
    Overlap = TRUE
    MaxCalls = 4
SYMMETRY CallSymmetry
SPECIFICATION Spec

PROPERTIES DecisionKept
CHECK_DEADLOCK FALSE
