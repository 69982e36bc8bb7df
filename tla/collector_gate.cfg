SPECIFICATION Spec
CONSTANTS
    Scans = {s1, s2}
    Validators = {v1, v2}
    Root = root
    Hosts = {root}
    Ports = {p1}
    TLSPorts = {}
    Wildcards = {}
    Budget = 1
    Faults = {"store", "flap", "deadline"}
    MaxTokens = 2
    MaxChanges = 3
SYMMETRY AnyScan
INVARIANTS TypeOK ProvedBeforeProbed
