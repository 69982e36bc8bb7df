SPECIFICATION Spec
CONSTANTS
    Scans = {s1}
    Validators = {v1}
    Root = root
    Hosts = {root}
    Ports = {t1, t2}
    TLSPorts = {t1, t2}
    Wildcards = {}
    Budget = 1
    Faults = {}
    MaxTokens = 1
    MaxChanges = 3
INVARIANTS DistinctProblems
