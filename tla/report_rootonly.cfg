SPECIFICATION Spec
CONSTANTS
    Scans = {s1}
    Validators = {v1}
    Root = root
    Hosts = {root, sub}
    Ports = {p1}
    TLSPorts = {}
    Wildcards = {}
    Budget = 2
    Faults = {"ct"}
    MaxTokens = 1
    MaxChanges = 3
INVARIANTS CompleteReport
