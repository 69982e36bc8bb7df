SPECIFICATION Spec
CONSTANTS
    Scans = {s1}
    Validators = {v1}
    Root = root
    Hosts = {root}
    Ports = {p1}
    TLSPorts = {}
    Wildcards = {}
    Budget = 1
    Faults = {"store"}
    MaxTokens = 2
    MaxChanges = 2
PROPERTIES ChallengeKept
