SPECIFICATION FairSpec
CONSTANTS
    Scans = {s1}
    Validators = {v1}
    Root = root
    Hosts = {root, sub}
    Ports = {p1, t1}
    TLSPorts = {t1}
    Wildcards = {wild}
    Budget = 2
    Faults = {"store", "ct", "deadline"}
    MaxTokens = 2
    MaxChanges = 3
INVARIANTS CompleteUnlessCut NothingInvented
PROPERTIES ScansEnd VerifiedInTheEnd
