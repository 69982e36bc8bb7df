SPECIFICATION Spec
CONSTANTS
    Targets = {t1, t2, t3}
    Requests = {r1, r2}
    NoKey = NoKey
    Tiers <- MCTiers
    ProductMax <- MCProductMax
    DefaultMax <- MCDefaultMax
    Keys <- MCKeys
    Faults = {"store", "file"}
    MaxDay = 3
SYMMETRY AnyTarget
INVARIANTS OnlyGenuineKeys CalmRestartRestores CalmFileIsInForce
