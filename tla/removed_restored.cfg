SPECIFICATION Spec
CONSTANTS
    Targets = {t1}
    Requests = {r1, r2}
    NoKey = NoKey
    Tiers <- MCTiers
    ProductMax <- MCProductMax
    DefaultMax <- MCDefaultMax
    Keys <- MCKeys
    Faults = {}
    MaxDay = 1
INVARIANTS RestartRestores
