SPECIFICATION Spec
CONSTANTS
    Targets = {t1, t2, t3}
    Requests = {r1, r2}
    NoKey = NoKey
    Tiers <- MCTiers
    ProductMax <- MCProductMax
    DefaultMax <- MCDefaultMax
    Keys <- MCKeys
    Faults = {}
    MaxDay = 1
PROPERTIES LimitKept
