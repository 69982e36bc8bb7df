SPECIFICATION Spec
CONSTANTS
    Targets = {t1}
    Requests = {r1}
    NoKey = NoKey
    Tiers <- MCTiers
    ProductMax <- MCProductMax
    DefaultMax <- MCDefaultMax
    Keys <- MCKeys
    Faults = {"file"}
    MaxDay = 1
INVARIANTS FileAlwaysInForce
PROPERTIES NewestKeyWins
