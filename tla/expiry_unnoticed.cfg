SPECIFICATION FairSpec
CONSTANTS
    Targets = {t1}
    Requests = {r1}
    NoKey = NoKey
    Tiers <- MCTiers
    ProductMax <- MCProductMax
    DefaultMax <- MCDefaultMax
    Keys <- MCKeys
    Faults = {}
    MaxDay = 3
PROPERTIES ExpiredReturnsToFree
