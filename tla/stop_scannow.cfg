SPECIFICATION Spec
CONSTANTS
    Targets = {t1}
    Jobs = {j1}
    Adders = {}
    Clickers = {c1}
    Workers = 1
    RetryBase = 1
    RetryMax = 1
    MaxFailures = 1
INVARIANTS NothingRunsAfterStop
