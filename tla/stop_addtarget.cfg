SPECIFICATION Spec
CONSTANTS
    Targets = {t1}
    Jobs = {j1, j2}
    Adders = {a1}
    Clickers = {}
    Workers = 1
    RetryBase = 1
    RetryMax = 1
    MaxFailures = 1
INVARIANTS NothingRunsAfterStop
