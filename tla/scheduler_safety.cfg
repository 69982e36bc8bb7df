SPECIFICATION Spec
CONSTANTS
    Targets = {t1}
    Jobs = {j1, j2, j3}
    Adders = {a1}
    Clickers = {c1}
    Workers = 2
    RetryBase = 2
    RetryMax = 1
    MaxFailures = 1
SYMMETRY AnyJob
INVARIANTS SlotsHeldByScans StopWaitsForSweeps
PROPERTIES BackoffDoubles
