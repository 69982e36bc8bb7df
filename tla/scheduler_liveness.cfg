SPECIFICATION FairSpec
CONSTANTS
    Targets = {t1}
    Jobs = {j1, j2}
    Adders = {}
    Clickers = {c1}
    Workers = 1
    RetryBase = 1
    RetryMax = 3
    MaxFailures = 3
PROPERTIES BackoffDoubles StopEnds Rescanned
CHECK_DEADLOCK FALSE
