CONSTANTS
    m1 = m1
    f1 = f1
    f2 = f2
    syslog = syslog
    hook = hook
    s1 = s1
    s2 = s2
    Modules = {m1}
    Findings = {f1}
    Channels = {hook}
    LineChannels = {}
    Severities = {3}
    MinSeverity = 0
    MaxBatch = 2
    Retries = 1
    MaxEvents = 3
    Scans = {s1, s2}
    MaxScans = 3
SPECIFICATION ProgSpec
INVARIANTS NoNewsLost NoNewsDropped NewsOutlivesFatal ReturnsStopped ResolvedAfterOpened LastNewsIsTrue
CHECK_DEADLOCK FALSE
