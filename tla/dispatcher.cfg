CONSTANTS
    m1 = m1
    m2 = m2
    f1 = f1
    syslog = syslog
    hook = hook
    Modules = {m1, m2}
    Findings = {f1}
    Channels = {syslog}
    LineChannels = {syslog}
    Severities = {3}
    MinSeverity = 2
    MaxBatch = 2
    Retries = 2
    MaxEvents = 3
SPECIFICATION FairSpec
INVARIANTS TypeOK FlushIsComing EachEventOnce CloseIsFinal
PROPERTIES BoxSpec EverythingSettles CloseEnds
CHECK_DEADLOCK FALSE
