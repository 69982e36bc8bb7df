CONSTANTS
    SecretKeys = {1, 3}
    MaxKeys = 2
    MaxList = 2
    MaxDepth = 2
    Findings <- SomeFindings
    Sanitized <- SanitizeEvidence
    IsClean <- CleanCopy
    MaxRetries = 2
    Narrations <- SomeNarrations
    MaxChanges = 1
SPECIFICATION Spec
INVARIANTS NarratesWhatIs NoForeignSeverity
CHECK_DEADLOCK FALSE
