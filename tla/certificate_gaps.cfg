CONSTANTS
    Ports = {443, 8443}
    Moments <- SomeMoments
    Deployments <- SomeDeployments
    AtFirst <- FirstDeployments
    WeakCiphers = {"rc4"}
    WeakSignatures = {"sha1"}
    ResolveAfter = 2
    MaxEvents = 2
SPECIFICATION Spec
INVARIANTS SuppressionEndsWithFault ChainBlamedFairly
CHECK_DEADLOCK FALSE
