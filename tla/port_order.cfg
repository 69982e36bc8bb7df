CONSTANTS
    Ports = {443, 8443}
    Moments <- SomeMoments
    Deployments <- SomeDeployments
    AtFirst <- MixedDeployments
    WeakCiphers = {"rc4"}
    WeakSignatures = {"sha1"}
    ResolveAfter = 2
    MaxEvents = 2
SPECIFICATION Spec
PROPERTY HostSeverityOnlyRises
CHECK_DEADLOCK FALSE
