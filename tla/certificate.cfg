CONSTANTS
    Ports = {p443, p8443}
    Moments <- SomeMoments
    Deployments <- SomeDeployments
    AtFirst <- FirstDeployments
    WeakCiphers = {"rc4"}
    WeakSignatures = {"sha1"}
    ResolveAfter = 2
    MaxEvents = 2
SPECIFICATION Spec
SYMMETRY AnyPort
INVARIANTS WatchedToTheEnd AgreesWhenCalm
PROPERTIES SeverityOnlyRises
CHECK_DEADLOCK FALSE
