SPECIFICATION Spec
CONSTANTS
    h1 = h1
    h2 = h2
    h3 = h3
    Handlers <- MCHandlers
    ArtifactsOf <- MCArtifactsOf
    MaxUploads = 1
    MaxFaults = 1
CHECK_DEADLOCK FALSE
INVARIANTS
    TypeOK
    OkReplacesOlder
PROPERTY
    OlderOnlyWhenConcurrent
