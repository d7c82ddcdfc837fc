\* One Upload whose two attempts overlap, and a commit that is applied
\* and reported as an error; liveness, so no symmetry.
SPECIFICATION FairBundleSpec
CONSTANTS
    s1 = s1
    s2 = s2
    j1 = j1
    j2 = j2
    w1 = w1
    w2 = w2
    a1 = a1
    a2 = a2
    r1 = r1
    c1 = c1
    Sessions = {s1}
    Artifacts = {a1}
    ArtifactOf <- MCArtifactOf1
    Jobs = {j1}
    SessionOf <- MCSessionOf1
    Workers = {w1, w2}
    MaxAttempts = 2
    WorkerMaxAttempts = 3
    LeaseDuration = 2
    RetryDelay <- MCRetryDelay
    MaxCrashes = 1
    NoWorker = NoWorker
    NoAttempt = NoAttempt
    Raws = {r1}
    Contents = {c1}
    RawOf <- MCRawOf1
    ContentOf <- MCContentOf1
    LostAcknowledgements = TRUE
INVARIANTS
    VersionsAreIntact
PROPERTIES
    BundlesAreResolved
    ImplementsFairLifecycle
