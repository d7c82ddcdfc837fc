\* Two Artifacts uploaded with the same ZIP.
SPECIFICATION BundleSpec
CONSTANTS
    s1 = s1
    s2 = s2
    j1 = j1
    j2 = j2
    w1 = w1
    w2 = w2
    a1 = a1
    a2 = a2
    r1 = r1
    c1 = c1
    Sessions = {s1, s2}
    Artifacts = {a1, a2}
    ArtifactOf <- MCArtifactOf
    Jobs = {j1, j2}
    SessionOf <- MCSessionOf
    Workers = {w1, w2}
    MaxAttempts = 1
    WorkerMaxAttempts = 3
    LeaseDuration = 2
    RetryDelay <- MCRetryDelay
    MaxCrashes = 1
    NoWorker = NoWorker
    NoAttempt = NoAttempt
    Raws = {r1}
    Contents = {c1}
    RawOf <- MCRawOf2
    ContentOf <- MCContentOf1
    LostAcknowledgements = FALSE
SYMMETRY WorkerSymmetry
INVARIANTS
    VersionsAreServable
    ReadyWhileReferenced
    AliasesAgree
    OnlyLosersAreSwept
PROPERTIES
    FencedPublication
