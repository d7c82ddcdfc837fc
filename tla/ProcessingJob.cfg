\* One Artifact, two Uploads, a manual retry, a crash.
SPECIFICATION Spec
CONSTANTS
    s1 = s1
    s2 = s2
    j1 = j1
    j2 = j2
    j3 = j3
    w1 = w1
    w2 = w2
    a1 = a1
    Sessions = {s1, s2}
    Artifacts = {a1}
    ArtifactOf <- MCArtifactOf
    Jobs = {j1, j2, j3}
    SessionOf <- MCSessionOf
    Workers = {w1, w2}
    MaxAttempts = 3
    WorkerMaxAttempts = 3
    LeaseDuration = 2
    RetryDelay <- MCRetryDelay
    MaxCrashes = 1
    NoWorker = NoWorker
    NoAttempt = NoAttempt
SYMMETRY WorkerSymmetry
INVARIANTS
    RunningAttemptIsCurrent
    OpenUploadHasOneJob
    OneAttemptCommits
PROPERTIES
    FencedAttempts
    ImplementsLifecycle
