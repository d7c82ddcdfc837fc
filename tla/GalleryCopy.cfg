\* One Copier saves two copies; two Workers overlap on them.
SPECIFICATION FairSpec
CONSTANTS
    j1 = j1
    j2 = j2
    c1 = c1
    w1 = w1
    w2 = w2
    Jobs = {j1, j2}
    Copiers = {c1}
    CopierOf <- MCCopierOf
    Workers = {w1, w2}
    MaxAttempts <- MCMaxAttempts
    ArtifactLimit = 2
    MaxEvents = 2
    NoWorker = NoWorker
    NoJob = NoJob
INVARIANTS
    QuotaIsCovered
    OutcomeIsSettled
PROPERTIES
    OutcomeIsFinal
    RollbackSettlesCopies
