\* One delivery over Resend, two overlapping calls, two transports; liveness, so no symmetry.
SPECIFICATION FairSpec
CONSTANTS
    v1 = v1
    p1 = p1
    c1 = c1
    c2 = c2
    Deliveries <- MCOneDelivery
    Verifications = {v1}
    VerificationOf <- MCVerificationOf1
    Processes = {p1}
    Calls = {c1, c2}
    ProcessOf <- MCOverlap
    Adapter = "resend"
    MaxAttempts = 2
    MaxTransports = 2
    MaxCrashes = 1
    NoProcess = NoProcess
    NoDelivery = NoDelivery
INVARIANTS
    NoDuplicateEmail
PROPERTIES
    OutboxDrains
CHECK_DEADLOCK FALSE
