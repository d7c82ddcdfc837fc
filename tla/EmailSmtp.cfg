\* Two deliveries of one verification over SMTP, two overlapping calls.
SPECIFICATION Spec
CONSTANTS
    v1 = v1
    p1 = p1
    c1 = c1
    c2 = c2
    Deliveries <- MCDeliveries
    Verifications = {v1}
    VerificationOf <- MCVerificationOf1
    Processes = {p1}
    Calls = {c1, c2}
    ProcessOf <- MCOverlap
    Adapter = "smtp"
    MaxAttempts = 2
    MaxTransports = 1
    MaxCrashes = 1
    NoProcess = NoProcess
    NoDelivery = NoDelivery
SYMMETRY CallSymmetry
INVARIANTS
    NoDuplicateEmail
    ActiveAttemptIffSending
    SentWasAccepted
    NotEmailedUnlessRecorded
PROPERTIES
    OutcomeRecordedOnce
CHECK_DEADLOCK FALSE
