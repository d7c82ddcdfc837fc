\* Three releases, two sessions at a time.
SPECIFICATION Spec
CONSTANTS
    r1 = r1
    r2 = r2
    r3 = r3
    x1 = x1
    x2 = x2
    Releases = {r1, r2, r3}
    Sessions = {x1, x2}
    MaxPlans = 2
    MaxFences = 2
SYMMETRY Interchangeable
PROPERTIES
    RecordedIsRunning
    OperationsDoNotMix
    RetirementSparesRollback
\* Once the bounds are used up nothing need happen.
CHECK_DEADLOCK FALSE
