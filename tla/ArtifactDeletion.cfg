\* Two Artifacts, one bundle they may share, deletions that fail and are taken over.
SPECIFICATION Spec
CONSTANTS
    a1 = a1
    a2 = a2
    b1 = b1
    b2 = b2
    k1 = k1
    k2 = k2
    r1 = r1
    r2 = r2
    Artifacts = {a1, a2}
    Bundles = {b1}
    Keys = {k1}
    Reconcilers = {r1}
    MaxRequests = 1
    MaxCases = 1
    MaxFaults = 1
PROPERTIES
    DeletionsComplete
\* Both Artifacts may be gone.
CHECK_DEADLOCK FALSE
