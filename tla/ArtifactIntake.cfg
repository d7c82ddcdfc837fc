\* Three calls, one key, two inputs, a crash and a lost acknowledgement.
SPECIFICATION Spec
CONSTANTS
    c1 = c1
    c2 = c2
    c3 = c3
    k1 = k1
    i1 = i1
    i2 = i2
    Calls = {c1, c2, c3}
    Keys = {k1}
    Inputs = {i1, i2}
    MaxCrashes = 1
    MaxLostReplies = 1
INVARIANTS
    CreatedOnce
    InputIsRetained
PROPERTIES
    ClaimsEnd
\* Every call may be over.
CHECK_DEADLOCK FALSE
