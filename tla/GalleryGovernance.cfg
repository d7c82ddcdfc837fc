\* One Artifact, one copy of it, two Versions, and Shares, Updates and reports on both.
SPECIFICATION Spec
CONSTANTS
    o = o
    c = c
    v1 = v1
    v2 = v2
    r1 = r1
    r2 = r2
    Originals = {o}
    Copies = {c}
    Versions = {v1, v2}
    MaxShares = 3
    Reports = {r1, r2}
SYMMETRY Interchangeable
INVARIANTS
    ListingsAgree
    BlocksAreInForce
PROPERTIES
    ListingsMoveForward
\* Everything may be closed, deleted and decided.
CHECK_DEADLOCK FALSE
