\* A thumbnail or a processing job, overlapping invocations, repeated deliveries.
SPECIFICATION Spec
CONSTANTS
    t1 = t1
    p1 = p1
    s1 = s1
    s2 = s2
    d1 = d1
    d2 = d2
    c1 = c1
    c2 = c2
    Thumbnails = {t1}
    Processing = {p1}
    Slots = {s1, s2}
    SlotOf <- OneSlotPerLane
    Invocations = {d1, d2}
    Consumers = {c1}
    MaxAttempts = 2
    MaxJobs = 1
    MaxFaults = 1
INVARIANTS
    GrantsAreCurrent
    ThumbnailsAgree
    HandedOffOnce
PROPERTIES
    EveryJobEnds
\* Once its jobs have ended the system rests.
CHECK_DEADLOCK FALSE
