CONSTANTS
    Schedule = {s1, s2}
    Cron = {c1, c2}
    Request = {r1, r2}
    NoSchedule = NoSchedule
    Keep = Keep
    ProcessorWired = TRUE
    MaxRequests = 4
    MaxTriggers = 1
    MaxFaults = 1
SPECIFICATION Spec
SYMMETRY Symmetry
INVARIANTS
    TypeOK
    RowAndQueueAgree
    NoStaleJob
    AtMostOneJob
CHECK_DEADLOCK FALSE
