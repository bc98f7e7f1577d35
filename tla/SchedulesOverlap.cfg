CONSTANTS
    Schedule = {s1}
    Cron = {c1, c2}
    Request = {r1, r2}
    NoSchedule = NoSchedule
    Keep = Keep
    ProcessorWired = TRUE
    MaxRequests = 3
    MaxTriggers = 1
    MaxFaults = 0
SPECIFICATION Spec
INVARIANTS
    DeletedScheduleHasNoJob
CHECK_DEADLOCK FALSE
