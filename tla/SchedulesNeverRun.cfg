CONSTANTS
    Schedule = {s1}
    Cron = {c1, c2}
    Request = {r1, r2}
    NoSchedule = NoSchedule
    Keep = Keep
    ProcessorWired = FALSE
    MaxRequests = 1
    MaxTriggers = 1
    MaxFaults = 0
SPECIFICATION FairSpec
PROPERTIES
    DueTriggersRun
CHECK_DEADLOCK FALSE
