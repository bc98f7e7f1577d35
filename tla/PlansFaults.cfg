SPECIFICATION Spec
CONSTANTS
    starter = starter  pro = pro
    None = None
    User = {u1, u2}
    Plan = {starter, pro}
    Starter = starter
    LimitOf <- MCLimitOf
    Advanced = {pro}
    Owners = {u1}
    Task = {t1, t2}
    MaxRequests = 3
    MaxFaults = 1
    MaxChanges = 1
SYMMETRY MCSymmetry
INVARIANTS
    TypeOK
    PlanCacheAgrees
    OvershootIsBounded
    AdvancedNeedsFeature
    OutcomeMatchesWrites
CHECK_DEADLOCK FALSE
