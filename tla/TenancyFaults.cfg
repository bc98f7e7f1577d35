CONSTANTS
    User = {u1, u2}
    Founder = {u1}
    Workspace = {w1}
    Repository = {p1}
    Request = {r1, r2}
    None = None
    Keep = Keep
    MaxRequests = 5
    MaxFaults = 1
SPECIFICATION Spec
SYMMETRY Symmetry
INVARIANTS
    TypeOK
    OwnersStay
    MembershipMatchesLog
    DeletionMatchesLog
PROPERTIES
    LinkLostOnlyByRace
    AuthorityHeld
CHECK_DEADLOCK FALSE
