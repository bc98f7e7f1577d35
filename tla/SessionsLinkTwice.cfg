CONSTANTS
    User = {u1, u2}
    Session = {s1, s2}
    Link = {l1}
    Request = {r1, r2}
    NoUser = NoUser
    NoSession = NoSession
    NoLink = NoLink
    Lifetimes = {1, 3}
    DefaultLife = 1
    LinkLife = 1
    MaxTime = 2
    MaxRequests = 4
    MaxFaults = 0
SPECIFICATION Spec
SYMMETRY Symmetry
INVARIANTS
    LinkLogsInOnce
CHECK_DEADLOCK FALSE
