\* auth.controller.ts documents that a registration succeeds; the transaction of register
\* never commits.
SPECIFICATION Spec
CONSTANTS
    u1 = u1  u2 = u2  e1 = e1  e2 = e2  i1 = i1  member1 = member1  auditor = auditor  w1 = w1
    None = None  Global = Global
    User = {u1, u2}
    Email = {e1, e2}
    Founder = {u1}
    EmailAt <- MCEmailAt
    Identity = {i1}
    EmailOf <- MCEmailOf
    Role = {member1, auditor}
    Workspace = {w1}
    Granting = {auditor}
    Owner <- MCOwner
    Initial <- MCInitial
    FirstRow = 2
    Request = {r1, r2}
    Task = {t1, t2}
    MaxRequests = 2
    MaxFaults = 0
    MaxChanges = 0
INVARIANT RegistrationSucceeds
CHECK_DEADLOCK FALSE
