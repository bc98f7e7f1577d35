\* All declarations of the controllers and six more, five requests, nine states of the
\* database; the facts change once on the way and one lookup fails.
SPECIFICATION Spec
CONSTANTS
    create = create  manage = manage  advanced = advanced
    starter = starter  pro = pro
    w1 = w1  w2 = w2  scan = scan  local = local  remote = remote
    utc = utc  eastern = eastern
    NoId = NoId  NoAddress = NoAddress
    Permission = {create, manage}
    Feature = {advanced}
    Plan = {starter, pro}
    Workspace = {w1, w2}
    Item = {scan}
    Address = {local, remote}
    Zone = {utc, eastern}
    ServerZone = eastern
    PlanPermissions <- MCPlanPermissions
    PlanFeatures <- MCPlanFeatures
    Home <- MCHome
    Routes <- MCRoutes
    Requests <- MCRequests
    Cases <- MCCases
    MaxChanges = 1
    MaxFaults = 1
INVARIANTS
    TypeOK
    AdmittedOnlyIfEntitled
    RefusedOnlyForCause
CHECK_DEADLOCK FALSE
