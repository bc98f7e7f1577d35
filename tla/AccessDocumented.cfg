\* The controllers that describe their answers, in the application.
SPECIFICATION Spec
CONSTANTS
    create = create  manage = manage  advanced = advanced
    starter = starter  pro = pro
    w1 = w1  w2 = w2  scan = scan  local = local  remote = remote
    utc = utc  eastern = eastern
    NoId = NoId  NoAddress = NoAddress
    Permission = {create, manage}
    Feature = {advanced}
    Plan = {starter, pro}
    Workspace = {w1, w2}
    Item = {scan}
    Address = {local, remote}
    Zone = {utc, eastern}
    ServerZone = eastern
    PlanPermissions <- MCPlanPermissions
    PlanFeatures <- MCPlanFeatures
    Home <- MCHome
    Routes <- MCDescribed
    Requests <- MCRequests
    Cases <- MCCases
    MaxChanges = 0
    MaxFaults = 0
INVARIANTS
    DocumentedAnswers
CHECK_DEADLOCK FALSE
