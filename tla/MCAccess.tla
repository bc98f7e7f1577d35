------------------------------ MODULE MCAccess -------------------------------
(***************************************************************************)
(* Instances of Access for TLC: the routes the controllers declare, and    *)
(* declarations docs/overview/authorization.md shows but no controller has *)
(* yet; the ways a request names things; the states of the database that   *)
(* decide a check one way or the other.                                    *)
(***************************************************************************)
EXTENDS Access, Routes, TLC

CONSTANTS create, manage, advanced, starter, pro, w1, w2, scan, local, remote, utc, eastern

MCPlanPermissions == (starter :> {create}) @@ (pro :> {create, manage})
MCPlanFeatures    == (starter :> {}) @@ (pro :> {advanced})
MCHome            == scan :> w1

Declared ==
    ScanController(create, advanced) \cup ScansController(create, manage, advanced)
    \cup RolesController(manage) \cup WorkspaceAdminController(create, manage, advanced, local, utc)
    \cup BillingController(manage) \cup AnalyticsController(manage)
    \cup WorkspacesController \cup UsersController \cup SchedulesController
    \cup RepositoriesController \cup AuditLogsController

\* The guards of permission, feature and limit metadata behind JwtAuthGuard, and the
\* context without permissions
Documented == {
    UseGuards(RequiresPermission(Jwt, {create, manage}, FALSE, TRUE), <<"PermissionGuard">>),
    UseGuards(CheckLimit(RequiresFeature(Jwt, {advanced})), <<"FeatureGuard", "LimitGuard">>),
    Authorize(Jwt, {}, FALSE, {advanced}, TRUE, [Unchecked EXCEPT !.member = TRUE], TRUE),
    Authorize(Jwt, {}, FALSE, {}, FALSE,
              [Unchecked EXCEPT !.owner = TRUE, !.type = "SCAN", !.param = "itemId"], FALSE),
    SecurityContext(Jwt, [Unchecked EXCEPT !.member = TRUE, !.window = {[start |-> 22, end |-> 6, zone |-> {}]}]),
    SecurityContext(Jwt, [Unchecked EXCEPT !.owner = TRUE, !.super = FALSE,
                                           !.addresses = {[allowed |-> {}, blocked |-> {remote}]}])}

MCRoutes == Declared \cup Documented

\* The controllers that describe their answers with @ApiResponse
MCDescribed == ScansController(create, manage, advanced) \cup RolesController(manage)

Nowhere == [p \in Place |-> [n \in Name |-> NoId]]
Sent(names, from) == [bearer |-> TRUE, names |-> names, from |-> from]

MCRequests == {
    [Sent(Nowhere, local) EXCEPT !.bearer = FALSE],
    Sent(Nowhere, remote),
    Sent([Nowhere EXCEPT !["params"]["workspaceId"] = w1, !["params"]["itemId"] = scan], local),
    Sent([Nowhere EXCEPT !["params"]["workspace_id"] = w1, !["query"]["workspaceId"] = w2], remote),
    Sent([Nowhere EXCEPT !["body"]["workspaceId"] = w1, !["body"]["workspace_id"] = w2,
                         !["query"]["workspaceId"] = w2, !["query"]["itemId"] = scan], NoAddress)}

\* The server is five hours behind UTC: by its clock a window opens and closes later than
\* in the zone it may declare.
Clock(h) == (utc :> h) @@ (eastern :> (h + 19) % 24)

Nobody == [role |-> "none", plan |-> starter, granted |-> {}, owns |-> {}, belongs |-> {},
           full |-> FALSE, hour |-> Clock(8)]
Member == [Nobody EXCEPT !.role = "MEMBER", !.hour = Clock(9)]
Admin  == [Member EXCEPT !.plan = pro, !.granted = {<<create, w1>>, <<manage, w2>>},
                         !.belongs = {<<w1, "ADMIN">>}]

\* Clock(14) is within 9-17 in both zones, Clock(11) in UTC only, Clock(21) on the server
\* only, and Clock(3) and Clock(22) in neither.
MCCases == {
    Nobody,
    Member,
    [Member EXCEPT !.role = "SUPER", !.full = TRUE, !.hour = Clock(17)],
    [Member EXCEPT !.plan = pro, !.granted = {<<create, NoId>>}, !.hour = Clock(22)],
    [Admin EXCEPT !.full = TRUE, !.hour = Clock(14)],
    [Member EXCEPT !.role = "OWNER", !.plan = pro, !.owns = {w1, scan}, !.hour = Clock(11)],
    [Member EXCEPT !.granted = {<<create, NoId>>, <<manage, NoId>>}, !.belongs = {<<w2, "MEMBER">>},
                   !.owns = {w2}, !.hour = Clock(21)],
    [Admin EXCEPT !.hour = Clock(3)],
    [Admin EXCEPT !.hour = Clock(22)]}

=============================================================================
