------------------------------- MODULE Routes --------------------------------
(***************************************************************************)
(* The declarations of the controllers, one operator per controller.  Of   *)
(* the permission codes two are told apart, of the features one: a         *)
(* permission and a feature every plan has (create) or only some have      *)
(* (manage, advanced).  Routes of a controller that declare the same       *)
(* checks are one element.                                                 *)
(***************************************************************************)
EXTENDS Guards

Jwt        == Route(<<"JwtAuthGuard">>)
ByRole     == Route(<<"RolesGuard">>)
JwtAndRole == Route(<<"JwtAuthGuard", "RolesGuard">>)

\* POST /scans, /scans/advanced, /scans/historical, /scans/schedule and /scans/rules,
\* and GET /scans/usage
ScanController(create, advanced) == {
    RequiresPolicy(Jwt, {create}, {}, TRUE),
    RequiresPolicy(Jwt, {create}, {advanced}, TRUE),
    CheckLimit(RequiresFeature(Jwt, {advanced})),
    RequiresFeature(Jwt, {advanced}),
    Jwt}

\* CanCreateScan, CanCreateAdvancedScan, CanAccessHistoricalScans, CanCreateScheduledScan,
\* CanViewScan and CanDeleteScan: the controller has no JwtAuthGuard.
Can(e, guards) == UseGuards(e, <<"PermissionGuard">> \o guards)
Needs(codes)   == RequiresPermission(Route(<<>>), codes, Cardinality(codes) > 1, FALSE)

ScansController(create, manage, advanced) == {
    Can(CheckLimit(Needs({create})), <<"LimitGuard">>),
    Can(CheckLimit(RequiresFeature(Needs({create}), {advanced})), <<"FeatureGuard", "LimitGuard">>),
    Can(RequiresFeature(Needs({create}), {advanced}), <<"FeatureGuard">>),
    Can(RequiresFeature(Needs({create, manage}), {advanced}), <<"FeatureGuard">>),
    Can(Needs({create}), <<>>)}

\* RolesController and WorkspaceRolesController; billing and analytics declare the same.
RolesController(manage) == {Jwt, RequiresPermission(Jwt, {manage}, FALSE, FALSE)}
BillingController(manage) == RolesController(manage)
AnalyticsController(manage) == RolesController(manage)

OwnedWorkspace == [Unchecked EXCEPT !.owner = TRUE]
JoinedWorkspace == [Unchecked EXCEPT !.member = TRUE]

\* utc is the zone its time restriction declares.
WorkspaceAdminController(create, manage, advanced, local, utc) == {
    RequiresPermission(Jwt, {create}, FALSE, FALSE),
    RequiresFeature(Jwt, {advanced}),
    Authorize(Jwt, {create}, FALSE, {advanced}, TRUE, Unchecked, TRUE),
    Authorize(Jwt, {create}, FALSE, {}, FALSE, JoinedWorkspace, TRUE),
    Authorize(Jwt, {manage}, TRUE, {advanced}, FALSE, OwnedWorkspace, TRUE),
    Authorize(Jwt, {manage}, FALSE, {}, FALSE,
              [OwnedWorkspace EXCEPT !.addresses = {[allowed |-> {local}, blocked |-> {}]}], TRUE),
    Authorize(Jwt, {create}, FALSE, {}, FALSE,
              [JoinedWorkspace EXCEPT !.window = {[start |-> 9, end |-> 17, zone |-> {utc}]}], TRUE),
    Authorize(Jwt, {create, manage}, FALSE, {}, FALSE, JoinedWorkspace, TRUE),
    Authorize(Jwt, {create, manage}, TRUE, {advanced}, FALSE, OwnedWorkspace, TRUE)}

\* WorkspacesController and UsersController name no workspace_id.
WorkspacesController == {
    Roles(JwtAndRole, {"OWNER", "ADMIN"}),
    Roles(JwtAndRole, {"SUPER", "SUPPORT", "OWNER", "ADMIN", "MEMBER"}),
    Roles(JwtAndRole, {"OWNER"})}

UsersController == {
    Roles(JwtAndRole, {"SUPER", "OWNER"}),
    Roles(JwtAndRole, {"SUPER", "SUPPORT", "OWNER"}),
    Roles(JwtAndRole, {"SUPER", "SUPPORT", "OWNER", "ADMIN"})}

\* SchedulesController, under /workspaces/:workspace_id
SchedulesController == {
    Roles(ByRole, {"SUPER", "OWNER", "ADMIN"}),
    Roles(ByRole, {"SUPER", "OWNER", "ADMIN", "MEMBER"})}

RepositoriesController == {
    Roles(ByRole, {"SUPER", "OWNER"}),
    Roles(ByRole, {"SUPER", "OWNER", "ADMIN", "MEMBER"})}

AuditLogsController == {
    Roles(ByRole, {"SUPER"}),
    Roles(ByRole, {"SUPER", "OWNER"}),
    Roles(ByRole, {"SUPER", "OWNER", "ADMIN"}),
    Roles(ByRole, {"SUPER", "OWNER", "ADMIN", "MEMBER"})}

=============================================================================
