------------------------------- MODULE Guards --------------------------------
(***************************************************************************)
(* What a route of the API declares about its callers, and what the guards *)
(* of src/permissions, src/plans and src/common read out of a declaration  *)
(* and a request: the metadata the decorators set, the checks each guard   *)
(* makes for them and in which order, the identifiers each guard finds in  *)
(* the request, and the answers a check gives for given facts.  No state:  *)
(* module Access walks one request along its guards.                       *)
(*                                                                         *)
(* Metadata a decorator may set or not is a set of at most one element.    *)
(***************************************************************************)
EXTENDS Integers, Sequences, FiniteSets

CONSTANTS
    Permission, Feature,
    Plan,                           \* subscription plans
    PlanPermissions, PlanFeatures,  \* the tables of plan-permission.map.ts and plan-features.ts
    Workspace,
    Item,                           \* scans, schedules and repositories
    Home,                           \* the workspace of a scan or schedule
    Address,                        \* IP addresses
    Zone, ServerZone,               \* time zones, and the one the server's process runs in
    NoId, NoAddress

ASSUME GuardsAssumption ==
    /\ PlanPermissions \in [Plan -> SUBSET Permission]
    /\ PlanFeatures \in [Plan -> SUBSET Feature]
    /\ Home \in [Item -> Workspace]
    /\ Workspace \cap Item = {}
    /\ NoId \notin Workspace \cup Item
    /\ NoAddress \notin Address
    /\ ServerZone \in Zone

Id         == Workspace \cup Item
Hour       == 0..23
Role       == {"SUPER", "SUPPORT", "OWNER", "ADMIN", "MEMBER"}
MemberRole == {"ADMIN", "MEMBER"}
Guard      == {"PermissionGuard", "FeatureGuard", "LimitGuard", "JwtAuthGuard", "RolesGuard",
               "UnifiedPolicyGuard", "UnifiedAuthGuard", "ContextAwareGuard"}

-----------------------------------------------------------------------------
(* What the database says of the caller *)

\* The caller's row ("none" when it is gone), the permissions of the assigned roles with
\* their scope, what the caller owns and belongs to, whether the count of a limited
\* resource has reached the limit of the plan, and the hour it is in each time zone.
\* A deleted user's other rows are gone with it.
Facts ==
    {f \in [role : Role \cup {"none"}, plan : Plan,
            granted : SUBSET (Permission \X (Workspace \cup {NoId})),
            owns : SUBSET Id, belongs : SUBSET (Workspace \X MemberRole),
            full : BOOLEAN, hour : [Zone -> Hour]] :
        f.role = "none" => f.granted = {} /\ f.owns = {} /\ f.belongs = {}}

\* PermissionsService.userHasPermission
HasPermission(f, p, scope) ==
    \/ f.role = "SUPER"
    \/ f.role # "none" /\ <<p, NoId>> \in f.granted
    \/ f.role # "none" /\ scope # NoId /\ (<<p, scope>> \in f.granted \/ scope \in f.owns)

\* checkResourceOwnership: a scan or a schedule belongs to the owner of its workspace,
\* an unknown type to nobody
OwnsResource(f, type, id) ==
    \/ type \in {"WORKSPACE", "REPOSITORY"} /\ id \in f.owns
    \/ type \in {"SCAN", "SCHEDULE"} /\ id \in Item /\ Home[id] \in f.owns

-----------------------------------------------------------------------------
(* Requests: where a client may put an identifier *)

Place == {"params", "body", "query"}
Name  == {"workspaceId", "workspace_id", "itemId"}

\* bearer: a token the API has signed and that has not expired came along
Request == [bearer : BOOLEAN, names : [Place -> [Name -> Id \cup {NoId}]],
            from : Address \cup {NoAddress}]

\* The first of the names found in the first of the places that has one of them
Extract(req, places, names) ==
    LET At(i, j) == req.names[places[i]][names[j]]
        Hits == {h \in (DOMAIN places) \X (DOMAIN names) : At(h[1], h[2]) # NoId}
        First == CHOOSE h \in Hits : \A o \in Hits :
                    h[1] < o[1] \/ (h[1] = o[1] /\ h[2] <= o[2])
    IN  IF Hits = {} THEN NoId ELSE At(First[1], First[2])

\* The workspace each guard judges a permission in
PermissionScope(req) == Extract(req, <<"params", "body", "query">>, <<"workspaceId", "workspace_id">>)
PolicyScope(req)     == Extract(req, <<"params", "query", "body">>, <<"workspaceId">>)
ContextScope(req)    == Extract(req, <<"params", "body", "query">>, <<"workspace_id", "workspaceId">>)

ScopeOf(guard, req) ==
    CASE guard = "PermissionGuard"    -> PermissionScope(req)
      [] guard = "UnifiedPolicyGuard" -> PolicyScope(req)
      [] OTHER                        -> ContextScope(req)

\* The resource an ownership check is about; the spelling with _id appended is left out,
\* no declaration relies on it
ResourceOf(req, context) == Extract(req, <<"params", "body", "query">>, <<context.param>>)

\* Mutant of InWindow: an overnight window is read as one within a day.
InWindowNoWrap(window, hour) == hour >= window.start /\ hour < window.end

\* checkTimeRestriction, for the hour getHours() returns: the zone a window declares is
\* passed on to it and not used
InWindow(window, hour) ==
    IF window.start <= window.end THEN hour >= window.start /\ hour < window.end
                                  ELSE hour >= window.start \/ hour < window.end

\* An address nobody knows passes; a blocked one is refused even if it is allowed too
AddressAllowed(list, address) ==
    \/ address = NoAddress
    \/ address \notin list.blocked /\ (list.allowed = {} \/ address \in list.allowed)

-----------------------------------------------------------------------------
(* Declarations: the metadata a route's decorators set, and the guards they add *)

Optional(S) == {s \in SUBSET S : \A x, y \in s : x = y}

PermissionOptions == [codes : (SUBSET Permission) \ {{}}, all : BOOLEAN, super : BOOLEAN,
                      scoped : BOOLEAN]
FeatureOptions    == [names : (SUBSET Feature) \ {{}}, all : BOOLEAN, super : BOOLEAN]
LimitOptions      == [super : BOOLEAN]
PolicyOptions     == [code : Optional(Permission), names : SUBSET Feature, all : BOOLEAN,
                      limit : BOOLEAN, super : BOOLEAN]
Window            == [start : Hour, end : Hour, zone : Optional(Zone)]
AddressList       == [allowed : SUBSET Address, blocked : SUBSET Address]
ContextOptions    == [owner : BOOLEAN, type : STRING, param : Name, member : BOOLEAN,
                      window : Optional(Window), addresses : Optional(AddressList),
                      super : BOOLEAN]

Endpoint == [permission : Optional(PermissionOptions), feature : Optional(FeatureOptions),
             limit : Optional(LimitOptions), policy : Optional(PolicyOptions),
             context : Optional(ContextOptions), roles : Optional(SUBSET Role),
             guards : Seq(Guard)]

\* A route without decorators, in a controller with the given guards
Route(guards) ==
    [permission |-> {}, feature |-> {}, limit |-> {}, policy |-> {}, context |-> {},
     roles |-> {}, guards |-> guards]

UseGuards(e, guards) == [e EXCEPT !.guards = @ \o guards]
Roles(e, roles)      == [e EXCEPT !.roles = {roles}]
CheckLimit(e)        == [e EXCEPT !.limit = {[super |-> TRUE]}]
RequiresFeature(e, names) ==
    [e EXCEPT !.feature = {[names |-> names, all |-> TRUE, super |-> TRUE]}]
RequiresPermission(e, codes, all, scoped) ==
    [e EXCEPT !.permission =
        {[codes |-> codes, all |-> all, super |-> TRUE, scoped |-> scoped]}]
RequiresPolicy(e, code, names, limit) ==
    UseGuards([e EXCEPT !.policy =
        {[code |-> code, names |-> names, all |-> TRUE, limit |-> limit, super |-> TRUE]}],
        <<"UnifiedPolicyGuard">>)

\* What SecurityContext and Authorize take: nothing, ownership of the resource a
\* parameter names, or membership of the workspace; in a time window; from an address
Unchecked ==
    [owner |-> FALSE, type |-> "WORKSPACE", param |-> "workspaceId", member |-> FALSE,
     window |-> {}, addresses |-> {}, super |-> TRUE]
SecurityContext(e, context) ==
    UseGuards([e EXCEPT !.context = {context}], <<"ContextAwareGuard">>)

Authorize(e, codes, all, names, limit, context, super) ==
    UseGuards([e EXCEPT
        !.permission = IF codes = {} THEN @
                       ELSE {[codes |-> codes, all |-> all, super |-> super, scoped |-> FALSE]},
        !.policy = IF names = {} /\ ~limit THEN @
                   ELSE {[code |-> {}, names |-> names, all |-> TRUE, limit |-> limit,
                          super |-> super]},
        !.context = IF context.owner \/ context.member \/ context.window # {}
                           \/ context.addresses # {}
                    THEN {[context EXCEPT !.super = super]} ELSE @],
        <<"UnifiedAuthGuard">>)

-----------------------------------------------------------------------------
(* Guards: the checks each makes for a declaration *)

\* PolicyGuard, three guards in a row, is registered with APP_GUARD: a global guard runs
\* before the guards of the controller and of the method.  Without AppModule, as the
\* tests of docs/overview/testing-strategy.md mount a guard, only the latter run.
Chain(e, registered) ==
    IF registered THEN <<"PermissionGuard", "FeatureGuard", "LimitGuard">> \o e.guards
                  ELSE e.guards

\* The order of the checks within a guard
Rank == [token |-> 1, row |-> 2, membership |-> 3, ownership |-> 4, user |-> 5, scope |-> 6,
         super |-> 7, permissions |-> 8, code |-> 9, features |-> 10, limit |-> 11,
         owner |-> 12, workspace |-> 13, member |-> 14, window |-> 15, addresses |-> 16]

Kind == DOMAIN Rank

\* shouldAllowSuper
AllowSuper(e) ==
    \A o \in e.permission \cup e.policy \cup e.context : o.super

Only(cond, kinds) == IF cond THEN kinds ELSE {}

PolicyChecks(o) ==
    Only(o.code # {}, {"code"}) \cup Only(o.names # {}, {"features"}) \cup Only(o.limit, {"limit"})

ContextChecks(o) ==
    Only(o.owner, {"owner"}) \cup Only(o.member, {"workspace", "member"})
    \cup Only(o.window # {}, {"window"}) \cup Only(o.addresses # {}, {"addresses"})

\* RolesGuard reads the membership and the workspace only for a route with :workspace_id
RolesGuardChecks(e, req) ==
    Only(e.roles # {}, {"row"} \cup Only(req.names["params"]["workspace_id"] # NoId,
                                         {"membership", "ownership"}))

PermissionGuardChecks(e) ==
    UNION {{"user", "permissions"} \cup Only(o.scoped, {"scope"}) \cup Only(o.super, {"super"})
           : o \in e.permission}

FeatureGuardChecks(e) ==
    Only(e.feature # {} \/ e.limit # {}, {"user", "super"})
    \cup Only(e.feature # {}, {"features"}) \cup Only(e.limit # {}, {"limit"})

LimitGuardChecks(e) == UNION {{"user", "limit"} \cup Only(o.super, {"super"}) : o \in e.limit}

UnifiedPolicyGuardChecks(e) == UNION {{"user", "super"} \cup PolicyChecks(o) : o \in e.policy}

ContextAwareGuardChecks(e) ==
    UNION {{"user"} \cup Only(o.super, {"super"}) \cup ContextChecks(o) : o \in e.context}

UnifiedAuthGuardChecks(e) ==
    Only(e.permission # {} \/ e.policy # {} \/ e.context # {}, {"user", "super"})
    \cup Only(e.permission # {}, {"permissions"})
    \cup (UNION {PolicyChecks(o) : o \in e.policy})
    \cup (UNION {ContextChecks(o) : o \in e.context})

Checks(guard, e, req) ==
    CASE guard = "JwtAuthGuard"       -> {"token"}
      [] guard = "RolesGuard"         -> RolesGuardChecks(e, req)
      [] guard = "PermissionGuard"    -> PermissionGuardChecks(e)
      [] guard = "FeatureGuard"       -> FeatureGuardChecks(e)
      [] guard = "LimitGuard"         -> LimitGuardChecks(e)
      [] guard = "UnifiedPolicyGuard" -> UnifiedPolicyGuardChecks(e)
      [] guard = "ContextAwareGuard"  -> ContextAwareGuardChecks(e)
      [] guard = "UnifiedAuthGuard"   -> UnifiedAuthGuardChecks(e)

\* The checks a SUPER user is spared by this guard
Spared(guard, e) ==
    CASE guard = "FeatureGuard" ->
            (UNION {Only(o.super, {"features"}) : o \in e.feature})
            \cup (UNION {Only(o.super, {"limit"}) : o \in e.limit})
      [] guard = "UnifiedPolicyGuard" -> Only(\A o \in e.policy : o.super, Kind)
      [] guard = "UnifiedAuthGuard"   -> Only(AllowSuper(e), Kind)
      [] OTHER                        -> Kind

\* Where the guards take the caller's id from: the strategy of JwtAuthGuard sets id,
\* RolesGuard replaces the user by the token's payload, which has only sub.
Accepts(guard, user) ==
    \/ user = "id"
    \/ user = "sub" /\ guard \in {"PermissionGuard", "FeatureGuard"}

=============================================================================
