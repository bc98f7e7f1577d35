------------------------------- MODULE Access --------------------------------
(***************************************************************************)
(* One request on its way through the guards of its route.  A check that   *)
(* reads the database or a cache is an await of its own: between two       *)
(* checks the caller's role, roles, plan, workspaces and usage may change, *)
(* and each lookup may fail.                                               *)
(*                                                                         *)
(* PermissionsService and PlansService answer from caches.  Here they may  *)
(* answer as of any facts since the request began, or as of the facts some *)
(* time before; how far before is the business of modules Roles and Plans. *)
(***************************************************************************)
EXTENDS Guards, FiniteSets

CONSTANTS
    Routes,     \* the declared routes
    Requests,   \* what clients may send
    Cases,      \* what the database may say of the caller
    MaxChanges, MaxFaults  \* bounds on changes of the facts and on failing kinds of lookups

ASSUME AccessAssumption ==
    /\ Routes \subseteq Endpoint
    /\ Requests \subseteq Request
    /\ Cases \subseteq Facts
    \* The decorators of a policy and of a security context bring the guard along.
    /\ \A e \in Routes :
        /\ e.policy # {} =>
            \E i \in DOMAIN e.guards : e.guards[i] \in {"UnifiedPolicyGuard", "UnifiedAuthGuard"}
        /\ e.context # {} =>
            \E i \in DOMAIN e.guards : e.guards[i] \in {"ContextAwareGuard", "UnifiedAuthGuard"}
    /\ MaxChanges \in Nat
    /\ MaxFaults \in Nat

VARIABLES
    registered,  \* whether AppModule has registered its global guards
    route, request,
    before,   \* the facts as they were when a cache entry still in use was filled
    facts,    \* the facts now
    seen,     \* history: the facts since the request began
    todo,     \* the checks the guards still have to make
    user,     \* what the request carries as its user
    fits,     \* what RolesGuard has found so far
    stage, answer,
    failed,   \* history: the kinds of lookups that failed
    changes   \* the budget already used

vars == <<registered, route, request, before, facts, seen, todo, user, fits, stage, answer, failed, changes>>
given == <<registered, route, request, before>>

Check == [at : Nat, kind : Kind]

\* Kinds of checks that wait for the database or a cache
Lookup == {"row", "membership", "ownership", "super", "permissions", "code", "features",
           "limit", "owner", "workspace", "member"}

TypeOK ==
    /\ registered \in BOOLEAN
    /\ route \in Routes
    /\ request \in Requests
    /\ before \in Cases
    /\ facts \in Cases
    /\ seen \subseteq Cases /\ facts \in seen
    /\ todo \subseteq Check
    /\ user \in {"nobody", "id", "sub"}
    /\ fits \in BOOLEAN
    /\ stage \in {"guards", "handler", "refused"}
    /\ answer \in {0, 200, 401, 403}
    /\ failed \subseteq Lookup
    /\ changes \in 0..MaxChanges

\* Every check of every guard
Due(chain, r, req) ==
    {c \in [at : DOMAIN chain, kind : Kind] : c.kind \in Checks(chain[c.at], r, req)}

Init ==
    /\ registered \in BOOLEAN
    /\ route \in Routes
    /\ request \in Requests
    /\ before \in Cases
    /\ facts \in Cases
    /\ seen = {facts}
    /\ todo = Due(Chain(route, registered), route, request)
    /\ user = "nobody"
    /\ fits = FALSE
    /\ stage = "guards"
    /\ answer = 0
    /\ failed = {}
    /\ changes = 0

GuardOf(c) == Chain(route, registered)[c.at]

\* The next check: the guards run one after the other, and so do the checks of a guard.
Turn(c, kind) ==
    /\ stage = "guards"
    /\ c.kind = kind
    /\ \A d \in todo : c.at < d.at \/ (c.at = d.at /\ Rank[c.kind] <= Rank[d.kind])

Refuse(code) ==
    /\ stage' = "refused"
    /\ answer' = code
    /\ todo' = {}

Pass(checks) ==
    /\ todo' = todo \ checks
    /\ UNCHANGED <<stage, answer>>

Settle(c, ok, code) == IF ok THEN Pass({c}) ELSE Refuse(code)

\* What a cache may still tell
told == seen \cup {before}

\* The workspace in the path
Here == request.names["params"]["workspace_id"]

-----------------------------------------------------------------------------
(* Who is calling *)

\* JwtAuthGuard: the token, verified by passport
CheckToken(c) ==
    /\ Turn(c, "token")
    /\ Settle(c, request.bearer, 401)
    /\ user' = IF request.bearer THEN "id" ELSE user
    /\ UNCHANGED <<given, facts, seen, fits, failed, changes>>

CheckUser(c) ==
    /\ Turn(c, "user")
    /\ Settle(c, Accepts(GuardOf(c), user), 401)
    /\ UNCHANGED <<given, facts, seen, user, fits, failed, changes>>

\* A SUPER user is spared the other checks of a guard that allows it.
CheckSuper(c) ==
    /\ Turn(c, "super")
    /\ Pass({c} \cup {d \in todo : facts.role = "SUPER" /\ d.at = c.at
                                   /\ d.kind \in Spared(GuardOf(c), route)})
    /\ UNCHANGED <<given, facts, seen, user, fits, failed, changes>>

\* Mutant of CheckRow: the payload is set before the token is verified.
CheckRowUnverified(c) ==
    /\ Turn(c, "row")
    /\ fits' = (\E roles \in route.roles : facts.role \in roles)
    /\ user' = "unverified"
    /\ Settle(c, request.bearer /\ facts.role # "none" /\ (fits' \/ Here # NoId), 403)
    /\ UNCHANGED <<given, facts, seen, failed, changes>>

\* RolesGuard: the token and the user's row; without :workspace_id that decides.
CheckRow(c) ==
    /\ Turn(c, "row")
    /\ fits' = (\E roles \in route.roles : facts.role \in roles)
    /\ user' = IF request.bearer THEN "sub" ELSE user
    /\ Settle(c, request.bearer /\ facts.role # "none"
                 /\ (fits' \/ Here # NoId), 403)
    /\ UNCHANGED <<given, facts, seen, failed, changes>>

CheckMembershipRole(c) ==
    /\ Turn(c, "membership")
    /\ fits' = (fits \/ \E roles \in route.roles, r \in MemberRole :
                    r \in roles /\ <<Here, r>> \in facts.belongs)
    /\ Pass({c})
    /\ UNCHANGED <<given, facts, seen, user, failed, changes>>

CheckOwnership(c) ==
    /\ Turn(c, "ownership")
    /\ Settle(c, fits \/ Here \in facts.owns, 403)
    /\ UNCHANGED <<given, facts, seen, user, fits, failed, changes>>

-----------------------------------------------------------------------------
(* What the caller may do, by role and by plan *)

CheckScope(c) ==
    /\ Turn(c, "scope")
    /\ Settle(c, ScopeOf(GuardOf(c), request) # NoId, 403)
    /\ UNCHANGED <<given, facts, seen, user, fits, failed, changes>>

\* userHasAllPermissions and userHasAnyPermission ask for one code after the other.
CheckPermissions(c) ==
    /\ Turn(c, "permissions")
    /\ \E o \in route.permission : \E as \in [o.codes -> told] :
        LET Held(p) == HasPermission(as[p], p, ScopeOf(GuardOf(c), request))
        IN  Settle(c, IF o.all THEN \A p \in o.codes : Held(p) ELSE \E p \in o.codes : Held(p),
                   403)
    /\ UNCHANGED <<given, facts, seen, user, fits, failed, changes>>

\* A policy's code must be in the roles and in the plan.
CheckCode(c) ==
    /\ Turn(c, "code")
    /\ \E o \in route.policy, f \in told, g \in told :
        Settle(c, \A p \in o.code : /\ HasPermission(f, p, ScopeOf(GuardOf(c), request))
                                    /\ p \in PlanPermissions[g.plan], 403)
    /\ UNCHANGED <<given, facts, seen, user, fits, failed, changes>>

FeatureRules(guard) == IF guard = "FeatureGuard" THEN route.feature ELSE route.policy

CheckFeatures(c) ==
    /\ Turn(c, "features")
    /\ \E o \in FeatureRules(GuardOf(c)), f \in told :
        Settle(c, IF o.all THEN o.names \subseteq PlanFeatures[f.plan]
                  ELSE o.names \cap PlanFeatures[f.plan] # {}, 403)
    /\ UNCHANGED <<given, facts, seen, user, fits, failed, changes>>

\* The plan comes from the cache, the count from the database.
CheckLimits(c) ==
    /\ Turn(c, "limit")
    /\ \E f \in told : Settle(c, ~f.full, 403)
    /\ UNCHANGED <<given, facts, seen, user, fits, failed, changes>>

-----------------------------------------------------------------------------
(* Where and when: the security context *)

CheckOwner(c) ==
    /\ Turn(c, "owner")
    /\ \E o \in route.context :
        Settle(c, ResourceOf(request, o) # NoId
                  /\ OwnsResource(facts, o.type, ResourceOf(request, o)), 403)
    /\ UNCHANGED <<given, facts, seen, user, fits, failed, changes>>

\* checkWorkspaceMembership: the owner needs no membership row
CheckWorkspace(c) ==
    /\ Turn(c, "workspace")
    /\ LET w == ScopeOf(GuardOf(c), request)
       IN  IF w = NoId THEN Refuse(403)
           ELSE Pass({c} \cup {d \in todo : w \in facts.owns /\ d.at = c.at /\ d.kind = "member"})
    /\ UNCHANGED <<given, facts, seen, user, fits, failed, changes>>

CheckMember(c) ==
    /\ Turn(c, "member")
    /\ Settle(c, \E r \in MemberRole : <<ScopeOf(GuardOf(c), request), r>> \in facts.belongs, 403)
    /\ UNCHANGED <<given, facts, seen, user, fits, failed, changes>>

\* By the hour of the server's own zone, whatever zone the window declares
CheckWindow(c) ==
    /\ Turn(c, "window")
    /\ \E o \in route.context :
        Settle(c, \A w \in o.window : InWindow(w, facts.hour[ServerZone]), 403)
    /\ UNCHANGED <<given, facts, seen, user, fits, failed, changes>>

CheckAddresses(c) ==
    /\ Turn(c, "addresses")
    /\ \E o \in route.context :
        Settle(c, \A list \in o.addresses : AddressAllowed(list, request.from), 403)
    /\ UNCHANGED <<given, facts, seen, user, fits, failed, changes>>

-----------------------------------------------------------------------------
(* Failures, and the world outside *)

\* Mutant of Fails: every lookup that fails lets the request pass.
FailsOpen(c) ==
    /\ \E kind \in Lookup : Turn(c, kind)
    /\ Cardinality(failed) < MaxFaults
    /\ Pass({c})
    /\ failed' = failed \cup {c.kind}
    /\ UNCHANGED <<given, facts, seen, user, fits, changes>>

\* A failing lookup refuses the request, with two exceptions: a role that cannot be read
\* is not SUPER, and a limit that cannot be checked is not reached.
Fails(c) ==
    /\ \E kind \in Lookup : Turn(c, kind)
    /\ Cardinality(failed) < MaxFaults
    /\ Settle(c, c.kind \in {"super", "limit"}, 403)
    /\ failed' = failed \cup {c.kind}
    /\ UNCHANGED <<given, facts, seen, user, fits, changes>>

Admit ==
    /\ stage = "guards" /\ todo = {}
    /\ stage' = "handler"
    /\ answer' = 200
    /\ UNCHANGED <<given, facts, seen, todo, user, fits, failed, changes>>

Change(f) ==
    /\ stage = "guards" /\ f # facts
    /\ changes < MaxChanges
    /\ changes' = changes + 1
    /\ facts' = f
    /\ seen' = seen \cup {f}
    /\ UNCHANGED <<given, todo, user, fits, stage, answer, failed>>

Next ==
    \/ \E c \in todo :
        \/ CheckToken(c) \/ CheckUser(c) \/ CheckSuper(c)
        \/ CheckRow(c) \/ CheckMembershipRole(c) \/ CheckOwnership(c)
        \/ CheckScope(c) \/ CheckPermissions(c) \/ CheckCode(c) \/ CheckFeatures(c)
        \/ CheckLimits(c) \/ CheckOwner(c) \/ CheckWorkspace(c) \/ CheckMember(c)
        \/ CheckWindow(c) \/ CheckAddresses(c) \/ Fails(c)
    \/ Admit
    \/ \E f \in Cases : Change(f)

Spec == Init /\ [][Next]_vars

-----------------------------------------------------------------------------
(* Properties *)

Guarded(guard) ==
    \E i \in DOMAIN Chain(route, registered) : Chain(route, registered)[i] = guard

Named(names) == {request.names[p][n] : p \in Place, n \in names} \ {NoId}

\* The workspaces a permission may be judged in: one the request names in a spelling the
\* guard reads, or none if there is no such name
Judged(guard) ==
    LET named == Named(IF guard = "UnifiedPolicyGuard" THEN {"workspaceId"}
                       ELSE {"workspaceId", "workspace_id"})
    IN  IF named = {} THEN {NoId} ELSE named

AnyOrAll(all, S, T) == IF all THEN S \subseteq T ELSE S \cap T # {}

\* A declaration, requirement by requirement, as the decorators' comments give it: as
\* the facts f decide it
HoldsRoles(roles, f) ==
    \/ f.role \in roles
    \/ Here # NoId /\ (Here \in f.owns \/ \E r \in roles : <<Here, r>> \in f.belongs)
HoldsAt(window, hour) ==
    \E i \in 0..((window.end - window.start) % 24) - 1 : hour = (window.start + i) % 24
HoldsWindow(window, f) ==
    \A zone \in window.zone \cup Only(window.zone = {}, {ServerZone}) : HoldsAt(window, f.hour[zone])
HoldsMember(f, s) == s \in f.owns \/ \E r \in MemberRole : <<s, r>> \in f.belongs

HoldsAddress(list) ==
    \/ request.from = NoAddress
    \/ request.from \notin list.blocked /\ (list.allowed # {} => request.from \in list.allowed)

\* The server's clock puts the hour on the other side of the window than the zone the
\* declaration names.
Misread(window, f) == HoldsAt(window, f.hour[ServerZone]) # HoldsWindow(window, f)

\* A SUPER caller is spared what a declaration asks for, if it says so; UnifiedAuthGuard
\* allows it only if every declaration it reads does.
Exempt(o, states) == o.super /\ \E f \in states : f.role = "SUPER"
FullyExempt(o, states) ==
    Exempt(o, states) /\ (Guarded("UnifiedAuthGuard") => AllowSuper(route))

PermissionGuards == {g \in {"PermissionGuard", "UnifiedAuthGuard"} : Guarded(g)}
PolicyGuards     == {g \in {"UnifiedPolicyGuard", "UnifiedAuthGuard"} : Guarded(g)}
LimitGuards      == {g \in {"FeatureGuard", "LimitGuard"} : Guarded(g)}

AdmittedByPermission(o) ==
    /\ o.scoped /\ Guarded("PermissionGuard") => NoId \notin Judged("PermissionGuard")
    /\ \A g \in PermissionGuards :
        LET Held(p) == \E s \in Judged(g), f \in told : HasPermission(f, p, s)
        IN  IF o.all THEN \A p \in o.codes : Held(p) ELSE \E p \in o.codes : Held(p)

HasFeatures(o) == \E f \in told : AnyOrAll(o.all, o.names, PlanFeatures[f.plan])
BelowLimit     == "limit" \in failed \/ \E f \in told : ~f.full

AdmittedByPolicy(o) ==
    \/ FullyExempt(o, seen)
    \/ /\ \A p \in o.code, g \in PolicyGuards :
            \E s \in Judged(g), f \in told : HasPermission(f, p, s)
       /\ \A p \in o.code : \E f \in told : p \in PlanPermissions[f.plan]
       /\ o.names # {} => HasFeatures(o)
       /\ o.limit => BelowLimit

AdmittedByContext(o) ==
    \/ FullyExempt(o, seen)
    \/ /\ o.owner => \E id \in Named({o.param}), f \in seen : OwnsResource(f, o.type, id)
       /\ o.member => \E s \in Judged("ContextAwareGuard"), f \in seen : HoldsMember(f, s)
       /\ \A w \in o.window : \E f \in seen : HoldsWindow(w, f) \/ Misread(w, f)
       /\ \A list \in o.addresses : HoldsAddress(list)

\* A handler runs only for a caller who met each requirement of the route, or was exempt
\* from it as SUPER, at some moment since the request began; roles and plans may be those
\* a cache still held, and a limit that could not be checked counts as not reached.  A
\* time window may have been misread on a server outside the zone it declares.
AdmittedOnlyIfEntitled ==
    stage = "handler" =>
        /\ Guarded("JwtAuthGuard") => request.bearer
        /\ Guarded("RolesGuard") =>
                \A roles \in route.roles : request.bearer /\ \E f \in seen : HoldsRoles(roles, f)
        /\ \A o \in route.permission : AdmittedByPermission(o)
        /\ Guarded("FeatureGuard") => \A o \in route.feature : Exempt(o, seen) \/ HasFeatures(o)
        /\ LimitGuards # {} => \A o \in route.limit : Exempt(o, seen) \/ BelowLimit
        /\ \A o \in route.policy : AdmittedByPolicy(o)
        /\ \A o \in route.context : AdmittedByContext(o)

LacksPermission(o) ==
    LET Lacks(p) == \E g \in PermissionGuards : \E s \in Judged(g) : ~HasPermission(facts, p, s)
    IN  \/ o.scoped /\ Guarded("PermissionGuard") /\ NoId \in Judged("PermissionGuard")
        \/ IF o.all THEN \E p \in o.codes : Lacks(p) ELSE \A p \in o.codes : Lacks(p)

LacksFeature(o) == ~AnyOrAll(o.all, o.names, PlanFeatures[facts.plan])

LacksPolicy(o) ==
    /\ ~FullyExempt(o, {facts})
    /\ \/ \E p \in o.code : \/ p \notin PlanPermissions[facts.plan]
                           \/ \E g \in PolicyGuards : \E s \in Judged(g) : ~HasPermission(facts, p, s)
       \/ o.names # {} /\ LacksFeature(o)
       \/ o.limit /\ facts.full

LacksContext(o) ==
    /\ ~FullyExempt(o, {facts})
    /\ \/ o.owner /\ (Named({o.param}) = {}
                      \/ \E id \in Named({o.param}) : ~OwnsResource(facts, o.type, id))
       \/ o.member /\ \E s \in Judged("ContextAwareGuard") : ~HoldsMember(facts, s)
       \/ \E w \in o.window : ~HoldsWindow(w, facts)
       \/ \E list \in o.addresses : ~HoldsAddress(list)

\* As the facts are, the caller lacks something that a guard of the route asks for: a token,
\* a role, a permission, a feature, room below a limit, what a policy or a context says.
Lacking ==
    \/ ~request.bearer /\ (Guarded("JwtAuthGuard") \/ (Guarded("RolesGuard") /\ route.roles # {}))
    \/ Guarded("RolesGuard") /\ \E roles \in route.roles : ~HoldsRoles(roles, facts)
    \/ \E o \in route.permission : LacksPermission(o)
    \/ Guarded("FeatureGuard") /\ \E o \in route.feature : ~Exempt(o, {facts}) /\ LacksFeature(o)
    \/ LimitGuards # {} /\ \E o \in route.limit : ~Exempt(o, {facts}) /\ facts.full
    \/ \E o \in route.policy : LacksPolicy(o)
    \/ \E o \in route.context : LacksContext(o)

\* The guards of a request that declares something find no user: nobody has put one there,
\* or RolesGuard has put there what they do not recognise.
Unrecognised ==
    /\ route.permission \cup route.feature \cup route.limit \cup route.policy \cup route.context # {}
    /\ user # "id"

\* A window of the route that the caller is not exempt from is misread.
Misjudged ==
    \E o \in route.context : ~FullyExempt(o, {facts}) /\ \E w \in o.window : Misread(w, facts)

\* While nothing changes and no lookup fails, a refused caller lacked something a guard of
\* the route asks for and does not spare a SUPER caller; or no guard had told the others
\* who it was; or it came within the hours the route declares, but not by the server's
\* clock.
RefusedOnlyForCause ==
    stage = "refused" /\ told = {facts} /\ failed = {} => Lacking \/ Unrecognised \/ Misjudged

\* The controllers that describe their answers promise a caller with a token success, 403
\* or the handler's 404 (scans.controller.ts:23-25, roles.controller.ts:36): in the
\* application, a valid token is not answered with 401.
DocumentedAnswers == registered /\ request.bearer => answer \in {0, 200, 403}

=============================================================================
