------------------------------- MODULE Plans ---------------------------------
(***************************************************************************)
(* The plan of a user, its cached copy (PlansService), BillingService      *)
(* .updateUserPlan, and the daily scan limit that ScanService checks       *)
(* before it makes a scan.  Every await is a boundary between two actions. *)
(*                                                                         *)
(* A scan is counted for the owner of its workspace, whoever asks for it.  *)
(* The monthly limit is checked like the daily one.  Prices, the texts and *)
(* the statistics read from the usage log are left out.                    *)
(***************************************************************************)
EXTENDS Integers, FiniteSets

CONSTANTS
    User,
    Plan, Starter,       \* the plans, and the one a missing user has
    LimitOf,             \* PLAN_LIMITS: scans per day
    Advanced,            \* PLAN_FEATURES: the plans with advanced scans
    Owners,              \* the users who own a workspace, and cannot be removed
    None,                \* null
    Task,                \* slots for concurrent requests
    MaxRequests, MaxFaults, MaxChanges   \* bounds on clients, failures, other events

ASSUME PlansAssumption ==
    /\ Starter \in Plan
    /\ LimitOf \in [Plan -> Nat]
    /\ Advanced \subseteq Plan
    /\ Owners \subseteq User
    /\ None \notin User \cup Plan
    /\ IsFiniteSet(Task) /\ Task # {}
    /\ MaxRequests \in Nat /\ MaxFaults \in Nat /\ MaxChanges \in Nat

VARIABLES
    plan,      \* users.plan, or None when the user is removed
    cache,     \* the cached plans, None where there is no entry
    scans,     \* the scans made today in the workspaces of an owner
    task,      \* what each slot is doing
    trace,     \* history: what the request of a slot has done, and that an await failed
    excuse,    \* history: why a cached plan may disagree with the row
    had,       \* history: the plans a reader of the row can have found
    granted,   \* history: the highest limit a user's scans were checked against
    free,      \* history: the scans of today that no check of their owner's count covers
    requests, faults, changes  \* the budgets already used

history == <<trace, excuse, had, granted, free>>
budgets == <<requests, faults, changes>>
vars    == <<plan, cache, scans, task, history, budgets>>

\* A request slot: what it asks for and its next await; who asks, and whose workspace the
\* scan is for; the plan it has found or will write; whether the limit was checked.
TaskState ==
    [op : {"none", "look", "scan", "advanced", "update"},
     step : {"idle", "get", "read", "set", "count", "create", "track", "find", "write",
             "clear", "audit", "done"},
     phase : {"feature", "limit"}, user : User \cup {None}, owner : User \cup {None},
     plan : Plan \cup {None}, checked : BOOLEAN, answer : {0, 200, 201, 400, 403, 404, 500}]

Free == [op |-> "none", step |-> "idle", phase |-> "feature", user |-> None, owner |-> None,
         plan |-> None, checked |-> FALSE, answer |-> 0]

TypeOK ==
    /\ plan \in [User -> Plan \cup {None}]
    /\ cache \in [User -> Plan \cup {None}]
    /\ scans \in [User -> Nat]
    /\ task \in [Task -> TaskState]
    /\ \A t \in Task : task[t].step \in {"set", "count", "write"} => task[t].plan # None
    /\ trace \in [Task -> SUBSET {"written", "cleared", "audited", "made", "logged", "failed"}]
    /\ excuse \in [User -> SUBSET {"overlap", "failed", "direct"}]
    /\ had \in [User -> SUBSET Plan]
    /\ granted \in [User -> Nat] /\ free \in [User -> Nat]
    /\ requests \in 0..MaxRequests /\ faults \in 0..MaxFaults /\ changes \in 0..MaxChanges

\* Owners have made some of the scans their plan allows already.
Init ==
    /\ plan \in [User -> Plan]
    /\ cache = [u \in User |-> None]
    /\ scans \in {s \in [User -> UNION {0..LimitOf[p] : p \in Plan}] :
                    \A u \in User : s[u] <= (IF u \in Owners THEN LimitOf[plan[u]] ELSE 0)}
    /\ task = [t \in Task |-> Free]
    /\ trace = [t \in Task |-> {}]
    /\ excuse = [u \in User |-> {}]
    /\ had = [u \in User |-> {plan[u]}]
    /\ granted = [u \in User |-> LimitOf[plan[u]]]
    /\ free = [u \in User |-> 0]
    /\ requests = 0 /\ faults = 0 /\ changes = 0

\* What a read of the row finds
Found(u)  == IF plan[u] = None THEN Starter ELSE plan[u]
Stale(u)  == cache[u] # None /\ cache[u] # Found(u)

\* An answered request keeps what it has asked for.
Over(k, code) == [op |-> k.op, step |-> "done", phase |-> "feature", user |-> k.user,
                  owner |-> None, plan |-> None, checked |-> FALSE, answer |-> code]

On(t, step)        == task' = [task EXCEPT ![t].step = step]
Reply(t, code)     == task' = [task EXCEPT ![t] = Over(@, code)]
Did(t, what)       == trace' = [trace EXCEPT ![t] = @ \cup {what}]

Starts(t, rec) ==
    /\ task[t].step \in {"idle", "done"}
    /\ requests < MaxRequests
    /\ requests' = requests + 1
    /\ task' = [task EXCEPT ![t] = rec]
    /\ trace' = [trace EXCEPT ![t] = {}]
    /\ UNCHANGED <<plan, cache, scans, excuse, had, granted, free, faults, changes>>

-----------------------------------------------------------------------------
(* getUserPlan, and what is decided with the plan *)

\* userHasFeature, userHasFeatures and getUserPlanDetails change nothing but the cache.
Look(t, u) ==
    Starts(t, [Free EXCEPT !.op = "look", !.step = "get", !.user = u])

\* Mutant of Decide: the feature is taken for granted.
DecideLimitOnly(k, p) ==
    IF k.op = "look" THEN Over(k, 200)
    ELSE IF k.phase = "limit" THEN [k EXCEPT !.step = "count", !.plan = p]
    ELSE [k EXCEPT !.step = "get", !.phase = "limit"]

\* createAdvancedScan asks for the plan twice: for the feature, then for the limit.
Decide(k, p) ==
    IF k.op = "look" THEN Over(k, 200)
    ELSE IF k.phase = "limit" THEN [k EXCEPT !.step = "count", !.plan = p]
    ELSE IF p \in Advanced THEN [k EXCEPT !.step = "get", !.phase = "limit"]
    ELSE Over(k, 403)

GetPlan(t) ==
    LET k == task[t]  p == cache[k.user] IN
    /\ k.step = "get"
    /\ task' = [task EXCEPT ![t] = IF p = None THEN [@ EXCEPT !.step = "read"]
                                   ELSE Decide(k, p)]
    /\ UNCHANGED <<plan, cache, scans, history, budgets>>

\* Mutant of ReadPlan: a user without a row has no plan, and none is cached.
ReadPlanOrNone(t) ==
    /\ task[t].step = "read"
    /\ task' = [task EXCEPT ![t].step = "set", ![t].plan = plan[task[t].user]]
    /\ UNCHANGED <<plan, cache, scans, history, budgets>>

ReadPlan(t) ==
    /\ task[t].step = "read"
    /\ task' = [task EXCEPT ![t].step = "set", ![t].plan = Found(task[t].user)]
    /\ UNCHANGED <<plan, cache, scans, history, budgets>>

SetPlan(t) ==
    LET k == task[t] IN
    /\ k.step = "set"
    /\ cache' = [cache EXCEPT ![k.user] = k.plan]
    /\ excuse' = [excuse EXCEPT ![k.user] = IF k.plan = Found(k.user) THEN {} ELSE {"overlap"}]
    /\ task' = [task EXCEPT ![t] = Decide(k, k.plan)]
    /\ UNCHANGED <<plan, scans, trace, had, granted, free, budgets>>

\* The entry's time is up: CACHE_TTL, 300, which cache-manager takes for milliseconds.
Expire(u) ==
    /\ cache[u] # None
    /\ cache' = [cache EXCEPT ![u] = None]
    /\ excuse' = [excuse EXCEPT ![u] = {}]
    /\ UNCHANGED <<plan, scans, task, trace, had, granted, free, budgets>>

-----------------------------------------------------------------------------
(* ScanService *)

\* createScan checks nothing.
CreateScan(t, u, o) ==
    Starts(t, [Free EXCEPT !.op = "scan", !.step = "create", !.user = u, !.owner = o])

CreateAdvancedScan(t, u, o) ==
    Starts(t, [Free EXCEPT !.op = "advanced", !.step = "get", !.user = u, !.owner = o])

\* Mutant of Below: the limit itself is still below.
BelowOrAt(n, limit) == n <= limit

\* checkUsageLimit: current < limit
Below(n, limit) == n < limit

\* The count is the caller's: the scans in the workspaces the caller owns.
Count(t) ==
    LET k == task[t] IN
    /\ k.step = "count"
    /\ \/ /\ Below(scans[k.user], LimitOf[k.plan])
          /\ task' = [task EXCEPT ![t].step = "create", ![t].checked = TRUE]
          /\ granted' = [granted EXCEPT ![k.user] =
                            IF LimitOf[k.plan] > @ THEN LimitOf[k.plan] ELSE @]
       \/ /\ ~Below(scans[k.user], LimitOf[k.plan])
          /\ Reply(t, 403)
          /\ UNCHANGED granted
    /\ UNCHANGED <<plan, cache, scans, trace, excuse, had, free, budgets>>

\* A scan that no check of its owner's count has let through
IsFree(k) == ~k.checked \/ k.user # k.owner

Create(t) ==
    LET k == task[t] IN
    /\ k.step = "create"
    /\ scans' = [scans EXCEPT ![k.owner] = @ + 1]
    /\ free' = [free EXCEPT ![k.owner] = IF IsFree(k) THEN @ + 1 ELSE @]
    /\ On(t, "track")
    /\ Did(t, "made")
    /\ UNCHANGED <<plan, cache, excuse, had, granted, budgets>>

\* trackUsage swallows every error, that of a missing user among them.
Track(t) ==
    LET k == task[t] IN
    /\ k.step = "track"
    /\ Reply(t, 201)
    /\ IF plan[k.user] # None THEN Did(t, "logged") ELSE Did(t, "failed")
    /\ UNCHANGED <<plan, cache, scans, excuse, had, granted, free, budgets>>

\* ScansService.create and the jobs of schedules make scans without any of this.
ScanUnchecked(o) ==
    /\ changes < MaxChanges
    /\ changes' = changes + 1
    /\ scans' = [scans EXCEPT ![o] = @ + 1]
    /\ free' = [free EXCEPT ![o] = @ + 1]
    /\ UNCHANGED <<plan, cache, task, trace, excuse, had, granted, requests, faults>>

\* ScansService.remove, of a scan of today, covered by a check or not.
DeleteScan(o) ==
    /\ changes < MaxChanges
    /\ changes' = changes + 1
    /\ scans[o] > 0
    /\ scans' = [scans EXCEPT ![o] = @ - 1]
    /\ \/ scans[o] > free[o] /\ UNCHANGED free
       \/ free[o] > 0 /\ free' = [free EXCEPT ![o] = @ - 1]
    /\ UNCHANGED <<plan, cache, task, trace, excuse, had, granted, requests, faults>>

Midnight ==
    /\ changes < MaxChanges
    /\ changes' = changes + 1
    /\ scans' = [u \in User |-> 0]
    /\ free' = [u \in User |-> 0]
    /\ UNCHANGED <<plan, cache, task, trace, excuse, had, granted, requests, faults>>

-----------------------------------------------------------------------------
(* BillingService.updateUserPlan *)

Update(t, u, p) ==
    Starts(t, [Free EXCEPT !.op = "update", !.step = "find", !.user = u, !.plan = p])

\* The requester is the user, or may be a SUPER user.
FindUser(t) ==
    /\ task[t].step = "find"
    /\ \/ plan[task[t].user] = None /\ Reply(t, 404)
       \/ plan[task[t].user] # None /\ Reply(t, 403)
       \/ plan[task[t].user] # None /\ On(t, "write")
    /\ UNCHANGED <<plan, cache, scans, history, budgets>>

WritePlan(t) ==
    LET k == task[t] IN
    /\ k.step = "write"
    /\ \/ /\ plan[k.user] # None
          /\ plan' = [plan EXCEPT ![k.user] = k.plan]
          /\ had' = [had EXCEPT ![k.user] = @ \cup {k.plan}]
          /\ On(t, "clear")
          /\ Did(t, "written")
       \/ /\ plan[k.user] = None
          /\ Reply(t, 400)
          /\ UNCHANGED <<plan, had, trace>>
    /\ UNCHANGED <<cache, scans, excuse, granted, free, budgets>>

\* Mutant of ClearPlan: the plan is cleared for the one who asked, another user.
ClearPlanOfAnother(t) ==
    /\ task[t].step = "clear"
    /\ \E u \in User :
        /\ cache' = [cache EXCEPT ![u] = None]
        /\ excuse' = [excuse EXCEPT ![u] = {}]
    /\ On(t, "audit")
    /\ Did(t, "cleared")
    /\ UNCHANGED <<plan, scans, had, granted, free, budgets>>

ClearPlan(t) ==
    /\ task[t].step = "clear"
    /\ cache' = [cache EXCEPT ![task[t].user] = None]
    /\ excuse' = [excuse EXCEPT ![task[t].user] = {}]
    /\ On(t, "audit")
    /\ Did(t, "cleared")
    /\ UNCHANGED <<plan, scans, had, granted, free, budgets>>

\* The audit row refers to the requester, who may be the user and removed by now.
AuditPlan(t) ==
    /\ task[t].step = "audit"
    /\ \/ Reply(t, 200) /\ Did(t, "audited")
       \/ plan[task[t].user] = None /\ Reply(t, 400) /\ Did(t, "failed")
    /\ UNCHANGED <<plan, cache, scans, excuse, had, granted, free, budgets>>

-----------------------------------------------------------------------------
(* Awaits that reject, and writes that clear nothing *)

\* Mutant of Fault: an error of the insert is swallowed like one of the usage log.
FaultSwallowed(t) ==
    LET k == task[t] IN
    /\ k.step \notin {"idle", "done"}
    /\ faults < MaxFaults
    /\ faults' = faults + 1
    /\ IF k.step \in {"create", "track"} THEN Reply(t, 201)
       ELSE IF k.phase = "limit" /\ k.step # "create" THEN On(t, "create")
       ELSE Reply(t, IF k.step \in {"write", "clear", "audit"} THEN 400 ELSE 500)
    /\ Did(t, "failed")
    /\ excuse' = [u \in User |-> IF u = k.user /\ k.step = "clear" /\ Stale(u)
                                 THEN excuse[u] \cup {"failed"} ELSE excuse[u]]
    /\ UNCHANGED <<plan, cache, scans, had, granted, free, requests, changes>>

\* An error of the usage log is swallowed; one while the limit is checked lets the scan
\* through; any other ends the request, after the plan was written perhaps.
Fault(t) ==
    LET k == task[t] IN
    /\ k.step \notin {"idle", "done"}
    /\ faults < MaxFaults
    /\ faults' = faults + 1
    /\ IF k.step = "track" THEN Reply(t, 201)
       ELSE IF k.phase = "limit" /\ k.step # "create" THEN On(t, "create")
       ELSE Reply(t, IF k.step \in {"write", "clear", "audit"} THEN 400 ELSE 500)
    /\ Did(t, "failed")
    /\ excuse' = [u \in User |-> IF u = k.user /\ k.step = "clear" /\ Stale(u)
                                 THEN excuse[u] \cup {"failed"} ELSE excuse[u]]
    /\ UNCHANGED <<plan, cache, scans, had, granted, free, requests, changes>>

\* UsersService.update and remove clear no cache.
WriteUser(u, p) ==
    /\ changes < MaxChanges
    /\ changes' = changes + 1
    /\ plan[u] \notin {None, p}
    /\ p = None => u \notin Owners
    /\ plan' = [plan EXCEPT ![u] = p]
    /\ had' = [had EXCEPT ![u] = @ \cup {IF p = None THEN Starter ELSE p}]
    /\ excuse' = [excuse EXCEPT ![u] = IF cache[u] # None THEN @ \cup {"direct"} ELSE @]
    /\ UNCHANGED <<cache, scans, task, trace, granted, free, requests, faults>>

Next ==
    \/ \E t \in Task :
        \/ \E u \in User :
            \/ Look(t, u)
            \/ \E o \in Owners : CreateScan(t, u, o) \/ CreateAdvancedScan(t, u, o)
            \/ \E p \in Plan : Update(t, u, p)
        \/ GetPlan(t) \/ ReadPlan(t) \/ SetPlan(t) \/ Count(t) \/ Create(t) \/ Track(t)
        \/ FindUser(t) \/ WritePlan(t) \/ ClearPlan(t) \/ AuditPlan(t)
        \/ Fault(t)
    \/ \E u \in User : Expire(u) \/ \E p \in Plan \cup {None} : WriteUser(u, p)
    \/ \E o \in Owners : ScanUnchecked(o) \/ DeleteScan(o)
    \/ Midnight

Spec == Init /\ [][Next]_vars

-----------------------------------------------------------------------------
(* Properties *)

\* A cached plan is the user's, unless the request that changed it is about to clear it, or
\* since it was cached one of these has happened: it was read before the change and cached
\* after the clear (overlap), the clear failed (failed), or the row was changed by
\* UsersService, which clears nothing (direct).
PlanCacheAgrees ==
    \A u \in User : Stale(u) =>
        excuse[u] # {} \/ \E t \in Task : task[t].step = "clear" /\ task[t].user = u

\* However the requests interleave, the scans that were checked against their owner's count
\* exceed the highest limit the owner had by less than the number of concurrent requests:
\* the check and the insert are two steps.
OvershootIsBounded ==
    \A o \in Owners : scans[o] - free[o] <= granted[o] + Cardinality(Task) - 1

\* An advanced scan is made only for a user who has had a plan with the feature: an error
\* opens the limit, never the feature.
AdvancedNeedsFeature ==
    \A t \in Task : task[t].op = "advanced" /\ "made" \in trace[t] =>
        had[task[t].user] \cap Advanced # {}

\* A plan change that is answered is written, cleared and audited, and a refused one is not
\* written, unless an await failed after the write.  A scan that is answered is made, and
\* logged unless the log failed; a refused one is not made.
OutcomeMatchesWrites ==
    \A t \in Task : task[t].step = "done" =>
        LET k == task[t] IN
        /\ k.op = "update" =>
            IF k.answer = 200 THEN {"written", "cleared", "audited"} \subseteq trace[t]
            ELSE "written" \in trace[t] => k.answer = 400 /\ "failed" \in trace[t]
        /\ k.op \in {"scan", "advanced"} =>
            IF k.answer = 201 THEN "made" \in trace[t] /\ trace[t] \cap {"logged", "failed"} # {}
            ELSE "made" \notin trace[t]

=============================================================================
