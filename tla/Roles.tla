------------------------------- MODULE Roles ---------------------------------
(***************************************************************************)
(* RolesService (assignRole, removeRole, changeRole) over the rows of      *)
(* module Accounts, and the cache of PermissionsService: the answers of    *)
(* userHasPermission and the lists of getUserPermissions.  Every await is  *)
(* a boundary between two actions; changeRole writes in a transaction, its *)
(* audit row and the cache are outside of it.                              *)
(*                                                                         *)
(* The caller's right to change roles is left out: it is read before the   *)
(* first write and may be given or taken at any moment, and a request that *)
(* is refused there has changed nothing.  Of a list the model keeps what   *)
(* it is computed from; an answer is about one code, which the roles in    *)
(* Granting have.                                                          *)
(***************************************************************************)
EXTENDS Accounts, Sequences

CONSTANTS
    Granting,    \* the roles that have the permission code asked for
    Task,        \* slots for requests to RolesService and PermissionsService
    Owner,       \* the first owner of each workspace, or None
    MaxChanges   \* bound on writes to users, members and workspaces

ASSUME RolesAssumption ==
    /\ None \notin Row
    /\ Granting \subseteq Role
    /\ Owner \in [Workspace -> Founder \cup {None}]
    /\ MaxChanges \in Nat

VARIABLES
    owned,       \* workspaces: the owner, or None when there is no such row
    member,      \* user_workspaces
    cache,       \* the entries, None where there is none
    task,        \* what each task slot is doing
    trace,       \* history: what the request of a slot has done, and that an await failed
    others,      \* history: rows inserted since the changeRole of a slot read its own
    excuse,      \* history: why an entry may disagree with the rows
    changes      \* the budget already used

tenantRows == <<owned, member>>
history    == <<trace, others, excuse>>
vars       == <<accountVars, tenantRows, cache, task, history, changes>>

Key   == [kind : {"list", "answer"}, user : User, scope : Scope]
Value == SUBSET (Role \cup {"all", "owner", "yes"})

\* A task slot: its request and next await; the rows changeRole has read and still has to
\* delete, and those it has deleted; the row a request inserts or removes; the scopes whose
\* lists are still to be cleared; what a check has found so far.
TaskState ==
    [op : {"none", "assign", "remove", "change", "list", "answer"},
     step : {"idle", "find", "write", "drop", "insert", "audit", "members", "clear", "commit",
             "roles", "owner", "set", "done"},
     user : User \cup {None}, role : Role \cup {None}, scope : Scope,
     order : Seq(Row), dropped : SUBSET Row, row : Row \cup {None},
     keys : SUBSET Scope, found : {None} \cup Value, answer : {0, 200, 400}]

Free == [op |-> "none", step |-> "idle", user |-> None, role |-> None, scope |-> Global,
         order |-> <<>>, dropped |-> {}, row |-> None, keys |-> {}, found |-> None, answer |-> 0]

TypeOK ==
    /\ AccountsTypeOK
    /\ owned \in [Workspace -> User \cup {None}]
    /\ member \subseteq User \X Workspace
    /\ cache \in [Key -> {None} \cup Value]
    /\ \A k \in Key : k.kind = "answer" /\ cache[k] # None => cache[k] \subseteq {"yes"}
    /\ task \in [Task -> TaskState]
    /\ trace \in [Task -> SUBSET {"written", "logged", "failed"}]
    /\ others \in [Task -> SUBSET Row]
    /\ excuse \in [Key -> SUBSET {"overlap", "early", "missed", "failed", "direct", "kept"}]
    /\ changes \in 0..MaxChanges
    /\ \A row \in assigned : row.id < nextRow

Init ==
    /\ AccountsInit
    /\ owned = Owner
    /\ member = {}
    /\ cache = [k \in Key |-> None]
    /\ task = [t \in Task |-> Free]
    /\ trace = [t \in Task |-> {}] /\ others = [t \in Task |-> {}]
    /\ excuse = [k \in Key |-> {}]
    /\ changes = 0

\* What the rows say of user u in a scope: a SUPER user has every permission, another the
\* roles given there or globally, and an owner those of the workspace too.
List(u, s) ==
    IF user[u].super THEN {"all"}
    ELSE {row.role : row \in {x \in assigned : x.user = u /\ x.scope \in {s, Global}}}
         \cup {o \in {"owner"} : s # Global /\ owned[s] = u}

\* The value of a cache entry computed from it; an answer is yes or nothing.
ValueOf(kind, list) ==
    IF kind = "list" THEN list
    ELSE {y \in {"yes"} : list \cap (Granting \cup {"all", "owner"}) # {}}
Current(k) == ValueOf(k.kind, List(k.user, k.scope))
Stale(k)   == cache[k] # None /\ cache[k] # Current(k)

\* An entry for each key in K that is stale after this step is excused with the cause.
Excuse(K, cause) ==
    excuse' = [k \in Key |-> IF k \in K /\ cache[k] # None /\ cache[k] # Current(k)'
                             THEN excuse[k] \cup {cause} ELSE excuse[k]]

KeysOf(u)     == {k \in Key : k.user = u}
ListsOf(u)    == {k \in KeysOf(u) : k.kind = "list"}
AnswersOf(u)  == {k \in KeysOf(u) : k.kind = "answer"}

Doing(t, op, step) == task[t].op = op /\ task[t].step = step
On(t, step)        == task' = [task EXCEPT ![t].step = step]
Reply(t, code)     == task' = [task EXCEPT
    ![t] = [@ EXCEPT !.step = "done", !.answer = code,
                     !.order = <<>>, !.dropped = {}, !.keys = {}, !.found = None]]
Did(t, what)       == trace' = [trace EXCEPT ![t] = @ \cup {what}]

Starts(t, rec) ==
    /\ task[t].step \in {"idle", "done"}
    /\ requests < MaxRequests
    /\ requests' = requests + 1
    /\ task' = [task EXCEPT ![t] = rec]
    /\ trace' = [trace EXCEPT ![t] = {}]
    /\ others' = [others EXCEPT ![t] = {}]
    /\ UNCHANGED <<rowVars, req, tx, faults, tenantRows, cache, excuse, changes>>

-----------------------------------------------------------------------------
(* Locks of the open transactions *)

InTx(t) == task[t].op = "change"
           /\ task[t].step \in {"drop", "insert", "audit", "members", "clear", "commit"}
Locked(row, t) == \E o \in Task \ {t} : InTx(o) /\ row \in task[o].dropped

SameKey(row, u, role, s) == row.user = u /\ row.role = role /\ row.scope = s

\* An insert waits for a transaction that has inserted or deleted its unique key; a key
\* with a null in it is never the same.
InsertWaits(t, u, role, s) ==
    s # Global /\ \E o \in Task \ {t} :
        InTx(o) /\ \E row \in task[o].dropped \cup {task[o].row} :
                        row # None /\ SameKey(row, u, role, s)
Taken(t, u, role, s) ==
    s # Global /\ \E row \in assigned \ task[t].dropped : SameKey(row, u, role, s)

\* The foreign keys of user_roles
Exists(s)    == s # Global => owned[s] # None
Refers(u, s) == IsThere(u) /\ Exists(s)

\* A user or workspace that an open transaction refers to cannot be deleted yet.
Pinned(u, s) ==
    \E t \in Task : InTx(t) /\ \E row \in task[t].dropped \cup {task[t].row} :
        row # None /\ (row.user = u \/ row.scope = s)

-----------------------------------------------------------------------------
(* assignRole and removeRole *)

Assign(t, u, role, s) ==
    /\ Refers(u, s)
    /\ Starts(t, [Free EXCEPT !.op = "assign", !.step = "find", !.user = u, !.role = role,
                              !.scope = s])

\* The id of an account is in nobody's hands before the account is there.
Known(u) == user[u].state # "absent"

Remove(t, u, role, s) ==
    Known(u) /\ Starts(t, [Free EXCEPT !.op = "remove", !.step = "find", !.user = u, !.role = role,
                                       !.scope = s])

\* Prisma accepts no null in a unique key: without a workspace findUnique throws.
Find(t) ==
    LET k == task[t]
        Found == {row \in assigned : SameKey(row, k.user, k.role, k.scope)} IN
    /\ k.step = "find" /\ k.op \in {"assign", "remove"}
    /\ \/ /\ k.scope = Global \/ (k.op = "assign" <=> Found # {})
          /\ Reply(t, 400)
       \/ /\ k.scope # Global /\ k.op = "assign" /\ Found = {}
          /\ On(t, "write")
       \/ \E row \in Found :
            /\ k.scope # Global /\ k.op = "remove"
            /\ task' = [task EXCEPT ![t] = [@ EXCEPT !.step = "write", !.row = row]]
    /\ UNCHANGED <<accountVars, tenantRows, cache, history, changes>>

\* Row is committed by slot t: every changeRole that has read before has not seen it.
Inserted(row) == others' = [o \in Task |-> others[o] \cup {row}]

AssignWrite(t) ==
    LET k == task[t]
        row == [id |-> nextRow, user |-> k.user, role |-> k.role, scope |-> k.scope] IN
    /\ Doing(t, "assign", "write")
    /\ ~InsertWaits(t, k.user, k.role, k.scope)
    /\ \/ /\ Refers(k.user, k.scope) /\ ~Taken(t, k.user, k.role, k.scope)
          /\ assigned' = assigned \cup {row}
          /\ nextRow' = nextRow + 1
          /\ task' = [task EXCEPT ![t] = [@ EXCEPT !.step = "audit", !.row = row]]
          /\ Did(t, "written") /\ Inserted(row)
       \/ /\ ~Refers(k.user, k.scope) \/ Taken(t, k.user, k.role, k.scope)
          /\ Reply(t, 400)
          /\ UNCHANGED <<assigned, nextRow, trace, others>>
    /\ UNCHANGED <<user, link, audited, req, tx, requests, faults, tenantRows, cache, changes>>
    /\ Excuse(AnswersOf(k.user), "kept")

RemoveWrite(t) ==
    LET row == task[t].row IN
    /\ Doing(t, "remove", "write")
    /\ ~Locked(row, t)
    /\ \/ /\ row \in assigned
          /\ assigned' = assigned \ {row}
          /\ On(t, "audit")
          /\ Did(t, "written")
       \/ /\ row \notin assigned
          /\ Reply(t, 400)
          /\ UNCHANGED <<assigned, trace>>
    /\ UNCHANGED <<user, link, nextRow, audited, req, tx, requests, faults, tenantRows, cache,
                   others, changes>>
    /\ Excuse(AnswersOf(row.user), "kept")

-----------------------------------------------------------------------------
(* changeRole *)

\* Without a workspace id, workspaceId: undefined filters nothing.
InScope(u, s) == {row \in assigned : row.user = u /\ s \in {row.scope, Global}}

Orders(rows) ==
    {f \in [1..Cardinality(rows) -> rows] : \A i, j \in DOMAIN f : f[i] = f[j] => i = j}

\* The reads of changeRole begin with findMany, in no particular order.
Change(t, u, role, s) ==
    /\ Known(u)
    /\ \E order \in Orders(InScope(u, s)) :
        Starts(t, [Free EXCEPT !.op = "change", !.step = "find", !.user = u, !.role = role,
                               !.scope = s, !.order = order])

ChangeFind(t) ==
    LET k == task[t] IN
    /\ Doing(t, "change", "find")
    /\ IF \E i \in DOMAIN k.order : k.order[i].role = k.role THEN Reply(t, 400)
       ELSE On(t, IF k.order = <<>> THEN "insert" ELSE "drop")
    /\ UNCHANGED <<accountVars, tenantRows, cache, history, changes>>

\* The next delete; it waits for a transaction that has deleted the same row, and fails
\* if the row is gone.
Drop(t) ==
    LET k == task[t]  row == Head(k.order) IN
    /\ Doing(t, "change", "drop")
    /\ ~Locked(row, t)
    /\ \/ /\ row \in assigned
          /\ task' = [task EXCEPT ![t] = [@ EXCEPT
                    !.order = Tail(k.order), !.dropped = k.dropped \cup {row},
                    !.step = IF Tail(k.order) = <<>> THEN "insert" ELSE "drop"]]
       \/ /\ row \notin assigned
          /\ Reply(t, 400)
    /\ UNCHANGED <<accountVars, tenantRows, cache, history, changes>>

\* Mutant of ChangeInsert: the insert goes over another connection than the transaction.
ChangeInsertOutside(t) ==
    LET k == task[t]
        row == [id |-> nextRow, user |-> k.user, role |-> k.role, scope |-> k.scope] IN
    /\ Doing(t, "change", "insert")
    /\ ~InsertWaits(t, k.user, k.role, k.scope)
    /\ \/ /\ Refers(k.user, k.scope) /\ ~Taken(t, k.user, k.role, k.scope)
          /\ nextRow' = nextRow + 1
          /\ assigned' = assigned \cup {row}
          /\ task' = [task EXCEPT ![t] = [@ EXCEPT !.step = "audit", !.row = row]]
       \/ /\ ~Refers(k.user, k.scope) \/ Taken(t, k.user, k.role, k.scope)
          /\ Reply(t, 400)
          /\ UNCHANGED <<assigned, nextRow>>
    /\ UNCHANGED <<user, link, audited, req, tx, requests, faults, tenantRows, cache,
                   history, changes>>

ChangeInsert(t) ==
    LET k == task[t]
        row == [id |-> nextRow, user |-> k.user, role |-> k.role, scope |-> k.scope] IN
    /\ Doing(t, "change", "insert")
    /\ ~InsertWaits(t, k.user, k.role, k.scope)
    /\ \/ /\ Refers(k.user, k.scope) /\ ~Taken(t, k.user, k.role, k.scope)
          /\ nextRow' = nextRow + 1
          /\ task' = [task EXCEPT ![t] = [@ EXCEPT !.step = "audit", !.row = row]]
       \/ /\ ~Refers(k.user, k.scope) \/ Taken(t, k.user, k.role, k.scope)
          /\ Reply(t, 400)
          /\ UNCHANGED nextRow
    /\ UNCHANGED <<user, link, assigned, audited, req, tx, requests, faults, tenantRows, cache,
                   history, changes>>

\* A transaction that waits is ended by its timeout, or as a deadlock.
TimeOut(t) ==
    LET k == task[t] IN
    /\ \/ Doing(t, "change", "drop") /\ Locked(Head(k.order), t)
       \/ Doing(t, "change", "insert") /\ InsertWaits(t, k.user, k.role, k.scope)
    /\ Reply(t, 400)
    /\ UNCHANGED <<accountVars, tenantRows, cache, history, changes>>

\* Mutant of ChangeCommit: what the transaction has deleted stays.
ChangeCommitKeeping(t) ==
    /\ Doing(t, "change", "commit")
    /\ assigned' = assigned \cup {task[t].row}
    /\ Reply(t, 200)
    /\ Did(t, "written") /\ Inserted(task[t].row)
    /\ excuse' = excuse
    /\ UNCHANGED <<user, link, nextRow, audited, req, tx, requests, faults, tenantRows, cache,
                   changes>>

ChangeCommit(t) ==
    LET k == task[t] IN
    /\ Doing(t, "change", "commit")
    /\ assigned' = (assigned \ k.dropped) \cup {k.row}
    /\ Reply(t, 200)
    /\ Did(t, "written") /\ Inserted(k.row)
    /\ UNCHANGED <<user, link, nextRow, audited, req, tx, requests, faults, tenantRows, cache,
                   changes>>
    /\ excuse' = [x \in Key |->
                    IF x.user = k.user /\ cache[x] # None /\ cache[x] # Current(x)'
                    THEN excuse[x] \cup {IF x.kind = "list" THEN "early" ELSE "kept"}
                    ELSE excuse[x]]

-----------------------------------------------------------------------------
(* The audit row and the cache, in each of the three *)

\* The request of slot t ends in an await that rejects: what its transaction has written is
\* undone, and what assignRole or removeRole have written is not, nor are lists cleared.
\* For userHasPermission the answer is then no, and it is not cached.
Fails(t) ==
    /\ Reply(t, 400)
    /\ Did(t, "failed")
    /\ Excuse(IF "written" \in trace[t] THEN ListsOf(task[t].user) ELSE {}, "failed")

\* The audit row refers to the workspace: a write that is committed may have lost it.
AuditRole(t) ==
    LET k == task[t] IN
    /\ k.step = "audit"
    /\ UNCHANGED <<accountVars, tenantRows, cache, others, changes>>
    /\ \/ Exists(k.scope) /\ On(t, "members") /\ Did(t, "logged") /\ UNCHANGED excuse
       \/ ~Exists(k.scope) /\ Fails(t)

\* Mutant of Covered: only the global list is cleared.
CoveredGlobal(u) == {Global}

\* clearUserPermissionCache: the global list and those of the user's workspaces
Covered(u) == {Global} \cup {s \in Workspace : <<u, s>> \in member}

ReadMembers(t) ==
    LET u == task[t].user IN
    /\ task[t].step = "members"
    /\ task' = [task EXCEPT ![t] = [@ EXCEPT !.step = "clear", !.keys = Covered(u)]]
    /\ UNCHANGED <<accountVars, tenantRows, cache, trace, others, changes>>
    /\ Excuse({k \in ListsOf(u) : k.scope # Global /\ <<u, k.scope>> \notin member}, "missed")

\* The global key first, the others in no particular order; after the last one changeRole
\* commits and the others answer.
Clear(t) ==
    LET k == task[t] IN
    /\ k.step = "clear"
    /\ \E s \in k.keys :
        /\ Global \in k.keys => s = Global
        /\ cache' = [cache EXCEPT ![[kind |-> "list", user |-> k.user, scope |-> s]] = None]
        /\ excuse' = [excuse EXCEPT ![[kind |-> "list", user |-> k.user, scope |-> s]] = {}]
        /\ task' = [task EXCEPT ![t] = [@ EXCEPT
                !.keys = k.keys \ {s},
                !.step = IF k.keys # {s} THEN "clear"
                         ELSE IF k.op = "change" THEN "commit" ELSE "done",
                !.answer = IF k.keys = {s} /\ k.op # "change" THEN 200 ELSE 0]]
    /\ UNCHANGED <<accountVars, tenantRows, trace, others, changes>>

TaskFault(t) ==
    /\ task[t].step \notin {"idle", "done"}
    /\ faults < MaxFaults
    /\ faults' = faults + 1
    /\ UNCHANGED <<rowVars, req, tx, requests, tenantRows, cache, others, changes>>
    /\ Fails(t)

-----------------------------------------------------------------------------
(* PermissionsService: getUserPermissions and userHasPermission *)

\* Answered from the cache, or else on to the rows.
Check(t, kind, u, s) ==
    LET entry == cache[[kind |-> kind, user |-> u, scope |-> s]] IN
    /\ Known(u)
    /\ Starts(t, [Free EXCEPT !.op = kind, !.user = u, !.scope = s,
                              !.step = IF entry = None THEN "roles" ELSE "done",
                              !.answer = IF entry = None THEN 0 ELSE 200])

\* The user with all assignments; SUPER, the global scope and an answer that is already
\* yes need no second read.
ReadRoles(t) ==
    LET k == task[t]
        seen == List(k.user, k.scope) \ {"owner"} IN
    /\ k.step = "roles"
    /\ task' = [task EXCEPT ![t] = [@ EXCEPT
            !.found = ValueOf(k.op, seen),
            !.step = IF ~IsThere(k.user) \/ "all" \in seen \/ k.scope = Global
                        \/ "yes" \in ValueOf(k.op, seen)
                     THEN "set" ELSE "owner"]]
    /\ UNCHANGED <<accountVars, tenantRows, cache, history, changes>>

\* Mutant of ReadOwner: an answer becomes a list.
ReadOwnerAsList(t) ==
    LET k == task[t] IN
    /\ k.step = "owner"
    /\ task' = [task EXCEPT ![t] = [@ EXCEPT
            !.found = IF owned[k.scope] = k.user THEN k.found \cup {"owner"} ELSE k.found,
            !.step = "set"]]
    /\ UNCHANGED <<accountVars, tenantRows, cache, history, changes>>

ReadOwner(t) ==
    LET k == task[t] IN
    /\ k.step = "owner"
    /\ task' = [task EXCEPT ![t] = [@ EXCEPT
            !.found = IF owned[k.scope] = k.user THEN ValueOf(k.op, k.found \cup {"owner"})
                      ELSE k.found,
            !.step = "set"]]
    /\ UNCHANGED <<accountVars, tenantRows, cache, history, changes>>

Set(t) ==
    LET k == task[t]  key == [kind |-> k.op, user |-> k.user, scope |-> k.scope] IN
    /\ k.step = "set"
    /\ cache' = [cache EXCEPT ![key] = k.found]
    /\ excuse' = [excuse EXCEPT ![key] = IF k.found # Current(key) THEN {"overlap"} ELSE {}]
    /\ Reply(t, 200)
    /\ UNCHANGED <<accountVars, tenantRows, trace, others, changes>>

\* The entry's time is up: CACHE_TTL, 300, which cache-manager takes for milliseconds.
Expire(k) ==
    /\ cache[k] # None
    /\ cache' = [cache EXCEPT ![k] = None]
    /\ excuse' = [excuse EXCEPT ![k] = {}]
    /\ UNCHANGED <<accountVars, tenantRows, task, trace, others, changes>>

-----------------------------------------------------------------------------
(* Writes that clear nothing *)

Directly ==
    /\ changes < MaxChanges
    /\ changes' = changes + 1
    /\ UNCHANGED <<cache, task, trace, others>>
    /\ Excuse(Key, "direct")

WriteUser(u, e, super) ==
    UpdateUser(u, e, super) /\ UNCHANGED tenantRows /\ Directly

DeleteUser(u) ==
    /\ \A w \in Workspace : owned[w] # u
    /\ ~Pinned(u, None)
    /\ RemoveUser(u)
    /\ member' = {m \in member : m[1] # u}
    /\ UNCHANGED owned
    /\ Directly

\* WorkspacesService.create, remove, addUser and removeUser
WriteMember(u, w) ==
    /\ IsThere(u) /\ owned[w] # None
    /\ member' = IF <<u, w>> \in member THEN member \ {<<u, w>>} ELSE member \cup {<<u, w>>}
    /\ UNCHANGED <<accountVars, owned>>
    /\ Directly

DeleteWorkspace(w) ==
    /\ owned[w] # None
    /\ ~Pinned(None, w)
    /\ owned' = [owned EXCEPT ![w] = None]
    /\ member' = {m \in member : m[2] # w}
    /\ assigned' = {row \in assigned : row.scope # w}
    /\ UNCHANGED <<user, link, nextRow, audited, req, tx, requests, faults>>
    /\ Directly

Next ==
    \/ SignUp /\ UNCHANGED <<tenantRows, cache, task, history, changes>>
    \/ \E t \in Task :
        \/ \E u \in User, role \in Role, s \in Scope :
            Assign(t, u, role, s) \/ Remove(t, u, role, s) \/ Change(t, u, role, s)
        \/ \E kind \in {"list", "answer"}, u \in User, s \in Scope : Check(t, kind, u, s)
        \/ Find(t) \/ AssignWrite(t) \/ RemoveWrite(t)
        \/ ChangeFind(t) \/ Drop(t) \/ ChangeInsert(t) \/ TimeOut(t) \/ ChangeCommit(t)
        \/ AuditRole(t) \/ ReadMembers(t) \/ Clear(t) \/ TaskFault(t)
        \/ ReadRoles(t) \/ ReadOwner(t) \/ Set(t)
    \/ \E k \in Key : Expire(k)
    \/ \E u \in User :
        \/ \E e \in Email, super \in BOOLEAN : WriteUser(u, e, super)
        \/ DeleteUser(u)
        \/ \E w \in Workspace : WriteMember(u, w)
    \/ \E w \in Workspace : DeleteWorkspace(w)

Spec == Init /\ [][Next]_vars

-----------------------------------------------------------------------------
(* Properties *)

\* Slot t has written, and will still clear the list of this key.
ClearsYet(t, k) ==
    /\ k.kind = "list" /\ k.user = task[t].user /\ "written" \in trace[t]
    /\ task[t].step \in {"audit", "members"} \/ k.scope \in task[t].keys

\* A cached list agrees with the rows, unless the request that changed them is about to
\* clear it, or one of these has happened since it was cached: it was computed before the
\* change and cached after the clear (overlap), changeRole cleared it before its commit
\* (early), the user is no member of the workspace (missed), the clear failed (failed), or
\* the rows were changed by one who clears nothing (direct).  A cached answer may disagree
\* after every change, because no clear reaches it (kept).
CacheAgrees ==
    \A k \in Key : Stale(k) => excuse[k] # {} \/ \E t \in Task : ClearsYet(t, k)

\* After a changeRole that was answered, the user has in that scope the new role and what
\* was inserted since the request read the old ones, and nothing else.
ChangeReplaces ==
    \A t \in Task : task[t].op = "change" /\ task[t].answer = 200 =>
        InScope(task[t].user, task[t].scope) \subseteq others[t]

\* An answered request has written its rows and its audit row; a refused one has written
\* neither, unless an await failed after the write; and a refused changeRole has never
\* changed the rows.
OutcomeMatchesRows ==
    \A t \in Task : task[t].op \in {"assign", "remove", "change"} /\ task[t].step = "done" =>
        /\ task[t].answer = 200 => {"written", "logged"} \subseteq trace[t]
        /\ task[t].answer = 400 /\ "failed" \notin trace[t] => trace[t] = {}
        /\ task[t].answer = 400 /\ task[t].op = "change" =>
                "written" \notin trace[t] /\ task[t].row \notin assigned

=============================================================================
