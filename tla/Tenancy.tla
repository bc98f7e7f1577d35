------------------------------- MODULE Tenancy -------------------------------
(***************************************************************************)
(* WorkspacesService, RepositoriesService and UsersService: users,         *)
(* workspaces with their members, repositories, and the foreign keys       *)
(* between them.  None of the handlers uses a transaction except           *)
(* UsersService.create, so every await is a boundary between two actions.  *)
(*                                                                         *)
(* A request that is refused at its first read (no such row, not the       *)
(* owner) changes nothing and is not an action.  Global roles are not in   *)
(* the model: they can change at any moment (PATCH /users/:id), so every   *)
(* user who has logged in may send every request.  Names, urls and tokens  *)
(* are left out, and with them PATCH /repositories/:id, which changes      *)
(* nothing else.                                                           *)
(***************************************************************************)
EXTENDS Integers, FiniteSets

CONSTANTS
    User, Founder,   \* all users, and those there, and logged in, from the start
    Workspace, Repository,
    Request,         \* slots for concurrent requests
    None,            \* null, and "no such field"
    Keep,            \* the repositoryId a PATCH body leaves out
    MaxRequests, MaxFaults  \* bounds on clients and on failures

ASSUME TenancyAssumption ==
    /\ Founder \subseteq User
    /\ IsFiniteSet(Request)
    /\ None \notin User \cup Workspace \cup Repository
    /\ Keep \notin Repository \cup {None}
    /\ MaxRequests \in Nat
    /\ MaxFaults \in Nat

VARIABLES
    users,       \* the rows of users
    gone,        \* ids of deleted users, which do not come back
    audited,     \* the users an audit row refers to
    repo,        \* repositories: state and owner_id, which is no foreign key
    ws,          \* workspaces: state, owner_id and repository_id
    member,      \* user_workspaces: the role of a user in a workspace
    used,        \* the workspace and repository of each scan and schedule
    net,         \* audit rows: ADD_USER_TO_WORKSPACE minus REMOVE_USER_FROM_WORKSPACE
    deleteLogged,\* the workspaces with a DELETE_WORKSPACE audit row
    req,         \* what each request slot is doing
    held,        \* history: slots whose caller was owner or admin since the request began
    late,        \* history: workspaces linked to a repository whose removal had passed its check
    silent,      \* history: memberships that changed without an audit row
    spared,      \* history: workspaces whose logged deletion was refused or died
    requests, faults  \* the budgets already used

rowVars     == <<users, gone, audited, repo, ws, member, used>>
logVars     == <<net, deleteLogged>>
historyVars == <<held, late, silent, spared>>
budgetVars  == <<requests, faults>>
vars == <<rowVars, logVars, req, historyVars, budgetVars>>

WorkspaceRole == {"ADMIN", "MEMBER"}
State         == {"absent", "present", "deleted"}
Op   == {"createWorkspace", "update", "remove", "addUser", "removeUser",
         "createRepository", "removeRepository"}
Step == {"idle", "write", "authority", "lookup", "membership", "log", "links", "audit"}

\* A request slot: its operation and next await, who sent it, and what it is about.
RequestState ==
    [op : Op, step : Step, caller : User \cup {None}, ws : Workspace \cup {None},
     target : User \cup {None}, role : WorkspaceRole, repo : Repository \cup {None, Keep}]

Idle == [op |-> "update", step |-> "idle", caller |-> None, ws |-> None,
         target |-> None, role |-> "MEMBER", repo |-> None]

TypeOK ==
    /\ users \subseteq User /\ gone \subseteq User /\ audited \subseteq User
    /\ repo \in [Repository -> [state : State, owner : User \cup {None}]]
    /\ ws \in [Workspace -> [state : State, owner : User \cup {None},
                             repo : Repository \cup {None}]]
    /\ member \in [Workspace -> [User -> WorkspaceRole \cup {"none"}]]
    /\ used \subseteq Workspace \X Repository
    /\ net \in [Workspace -> [User -> Int]]
    /\ deleteLogged \subseteq Workspace
    /\ req \in [Request -> RequestState]
    /\ held \subseteq Request /\ late \subseteq Workspace
    /\ silent \subseteq Workspace \X User /\ spared \subseteq Workspace
    /\ requests \in 0..MaxRequests /\ faults \in 0..MaxFaults

Init ==
    /\ users = Founder /\ gone = {} /\ audited = Founder
    /\ repo = [p \in Repository |-> [state |-> "absent", owner |-> None]]
    /\ ws = [w \in Workspace |-> [state |-> "absent", owner |-> None, repo |-> None]]
    /\ member = [w \in Workspace |-> [u \in User |-> "none"]]
    /\ used = {}
    /\ net = [w \in Workspace |-> [u \in User |-> 0]]
    /\ deleteLogged = {}
    /\ req = [r \in Request |-> Idle]
    /\ held = {} /\ late = {} /\ silent = {} /\ spared = {}
    /\ requests = 0 /\ faults = 0

ThereIs(w)      == ws[w].state = "present"
IsThere(p)      == repo[p].state = "present"
IsMember(w, u)  == member[w][u] # "none"
LinkedTo(p)     == {w \in Workspace : ThereIs(w) /\ ws[w].repo = p}
InUse(w)        == \E p \in Repository : <<w, p>> \in used
MayManage(w, u) == ws[w].owner = u \/ member[w][u] = "ADMIN"

\* workspaces.repository_id refers to a row or is null.
Linkable(p) == p = None \/ (p \in Repository /\ IsThere(p))

\* Slot r takes a request, of a caller who has logged in, as rec.
Takes(r, rec) ==
    /\ req[r].step = "idle"
    /\ rec.caller \in audited
    /\ requests < MaxRequests
    /\ requests' = requests + 1
    /\ req' = [req EXCEPT ![r] = rec]
    /\ UNCHANGED faults

At(r, op, step) == req[r].op = op /\ req[r].step = step
Goto(r, step)   == req' = [req EXCEPT ![r].step = step]
End(r)          == req' = [req EXCEPT ![r] = Idle]

\* Slot r reads and goes on at `step`, or answers with an error.
Reads(r, ok, step) ==
    /\ IF ok THEN Goto(r, step) ELSE End(r)
    /\ UNCHANGED <<rowVars, logVars, historyVars, budgetVars>>

-----------------------------------------------------------------------------
(* UsersService; a login is the one thing Sessions adds here: an audit row *)

\* The transaction: the user and, for an owner with an organisation, the workspace w
\* with the owner as its first admin.  It leaves no audit row.
CreateUser(u, w) ==
    /\ u \notin users \cup gone
    /\ users' = users \cup {u}
    /\ \/ w = None /\ UNCHANGED <<ws, member, silent>>
       \/ /\ w \in Workspace /\ ws[w].state = "absent"
          /\ ws' = [ws EXCEPT ![w] = [state |-> "present", owner |-> u, repo |-> None]]
          /\ member' = [member EXCEPT ![w][u] = "ADMIN"]
          /\ silent' = silent \cup {<<w, u>>}
    /\ UNCHANGED <<gone, audited, repo, used, logVars, req, held, late, spared, budgetVars>>

Login(u) ==
    /\ u \in users \ audited
    /\ audited' = audited \cup {u}
    /\ UNCHANGED <<users, gone, repo, ws, member, used, logVars, req, historyVars, budgetVars>>

\* Mutant of Removable: deleting a user takes the audit rows along.
RemovableWithLog(u) == \A w \in Workspace : ThereIs(w) => ws[w].owner # u

\* audit_logs.user_id and workspaces.owner_id are ON DELETE RESTRICT.
Removable(u) ==
    /\ u \notin audited
    /\ \A w \in Workspace : ThereIs(w) => ws[w].owner # u

\* The delete, which takes the memberships along (ON DELETE CASCADE).
RemoveUser(u) ==
    /\ u \in users
    /\ Removable(u)
    /\ users' = users \ {u}
    /\ gone' = gone \cup {u}
    /\ member' = [w \in Workspace |-> [member[w] EXCEPT ![u] = "none"]]
    /\ UNCHANGED <<audited, repo, ws, used, logVars, req, historyVars, budgetVars>>

-----------------------------------------------------------------------------
(* WorkspacesService.create, update and remove *)

\* The removals of p that have seen no workspace linked to it and are about to delete it.
Dropping(p) == {r \in Request : At(r, "removeRepository", "write") /\ req[r].repo = p}

\* Workspace w is linked to p from now on.
Links(w, p) ==
    late' = IF p # None /\ Dropping(p) # {} THEN late \cup {w} ELSE late \ {w}

CreateWorkspace(r, c, w, p) ==
    /\ ws[w].state = "absent"
    /\ Linkable(p)
    /\ Takes(r, [Idle EXCEPT !.op = "createWorkspace", !.step = "audit",
                             !.caller = c, !.ws = w])
    /\ ws' = [ws EXCEPT ![w] = [state |-> "present", owner |-> c, repo |-> p]]
    /\ Links(w, p)
    /\ UNCHANGED <<users, gone, audited, repo, member, used, logVars, held, silent, spared>>

\* PATCH and DELETE read the row; only its owner may go on.
Update(r, c, w, p) ==
    /\ ThereIs(w) /\ ws[w].owner = c
    /\ Takes(r, [Idle EXCEPT !.op = "update", !.step = "write",
                             !.caller = c, !.ws = w, !.repo = p])
    /\ UNCHANGED <<rowVars, logVars, historyVars>>

Remove(r, c, w) ==
    /\ ThereIs(w) /\ ws[w].owner = c
    /\ Takes(r, [Idle EXCEPT !.op = "remove", !.step = "log", !.caller = c, !.ws = w])
    /\ UNCHANGED <<rowVars, logVars, historyVars>>

\* Mutant of UpdateWrite: a field the body leaves out is written too.
UpdateWriteAll(r) ==
    /\ At(r, "update", "write")
    /\ IF ThereIs(req[r].ws) /\ (req[r].repo = Keep \/ Linkable(req[r].repo))
       THEN /\ ws' = [ws EXCEPT ![req[r].ws].repo = req[r].repo]
            /\ Links(req[r].ws, req[r].repo)
            /\ Goto(r, "audit")
       ELSE End(r) /\ UNCHANGED <<ws, late>>
    /\ UNCHANGED <<users, gone, audited, repo, member, used, logVars,
                   held, silent, spared, budgetVars>>

\* The write of a PATCH; it fails when the workspace or the new repository is gone.
UpdateWrite(r) ==
    LET w == req[r].ws  p == req[r].repo IN
    /\ At(r, "update", "write")
    /\ \/ /\ ThereIs(w) /\ p = Keep
          /\ Goto(r, "audit")
          /\ UNCHANGED <<ws, late>>
       \/ /\ ThereIs(w) /\ Linkable(p)
          /\ ws' = [ws EXCEPT ![w].repo = p]
          /\ Links(w, p)
          /\ Goto(r, "audit")
       \/ /\ ~ThereIs(w) \/ (p # Keep /\ ~Linkable(p))
          /\ End(r)
          /\ UNCHANGED <<ws, late>>
    /\ UNCHANGED <<users, gone, audited, repo, member, used, logVars,
                   held, silent, spared, budgetVars>>

\* Mutant of RemoveLog: a DELETE of a workspace with scans or schedules is not logged.
RemoveLogChecked(r) ==
    /\ At(r, "remove", "log")
    /\ Goto(r, "write")
    /\ deleteLogged' = IF InUse(req[r].ws) THEN deleteLogged ELSE deleteLogged \cup {req[r].ws}
    /\ UNCHANGED <<rowVars, net, historyVars, budgetVars>>

\* The DELETE_WORKSPACE audit row is written before the delete.
RemoveLog(r) ==
    /\ At(r, "remove", "log")
    /\ Goto(r, "write")
    /\ deleteLogged' = deleteLogged \cup {req[r].ws}
    /\ UNCHANGED <<rowVars, net, historyVars, budgetVars>>

\* The delete: refused while a scan or a schedule refers to the workspace (RESTRICT), it
\* takes the memberships along (CASCADE).
RemoveWrite(r) ==
    LET w == req[r].ws IN
    /\ At(r, "remove", "write")
    /\ End(r)
    /\ \/ /\ ThereIs(w) /\ ~InUse(w)
          /\ ws' = [ws EXCEPT ![w] = [state |-> "deleted", owner |-> None, repo |-> None]]
          /\ member' = [member EXCEPT ![w] = [u \in User |-> "none"]]
          /\ UNCHANGED spared
       \/ /\ ThereIs(w) /\ InUse(w)
          /\ spared' = spared \cup {w}
          /\ UNCHANGED <<ws, member>>
       \/ ~ThereIs(w) /\ UNCHANGED <<ws, member, spared>>
    /\ UNCHANGED <<users, gone, audited, repo, used, logVars, held, late, silent, budgetVars>>

-----------------------------------------------------------------------------
(* WorkspacesService.addUser and removeUser *)

\* The read of the workspace, which also tells whether the caller owns it.
Manage(r, c, w, rec) ==
    /\ ThereIs(w)
    /\ Takes(r, rec)
    /\ held' = IF MayManage(w, c) THEN held \cup {r} ELSE held \ {r}
    /\ UNCHANGED <<rowVars, logVars, late, silent, spared>>

AddUser(r, c, w, u, role) ==
    Manage(r, c, w, [Idle EXCEPT !.op = "addUser", !.caller = c, !.ws = w, !.target = u,
                     !.role = role,
                     !.step = IF ws[w].owner = c THEN "lookup" ELSE "authority"])

RemoveMember(r, c, w, u) ==
    /\ ws[w].owner # u
    /\ Manage(r, c, w, [Idle EXCEPT !.op = "removeUser", !.caller = c, !.ws = w, !.target = u,
                        !.step = IF ws[w].owner = c THEN "membership" ELSE "authority"])

\* Mutant of Authorises: any member will do.
AuthorisesMembers(role) == role # "none"

\* The role of the caller that lets a request go on.
Authorises(role) == role = "ADMIN"

\* The read of the caller's membership, when the caller is not the owner.
Authority(r) ==
    /\ req[r].step = "authority"
    /\ Reads(r, Authorises(member[req[r].ws][req[r].caller]),
             IF req[r].op = "addUser" THEN "lookup" ELSE "membership")

\* The user to add, by e-mail.
Lookup(r) ==
    /\ req[r].step = "lookup"
    /\ Reads(r, req[r].target \in users, "membership")

\* The membership that must not be there yet, or that must still be there.
Membership(r) ==
    /\ req[r].step = "membership"
    /\ Reads(r, IsMember(req[r].ws, req[r].target) <=> req[r].op = "removeUser", "write")

\* The insert, refused by the foreign keys and by the unique key on user and workspace.
AddWrite(r) ==
    LET w == req[r].ws  u == req[r].target IN
    /\ At(r, "addUser", "write")
    /\ \/ /\ ThereIs(w) /\ u \in users /\ ~IsMember(w, u)
          /\ member' = [member EXCEPT ![w][u] = req[r].role]
          /\ held' = IF req[r].role = "ADMIN"
                     THEN held \cup {q \in Request : req[q].ws = w /\ req[q].caller = u}
                     ELSE held
          /\ Goto(r, "audit")
       \/ /\ ~ThereIs(w) \/ u \notin users \/ IsMember(w, u)
          /\ End(r)
          /\ UNCHANGED <<member, held>>
    /\ UNCHANGED <<users, gone, audited, repo, ws, used, logVars,
                   late, silent, spared, budgetVars>>

\* Mutant of RemoveMemberWrite: deleteMany, which does not mind that nothing is there.
RemoveMemberWriteAny(r) ==
    /\ At(r, "removeUser", "write")
    /\ member' = [member EXCEPT ![req[r].ws][req[r].target] = "none"]
    /\ Goto(r, "audit")
    /\ UNCHANGED <<users, gone, audited, repo, ws, used, logVars, historyVars, budgetVars>>

\* The delete, refused when another request was faster.
RemoveMemberWrite(r) ==
    LET w == req[r].ws  u == req[r].target IN
    /\ At(r, "removeUser", "write")
    /\ \/ /\ IsMember(w, u)
          /\ member' = [member EXCEPT ![w][u] = "none"]
          /\ Goto(r, "audit")
       \/ ~IsMember(w, u) /\ End(r) /\ UNCHANGED member
    /\ UNCHANGED <<users, gone, audited, repo, ws, used, logVars, historyVars, budgetVars>>

-----------------------------------------------------------------------------
(* RepositoriesService.create and remove *)

\* POST reads the user, and DELETE the repository.
CreateRepository(r, c, p) ==
    /\ repo[p].state = "absent"
    /\ ~\E q \in Request : req[q].op = "createRepository" /\ req[q].repo = p
    /\ c \in users
    /\ Takes(r, [Idle EXCEPT !.op = "createRepository", !.step = "write",
                             !.caller = c, !.repo = p])
    /\ UNCHANGED <<rowVars, logVars, historyVars>>

\* findOne, and the check that the caller owns p or is SUPER, come first: any caller may be
\* SUPER at that moment, and what they read is not used again.
RemoveRepository(r, c, p) ==
    /\ IsThere(p)
    /\ Takes(r, [Idle EXCEPT !.op = "removeRepository", !.step = "links",
                             !.caller = c, !.repo = p])
    /\ UNCHANGED <<rowVars, logVars, historyVars>>

CreateRepositoryWrite(r) ==
    /\ At(r, "createRepository", "write")
    /\ repo' = [repo EXCEPT ![req[r].repo] = [state |-> "present", owner |-> req[r].caller]]
    /\ Goto(r, "audit")
    /\ UNCHANGED <<users, gone, audited, ws, member, used, logVars, historyVars, budgetVars>>

\* Mutant of RepositoryLinks: only the caller's own workspaces count.
RepositoryLinksOwn(r) ==
    /\ req[r].step = "links"
    /\ Reads(r, \A w \in LinkedTo(req[r].repo) : ws[w].owner # req[r].caller, "write")

\* The check that no workspace is linked.
RepositoryLinks(r) ==
    /\ req[r].step = "links"
    /\ Reads(r, LinkedTo(req[r].repo) = {}, "write")

\* The delete: refused while a scan or a schedule refers to the repository (RESTRICT), it
\* clears the link of a workspace that has one by now (SET NULL).
RemoveRepositoryWrite(r) ==
    LET p == req[r].repo IN
    /\ At(r, "removeRepository", "write")
    /\ \/ /\ IsThere(p) /\ \A w \in Workspace : <<w, p>> \notin used
          /\ repo' = [repo EXCEPT ![p] = [state |-> "deleted", owner |-> None]]
          /\ ws' = [w \in Workspace |-> IF ws[w].repo = p THEN [ws[w] EXCEPT !.repo = None]
                                                          ELSE ws[w]]
          /\ Goto(r, "audit")
       \/ /\ ~IsThere(p) \/ \E w \in Workspace : <<w, p>> \in used
          /\ End(r)
          /\ UNCHANGED <<repo, ws>>
    /\ UNCHANGED <<users, gone, audited, member, used, logVars, historyVars, budgetVars>>

-----------------------------------------------------------------------------
(* The audit row that ends most requests, scans and schedules, and failures *)

\* The change of net that an audit row makes, if its workspace is still there.
NetAfter(op, w, u) ==
    CASE op = "addUser" /\ ThereIs(w)    -> [net EXCEPT ![w][u] = @ + 1]
      [] op = "removeUser" /\ ThereIs(w) -> [net EXCEPT ![w][u] = @ - 1]
      [] OTHER -> net

Audit(r) ==
    /\ req[r].step = "audit"
    /\ net' = NetAfter(req[r].op, req[r].ws, req[r].target)
    /\ End(r)
    /\ UNCHANGED <<rowVars, deleteLogged, historyVars, budgetVars>>

\* A scan or a schedule of workspace w on any repository, and its removal.
Use(w, p) ==
    /\ ThereIs(w) /\ IsThere(p)
    /\ used' = used \cup {<<w, p>>}
    /\ UNCHANGED <<users, gone, audited, repo, ws, member, logVars, req, historyVars, budgetVars>>

Release(w, p) ==
    /\ <<w, p>> \in used
    /\ used' = used \ {<<w, p>>}
    /\ UNCHANGED <<users, gone, audited, repo, ws, member, logVars, req, historyVars, budgetVars>>

\* An await that rejects, or a process that dies, at any step of a request.
Fault(r) ==
    LET w == req[r].ws IN
    /\ req[r].step # "idle"
    /\ faults < MaxFaults
    /\ faults' = faults + 1
    /\ End(r)
    /\ silent' = IF req[r].op \in {"addUser", "removeUser"} /\ req[r].step = "audit"
                 THEN silent \cup {<<w, req[r].target>>} ELSE silent
    /\ spared' = IF At(r, "remove", "write") THEN spared \cup {w} ELSE spared
    /\ UNCHANGED <<rowVars, logVars, held, late, requests>>

Next ==
    \/ \E u \in User : Login(u) \/ RemoveUser(u)
    \/ \E u \in User, w \in Workspace \cup {None} : CreateUser(u, w)
    \/ \E w \in Workspace, p \in Repository : Use(w, p) \/ Release(w, p)
    \/ \E r \in Request, c \in User, w \in Workspace :
          \/ \E p \in Repository \cup {None} : CreateWorkspace(r, c, w, p)
          \/ \E p \in Repository \cup {None, Keep} : Update(r, c, w, p)
          \/ Remove(r, c, w)
          \/ \E u \in User : RemoveMember(r, c, w, u)
          \/ \E u \in User, role \in WorkspaceRole : AddUser(r, c, w, u, role)
    \/ \E r \in Request, c \in User, p \in Repository :
          CreateRepository(r, c, p) \/ RemoveRepository(r, c, p)
    \/ \E r \in Request :
          \/ UpdateWrite(r) \/ RemoveLog(r) \/ RemoveWrite(r)
          \/ Authority(r) \/ Lookup(r) \/ Membership(r) \/ AddWrite(r) \/ RemoveMemberWrite(r)
          \/ CreateRepositoryWrite(r) \/ RepositoryLinks(r) \/ RemoveRepositoryWrite(r)
          \/ Audit(r) \/ Fault(r)

Spec == Init /\ [][Next]_vars

-----------------------------------------------------------------------------
(* Properties *)

\* The owner of a repository and of a workspace has a row.  repositories.owner_id is no
\* foreign key: what protects it is that a caller has logged in and login leaves an audit row,
\* which forbids UsersService.remove.
OwnersStay ==
    /\ \A p \in Repository : IsThere(p) => repo[p].owner \in users
    /\ \A w \in Workspace : ThereIs(w) => ws[w].owner \in users

\* RepositoriesService.remove clears the link of a workspace (ON DELETE SET NULL) only when
\* the workspace was linked after the check for linked workspaces, never one it saw.
LinkLostOnlyByRace ==
    [][\A w \in Workspace, p \in Repository :
          ThereIs(w) /\ ws[w].repo = p /\ IsThere(p) /\ ~IsThere(p)' => w \in late]_vars

\* addUser and removeUser change a membership only for a caller who was the owner or an
\* admin at some moment during the request, however the calls interleave.  Other changes are
\* the cascades, and the first admin of a new owner's workspace.
AuthorityHeld ==
    [][\A w \in Workspace, u \in User :
          member'[w][u] # member[w][u] =>
             \/ ~ThereIs(w)' \/ u \notin users' \/ u \notin users
             \/ \E r \in held : req[r].ws = w /\ req[r].target = u /\ req'[r] # req[r]]_vars

\* The slots about to write the audit row of op for u in w.
Unlogged(op, w, u) ==
    {r \in Request : At(r, op, "audit") /\ req[r].ws = w /\ req[r].target = u}

\* addUser and removeUser that overlap, even twice the same, leave a log whose additions and
\* removals sum up to the membership, once the audit rows still to be written are counted.
MembershipMatchesLog ==
    \A w \in Workspace, u \in users :
        ThereIs(w) /\ <<w, u>> \notin silent =>
            net[w][u] = (IF IsMember(w, u) THEN 1 ELSE 0)
                        - Cardinality(Unlogged("addUser", w, u))
                        + Cardinality(Unlogged("removeUser", w, u))

\* WorkspacesService.remove logs DELETE_WORKSPACE before it deletes: a deleted workspace is
\* logged, and a logged one is there only while the delete is on its way, or after it died
\* or was refused because of a scan or a schedule.
DeletionMatchesLog ==
    \A w \in Workspace :
        /\ ws[w].state = "deleted" => w \in deleteLogged
        /\ ThereIs(w) /\ w \in deleteLogged =>
              w \in spared \/ \E r \in Request : At(r, "remove", "write") /\ req[r].ws = w

=============================================================================
