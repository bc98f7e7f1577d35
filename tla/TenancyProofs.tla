---------------------------- MODULE TenancyProofs ----------------------------
(***************************************************************************)
(* Proofs about Tenancy, for any sets of users, workspaces, repositories   *)
(* and requests (finitely many, since some properties count them) and any  *)
(* bounds.                                                                 *)
(*                                                                         *)
(* The inductive invariant IInv says what a busy slot has seen and done    *)
(* (Busy), how a workspace's row agrees with its owner, its members and    *)
(* the DELETE_WORKSPACE log (WorkspaceInv, DeletionInv), that the owner of *)
(* a repository has logged in (RepositoryInv), and how membership and log  *)
(* add up (LogInv).                                                        *)
(***************************************************************************)
EXTENDS Tenancy, TLAPS, FiniteSetTheorems

WorkspaceOps == {"createWorkspace", "update", "remove", "addUser", "removeUser"}
MemberOps    == {"addUser", "removeUser"}
RepositoryOps == {"createRepository", "removeRepository"}

\* The kind of request a step belongs to, and what it is about.
ShapeInv(r) ==
    /\ req[r].step \in {"authority", "membership"} => req[r].op \in MemberOps
    /\ req[r].step = "lookup" => req[r].op = "addUser"
    /\ req[r].step = "links" => req[r].op = "removeRepository"
    /\ req[r].op \in WorkspaceOps => req[r].ws \in Workspace /\ ws[req[r].ws].state # "absent"
    /\ req[r].op \in MemberOps => req[r].target \in User
    /\ req[r].op \in RepositoryOps => req[r].repo \in Repository

\* A caller with authority is known to have it; past the check, the caller had it.
HeldInv(r) ==
    req[r].op \in MemberOps =>
        /\ MayManage(req[r].ws, req[r].caller) => r \in held
        /\ req[r].step \in {"lookup", "membership", "write"} => r \in held

\* Whatever is linked to a repository about to be deleted was linked after the check.
DropInv(r) == At(r, "removeRepository", "write") => LinkedTo(req[r].repo) \subseteq late

Busy(r) ==
    /\ req[r].caller \in audited
    /\ ShapeInv(r) /\ HeldInv(r) /\ DropInv(r)
    /\ At(r, "remove", "write") => req[r].ws \in deleteLogged

SlotInv(r) == IF req[r].step = "idle" THEN req[r] = Idle ELSE Busy(r)

WorkspaceInv(w) ==
    IF ThereIs(w) THEN ws[w].owner \in users
    ELSE ws[w].owner = None /\ \A u \in User : ~IsMember(w, u)

DeletionInv(w) ==
    /\ ws[w].state = "absent" => w \notin deleteLogged
    /\ ws[w].state = "deleted" => w \in deleteLogged
    /\ ThereIs(w) /\ w \in deleteLogged =>
          w \in spared \/ \E r \in Request : At(r, "remove", "write") /\ req[r].ws = w

RepositoryInv(p) == IsThere(p) => repo[p].owner \in audited

\* A workspace or user that has not been there yet.
Fresh(w, u) == ws[w].state = "absent" \/ u \notin users \cup gone

LogInv(w, u) ==
    /\ Fresh(w, u) => /\ net[w][u] = 0
                      /\ ~IsMember(w, u)
                      /\ Unlogged("addUser", w, u) = {}
                      /\ Unlogged("removeUser", w, u) = {}
    /\ ThereIs(w) /\ u \in users /\ <<w, u>> \notin silent =>
          net[w][u] = (IF IsMember(w, u) THEN 1 ELSE 0)
                      - Cardinality(Unlogged("addUser", w, u))
                      + Cardinality(Unlogged("removeUser", w, u))

IInv ==
    /\ TypeOK
    /\ audited \subseteq users
    /\ \A r \in Request : SlotInv(r)
    /\ \A w \in Workspace : WorkspaceInv(w) /\ DeletionInv(w)
    /\ \A p \in Repository : RepositoryInv(p)
    /\ \A w \in Workspace, u \in User : LogInv(w, u)

-----------------------------------------------------------------------------
(* The request slots *)

LEMMA IdleType == Idle \in RequestState
BY DEF Idle, RequestState, Op, Step, WorkspaceRole

LEMMA GotoFacts ==
    ASSUME NEW r \in Request, NEW step \in Step, req \in [Request -> RequestState], Goto(r, step)
    PROVE  /\ req' \in [Request -> RequestState]
           /\ \A q \in Request \ {r} : req'[q] = req[q]
           /\ req'[r].step = step
           /\ req'[r].op = req[r].op
           /\ req'[r].caller = req[r].caller
           /\ req'[r].ws = req[r].ws
           /\ req'[r].target = req[r].target
           /\ req'[r].repo = req[r].repo
BY DEF Goto, RequestState

LEMMA EndFacts ==
    ASSUME NEW r \in Request, req \in [Request -> RequestState], End(r)
    PROVE  /\ req' \in [Request -> RequestState]
           /\ \A q \in Request \ {r} : req'[q] = req[q]
           /\ req'[r] = Idle
           /\ SlotInv(r)'
           /\ req'[r].step = "idle"
BY IdleType DEF End, SlotInv, Idle

LEMMA TakesFacts ==
    ASSUME NEW r \in Request, NEW rec \in RequestState, TypeOK, Takes(r, rec)
    PROVE  /\ req' \in [Request -> RequestState]
           /\ \A q \in Request \ {r} : req'[q] = req[q]
           /\ req'[r] = rec
           /\ req[r].step = "idle"
           /\ rec.caller \in audited
           /\ requests' \in 0..MaxRequests
           /\ faults' = faults
BY TenancyAssumption DEF Takes, TypeOK

\* The fields of a slot.
LEMMA SlotTypes ==
    ASSUME TypeOK, NEW r \in Request
    PROVE  /\ req[r].op \in Op /\ req[r].step \in Step
           /\ req[r].caller \in User \cup {None} /\ req[r].ws \in Workspace \cup {None}
           /\ req[r].target \in User \cup {None} /\ req[r].role \in WorkspaceRole
           /\ req[r].repo \in Repository \cup {None, Keep}
BY DEF TypeOK, RequestState

\* A slot the step does not move stays right, if no authority or link is gained behind its back.
LEMMA SlotStays ==
    ASSUME NEW q \in Request, SlotInv(q), req'[q] = req[q],
           audited \subseteq audited', deleteLogged \subseteq deleteLogged',
           \A w \in Workspace : ws[w].state # "absent" => ws'[w].state # "absent",
           q \in held => q \in held',
           req[q].op \in MemberOps /\ req[q].ws \in Workspace
               /\ MayManage(req[q].ws, req[q].caller)' /\ req[q].caller \in audited =>
                   MayManage(req[q].ws, req[q].caller) \/ q \in held',
           req[q].repo \in Repository /\ At(q, "removeRepository", "write")
               /\ LinkedTo(req[q].repo) \subseteq late => LinkedTo(req[q].repo)' \subseteq late'
    PROVE  SlotInv(q)'
<1>1. CASE req[q].step = "idle"
  BY <1>1 DEF SlotInv
<1>2. CASE req[q].step # "idle"
  <2>1. Busy(q)
    BY <1>2 DEF SlotInv
  <2>2. ShapeInv(q)'
    BY <2>1 DEF Busy, ShapeInv
  <2>3. HeldInv(q)'
    <3>1. req[q].op \in MemberOps => req[q].ws \in Workspace
      BY <2>1 DEF Busy, ShapeInv, MemberOps, WorkspaceOps
    <3> QED
      BY <2>1, <3>1 DEF Busy, HeldInv
  <2>4. DropInv(q)'
    <3> SUFFICES ASSUME At(q, "removeRepository", "write")'
                 PROVE  LinkedTo(req[q].repo)' \subseteq late'
      BY DEF DropInv, LinkedTo, ThereIs
    <3>1. At(q, "removeRepository", "write") /\ req[q].repo \in Repository
      BY <2>1 DEF At, Busy, ShapeInv, RepositoryOps
    <3> QED
      BY <2>1, <3>1 DEF Busy, DropInv
  <2> QED
    BY <1>2, <2>1, <2>2, <2>3, <2>4 DEF SlotInv, Busy, At
<1> QED
  BY <1>1, <1>2

\* The same for steps that leave workspaces, members and links alone.
LEMMA SlotsStay ==
    ASSUME NEW r, \A q \in Request : SlotInv(q),
           \A q \in Request \ {r} : req'[q] = req[q] /\ (q \in held => q \in held'),
           audited \subseteq audited', deleteLogged \subseteq deleteLogged',
           UNCHANGED <<ws, member, late>>
    PROVE  \A q \in Request \ {r} : SlotInv(q)'
<1> TAKE q \in Request \ {r}
<1>1. MayManage(req[q].ws, req[q].caller)' => MayManage(req[q].ws, req[q].caller)
  BY DEF MayManage
<1>2. LinkedTo(req[q].repo)' = LinkedTo(req[q].repo)
  BY DEF LinkedTo, ThereIs
<1> QED
  BY <1>1, <1>2, SlotStays

-----------------------------------------------------------------------------
(* The logs *)

\* A step of r, which is not about to delete a workspace, logs no deletion.
LEMMA DeletionStays ==
    ASSUME NEW r \in Request, \A w \in Workspace : DeletionInv(w),
           \A q \in Request \ {r} : req'[q] = req[q],
           ~At(r, "remove", "write"),
           \A w \in Workspace : ws'[w].state = ws[w].state,
           deleteLogged' = deleteLogged, spared \subseteq spared'
    PROVE  \A w \in Workspace : DeletionInv(w)'
<1> TAKE w \in Workspace
<1>1. DeletionInv(w)
  OBVIOUS
<1>2. ASSUME NEW q \in Request, At(q, "remove", "write"), req[q].ws = w
      PROVE  At(q, "remove", "write")' /\ req'[q].ws = w
  <2>1. req'[q] = req[q]
    BY <1>2
  <2> QED
    BY <1>2, <2>1 DEF At
<1> QED
  BY <1>1, <1>2 DEF DeletionInv, ThereIs

\* Slot r is not about to log a change of membership.
Mute(r) == ~(req[r].step = "audit" /\ req[r].op \in MemberOps)

LEMMA UnloggedStays ==
    ASSUME NEW r \in Request, Mute(r), Mute(r)',
           \A q \in Request \ {r} : req'[q] = req[q],
           NEW op \in MemberOps, NEW w, NEW u
    PROVE  Unlogged(op, w, u)' = Unlogged(op, w, u)
<1>1. ASSUME NEW q \in Request
      PROVE  q \in Unlogged(op, w, u)' <=> q \in Unlogged(op, w, u)
  <2>1. CASE q = r
    BY <2>1 DEF Unlogged, Mute, At
  <2>2. CASE q # r
    BY <2>2 DEF Unlogged, At
  <2> QED
    BY <2>1, <2>2
<1> QED
  BY <1>1 DEF Unlogged

\* A mute step that changes no membership keeps the balance.
LEMMA LogStays ==
    ASSUME NEW r \in Request, Mute(r), Mute(r)',
           \A q \in Request \ {r} : req'[q] = req[q],
           \A w \in Workspace, u \in User : LogInv(w, u),
           \A w \in Workspace : ws'[w].state \in {ws[w].state, "deleted"},
           UNCHANGED <<users, gone, member, net>>, silent \subseteq silent'
    PROVE  \A w \in Workspace, u \in User : LogInv(w, u)'
<1> TAKE w \in Workspace, u \in User
<1>1. LogInv(w, u)
  OBVIOUS
<1>2. /\ Unlogged("addUser", w, u)' = Unlogged("addUser", w, u)
      /\ Unlogged("removeUser", w, u)' = Unlogged("removeUser", w, u)
  BY UnloggedStays DEF MemberOps
<1>3. (Fresh(w, u)' => Fresh(w, u)) /\ (ThereIs(w)' => ThereIs(w)) /\ IsMember(w, u)' = IsMember(w, u)
  BY DEF Fresh, ThereIs, IsMember
<1> QED
  BY <1>1, <1>2, <1>3 DEF LogInv

LEMMA UnloggedFinite ==
    ASSUME NEW op, NEW w, NEW u
    PROVE  /\ IsFiniteSet(Unlogged(op, w, u))
           /\ Cardinality(Unlogged(op, w, u)) \in Nat
<1>1. Unlogged(op, w, u) \subseteq Request
  BY DEF Unlogged
<1> QED
  BY <1>1, TenancyAssumption, FS_Subset, FS_CardinalityType
-----------------------------------------------------------------------------
(* The invariant, initially and when only slots move *)

LEMMA IInit == Init => IInv
<1> SUFFICES ASSUME Init PROVE IInv
  OBVIOUS
<1>1. TypeOK
  BY IdleType, TenancyAssumption DEF Init, TypeOK, State
<1>2. \A r \in Request : SlotInv(r)
  BY DEF Init, SlotInv, Idle
<1>3. \A w \in Workspace : WorkspaceInv(w) /\ DeletionInv(w)
  BY DEF Init, WorkspaceInv, DeletionInv, ThereIs, IsMember
<1>4. \A p \in Repository : RepositoryInv(p)
  BY DEF Init, RepositoryInv, IsThere
<1>5. ASSUME NEW w \in Workspace, NEW u \in User
      PROVE  LogInv(w, u)
  <2>1. Unlogged("addUser", w, u) = {} /\ Unlogged("removeUser", w, u) = {}
    BY DEF Init, Unlogged, At, Idle
  <2>2. ~ThereIs(w) /\ net[w][u] = 0 /\ ~IsMember(w, u)
    BY DEF Init, ThereIs, IsMember
  <2> QED
    BY <2>1, <2>2 DEF LogInv
<1> QED
  BY <1>1, <1>2, <1>3, <1>4, <1>5 DEF IInv, Init

\* A workspace whose row and members stay the same is right as long as no user goes.
LEMMA WorkspaceStays ==
    ASSUME NEW w \in Workspace, WorkspaceInv(w), users \subseteq users',
           ws'[w].state = ws[w].state, ws'[w].owner = ws[w].owner,
           \A u \in User : ThereIs(w) \/ (~IsMember(w, u) => ~IsMember(w, u)')
    PROVE  WorkspaceInv(w)'
BY DEF WorkspaceInv, ThereIs

\* A step of r that changes the histories and slot r only, and logs nothing.
LEMMA SlotStep ==
    ASSUME IInv, NEW r \in Request, TypeOK',
           \A q \in Request \ {r} : req'[q] = req[q] /\ (q \in held => q \in held'),
           UNCHANGED <<rowVars, logVars, late>>,
           silent \subseteq silent', spared \subseteq spared',
           ~At(r, "remove", "write"), Mute(r), Mute(r)', SlotInv(r)'
    PROVE  IInv'
<1>1. UNCHANGED <<users, gone, audited, repo, ws, member, used, net, deleteLogged>>
  BY DEF rowVars, logVars
<1>2. \A q \in Request : SlotInv(q)'
  <2>1. \A q \in Request \ {r} : SlotInv(q)'
    BY <1>1, SlotsStay DEF IInv
  <2> QED
    BY <2>1
<1>3. \A w \in Workspace : WorkspaceInv(w)'
  BY <1>1, WorkspaceStays DEF IInv, IsMember
<1>4. \A w \in Workspace : DeletionInv(w)'
  BY <1>1, DeletionStays DEF IInv
<1>5. \A p \in Repository : RepositoryInv(p)'
  BY <1>1 DEF IInv, RepositoryInv, IsThere
<1>6. \A w \in Workspace, u \in User : LogInv(w, u)'
  <2>1. \A w \in Workspace : ws'[w].state \in {ws[w].state, "deleted"}
    BY <1>1
  <2>2. \A w \in Workspace, u \in User : LogInv(w, u)
    BY DEF IInv
  <2> QED
    BY <1>1, <2>1, <2>2, LogStays
<1> QED
  BY <1>1, <1>2, <1>3, <1>4, <1>5, <1>6 DEF IInv

\* Slot r is taken.
LEMMA StartStep ==
    ASSUME IInv, NEW r \in Request, NEW rec \in RequestState, Takes(r, rec),
           rec.step \notin {"idle", "audit"},
           UNCHANGED <<rowVars, logVars, late, silent, spared>>,
           held' \subseteq Request, \A q \in Request \ {r} : q \in held => q \in held',
           ShapeInv(r)', HeldInv(r)', rec.step # "write" \/ rec.op \in {"update", "createRepository"}
    PROVE  IInv'
<1>1. /\ req' \in [Request -> RequestState]
      /\ \A q \in Request \ {r} : req'[q] = req[q]
      /\ req'[r] = rec /\ req[r].step = "idle" /\ rec.caller \in audited
      /\ requests' \in 0..MaxRequests /\ faults' = faults
  BY TakesFacts DEF IInv
<1>2. UNCHANGED <<users, gone, audited, repo, ws, member, used, net, deleteLogged,
                  late, silent, spared>>
  BY DEF rowVars, logVars
<1>3. TypeOK'
  BY <1>1, <1>2 DEF IInv, TypeOK
<1>4. SlotInv(r)'
  BY <1>1, <1>2 DEF SlotInv, Busy, DropInv, At
<1>5. ~At(r, "remove", "write") /\ Mute(r) /\ Mute(r)'
  BY <1>1 DEF At, Mute
<1> QED
  BY <1>1, <1>2, <1>3, <1>4, <1>5, SlotStep

\* Slot r reads.
LEMMA ReadStep ==
    ASSUME IInv, NEW r \in Request, NEW ok \in BOOLEAN, NEW step \in Step, Reads(r, ok, step),
           req[r].step \in {"authority", "lookup", "membership", "links"},
           step \in {"lookup", "membership", "write"},
           ok /\ Busy(r) => ShapeInv(r)' /\ HeldInv(r)' /\ DropInv(r)',
           req[r].op # "remove"
    PROVE  IInv'
<1>1. /\ UNCHANGED <<rowVars, logVars, held, late, silent, spared, requests, faults>>
      /\ IF ok THEN Goto(r, step) ELSE End(r)
  BY DEF Reads, historyVars, budgetVars
<1>2. UNCHANGED <<users, gone, audited, repo, ws, member, used, net, deleteLogged>>
  BY <1>1 DEF rowVars, logVars
<1>3. req \in [Request -> RequestState]
  BY DEF IInv, TypeOK
<1>4. Busy(r)
  BY DEF IInv, SlotInv
<1>5. ~At(r, "remove", "write") /\ Mute(r)
  BY DEF At, Mute
<1>6. CASE ok
  <2>1. /\ req' \in [Request -> RequestState]
        /\ \A q \in Request \ {r} : req'[q] = req[q]
        /\ req'[r].step = step /\ req'[r].op = req[r].op /\ req'[r].caller = req[r].caller
    BY <1>1, <1>3, <1>6, GotoFacts
  <2>2. TypeOK'
    BY <1>1, <1>2, <2>1 DEF IInv, TypeOK
  <2>3. SlotInv(r)'
    BY <1>2, <1>4, <1>6, <2>1 DEF SlotInv, Busy, At
  <2>4. Mute(r)'
    BY <2>1 DEF Mute
  <2> QED
    BY <1>1, <1>5, <2>1, <2>2, <2>3, <2>4, SlotStep
<1>7. CASE ~ok
  <2>1. /\ req' \in [Request -> RequestState]
        /\ \A q \in Request \ {r} : req'[q] = req[q]
        /\ SlotInv(r)' /\ req'[r].step = "idle"
    BY <1>1, <1>3, <1>7, EndFacts
  <2>2. TypeOK'
    BY <1>1, <1>2, <2>1 DEF IInv, TypeOK
  <2>3. Mute(r)'
    BY <2>1 DEF Mute
  <2> QED
    BY <1>1, <1>5, <2>1, <2>2, <2>3, SlotStep
<1> QED
  BY <1>6, <1>7
-----------------------------------------------------------------------------
(* Requests that start, and the reads that follow *)

LEMMA UpdateNext ==
    ASSUME IInv, NEW r \in Request, NEW c \in User, NEW w \in Workspace,
           NEW p \in Repository \cup {None, Keep}, Update(r, c, w, p)
    PROVE  IInv'
<1> DEFINE rec == [Idle EXCEPT !.op = "update", !.step = "write", !.caller = c, !.ws = w, !.repo = p]
<1>1. /\ rec \in RequestState /\ rec.op = "update" /\ rec.step = "write" /\ rec.ws = w
  BY DEF Idle, RequestState, Op, Step, WorkspaceRole
<1>2. /\ Takes(r, rec) /\ ThereIs(w)
      /\ UNCHANGED <<rowVars, logVars, held, late, silent, spared>>
  BY DEF Update, historyVars
<1> HIDE DEF rec
<1>3. req'[r] = rec
  BY <1>1, <1>2, TakesFacts DEF IInv
<1>4. ws' = ws /\ held \subseteq Request
  BY <1>2 DEF rowVars, IInv, TypeOK
<1>5. ShapeInv(r)' /\ HeldInv(r)'
  BY <1>1, <1>2, <1>3, <1>4 DEF ShapeInv, HeldInv, MemberOps, RepositoryOps, ThereIs
<1> QED
  BY <1>1, <1>2, <1>4, <1>5, StartStep

LEMMA RemoveNext ==
    ASSUME IInv, NEW r \in Request, NEW c \in User, NEW w \in Workspace, Remove(r, c, w)
    PROVE  IInv'
<1> DEFINE rec == [Idle EXCEPT !.op = "remove", !.step = "log", !.caller = c, !.ws = w]
<1>1. /\ rec \in RequestState /\ rec.op = "remove" /\ rec.step = "log" /\ rec.ws = w
  BY DEF Idle, RequestState, Op, Step, WorkspaceRole
<1>2. /\ Takes(r, rec) /\ ThereIs(w)
      /\ UNCHANGED <<rowVars, logVars, held, late, silent, spared>>
  BY DEF Remove, historyVars
<1> HIDE DEF rec
<1>3. req'[r] = rec
  BY <1>1, <1>2, TakesFacts DEF IInv
<1>4. ws' = ws /\ held \subseteq Request
  BY <1>2 DEF rowVars, IInv, TypeOK
<1>5. ShapeInv(r)' /\ HeldInv(r)'
  BY <1>1, <1>2, <1>3, <1>4 DEF ShapeInv, HeldInv, MemberOps, RepositoryOps, ThereIs
<1> QED
  BY <1>1, <1>2, <1>4, <1>5, StartStep

\* What AddUser and RemoveMember share.
LEMMA ManageStep ==
    ASSUME IInv, NEW r \in Request, NEW w \in Workspace, NEW rec \in RequestState,
           Manage(r, rec.caller, w, rec), rec.op \in MemberOps, rec.ws = w, rec.target \in User,
           rec.step \in {"authority", "lookup", "membership"},
           rec.step = "lookup" => rec.op = "addUser",
           rec.step # "authority" => ws[w].owner = rec.caller
    PROVE  IInv'
<1>1. /\ Takes(r, rec) /\ ThereIs(w)
      /\ held' = IF MayManage(w, rec.caller) THEN held \cup {r} ELSE held \ {r}
      /\ UNCHANGED <<rowVars, logVars, late, silent, spared>>
  BY DEF Manage
<1>2. req'[r] = rec
  BY <1>1, TakesFacts DEF IInv
<1>3. ws' = ws /\ member' = member /\ held \subseteq Request
  BY <1>1 DEF rowVars, IInv, TypeOK
<1>4. held' \subseteq Request /\ \A q \in Request \ {r} : q \in held => q \in held'
  BY <1>1, <1>3
<1>5. ShapeInv(r)'
  BY <1>1, <1>2, <1>3 DEF ShapeInv, MemberOps, RepositoryOps, ThereIs
<1>6. HeldInv(r)'
  <2>1. MayManage(req[r].ws, req[r].caller)' <=> MayManage(w, rec.caller)
    BY <1>2, <1>3 DEF MayManage
  <2>2. rec.step # "authority" => MayManage(w, rec.caller)
    BY DEF MayManage
  <2> QED
    BY <1>1, <1>2, <2>1, <2>2 DEF HeldInv
<1>7. rec.step \notin {"idle", "audit"} /\ rec.step # "write"
  OBVIOUS
<1> QED
  BY <1>1, <1>4, <1>5, <1>6, <1>7, StartStep

LEMMA AddUserNext ==
    ASSUME IInv, NEW r \in Request, NEW c \in User, NEW w \in Workspace, NEW u \in User,
           NEW role \in WorkspaceRole, AddUser(r, c, w, u, role)
    PROVE  IInv'
<1> DEFINE step == IF ws[w].owner = c THEN "lookup" ELSE "authority"
<1> DEFINE rec == [Idle EXCEPT !.op = "addUser", !.caller = c, !.ws = w, !.target = u,
                   !.role = role, !.step = step]
<1>1. /\ rec \in RequestState /\ rec.op = "addUser" /\ rec.ws = w /\ rec.target = u
      /\ rec.step = step /\ rec.caller = c
  BY DEF Idle, RequestState, Op, Step, WorkspaceRole
<1>2. Manage(r, c, w, rec)
  BY DEF AddUser
<1>3. step \in {"authority", "lookup"} /\ (step # "authority" => ws[w].owner = c)
  OBVIOUS
<1> HIDE DEF rec, step
<1> QED
  BY <1>1, <1>2, <1>3, ManageStep DEF MemberOps

LEMMA RemoveMemberNext ==
    ASSUME IInv, NEW r \in Request, NEW c \in User, NEW w \in Workspace, NEW u \in User,
           RemoveMember(r, c, w, u)
    PROVE  IInv'
<1> DEFINE step == IF ws[w].owner = c THEN "membership" ELSE "authority"
<1> DEFINE rec == [Idle EXCEPT !.op = "removeUser", !.caller = c, !.ws = w, !.target = u,
                   !.step = step]
<1>1. /\ rec \in RequestState /\ rec.op = "removeUser" /\ rec.ws = w /\ rec.target = u
      /\ rec.step = step /\ rec.caller = c
  BY DEF Idle, RequestState, Op, Step, WorkspaceRole
<1>2. Manage(r, c, w, rec)
  BY DEF RemoveMember
<1>3. step \in {"authority", "membership"} /\ (step # "authority" => ws[w].owner = c)
  OBVIOUS
<1> HIDE DEF rec, step
<1> QED
  BY <1>1, <1>2, <1>3, ManageStep DEF MemberOps

LEMMA CreateRepositoryNext ==
    ASSUME IInv, NEW r \in Request, NEW c \in User, NEW p \in Repository, CreateRepository(r, c, p)
    PROVE  IInv'
<1> DEFINE rec == [Idle EXCEPT !.op = "createRepository", !.step = "write", !.caller = c, !.repo = p]
<1>1. /\ rec \in RequestState /\ rec.op = "createRepository" /\ rec.step = "write" /\ rec.repo = p
  BY DEF Idle, RequestState, Op, Step, WorkspaceRole
<1>2. Takes(r, rec) /\ UNCHANGED <<rowVars, logVars, held, late, silent, spared>>
  BY DEF CreateRepository, historyVars
<1> HIDE DEF rec
<1>3. req'[r] = rec
  BY <1>1, <1>2, TakesFacts DEF IInv
<1>4. held \subseteq Request
  BY DEF IInv, TypeOK
<1>5. ShapeInv(r)' /\ HeldInv(r)'
  BY <1>1, <1>3 DEF ShapeInv, HeldInv, MemberOps, WorkspaceOps
<1> QED
  BY <1>1, <1>2, <1>4, <1>5, StartStep

LEMMA RemoveRepositoryNext ==
    ASSUME IInv, NEW r \in Request, NEW c \in User, NEW p \in Repository, RemoveRepository(r, c, p)
    PROVE  IInv'
<1> DEFINE rec == [Idle EXCEPT !.op = "removeRepository", !.step = "links", !.caller = c, !.repo = p]
<1>1. /\ rec \in RequestState /\ rec.op = "removeRepository" /\ rec.step = "links" /\ rec.repo = p
  BY DEF Idle, RequestState, Op, Step, WorkspaceRole
<1>2. Takes(r, rec) /\ UNCHANGED <<rowVars, logVars, held, late, silent, spared>>
  BY DEF RemoveRepository, historyVars
<1> HIDE DEF rec
<1>3. req'[r] = rec
  BY <1>1, <1>2, TakesFacts DEF IInv
<1>4. held \subseteq Request
  BY DEF IInv, TypeOK
<1>5. ShapeInv(r)' /\ HeldInv(r)'
  BY <1>1, <1>3 DEF ShapeInv, HeldInv, MemberOps, WorkspaceOps
<1> QED
  BY <1>1, <1>2, <1>4, <1>5, StartStep

\* The reads of addUser and removeUser.
LEMMA MemberRead ==
    ASSUME IInv, NEW r \in Request, NEW ok \in BOOLEAN,
           NEW step \in {"lookup", "membership", "write"}, Reads(r, ok, step),
           req[r].step \in {"authority", "lookup", "membership"}, req[r].op \in MemberOps,
           ok /\ req[r].step = "authority" => MayManage(req[r].ws, req[r].caller),
           step = "lookup" => req[r].op = "addUser"
    PROVE  IInv'
<1>1. step \in Step /\ req[r].op # "remove"
  BY DEF Step, MemberOps
<1>2. ASSUME ok, Busy(r)
      PROVE  ShapeInv(r)' /\ HeldInv(r)' /\ DropInv(r)'
  <2>1. /\ req'[r].step = step /\ req'[r].op = req[r].op /\ req'[r].caller = req[r].caller
        /\ req'[r].ws = req[r].ws /\ req'[r].target = req[r].target
        /\ req'[r].repo = req[r].repo
    BY <1>1, <1>2, GotoFacts DEF Reads, IInv, TypeOK
  <2>2. UNCHANGED <<ws, member, held>>
    BY DEF Reads, rowVars, historyVars
  <2>3. ShapeInv(r)'
    BY <1>2, <2>1, <2>2 DEF Busy, ShapeInv
  <2>4. HeldInv(r)'
    BY <1>2, <2>1, <2>2 DEF Busy, HeldInv, MayManage
  <2>5. DropInv(r)'
    BY <2>1 DEF DropInv, At, MemberOps
  <2> QED
    BY <2>3, <2>4, <2>5
<1> QED
  BY <1>1, <1>2, ReadStep

LEMMA AuthorityNext ==
    ASSUME IInv, NEW r \in Request, Authority(r)
    PROVE  IInv'
<1> DEFINE ok == Authorises(member[req[r].ws][req[r].caller])
<1> DEFINE step == IF req[r].op = "addUser" THEN "lookup" ELSE "membership"
<1>1. ok \in BOOLEAN /\ (ok => MayManage(req[r].ws, req[r].caller))
  BY DEF Authorises, MayManage
<1>2. Reads(r, ok, step) /\ req[r].step = "authority"
  BY DEF Authority
<1>3. req[r].op \in MemberOps
  BY <1>2 DEF IInv, SlotInv, Busy, ShapeInv
<1>4. step \in {"lookup", "membership", "write"} /\ (step = "lookup" => req[r].op = "addUser")
  OBVIOUS
<1> HIDE DEF ok, step
<1> QED
  BY <1>1, <1>2, <1>3, <1>4, MemberRead

LEMMA LookupNext ==
    ASSUME IInv, NEW r \in Request, Lookup(r)
    PROVE  IInv'
<1> DEFINE ok == req[r].target \in users
<1>1. ok \in BOOLEAN
  OBVIOUS
<1>2. Reads(r, ok, "membership") /\ req[r].step = "lookup"
  BY DEF Lookup
<1>3. req[r].op \in MemberOps
  BY <1>2 DEF IInv, SlotInv, Busy, ShapeInv, MemberOps
<1> HIDE DEF ok
<1> QED
  BY <1>1, <1>2, <1>3, MemberRead

LEMMA MembershipNext ==
    ASSUME IInv, NEW r \in Request, Membership(r)
    PROVE  IInv'
<1> DEFINE ok == IsMember(req[r].ws, req[r].target) <=> req[r].op = "removeUser"
<1>1. ok \in BOOLEAN
  OBVIOUS
<1>2. Reads(r, ok, "write") /\ req[r].step = "membership"
  BY DEF Membership
<1>3. req[r].op \in MemberOps
  BY <1>2 DEF IInv, SlotInv, Busy, ShapeInv
<1> HIDE DEF ok
<1> QED
  BY <1>1, <1>2, <1>3, MemberRead

LEMMA RepositoryLinksNext ==
    ASSUME IInv, NEW r \in Request, RepositoryLinks(r)
    PROVE  IInv'
<1> DEFINE ok == LinkedTo(req[r].repo) = {}
<1>1. ok \in BOOLEAN /\ "write" \in Step
  BY DEF Step
<1>2. Reads(r, ok, "write") /\ req[r].step = "links"
  BY DEF RepositoryLinks
<1>3. req[r].op = "removeRepository"
  BY <1>2 DEF IInv, SlotInv, Busy, ShapeInv
<1>4. ASSUME ok, Busy(r)
      PROVE  ShapeInv(r)' /\ HeldInv(r)' /\ DropInv(r)'
  <2>1. /\ req'[r].step = "write" /\ req'[r].op = req[r].op /\ req'[r].repo = req[r].repo
    BY <1>1, <1>2, <1>4, GotoFacts DEF Reads, IInv, TypeOK
  <2>2. ws' = ws
    BY <1>2 DEF Reads, rowVars
  <2>3. LinkedTo(req[r].repo)' = {}
    BY <1>4, <2>1, <2>2 DEF LinkedTo, ThereIs
  <2> QED
    BY <1>3, <1>4, <2>1, <2>3 DEF Busy, ShapeInv, HeldInv, DropInv, MemberOps, WorkspaceOps
<1> HIDE DEF ok
<1> QED
  BY <1>1, <1>2, <1>3, <1>4, ReadStep
-----------------------------------------------------------------------------
(* Users come and go *)

\* A pair whose log does not change keeps its balance; a fresh one begins with none.
LEMMA LogKept ==
    ASSUME NEW w \in Workspace, NEW u \in User, LogInv(w, u), net'[w][u] = net[w][u],
           Unlogged("addUser", w, u)' = Unlogged("addUser", w, u),
           Unlogged("removeUser", w, u)' = Unlogged("removeUser", w, u),
           silent \subseteq silent',
           Fresh(w, u)' => Fresh(w, u) /\ ~IsMember(w, u)',
           ThereIs(w)' /\ u \in users' /\ <<w, u>> \notin silent' =>
               /\ IsMember(w, u)' <=> IsMember(w, u)
               /\ Fresh(w, u) \/ (ThereIs(w) /\ u \in users)
    PROVE  LogInv(w, u)'
<1>1. Cardinality({}) = 0
  BY FS_EmptySet
<1> QED
  BY <1>1 DEF LogInv

LEMMA LoginNext ==
    ASSUME IInv, NEW u \in User, Login(u)
    PROVE  IInv'
<1>1. /\ u \in users /\ audited' = audited \cup {u}
      /\ UNCHANGED <<users, gone, repo, ws, member, used, net, deleteLogged, req,
                     held, late, silent, spared, requests, faults>>
  BY DEF Login, logVars, historyVars, budgetVars
<1>2. TypeOK'
  BY <1>1 DEF IInv, TypeOK
<1>3. \A q \in Request : SlotInv(q)'
  BY <1>1 DEF IInv, SlotInv, Busy, ShapeInv, HeldInv, DropInv, At, MayManage, LinkedTo, ThereIs
<1>4. \A w \in Workspace : WorkspaceInv(w)' /\ DeletionInv(w)'
  BY <1>1 DEF IInv, WorkspaceInv, DeletionInv, ThereIs, IsMember, At
<1>5. \A p \in Repository : RepositoryInv(p)'
  BY <1>1 DEF IInv, RepositoryInv, IsThere
<1>6. ASSUME NEW x \in Workspace, NEW v \in User
      PROVE  LogInv(x, v)'
  <2>1. \A op \in MemberOps : Unlogged(op, x, v)' = Unlogged(op, x, v)
    BY <1>1 DEF Unlogged, At
  <2>2. Fresh(x, v)' = Fresh(x, v) /\ ThereIs(x)' = ThereIs(x) /\ IsMember(x, v)' = IsMember(x, v)
    BY <1>1 DEF Fresh, ThereIs, IsMember
  <2> QED
    BY <1>1, <2>1, <2>2 DEF IInv, LogInv, MemberOps
<1> QED
  BY <1>1, <1>2, <1>3, <1>4, <1>5, <1>6 DEF IInv

LEMMA UseNext ==
    ASSUME IInv, NEW w \in Workspace, NEW p \in Repository, Use(w, p) \/ Release(w, p)
    PROVE  IInv'
<1>1. /\ used' \subseteq Workspace \X Repository
      /\ UNCHANGED <<users, gone, audited, repo, ws, member, net, deleteLogged, req,
                     held, late, silent, spared, requests, faults>>
  BY DEF Use, Release, logVars, historyVars, budgetVars, IInv, TypeOK
<1>2. TypeOK'
  BY <1>1 DEF IInv, TypeOK
<1>3. \A q \in Request : SlotInv(q)'
  BY <1>1 DEF IInv, SlotInv, Busy, ShapeInv, HeldInv, DropInv, At, MayManage, LinkedTo, ThereIs
<1>4. \A x \in Workspace : WorkspaceInv(x)' /\ DeletionInv(x)'
  BY <1>1 DEF IInv, WorkspaceInv, DeletionInv, ThereIs, IsMember, At
<1>5. \A x \in Repository : RepositoryInv(x)'
  BY <1>1 DEF IInv, RepositoryInv, IsThere
<1>6. ASSUME NEW x \in Workspace, NEW v \in User
      PROVE  LogInv(x, v)'
  <2>1. \A op \in MemberOps : Unlogged(op, x, v)' = Unlogged(op, x, v)
    BY <1>1 DEF Unlogged, At
  <2>2. Fresh(x, v)' = Fresh(x, v) /\ ThereIs(x)' = ThereIs(x) /\ IsMember(x, v)' = IsMember(x, v)
    BY <1>1 DEF Fresh, ThereIs, IsMember
  <2> QED
    BY <1>1, <2>1, <2>2 DEF IInv, LogInv, MemberOps
<1> QED
  BY <1>1, <1>2, <1>3, <1>4, <1>5, <1>6 DEF IInv

LEMMA RemoveUserNext ==
    ASSUME IInv, NEW u \in User, RemoveUser(u)
    PROVE  IInv'
<1>1. /\ u \in users /\ u \notin audited
      /\ \A w \in Workspace : ThereIs(w) => ws[w].owner # u
      /\ users' = users \ {u} /\ gone' = gone \cup {u}
      /\ member' = [w \in Workspace |-> [member[w] EXCEPT ![u] = "none"]]
      /\ UNCHANGED <<audited, repo, ws, used, net, deleteLogged, req,
                     held, late, silent, spared, requests, faults>>
  BY DEF RemoveUser, Removable, logVars, historyVars, budgetVars
<1>2. /\ \A w \in Workspace, v \in User :
            member'[w][v] = IF v = u THEN "none" ELSE member[w][v]
      /\ member' \in [Workspace -> [User -> WorkspaceRole \cup {"none"}]]
  BY <1>1 DEF IInv, TypeOK
<1>3. TypeOK'
  BY <1>1, <1>2 DEF IInv, TypeOK
<1>4. \A q \in Request : SlotInv(q)'
  <2> TAKE q \in Request
  <2>1. audited \subseteq User
    BY DEF IInv, TypeOK
  <2>2. req[q].ws \in Workspace /\ MayManage(req[q].ws, req[q].caller)'
            /\ req[q].caller \in audited => MayManage(req[q].ws, req[q].caller)
    BY <1>1, <1>2, <2>1 DEF MayManage
  <2>3. LinkedTo(req[q].repo)' = LinkedTo(req[q].repo)
    BY <1>1 DEF LinkedTo, ThereIs
  <2> QED
    BY <1>1, <2>2, <2>3, SlotStays DEF IInv
<1>5. \A w \in Workspace : WorkspaceInv(w)' /\ DeletionInv(w)'
  <2> TAKE w \in Workspace
  <2>1. WorkspaceInv(w)'
    BY <1>1, <1>2 DEF IInv, WorkspaceInv, ThereIs, IsMember
  <2>2. DeletionInv(w)'
    BY <1>1 DEF IInv, DeletionInv, ThereIs, At
  <2> QED
    BY <2>1, <2>2
<1>6. \A p \in Repository : RepositoryInv(p)'
  BY <1>1 DEF IInv, RepositoryInv, IsThere
<1>7. ASSUME NEW w \in Workspace, NEW v \in User
      PROVE  LogInv(w, v)'
  <2>1. LogInv(w, v)
    BY DEF IInv
  <2>2. \A op \in MemberOps : Unlogged(op, w, v)' = Unlogged(op, w, v)
    BY <1>1 DEF Unlogged, At
  <2>3. Fresh(w, v)' => Fresh(w, v) /\ ~IsMember(w, v)'
    BY <1>1, <1>2, <2>1 DEF LogInv, Fresh, IsMember
  <2>4. ThereIs(w)' /\ v \in users' => /\ IsMember(w, v)' <=> IsMember(w, v)
                                       /\ ThereIs(w) /\ v \in users
    BY <1>1, <1>2 DEF IsMember, ThereIs
  <2> QED
    BY <1>1, <2>1, <2>2, <2>3, <2>4, LogKept DEF MemberOps
<1> QED
  BY <1>1, <1>3, <1>4, <1>5, <1>6, <1>7 DEF IInv

LEMMA CreateUserNext ==
    ASSUME IInv, NEW u \in User, NEW w \in Workspace \cup {None}, CreateUser(u, w)
    PROVE  IInv'
<1>1. /\ u \notin users \cup gone /\ users' = users \cup {u}
      /\ UNCHANGED <<gone, audited, repo, used, net, deleteLogged, req,
                     held, late, spared, requests, faults>>
  BY DEF CreateUser, logVars, budgetVars
<1>2. /\ \A x \in Workspace : x # w => ws'[x] = ws[x]
      /\ \A x \in Workspace, v \in User : x # w \/ v # u => member'[x][v] = member[x][v]
      /\ ws' \in [Workspace -> [state : State, owner : User \cup {None},
                                repo : Repository \cup {None}]]
      /\ member' \in [Workspace -> [User -> WorkspaceRole \cup {"none"}]]
      /\ silent' \in {silent, silent \cup {<<w, u>>}}
  <2>1. CASE UNCHANGED <<ws, member, silent>>
    BY <2>1 DEF IInv, TypeOK
  <2>2. CASE /\ w \in Workspace
             /\ ws' = [ws EXCEPT ![w] = [state |-> "present", owner |-> u, repo |-> None]]
             /\ member' = [member EXCEPT ![w][u] = "ADMIN"]
             /\ silent' = silent \cup {<<w, u>>}
    BY <2>2 DEF IInv, TypeOK, State, WorkspaceRole
  <2> QED
    BY <2>1, <2>2 DEF CreateUser
<1>3. \/ w = None /\ UNCHANGED <<ws, member, silent>>
      \/ /\ w \in Workspace /\ ws[w].state = "absent" /\ silent' = silent \cup {<<w, u>>}
         /\ ws'[w] = [state |-> "present", owner |-> u, repo |-> None]
  BY DEF CreateUser, IInv, TypeOK
<1>4. TypeOK'
  <2>1. silent' \subseteq Workspace \X User
    BY <1>2, <1>3 DEF IInv, TypeOK
  <2> QED
    BY <1>1, <1>2, <2>1 DEF IInv, TypeOK
<1>5. \A q \in Request : SlotInv(q)'
  <2> TAKE q \in Request
  <2>1. SlotInv(q) /\ audited \subseteq User /\ u \notin audited
    BY <1>1 DEF IInv, TypeOK
  <2>2. req[q].op \in MemberOps /\ req[q].ws \in Workspace
            /\ MayManage(req[q].ws, req[q].caller)' /\ req[q].caller \in audited =>
                 MayManage(req[q].ws, req[q].caller)
    <3> SUFFICES ASSUME req[q].op \in MemberOps, req[q].ws \in Workspace,
                        req[q].caller \in audited
                 PROVE  MayManage(req[q].ws, req[q].caller)' => MayManage(req[q].ws, req[q].caller)
      OBVIOUS
    <3>1. member'[req[q].ws][req[q].caller] = member[req[q].ws][req[q].caller]
      <4>1. req[q].caller # u /\ req[q].caller \in User
        BY <2>1
      <4> QED
        BY <1>2, <4>1
    <3>2. ws'[req[q].ws].owner \in {ws[req[q].ws].owner, u}
      <4>1. \A x \in Workspace : ws'[x] = ws[x] \/ ws'[x].owner = u
        BY <1>2, <1>3
      <4> QED
        BY <4>1
    <3> QED
      BY <1>1, <2>1, <3>1, <3>2 DEF MayManage
  <2>3. req[q].repo \in Repository => LinkedTo(req[q].repo)' = LinkedTo(req[q].repo)
    <3> SUFFICES ASSUME req[q].repo \in Repository
                 PROVE  LinkedTo(req[q].repo)' = LinkedTo(req[q].repo)
      OBVIOUS
    <3>1. \A x \in Workspace : ThereIs(x)' /\ ws'[x].repo = req[q].repo
                                   <=> ThereIs(x) /\ ws[x].repo = req[q].repo
      BY <1>2, <1>3, TenancyAssumption DEF ThereIs
    <3> QED
      BY <1>1, <3>1 DEF LinkedTo
  <2>4. \A x \in Workspace : ws[x].state # "absent" => ws'[x].state # "absent"
    BY <1>2, <1>3
  <2> QED
    BY <1>1, <2>1, <2>2, <2>3, <2>4, SlotStays
<1>6. \A x \in Workspace : WorkspaceInv(x)' /\ DeletionInv(x)'
  <2> TAKE x \in Workspace
  <2>1. WorkspaceInv(x) /\ DeletionInv(x)
    BY DEF IInv
  <2>2. CASE ws' = ws /\ member' = member
    BY <1>1, <2>1, <2>2 DEF WorkspaceInv, DeletionInv, ThereIs, IsMember, At
  <2>3. CASE x = w /\ ws[w].state = "absent" /\ ws'[w] = [state |-> "present", owner |-> u, repo |-> None]
    BY <1>1, <2>1, <2>3 DEF WorkspaceInv, DeletionInv, ThereIs
  <2>4. CASE x # w
    BY <1>1, <1>2, <2>1, <2>4 DEF WorkspaceInv, DeletionInv, ThereIs, IsMember, At
  <2> QED
    BY <1>3, <2>2, <2>3, <2>4
<1>7. \A p \in Repository : RepositoryInv(p)'
  BY <1>1 DEF IInv, RepositoryInv, IsThere
<1>8. ASSUME NEW x \in Workspace, NEW v \in User
      PROVE  LogInv(x, v)'
  <2>1. LogInv(x, v)
    BY DEF IInv
  <2>2. \A op \in MemberOps : Unlogged(op, x, v)' = Unlogged(op, x, v)
    BY <1>1 DEF Unlogged, At
  <2>3. Fresh(x, v)' => Fresh(x, v) /\ (x # w \/ v # u)
    BY <1>1, <1>2, <1>3, TenancyAssumption DEF Fresh
  <2>4. Fresh(x, v)' => ~IsMember(x, v)'
    BY <1>2, <2>1, <2>3 DEF LogInv, IsMember
  <2>5. ASSUME ThereIs(x)', v \in users', <<x, v>> \notin silent'
        PROVE  /\ IsMember(x, v)' <=> IsMember(x, v)
               /\ Fresh(x, v) \/ (ThereIs(x) /\ v \in users)
    <3>1. ThereIs(x) \/ ws[x].state = "absent"
      BY <1>2, <1>3, <2>5 DEF ThereIs
    <3>2. v \in users \/ v \notin users \cup gone
      BY <1>1, <2>5
    <3>3. member'[x][v] = member[x][v]
      BY <1>2, <1>3, <2>5
    <3> QED
      BY <3>1, <3>2, <3>3 DEF Fresh, IsMember
  <2>6. silent \subseteq silent'
    BY <1>2
  <2> QED
    BY <1>1, <2>1, <2>2, <2>3, <2>4, <2>5, <2>6, LogKept DEF MemberOps
<1> QED
  BY <1>1, <1>4, <1>5, <1>6, <1>7, <1>8 DEF IInv
-----------------------------------------------------------------------------
(* Workspaces are created, linked and deleted *)

\* A link that comes after the check of a removal is a late one.
LEMMA LinkedStays ==
    ASSUME NEW q \in Request, At(q, "removeRepository", "write"), req'[q] = req[q],
           req[q].repo \in Repository, LinkedTo(req[q].repo) \subseteq late,
           NEW w \in Workspace, NEW p, Links(w, p),
           \A x \in Workspace \ {w} : ws'[x] = ws[x], ws'[w].repo = p
    PROVE  LinkedTo(req[q].repo)' \subseteq late'
<1> SUFFICES ASSUME NEW x \in Workspace, ThereIs(x)', ws'[x].repo = req[q].repo
             PROVE  x \in late'
  BY DEF LinkedTo
<1>1. CASE x = w
  <2>1. p = req[q].repo /\ p # None
    BY <1>1, TenancyAssumption
  <2>2. q \in Dropping(p)
    BY <2>1 DEF Dropping
  <2> QED
    BY <1>1, <2>1, <2>2 DEF Links
<1>2. CASE x # w
  <2>1. x \in late
    BY <1>2 DEF LinkedTo, ThereIs
  <2> QED
    BY <1>2, <2>1 DEF Links
<1> QED
  BY <1>1, <1>2

LEMMA LinksType ==
    ASSUME NEW w \in Workspace, NEW p, Links(w, p), late \subseteq Workspace
    PROVE  late' \subseteq Workspace
BY DEF Links

LEMMA CreateWorkspaceNext ==
    ASSUME IInv, NEW r \in Request, NEW c \in User, NEW w \in Workspace,
           NEW p \in Repository \cup {None}, CreateWorkspace(r, c, w, p)
    PROVE  IInv'
<1> DEFINE rec == [Idle EXCEPT !.op = "createWorkspace", !.step = "audit", !.caller = c, !.ws = w]
<1>1. /\ rec \in RequestState /\ rec.op = "createWorkspace" /\ rec.step = "audit"
      /\ rec.ws = w /\ rec.caller = c
  BY DEF Idle, RequestState, Op, Step, WorkspaceRole
<1>2. /\ Takes(r, rec) /\ ws[w].state = "absent" /\ Links(w, p)
      /\ ws' = [ws EXCEPT ![w] = [state |-> "present", owner |-> c, repo |-> p]]
      /\ UNCHANGED <<users, gone, audited, repo, member, used, net, deleteLogged,
                     held, silent, spared>>
  BY DEF CreateWorkspace, logVars
<1> HIDE DEF rec
<1>3. /\ req' \in [Request -> RequestState]
      /\ \A q \in Request \ {r} : req'[q] = req[q]
      /\ req'[r] = rec /\ req[r].step = "idle" /\ c \in audited
      /\ requests' \in 0..MaxRequests /\ faults' = faults
  BY <1>1, <1>2, TakesFacts DEF IInv
<1>4. /\ ws' \in [Workspace -> [state : State, owner : User \cup {None},
                                repo : Repository \cup {None}]]
      /\ \A x \in Workspace \ {w} : ws'[x] = ws[x]
      /\ ws'[w].state = "present" /\ ws'[w].owner = c /\ ws'[w].repo = p
  BY <1>2 DEF IInv, TypeOK, State
<1>5. TypeOK'
  <2>1. late' \subseteq Workspace
    BY <1>2, LinksType DEF IInv, TypeOK
  <2> QED
    BY <1>2, <1>3, <1>4, <2>1 DEF IInv, TypeOK
<1>6. \A q \in Request : SlotInv(q)'
  <2>1. SlotInv(r)'
    BY <1>1, <1>2, <1>3, <1>4 DEF SlotInv, Busy, ShapeInv, HeldInv, DropInv, At,
                                  MemberOps, RepositoryOps
  <2>2. ASSUME NEW q \in Request \ {r}
        PROVE  SlotInv(q)'
    <3>1. SlotInv(q) /\ req'[q] = req[q]
      BY <1>3 DEF IInv
    <3>2. \A x \in Workspace : ws[x].state # "absent" => x # w
      BY <1>2
    <3>3. req[q].step # "idle" /\ req[q].op \in MemberOps => req[q].ws \in Workspace \ {w}
      BY <3>1, <3>2 DEF SlotInv, Busy, ShapeInv, MemberOps, WorkspaceOps
    <3>4. req[q].op \in MemberOps /\ MayManage(req[q].ws, req[q].caller)' =>
              MayManage(req[q].ws, req[q].caller)
      <4>1. CASE req[q].step = "idle"
        BY <3>1, <4>1 DEF SlotInv, Idle, MemberOps
      <4>2. CASE req[q].step # "idle"
        BY <1>2, <1>4, <3>1, <3>3, <4>2 DEF MayManage
      <4> QED
        BY <4>1, <4>2
    <3>5. req[q].repo \in Repository /\ At(q, "removeRepository", "write")
              /\ LinkedTo(req[q].repo) \subseteq late => LinkedTo(req[q].repo)' \subseteq late'
      BY <1>2, <1>4, <3>1, LinkedStays
    <3>6. \A x \in Workspace : ws[x].state # "absent" => ws'[x].state # "absent"
      BY <1>4
    <3> QED
      BY <1>2, <3>1, <3>4, <3>5, <3>6, SlotStays
  <2> QED
    BY <2>1, <2>2
<1>7. ASSUME NEW x \in Workspace
      PROVE  WorkspaceInv(x)' /\ DeletionInv(x)'
  <2>1. WorkspaceInv(x) /\ DeletionInv(x)
    BY DEF IInv
  <2>2. CASE x = w
    BY <1>2, <1>3, <1>4, <2>1, <2>2 DEF WorkspaceInv, DeletionInv, ThereIs, IInv
  <2>3. CASE x # w
    <3>1. ws'[x] = ws[x]
      BY <1>4, <2>3
    <3>2. WorkspaceInv(x)'
      BY <1>2, <2>1, <3>1 DEF WorkspaceInv, ThereIs, IsMember
    <3>3. ASSUME NEW q \in Request, At(q, "remove", "write"), req[q].ws = x
          PROVE  At(q, "remove", "write")' /\ req'[q].ws = x
      BY <1>3, <3>3 DEF At
    <3>4. DeletionInv(x)'
      BY <1>2, <2>1, <3>1, <3>3 DEF DeletionInv, ThereIs
    <3> QED
      BY <3>2, <3>4
  <2> QED
    BY <2>2, <2>3
<1>8. \A x \in Repository : RepositoryInv(x)'
  BY <1>2 DEF IInv, RepositoryInv, IsThere
<1>9. ASSUME NEW x \in Workspace, NEW v \in User
      PROVE  LogInv(x, v)'
  <2>1. LogInv(x, v)
    BY DEF IInv
  <2>2. Mute(r) /\ Mute(r)'
    BY <1>1, <1>3 DEF Mute, MemberOps
  <2>3. \A op \in MemberOps : Unlogged(op, x, v)' = Unlogged(op, x, v)
    BY <1>3, <2>2, UnloggedStays
  <2>4. IsMember(x, v)' = IsMember(x, v)
    BY <1>2 DEF IsMember
  <2>5. Fresh(x, v)' => Fresh(x, v) /\ ~IsMember(x, v)'
    BY <1>2, <1>4, <2>1, <2>4 DEF LogInv, Fresh
  <2>6. ThereIs(x)' /\ v \in users' => Fresh(x, v) \/ (ThereIs(x) /\ v \in users)
    BY <1>2, <1>4 DEF ThereIs, Fresh
  <2> QED
    BY <1>2, <2>1, <2>3, <2>4, <2>5, <2>6, LogKept DEF MemberOps
<1> QED
  BY <1>2, <1>5, <1>6, <1>7, <1>8, <1>9 DEF IInv

\* A step of r that moves links, and nothing else of the rows.
LEMMA LinkStep ==
    ASSUME IInv, NEW r \in Request, TypeOK',
           \A q \in Request \ {r} : req'[q] = req[q],
           UNCHANGED <<users, gone, audited, member, used, net, deleteLogged,
                       held, silent, spared>>,
           \A x \in Workspace : ws'[x].state = ws[x].state /\ ws'[x].owner = ws[x].owner,
           \A p \in Repository : RepositoryInv(p)',
           \A q \in Request \ {r} : req[q].repo \in Repository /\ At(q, "removeRepository", "write")
               /\ LinkedTo(req[q].repo) \subseteq late => LinkedTo(req[q].repo)' \subseteq late',
           ~At(r, "remove", "write"), Mute(r), Mute(r)', SlotInv(r)'
    PROVE  IInv'
<1>1. \A q \in Request : SlotInv(q)'
  <2>1. ASSUME NEW q \in Request \ {r}
        PROVE  SlotInv(q)'
    <3>1. SlotInv(q) /\ req'[q] = req[q]
      BY DEF IInv
    <3>2. req[q].ws \in Workspace /\ MayManage(req[q].ws, req[q].caller)' =>
              MayManage(req[q].ws, req[q].caller)
      BY <3>1 DEF MayManage
    <3> QED
      BY <3>1, <3>2, SlotStays
  <2> QED
    BY <2>1
<1>2. \A w \in Workspace : WorkspaceInv(w)'
  BY WorkspaceStays DEF IInv, IsMember
<1>3. \A w \in Workspace : DeletionInv(w)'
  BY DeletionStays DEF IInv
<1>4. \A w \in Workspace, u \in User : LogInv(w, u)'
  BY LogStays DEF IInv
<1> QED
  BY <1>1, <1>2, <1>3, <1>4 DEF IInv

LEMMA UpdateWriteNext ==
    ASSUME IInv, NEW r \in Request, UpdateWrite(r)
    PROVE  IInv'
<1>1. /\ req[r].op = "update" /\ req[r].step = "write"
      /\ UNCHANGED <<users, gone, audited, repo, member, used, net, deleteLogged,
                     held, silent, spared, requests, faults>>
  BY DEF UpdateWrite, At, logVars, budgetVars
<1>2. Busy(r) /\ req \in [Request -> RequestState]
  BY <1>1 DEF IInv, SlotInv, TypeOK
<1>3. ~At(r, "remove", "write") /\ Mute(r)
  BY <1>1 DEF At, Mute
<1>4. \A p \in Repository : RepositoryInv(p)'
  BY <1>1 DEF IInv, RepositoryInv, IsThere
<1>5. CASE UNCHANGED <<ws, late>> /\ (Goto(r, "audit") \/ End(r))
  <2>1. /\ req' \in [Request -> RequestState]
        /\ \A q \in Request \ {r} : req'[q] = req[q]
        /\ req'[r] = Idle \/ (req'[r].step = "audit" /\ req'[r].op = "update"
                              /\ req'[r].caller = req[r].caller /\ req'[r].ws = req[r].ws)
    BY <1>1, <1>2, <1>5, GotoFacts, EndFacts DEF Step
  <2>2. TypeOK'
    BY <1>1, <1>5, <2>1 DEF IInv, TypeOK
  <2>3. SlotInv(r)' /\ Mute(r)'
    BY <1>1, <1>2, <1>5, <2>1 DEF SlotInv, Idle, Mute, Busy, ShapeInv, HeldInv, DropInv, At,
                                  MemberOps, RepositoryOps
  <2>4. \A x \in Workspace : ws'[x].state = ws[x].state /\ ws'[x].owner = ws[x].owner
    BY <1>5
  <2>5. \A q \in Request \ {r} : LinkedTo(req[q].repo)' = LinkedTo(req[q].repo)
    BY <1>5, <2>1 DEF LinkedTo, ThereIs
  <2> QED
    BY <1>1, <1>3, <1>4, <1>5, <2>1, <2>2, <2>3, <2>4, <2>5, LinkStep
<1>6. CASE /\ Linkable(req[r].repo) /\ Goto(r, "audit") /\ Links(req[r].ws, req[r].repo)
           /\ ws' = [ws EXCEPT ![req[r].ws].repo = req[r].repo]
  <2>1. req[r].ws \in Workspace /\ req[r].repo \in Repository \cup {None}
    BY <1>1, <1>2, <1>6 DEF Busy, ShapeInv, WorkspaceOps, Linkable
  <2>2. /\ ws' \in [Workspace -> [state : State, owner : User \cup {None},
                                  repo : Repository \cup {None}]]
        /\ \A x \in Workspace \ {req[r].ws} : ws'[x] = ws[x]
        /\ \A x \in Workspace : ws'[x].state = ws[x].state /\ ws'[x].owner = ws[x].owner
        /\ ws'[req[r].ws].repo = req[r].repo
    <3>1. ws \in [Workspace -> [state : State, owner : User \cup {None},
                                repo : Repository \cup {None}]]
      BY DEF IInv, TypeOK
    <3>2. [ws[req[r].ws] EXCEPT !.repo = req[r].repo]
            \in [state : State, owner : User \cup {None}, repo : Repository \cup {None}]
      BY <2>1, <3>1
    <3>3. ws' = [ws EXCEPT ![req[r].ws] = [ws[req[r].ws] EXCEPT !.repo = req[r].repo]]
      BY <1>6, <3>1
    <3> QED
      BY <2>1, <3>1, <3>2, <3>3
  <2>3. /\ req' \in [Request -> RequestState]
        /\ \A q \in Request \ {r} : req'[q] = req[q]
        /\ req'[r].step = "audit" /\ req'[r].op = "update"
        /\ req'[r].caller = req[r].caller /\ req'[r].ws = req[r].ws
    BY <1>1, <1>2, <1>6, GotoFacts DEF Step
  <2>4. TypeOK'
    <3>1. late' \subseteq Workspace
      BY <1>6, <2>1, LinksType DEF IInv, TypeOK
    <3> QED
      BY <1>1, <2>2, <2>3, <3>1 DEF IInv, TypeOK
  <2>5. SlotInv(r)' /\ Mute(r)'
    BY <1>1, <1>2, <2>1, <2>2, <2>3 DEF SlotInv, Mute, Busy, ShapeInv, HeldInv, DropInv, At,
                                        MemberOps, RepositoryOps, WorkspaceOps
  <2>6. \A q \in Request \ {r} : req[q].repo \in Repository /\ At(q, "removeRepository", "write")
            /\ LinkedTo(req[q].repo) \subseteq late => LinkedTo(req[q].repo)' \subseteq late'
    BY <1>6, <2>1, <2>2, <2>3, LinkedStays
  <2> QED
    BY <1>1, <1>3, <1>4, <2>2, <2>3, <2>4, <2>5, <2>6, LinkStep
<1> QED
  BY <1>5, <1>6 DEF UpdateWrite
\* A deletion is logged, and is on its way from now on.
LEMMA RemoveLogNext ==
    ASSUME IInv, NEW r \in Request, RemoveLog(r)
    PROVE  IInv'
<1> DEFINE w == req[r].ws
<1>1. /\ req[r].op = "remove" /\ req[r].step = "log" /\ Goto(r, "write")
      /\ deleteLogged' = deleteLogged \cup {w}
      /\ UNCHANGED <<users, gone, audited, repo, ws, member, used, net,
                     held, late, silent, spared, requests, faults>>
  BY DEF RemoveLog, At, rowVars, historyVars, budgetVars
<1>2. Busy(r) /\ req \in [Request -> RequestState]
  BY <1>1 DEF IInv, SlotInv, TypeOK
<1>3. w \in Workspace /\ ws[w].state # "absent"
  BY <1>1, <1>2 DEF Busy, ShapeInv, WorkspaceOps
<1>4. /\ req' \in [Request -> RequestState]
      /\ \A q \in Request \ {r} : req'[q] = req[q]
      /\ req'[r].step = "write" /\ req'[r].op = "remove"
      /\ req'[r].caller = req[r].caller /\ req'[r].ws = w
  BY <1>1, <1>2, GotoFacts DEF Step
<1> HIDE DEF w
<1>5. TypeOK'
  BY <1>1, <1>3, <1>4 DEF IInv, TypeOK
<1>6. \A q \in Request : SlotInv(q)'
  <2>1. \A q \in Request \ {r} : SlotInv(q)'
    BY <1>1, <1>4, SlotsStay DEF IInv
  <2>2. SlotInv(r)'
    BY <1>1, <1>2, <1>3, <1>4 DEF SlotInv, Busy, ShapeInv, HeldInv, DropInv, At,
                                  MemberOps, RepositoryOps
  <2> QED
    BY <2>1, <2>2
<1>7. \A x \in Workspace : WorkspaceInv(x)'
  BY <1>1, WorkspaceStays DEF IInv, IsMember
<1>8. ASSUME NEW x \in Workspace
      PROVE  DeletionInv(x)'
  <2>1. DeletionInv(x)
    BY DEF IInv
  <2>2. CASE x = w
    BY <1>1, <1>3, <1>4, <2>2 DEF DeletionInv, At
  <2>3. CASE x # w
    <3>1. ASSUME NEW q \in Request, At(q, "remove", "write"), req[q].ws = x
          PROVE  At(q, "remove", "write")' /\ req'[q].ws = x
      BY <1>1, <1>4, <3>1 DEF At
    <3> QED
      BY <1>1, <2>1, <2>3, <3>1 DEF DeletionInv, ThereIs
  <2> QED
    BY <2>2, <2>3
<1>9. \A p \in Repository : RepositoryInv(p)'
  BY <1>1 DEF IInv, RepositoryInv, IsThere
<1>10. \A x \in Workspace, u \in User : LogInv(x, u)'
  <2>1. Mute(r) /\ Mute(r)'
    BY <1>1, <1>4 DEF Mute, MemberOps
  <2> QED
    BY <1>1, <1>4, <2>1, LogStays DEF IInv
<1> QED
  BY <1>1, <1>5, <1>6, <1>7, <1>8, <1>9, <1>10 DEF IInv

\* The workspace goes, with its members, or stays and is spared.
LEMMA RemoveWriteNext ==
    ASSUME IInv, NEW r \in Request, RemoveWrite(r)
    PROVE  IInv'
<1> DEFINE w == req[r].ws
<1>1. /\ req[r].op = "remove" /\ req[r].step = "write" /\ End(r)
      /\ UNCHANGED <<users, gone, audited, repo, used, net, deleteLogged,
                     held, late, silent, requests, faults>>
  BY DEF RemoveWrite, At, logVars, budgetVars
<1>2. Busy(r) /\ req \in [Request -> RequestState]
  BY <1>1 DEF IInv, SlotInv, TypeOK
<1>3. w \in Workspace /\ w \in deleteLogged
  BY <1>1, <1>2 DEF Busy, ShapeInv, WorkspaceOps, At
<1>4. /\ req' \in [Request -> RequestState]
      /\ \A q \in Request \ {r} : req'[q] = req[q]
      /\ req'[r] = Idle /\ SlotInv(r)'
  BY <1>1, <1>2, EndFacts
<1>5. \/ /\ ThereIs(w) /\ spared' = spared
         /\ ws' = [ws EXCEPT ![w] = [state |-> "deleted", owner |-> None, repo |-> None]]
         /\ member' = [member EXCEPT ![w] = [u \in User |-> "none"]]
      \/ ThereIs(w) /\ spared' = spared \cup {w} /\ UNCHANGED <<ws, member>>
      \/ ~ThereIs(w) /\ UNCHANGED <<ws, member, spared>>
  BY DEF RemoveWrite
<1> HIDE DEF w
<1>6. /\ ws' \in [Workspace -> [state : State, owner : User \cup {None},
                                repo : Repository \cup {None}]]
      /\ member' \in [Workspace -> [User -> WorkspaceRole \cup {"none"}]]
      /\ \A x \in Workspace \ {w} : ws'[x] = ws[x] /\ member'[x] = member[x]
      /\ spared' \in {spared, spared \cup {w}}
      /\ \/ /\ ws'[w].state = "deleted" /\ ws'[w].owner = None /\ ws'[w].repo = None
            /\ \A u \in User : member'[w][u] = "none"
            /\ ThereIs(w)
         \/ ws'[w] = ws[w] /\ member'[w] = member[w] /\ (ThereIs(w) => w \in spared')
  <2>1. /\ ws \in [Workspace -> [state : State, owner : User \cup {None},
                                 repo : Repository \cup {None}]]
        /\ member \in [Workspace -> [User -> WorkspaceRole \cup {"none"}]]
    BY DEF IInv, TypeOK
  <2>2. CASE UNCHANGED <<ws, member>>
    BY <1>3, <1>5, <2>1, <2>2 DEF ThereIs
  <2>3. CASE /\ ThereIs(w) /\ spared' = spared
             /\ ws' = [ws EXCEPT ![w] = [state |-> "deleted", owner |-> None, repo |-> None]]
             /\ member' = [member EXCEPT ![w] = [u \in User |-> "none"]]
    <3>1. [state |-> "deleted", owner |-> None, repo |-> None]
              \in [state : State, owner : User \cup {None}, repo : Repository \cup {None}]
      BY DEF State
    <3>2. [u \in User |-> "none"] \in [User -> WorkspaceRole \cup {"none"}]
      OBVIOUS
    <3> QED
      BY <1>3, <2>1, <2>3, <3>1, <3>2
  <2> QED
    BY <1>5, <2>2, <2>3
<1>7. TypeOK'
  BY <1>1, <1>3, <1>4, <1>6 DEF IInv, TypeOK
<1>8. ASSUME NEW q \in Request \ {r}
      PROVE  SlotInv(q)'
  <2>1. SlotInv(q) /\ req'[q] = req[q] /\ audited \subseteq User
    BY <1>4 DEF IInv, TypeOK
  <2>2. req[q].ws \in Workspace /\ req[q].caller \in audited
            /\ MayManage(req[q].ws, req[q].caller)' => MayManage(req[q].ws, req[q].caller)
    BY <1>6, <2>1, TenancyAssumption DEF MayManage
  <2>3. req[q].repo \in Repository => LinkedTo(req[q].repo)' \subseteq LinkedTo(req[q].repo)
    BY <1>6, <2>1 DEF LinkedTo, ThereIs
  <2>4. \A x \in Workspace : ws[x].state # "absent" => ws'[x].state # "absent"
    BY <1>6
  <2> QED
    BY <1>1, <2>1, <2>2, <2>3, <2>4, SlotStays
<1>9. ASSUME NEW x \in Workspace
      PROVE  WorkspaceInv(x)' /\ DeletionInv(x)'
  <2>1. WorkspaceInv(x) /\ DeletionInv(x)
    BY DEF IInv
  <2>2. WorkspaceInv(x)'
    BY <1>1, <1>6, <2>1 DEF WorkspaceInv, ThereIs, IsMember
  <2>3. CASE x = w
    <3>1. x \in deleteLogged'
      BY <1>1, <1>3, <2>3
    <3>2. \/ ws'[x].state = "deleted"
          \/ ws'[x] = ws[x] /\ (ThereIs(x) => x \in spared')
      BY <1>6, <2>3
    <3> QED
      BY <1>1, <2>1, <2>2, <3>1, <3>2 DEF DeletionInv, ThereIs
  <2>4. CASE x # w
    <3>1. ASSUME NEW q \in Request, At(q, "remove", "write"), req[q].ws = x
          PROVE  At(q, "remove", "write")' /\ req'[q].ws = x
      <4>1. q # r
        BY <2>4, <3>1 DEF w
      <4> QED
        BY <1>4, <3>1, <4>1 DEF At
    <3> QED
      BY <1>1, <1>6, <2>1, <2>2, <2>4, <3>1 DEF DeletionInv, ThereIs
  <2> QED
    BY <2>2, <2>3, <2>4
<1>10. \A p \in Repository : RepositoryInv(p)'
  BY <1>1 DEF IInv, RepositoryInv, IsThere
<1>11. ASSUME NEW x \in Workspace, NEW v \in User
       PROVE  LogInv(x, v)'
  <2>1. LogInv(x, v)
    BY DEF IInv
  <2>2. Mute(r) /\ Mute(r)'
    BY <1>1, <1>4 DEF Mute, MemberOps, Idle
  <2>3. \A op \in MemberOps : Unlogged(op, x, v)' = Unlogged(op, x, v)
    BY <1>4, <2>2, UnloggedStays
  <2>4. Fresh(x, v)' => Fresh(x, v)
    BY <1>1, <1>6 DEF Fresh
  <2>5. ~IsMember(x, v) => ~IsMember(x, v)'
    BY <1>6 DEF IsMember
  <2>6. Fresh(x, v)' => Fresh(x, v) /\ ~IsMember(x, v)'
    BY <2>1, <2>4, <2>5 DEF LogInv
  <2>7. ThereIs(x)' => ThereIs(x) /\ (IsMember(x, v)' <=> IsMember(x, v))
    BY <1>6 DEF ThereIs, IsMember
  <2> QED
    BY <1>1, <2>1, <2>3, <2>6, <2>7, LogKept DEF MemberOps
<1> QED
  BY <1>1, <1>4, <1>7, <1>8, <1>9, <1>10, <1>11 DEF IInv

-----------------------------------------------------------------------------
(* Repositories are created and deleted *)

LEMMA CreateRepositoryWriteNext ==
    ASSUME IInv, NEW r \in Request, CreateRepositoryWrite(r)
    PROVE  IInv'
<1>1. /\ req[r].op = "createRepository" /\ req[r].step = "write" /\ Goto(r, "audit")
      /\ repo' = [repo EXCEPT ![req[r].repo] = [state |-> "present", owner |-> req[r].caller]]
      /\ UNCHANGED <<users, gone, audited, ws, member, used, net, deleteLogged,
                     held, late, silent, spared, requests, faults>>
  BY DEF CreateRepositoryWrite, At, logVars, historyVars, budgetVars
<1>2. Busy(r) /\ req \in [Request -> RequestState] /\ audited \subseteq User
  BY <1>1 DEF IInv, SlotInv, TypeOK
<1>3. req[r].caller \in audited /\ req[r].repo \in Repository
  BY <1>1, <1>2 DEF Busy, ShapeInv, RepositoryOps
<1>4. /\ req' \in [Request -> RequestState]
      /\ \A q \in Request \ {r} : req'[q] = req[q]
      /\ req'[r].step = "audit" /\ req'[r].op = "createRepository"
      /\ req'[r].caller = req[r].caller /\ req'[r].repo = req[r].repo
  BY <1>1, <1>2, GotoFacts DEF Step
<1>5. /\ repo' \in [Repository -> [state : State, owner : User \cup {None}]]
      /\ \A p \in Repository : repo'[p] = repo[p] \/ repo'[p].owner \in audited
  BY <1>1, <1>2, <1>3 DEF IInv, TypeOK, State
<1>6. TypeOK'
  BY <1>1, <1>4, <1>5 DEF IInv, TypeOK
<1>7. \A q \in Request : SlotInv(q)'
  <2>1. \A q \in Request \ {r} : SlotInv(q)'
    BY <1>1, <1>4, SlotsStay DEF IInv
  <2>2. SlotInv(r)'
    BY <1>1, <1>3, <1>4 DEF SlotInv, Busy, ShapeInv, HeldInv, DropInv, At,
                            MemberOps, WorkspaceOps
  <2> QED
    BY <2>1, <2>2
<1>8. \A x \in Workspace : WorkspaceInv(x)'
  BY <1>1, WorkspaceStays DEF IInv, IsMember
<1>9. \A x \in Workspace : DeletionInv(x)'
  BY <1>1, <1>4, DeletionStays DEF IInv, At
<1>10. \A p \in Repository : RepositoryInv(p)'
  BY <1>1, <1>5 DEF IInv, RepositoryInv, IsThere
<1>11. \A x \in Workspace, u \in User : LogInv(x, u)'
  <2>1. Mute(r) /\ Mute(r)'
    BY <1>1, <1>4 DEF Mute, MemberOps
  <2> QED
    BY <1>1, <1>4, <2>1, LogStays DEF IInv
<1> QED
  BY <1>1, <1>6, <1>7, <1>8, <1>9, <1>10, <1>11 DEF IInv

LEMMA RemoveRepositoryWriteNext ==
    ASSUME IInv, NEW r \in Request, RemoveRepositoryWrite(r)
    PROVE  IInv'
<1> DEFINE p == req[r].repo
<1>1. /\ req[r].op = "removeRepository" /\ req[r].step = "write"
      /\ UNCHANGED <<users, gone, audited, member, used, net, deleteLogged,
                     held, late, silent, spared, requests, faults>>
      /\ \/ /\ Goto(r, "audit")
            /\ repo' = [repo EXCEPT ![p] = [state |-> "deleted", owner |-> None]]
            /\ ws' = [w \in Workspace |-> IF ws[w].repo = p THEN [ws[w] EXCEPT !.repo = None]
                                                             ELSE ws[w]]
         \/ End(r) /\ UNCHANGED <<repo, ws>>
  BY DEF RemoveRepositoryWrite, At, logVars, historyVars, budgetVars
<1>2. Busy(r) /\ req \in [Request -> RequestState]
  BY <1>1 DEF IInv, SlotInv, TypeOK
<1>3. p \in Repository /\ req[r].caller \in audited
  BY <1>1, <1>2 DEF Busy, ShapeInv, RepositoryOps
<1>4. /\ req' \in [Request -> RequestState]
      /\ \A q \in Request \ {r} : req'[q] = req[q]
      /\ req'[r] = Idle \/ (req'[r].step = "audit" /\ req'[r].op = "removeRepository"
                            /\ req'[r].caller = req[r].caller /\ req'[r].repo = p)
  BY <1>1, <1>2, GotoFacts, EndFacts DEF Step
<1> HIDE DEF p
<1>5. /\ ws' \in [Workspace -> [state : State, owner : User \cup {None},
                                repo : Repository \cup {None}]]
      /\ repo' \in [Repository -> [state : State, owner : User \cup {None}]]
  <2>1. /\ ws \in [Workspace -> [state : State, owner : User \cup {None},
                                 repo : Repository \cup {None}]]
        /\ repo \in [Repository -> [state : State, owner : User \cup {None}]]
    BY DEF IInv, TypeOK
  <2>2. CASE UNCHANGED <<repo, ws>>
    BY <2>1, <2>2
  <2>3. CASE /\ repo' = [repo EXCEPT ![p] = [state |-> "deleted", owner |-> None]]
             /\ ws' = [w \in Workspace |-> IF ws[w].repo = p THEN [ws[w] EXCEPT !.repo = None]
                                                              ELSE ws[w]]
    <3>1. [state |-> "deleted", owner |-> None] \in [state : State, owner : User \cup {None}]
      BY DEF State
    <3>2. repo' \in [Repository -> [state : State, owner : User \cup {None}]]
      BY <1>3, <2>1, <2>3, <3>1
    <3>3. \A w \in Workspace : [ws[w] EXCEPT !.repo = None]
              \in [state : State, owner : User \cup {None}, repo : Repository \cup {None}]
      BY <2>1
    <3> QED
      BY <2>1, <2>3, <3>2, <3>3
  <2> QED
    BY <1>1, <2>2, <2>3
<1>6. /\ \A w \in Workspace : /\ ws'[w].state = ws[w].state /\ ws'[w].owner = ws[w].owner
                              /\ ws'[w].repo \in {ws[w].repo, None}
      /\ \A x \in Repository : repo'[x] = repo[x] \/ repo'[x].state = "deleted"
  <2>1. CASE UNCHANGED <<repo, ws>>
    BY <2>1
  <2>2. CASE /\ repo' = [repo EXCEPT ![p] = [state |-> "deleted", owner |-> None]]
             /\ ws' = [w \in Workspace |-> IF ws[w].repo = p THEN [ws[w] EXCEPT !.repo = None]
                                                              ELSE ws[w]]
    <3>1. ASSUME NEW w \in Workspace
          PROVE  /\ ws'[w].state = ws[w].state /\ ws'[w].owner = ws[w].owner
                 /\ ws'[w].repo \in {ws[w].repo, None}
      <4>1. ws[w] \in [state : State, owner : User \cup {None}, repo : Repository \cup {None}]
        BY DEF IInv, TypeOK
      <4> QED
        BY <2>2, <4>1
    <3>2. \A x \in Repository : repo'[x] = repo[x] \/ repo'[x].state = "deleted"
      BY <1>3, <2>2 DEF IInv, TypeOK
    <3> QED
      BY <3>1, <3>2
  <2> QED
    BY <1>1, <2>1, <2>2
<1>7. TypeOK'
  BY <1>1, <1>4, <1>5 DEF IInv, TypeOK
<1>8. \A x \in Repository : RepositoryInv(x)'
  BY <1>1, <1>6 DEF IInv, RepositoryInv, IsThere
<1>9. \A q \in Request \ {r} :
          req[q].repo \in Repository => LinkedTo(req[q].repo)' \subseteq LinkedTo(req[q].repo)
  BY <1>4, <1>6, TenancyAssumption DEF LinkedTo, ThereIs
<1>10. SlotInv(r)' /\ Mute(r)'
  BY <1>1, <1>3, <1>4 DEF SlotInv, Idle, Mute, Busy, ShapeInv, HeldInv, DropInv, At,
                          MemberOps, WorkspaceOps
<1>11. ~At(r, "remove", "write") /\ Mute(r)
  BY <1>1 DEF At, Mute
<1> QED
  BY <1>1, <1>4, <1>6, <1>7, <1>8, <1>9, <1>10, <1>11, LinkStep
-----------------------------------------------------------------------------
(* Memberships change and are logged *)

\* A slot that is not about to log this change, before and after, does not count.
LEMMA UnloggedSame ==
    ASSUME NEW r \in Request, \A q \in Request \ {r} : req'[q] = req[q],
           NEW op, NEW w, NEW u, r \notin Unlogged(op, w, u), r \notin Unlogged(op, w, u)'
    PROVE  Unlogged(op, w, u)' = Unlogged(op, w, u)
<1>1. ASSUME NEW q \in Request
      PROVE  q \in Unlogged(op, w, u)' <=> q \in Unlogged(op, w, u)
  <2>1. CASE q = r
    BY <2>1
  <2>2. CASE q # r
    BY <2>2 DEF Unlogged, At
  <2> QED
    BY <2>1, <2>2
<1> QED
  BY <1>1 DEF Unlogged

LEMMA UnloggedMore ==
    ASSUME NEW r \in Request, \A q \in Request \ {r} : req'[q] = req[q],
           NEW op, NEW w, NEW u, r \notin Unlogged(op, w, u), r \in Unlogged(op, w, u)'
    PROVE  Cardinality(Unlogged(op, w, u)') = Cardinality(Unlogged(op, w, u)) + 1
<1>1. ASSUME NEW q \in Request
      PROVE  q \in Unlogged(op, w, u)' <=> q \in Unlogged(op, w, u) \/ q = r
  <2>1. CASE q = r
    BY <2>1
  <2>2. CASE q # r
    BY <2>2 DEF Unlogged, At
  <2> QED
    BY <2>1, <2>2
<1>2. Unlogged(op, w, u)' = Unlogged(op, w, u) \cup {r}
  BY <1>1 DEF Unlogged
<1> QED
  BY <1>2, UnloggedFinite, FS_AddElement

LEMMA UnloggedLess ==
    ASSUME NEW r \in Request, \A q \in Request \ {r} : req'[q] = req[q],
           NEW op, NEW w, NEW u, r \in Unlogged(op, w, u), r \notin Unlogged(op, w, u)'
    PROVE  Cardinality(Unlogged(op, w, u)') = Cardinality(Unlogged(op, w, u)) - 1
<1>1. ASSUME NEW q \in Request
      PROVE  q \in Unlogged(op, w, u)' <=> q \in Unlogged(op, w, u) /\ q # r
  <2>1. CASE q = r
    BY <2>1
  <2>2. CASE q # r
    BY <2>2 DEF Unlogged, At
  <2> QED
    BY <2>1, <2>2
<1>2. Unlogged(op, w, u)' = Unlogged(op, w, u) \ {r}
  BY <1>1 DEF Unlogged
<1> QED
  BY <1>2, UnloggedFinite, FS_RemoveElement
\* A step of r that changes the membership of u in w, and nothing else of the rows.
LEMMA MemberStep ==
    ASSUME IInv, NEW r \in Request, NEW w \in Workspace, NEW u \in User, TypeOK',
           \A q \in Request \ {r} : req'[q] = req[q],
           UNCHANGED <<users, gone, audited, repo, ws, used, net, deleteLogged,
                       late, silent, spared>>,
           held \subseteq held', ThereIs(w),
           \A x \in Workspace, v \in User : x # w \/ v # u => member'[x][v] = member[x][v],
           \A q \in Request : member'[w][u] = "ADMIN" /\ req[q].ws = w /\ req[q].caller = u
               => q \in held',
           req[r].op \in MemberOps, req[r].step = "write", req[r].ws = w, req[r].target = u,
           req'[r].ws = w, req'[r].target = u,
           SlotInv(r)', LogInv(w, u)'
    PROVE  IInv'
<1>1. ASSUME NEW q \in Request \ {r}
      PROVE  SlotInv(q)'
  <2>1. SlotInv(q) /\ req'[q] = req[q] /\ audited \subseteq User
    BY DEF IInv, TypeOK
  <2>2. req[q].ws \in Workspace /\ MayManage(req[q].ws, req[q].caller)'
            /\ req[q].caller \in audited => MayManage(req[q].ws, req[q].caller) \/ q \in held'
    BY <2>1 DEF MayManage
  <2>3. LinkedTo(req[q].repo)' = LinkedTo(req[q].repo)
    BY DEF LinkedTo, ThereIs
  <2> QED
    BY <2>1, <2>2, <2>3, SlotStays
<1>2. ASSUME NEW x \in Workspace
      PROVE  WorkspaceInv(x)'
  <2>1. WorkspaceInv(x)
    BY DEF IInv
  <2>2. CASE x = w
    BY <2>1, <2>2 DEF WorkspaceInv, ThereIs
  <2>3. CASE x # w
    BY <2>1, <2>3 DEF WorkspaceInv, ThereIs, IsMember
  <2> QED
    BY <2>2, <2>3
<1>3. \A x \in Workspace : DeletionInv(x)'
  <2>1. ~At(r, "remove", "write")
    BY DEF At, MemberOps
  <2> QED
    BY <2>1, DeletionStays DEF IInv
<1>4. \A p \in Repository : RepositoryInv(p)'
  BY DEF IInv, RepositoryInv, IsThere
<1>5. ASSUME NEW x \in Workspace, NEW v \in User
      PROVE  LogInv(x, v)'
  <2>1. CASE x = w /\ v = u
    BY <2>1
  <2>2. CASE x # w \/ v # u
    <3>1. LogInv(x, v)
      BY DEF IInv
    <3>2. ASSUME NEW op \in MemberOps
          PROVE  Unlogged(op, x, v)' = Unlogged(op, x, v)
      <4>1. r \notin Unlogged(op, x, v)
        BY DEF Unlogged, At
      <4>2. r \notin Unlogged(op, x, v)'
        BY <2>2 DEF Unlogged
      <4> QED
        BY <4>1, <4>2, UnloggedSame
    <3>3. Fresh(x, v)' = Fresh(x, v) /\ ThereIs(x)' = ThereIs(x)
          /\ (IsMember(x, v)' <=> IsMember(x, v))
      BY <2>2 DEF Fresh, ThereIs, IsMember
    <3>4. Fresh(x, v)' => Fresh(x, v) /\ ~IsMember(x, v)'
      BY <3>1, <3>3 DEF LogInv
    <3> QED
      BY <3>1, <3>2, <3>3, <3>4, LogKept DEF MemberOps
  <2> QED
    BY <2>1, <2>2
<1> QED
  BY <1>1, <1>2, <1>3, <1>4, <1>5 DEF IInv

\* A write that is refused: the request is over and nothing else has changed.
LEMMA RefusedStep ==
    ASSUME IInv, NEW r \in Request, End(r), req[r].op \in MemberOps, req[r].step = "write",
           UNCHANGED <<rowVars, logVars, historyVars, budgetVars>>
    PROVE  IInv'
<1>1. /\ req' \in [Request -> RequestState]
      /\ \A q \in Request \ {r} : req'[q] = req[q]
      /\ SlotInv(r)' /\ req'[r].step = "idle"
  BY EndFacts DEF IInv, TypeOK
<1>2. TypeOK'
  BY <1>1 DEF IInv, TypeOK, rowVars, logVars, historyVars, budgetVars
<1>3. ~At(r, "remove", "write") /\ Mute(r) /\ Mute(r)'
  BY <1>1 DEF At, MemberOps, Mute
<1> QED
  BY <1>1, <1>2, <1>3, SlotStep DEF historyVars

LEMMA AddWriteNext ==
    ASSUME IInv, NEW r \in Request, AddWrite(r)
    PROVE  IInv'
<1> DEFINE role == req[r].role
<1>1. /\ req[r].op = "addUser" /\ req[r].step = "write"
      /\ UNCHANGED <<users, gone, audited, repo, ws, used, net, deleteLogged,
                     late, silent, spared, requests, faults>>
  BY DEF AddWrite, At, logVars, budgetVars
<1>2. Busy(r) /\ req \in [Request -> RequestState]
  BY <1>1 DEF IInv, SlotInv, TypeOK
<1>3. r \in held /\ role \in WorkspaceRole
  BY <1>1, <1>2, SlotTypes DEF Busy, HeldInv, MemberOps, IInv
<1>w. PICK w \in Workspace, u \in User : req[r].ws = w /\ req[r].target = u
  BY <1>1, <1>2 DEF Busy, ShapeInv, WorkspaceOps, MemberOps
<1>4. CASE UNCHANGED <<member, held>> /\ End(r)
  <2>1. UNCHANGED <<rowVars, logVars, historyVars, budgetVars>>
    BY <1>1, <1>4 DEF rowVars, logVars, historyVars, budgetVars
  <2> QED
    BY <1>1, <1>4, <2>1, RefusedStep DEF MemberOps
<1>5. CASE /\ ThereIs(w) /\ u \in users /\ ~IsMember(w, u)
           /\ member' = [member EXCEPT ![w][u] = role]
           /\ held' = IF role = "ADMIN"
                      THEN held \cup {q \in Request : req[q].ws = w /\ req[q].caller = u}
                      ELSE held
           /\ Goto(r, "audit")
  <2>1. /\ req' \in [Request -> RequestState]
        /\ \A q \in Request \ {r} : req'[q] = req[q]
        /\ req'[r].step = "audit" /\ req'[r].op = "addUser"
        /\ req'[r].caller = req[r].caller /\ req'[r].ws = w /\ req'[r].target = u
    BY <1>1, <1>2, <1>w, <1>5, GotoFacts DEF Step
  <2> HIDE DEF role
  <2>2. /\ member' \in [Workspace -> [User -> WorkspaceRole \cup {"none"}]]
        /\ member'[w][u] = role
        /\ \A x \in Workspace, v \in User : x # w \/ v # u => member'[x][v] = member[x][v]
    BY <1>3, <1>5 DEF IInv, TypeOK
  <2>3. /\ held' \subseteq Request /\ held \subseteq held'
        /\ \A q \in Request : role = "ADMIN" /\ req[q].ws = w /\ req[q].caller = u => q \in held'
    BY <1>5 DEF IInv, TypeOK
  <2>4. TypeOK'
    BY <1>1, <2>1, <2>2, <2>3 DEF IInv, TypeOK
  <2>5. SlotInv(r)'
    BY <1>1, <1>2, <1>3, <1>w, <2>1, <2>3 DEF SlotInv, Busy, ShapeInv, HeldInv, DropInv, At,
                                  MemberOps, RepositoryOps, WorkspaceOps
  <2>6. LogInv(w, u)'
    <3>1. LogInv(w, u)
      BY <1>3 DEF IInv
    <3>2. ~Fresh(w, u)' /\ IsMember(w, u)'
      BY <1>1, <1>3, <1>5, <2>2 DEF Fresh, ThereIs, IsMember, WorkspaceRole
    <3>3. Unlogged("removeUser", w, u)' = Unlogged("removeUser", w, u)
      BY <1>1, <2>1, UnloggedSame DEF Unlogged, At
    <3>4. Cardinality(Unlogged("addUser", w, u)') = Cardinality(Unlogged("addUser", w, u)) + 1
      <4>1. r \notin Unlogged("addUser", w, u) /\ r \in Unlogged("addUser", w, u)'
        BY <1>1, <2>1 DEF Unlogged, At
      <4> QED
        BY <2>1, <4>1, UnloggedMore
    <3>5. net[w][u] \in Int
      BY <1>3 DEF IInv, TypeOK
    <3> QED
      BY <1>1, <1>5, <3>1, <3>2, <3>3, <3>4, <3>5, UnloggedFinite DEF LogInv, ThereIs
  <2> QED
    BY <1>1, <1>3, <1>5, <2>1, <2>2, <2>3, <2>4, <2>5, <2>6, <1>w, MemberStep DEF MemberOps
<1> QED
  BY <1>w, <1>4, <1>5 DEF AddWrite

LEMMA RemoveMemberWriteNext ==
    ASSUME IInv, NEW r \in Request, RemoveMemberWrite(r)
    PROVE  IInv'
<1>1. /\ req[r].op = "removeUser" /\ req[r].step = "write"
      /\ UNCHANGED <<users, gone, audited, repo, ws, used, net, deleteLogged,
                     held, late, silent, spared, requests, faults>>
  BY DEF RemoveMemberWrite, At, logVars, historyVars, budgetVars
<1>2. Busy(r) /\ req \in [Request -> RequestState]
  BY <1>1 DEF IInv, SlotInv, TypeOK
<1>3. r \in held
  BY <1>1, <1>2 DEF Busy, HeldInv, MemberOps
<1>w. PICK w \in Workspace, u \in User : req[r].ws = w /\ req[r].target = u
  BY <1>1, <1>2 DEF Busy, ShapeInv, WorkspaceOps, MemberOps
<1>4. CASE UNCHANGED member /\ End(r)
  <2>1. UNCHANGED <<rowVars, logVars, historyVars, budgetVars>>
    BY <1>1, <1>4 DEF rowVars, logVars, historyVars, budgetVars
  <2> QED
    BY <1>1, <1>4, <2>1, RefusedStep DEF MemberOps
<1>5. CASE /\ IsMember(w, u) /\ member' = [member EXCEPT ![w][u] = "none"] /\ Goto(r, "audit")
  <2>1. /\ req' \in [Request -> RequestState]
        /\ \A q \in Request \ {r} : req'[q] = req[q]
        /\ req'[r].step = "audit" /\ req'[r].op = "removeUser"
        /\ req'[r].caller = req[r].caller /\ req'[r].ws = w /\ req'[r].target = u
    BY <1>1, <1>2, <1>w, <1>5, GotoFacts DEF Step
  <2>2. /\ member' \in [Workspace -> [User -> WorkspaceRole \cup {"none"}]]
        /\ member'[w][u] = "none"
        /\ \A x \in Workspace, v \in User : x # w \/ v # u => member'[x][v] = member[x][v]
    BY <1>3, <1>5 DEF IInv, TypeOK
  <2>3. TypeOK'
    BY <1>1, <2>1, <2>2 DEF IInv, TypeOK
  <2>4. SlotInv(r)'
    BY <1>1, <1>2, <1>3, <1>w, <2>1 DEF SlotInv, Busy, ShapeInv, HeldInv, DropInv, At,
                                  MemberOps, RepositoryOps, WorkspaceOps
  <2>5. LogInv(w, u) /\ WorkspaceInv(w)
    BY <1>3 DEF IInv
  <2>6. ThereIs(w)
    BY <1>3, <1>5, <2>5 DEF WorkspaceInv
  <2>7. LogInv(w, u)'
    <3>1. ~Fresh(w, u)' /\ ~IsMember(w, u)'
      BY <1>1, <1>5, <2>2, <2>5 DEF LogInv, Fresh, IsMember
    <3>2. Unlogged("addUser", w, u)' = Unlogged("addUser", w, u)
      BY <1>1, <2>1, UnloggedSame DEF Unlogged, At
    <3>3. Cardinality(Unlogged("removeUser", w, u)')
              = Cardinality(Unlogged("removeUser", w, u)) + 1
      <4>1. r \notin Unlogged("removeUser", w, u) /\ r \in Unlogged("removeUser", w, u)'
        BY <1>1, <2>1 DEF Unlogged, At
      <4> QED
        BY <2>1, <4>1, UnloggedMore
    <3>4. net[w][u] \in Int
      BY <1>3 DEF IInv, TypeOK
    <3> QED
      BY <1>1, <1>5, <2>5, <2>6, <3>1, <3>2, <3>3, <3>4, UnloggedFinite DEF LogInv
  <2> QED
    BY <1>1, <1>3, <2>1, <2>2, <2>3, <2>4, <2>6, <2>7, <1>w, MemberStep DEF MemberOps
<1> QED
  BY <1>w, <1>4, <1>5 DEF RemoveMemberWrite

-----------------------------------------------------------------------------
(* The audit row, and failures *)

\* A step that ends the request of r and changes only logs and histories.
LEMMA EndStep ==
    ASSUME IInv, NEW r \in Request, End(r), TypeOK',
           UNCHANGED <<rowVars, deleteLogged, held, late>>,
           spared \subseteq spared',
           At(r, "remove", "write") => req[r].ws \in spared',
           \A w \in Workspace, u \in User : LogInv(w, u)'
    PROVE  IInv'
<1>1. /\ \A q \in Request \ {r} : req'[q] = req[q]
      /\ SlotInv(r)'
  BY EndFacts DEF IInv, TypeOK
<1>2. UNCHANGED <<users, gone, audited, repo, ws, member, used>>
  BY DEF rowVars
<1>3. \A q \in Request : SlotInv(q)'
  <2>1. \A q \in Request \ {r} : SlotInv(q)'
    BY <1>1, <1>2, SlotsStay DEF IInv
  <2> QED
    BY <1>1, <2>1
<1>4. \A x \in Workspace : WorkspaceInv(x)'
  BY <1>2, WorkspaceStays DEF IInv, IsMember
<1>5. ASSUME NEW x \in Workspace
      PROVE  DeletionInv(x)'
  <2>1. DeletionInv(x)
    BY DEF IInv
  <2>2. ASSUME NEW q \in Request, At(q, "remove", "write"), req[q].ws = x, x \notin spared'
        PROVE  At(q, "remove", "write")' /\ req'[q].ws = x
    <3>1. q # r
      BY <2>2
    <3> QED
      BY <1>1, <2>2, <3>1 DEF At
  <2> QED
    BY <1>2, <2>1, <2>2 DEF DeletionInv, ThereIs
<1>6. \A p \in Repository : RepositoryInv(p)'
  BY <1>2 DEF IInv, RepositoryInv, IsThere
<1> QED
  BY <1>2, <1>3, <1>4, <1>5, <1>6 DEF IInv

\* The balance of a pair that the ending request of r was not about to log.
LEMMA OtherPair ==
    ASSUME IInv, NEW r \in Request, End(r), UNCHANGED rowVars, silent \subseteq silent',
           NEW w \in Workspace, NEW u \in User, net'[w][u] = net[w][u],
           req[r].step = "audit" /\ req[r].op \in MemberOps => req[r].ws # w \/ req[r].target # u
    PROVE  LogInv(w, u)'
<1>1. /\ \A q \in Request \ {r} : req'[q] = req[q]
      /\ req'[r].step = "idle"
  BY EndFacts DEF IInv, TypeOK
<1>2. LogInv(w, u)
  BY DEF IInv
<1>3. ASSUME NEW op \in MemberOps
      PROVE  Unlogged(op, w, u)' = Unlogged(op, w, u)
  <2>1. r \notin Unlogged(op, w, u) /\ r \notin Unlogged(op, w, u)'
    BY <1>1 DEF Unlogged, At
  <2> QED
    BY <1>1, <2>1, UnloggedSame
<1>4. /\ Fresh(w, u)' = Fresh(w, u) /\ ThereIs(w)' = ThereIs(w) /\ users' = users
      /\ IsMember(w, u)' <=> IsMember(w, u)
  BY DEF rowVars, Fresh, ThereIs, IsMember
<1>5. Fresh(w, u)' => Fresh(w, u) /\ ~IsMember(w, u)'
  BY <1>2, <1>4 DEF LogInv
<1> QED
  BY <1>2, <1>3, <1>4, <1>5, LogKept DEF MemberOps

\* A pair about to be logged is not a fresh one.
LEMMA LoggedPair ==
    ASSUME IInv, NEW r \in Request, req[r].step = "audit", req[r].op \in MemberOps,
           NEW w \in Workspace, NEW u \in User, req[r].ws = w, req[r].target = u
    PROVE  /\ ~Fresh(w, u)
           /\ r \in Unlogged(req[r].op, w, u)
           /\ \A op \in MemberOps \ {req[r].op} : r \notin Unlogged(op, w, u)
<1>1. r \in Unlogged(req[r].op, w, u)
  BY DEF Unlogged, At
<1>2. ~Fresh(w, u)
  <2>1. LogInv(w, u)
    BY DEF IInv
  <2>2. req[r].op = "addUser" \/ req[r].op = "removeUser"
    BY DEF MemberOps
  <2> QED
    BY <1>1, <2>1, <2>2 DEF LogInv
<1>3. \A op \in MemberOps \ {req[r].op} : r \notin Unlogged(op, w, u)
  BY DEF Unlogged, At
<1> QED
  BY <1>1, <1>2, <1>3

LEMMA AuditNext ==
    ASSUME IInv, NEW r \in Request, Audit(r)
    PROVE  IInv'
<1>1. /\ req[r].step = "audit" /\ End(r)
      /\ net' = NetAfter(req[r].op, req[r].ws, req[r].target)
      /\ UNCHANGED <<rowVars, deleteLogged, held, late, silent, spared, requests, faults>>
  BY DEF Audit, historyVars, budgetVars
<1>2. Busy(r)
  BY <1>1 DEF IInv, SlotInv
<1>3. /\ req' \in [Request -> RequestState]
      /\ \A q \in Request \ {r} : req'[q] = req[q]
      /\ req'[r].step = "idle"
  BY <1>1, EndFacts DEF IInv, TypeOK
<1>4. ~At(r, "remove", "write")
  BY <1>1 DEF At
<1>5. CASE req[r].op \notin MemberOps
  <2>1. net' = net
    BY <1>1, <1>5 DEF NetAfter, MemberOps
  <2>2. TypeOK'
    BY <1>1, <1>3, <2>1 DEF IInv, TypeOK, rowVars
  <2>3. \A w \in Workspace, u \in User : LogInv(w, u)'
    BY <1>1, <1>5, <2>1, OtherPair
  <2> QED
    BY <1>1, <1>4, <2>2, <2>3, EndStep
<1>6. CASE req[r].op \in MemberOps
  <2>1. PICK w \in Workspace, u \in User : req[r].ws = w /\ req[r].target = u
    BY <1>2, <1>6 DEF Busy, ShapeInv, WorkspaceOps, MemberOps
  <2>2. /\ ~Fresh(w, u)
        /\ r \in Unlogged(req[r].op, w, u)
        /\ \A op \in MemberOps \ {req[r].op} : r \notin Unlogged(op, w, u)
    BY <1>1, <1>6, <2>1, LoggedPair
  <2>3. /\ net \in [Workspace -> [User -> Int]]
        /\ net[w][u] \in Int
    BY DEF IInv, TypeOK
  <2>4. /\ net' \in [Workspace -> [User -> Int]]
        /\ \A x \in Workspace, v \in User : x # w \/ v # u => net'[x][v] = net[x][v]
        /\ ThereIs(w) /\ req[r].op = "addUser" => net'[w][u] = net[w][u] + 1
        /\ ThereIs(w) /\ req[r].op = "removeUser" => net'[w][u] = net[w][u] - 1
    <3>1. \/ net' = net /\ ~ThereIs(w)
          \/ ThereIs(w) /\ req[r].op = "addUser" /\ net' = [net EXCEPT ![w][u] = @ + 1]
          \/ ThereIs(w) /\ req[r].op = "removeUser" /\ net' = [net EXCEPT ![w][u] = @ - 1]
      BY <1>1, <1>6, <2>1 DEF NetAfter, MemberOps
    <3> QED
      BY <2>3, <3>1
  <2>5. TypeOK'
    BY <1>1, <1>3, <2>4 DEF IInv, TypeOK, rowVars
  <2>6. UNCHANGED <<users, gone, ws, member>>
    BY <1>1 DEF rowVars
  <2>7. LogInv(w, u)'
    <3>1. LogInv(w, u)
      BY DEF IInv
    <3>2. ~Fresh(w, u)' /\ (ThereIs(w)' => ThereIs(w)) /\ (IsMember(w, u)' <=> IsMember(w, u))
      BY <2>2, <2>6 DEF Fresh, ThereIs, IsMember
    <3>3. r \notin Unlogged("addUser", w, u)' /\ r \notin Unlogged("removeUser", w, u)'
      BY <1>3 DEF Unlogged, At
    <3>4. CASE req[r].op = "addUser"
      <4>1. Cardinality(Unlogged("addUser", w, u)') = Cardinality(Unlogged("addUser", w, u)) - 1
        BY <1>3, <2>2, <3>3, <3>4, UnloggedLess
      <4>2. Unlogged("removeUser", w, u)' = Unlogged("removeUser", w, u)
        BY <1>3, <2>2, <3>3, <3>4, UnloggedSame DEF MemberOps
      <4>3. ASSUME ThereIs(w), u \in users, <<w, u>> \notin silent
            PROVE  net'[w][u] = (IF IsMember(w, u) THEN 1 ELSE 0)
                                - Cardinality(Unlogged("addUser", w, u)')
                                + Cardinality(Unlogged("removeUser", w, u)')
        <5>1. net[w][u] = (IF IsMember(w, u) THEN 1 ELSE 0)
                          - Cardinality(Unlogged("addUser", w, u))
                          + Cardinality(Unlogged("removeUser", w, u))
          BY <3>1, <4>3 DEF LogInv
        <5>2. /\ Cardinality(Unlogged("addUser", w, u)) \in Nat
              /\ Cardinality(Unlogged("removeUser", w, u)) \in Nat
          BY UnloggedFinite
        <5>3. net'[w][u] = net[w][u] + 1
          BY <2>4, <3>4, <4>3
        <5> QED
          BY <2>3, <4>1, <4>2, <5>1, <5>2, <5>3
      <4> QED
        BY <1>1, <2>6, <3>2, <4>3 DEF LogInv
    <3>5. CASE req[r].op = "removeUser"
      <4>1. Cardinality(Unlogged("removeUser", w, u)')
                = Cardinality(Unlogged("removeUser", w, u)) - 1
        BY <1>3, <2>2, <3>3, <3>5, UnloggedLess
      <4>2. Unlogged("addUser", w, u)' = Unlogged("addUser", w, u)
        BY <1>3, <2>2, <3>3, <3>5, UnloggedSame DEF MemberOps
      <4>3. ASSUME ThereIs(w), u \in users, <<w, u>> \notin silent
            PROVE  net'[w][u] = (IF IsMember(w, u) THEN 1 ELSE 0)
                                - Cardinality(Unlogged("addUser", w, u)')
                                + Cardinality(Unlogged("removeUser", w, u)')
        <5>1. net[w][u] = (IF IsMember(w, u) THEN 1 ELSE 0)
                          - Cardinality(Unlogged("addUser", w, u))
                          + Cardinality(Unlogged("removeUser", w, u))
          BY <3>1, <4>3 DEF LogInv
        <5>2. /\ Cardinality(Unlogged("addUser", w, u)) \in Nat
              /\ Cardinality(Unlogged("removeUser", w, u)) \in Nat
          BY UnloggedFinite
        <5>3. net'[w][u] = net[w][u] - 1
          BY <2>4, <3>5, <4>3
        <5> QED
          BY <2>3, <4>1, <4>2, <5>1, <5>2, <5>3
      <4> QED
        BY <1>1, <2>6, <3>2, <4>3 DEF LogInv
    <3> QED
      BY <1>6, <3>4, <3>5 DEF MemberOps
  <2>8. ASSUME NEW x \in Workspace, NEW v \in User
        PROVE  LogInv(x, v)'
    <3>1. CASE x = w /\ v = u
      BY <2>7, <3>1
    <3>2. CASE x # w \/ v # u
      BY <1>1, <2>1, <2>4, <3>2, OtherPair
    <3> QED
      BY <3>1, <3>2
  <2> QED
    BY <1>1, <1>4, <2>5, <2>8, EndStep
<1> QED
  BY <1>5, <1>6

LEMMA FaultNext ==
    ASSUME IInv, NEW r \in Request, Fault(r)
    PROVE  IInv'
<1>1. /\ req[r].step # "idle" /\ End(r)
      /\ faults < MaxFaults /\ faults' = faults + 1
      /\ silent' = IF req[r].op \in MemberOps /\ req[r].step = "audit"
                   THEN silent \cup {<<req[r].ws, req[r].target>>} ELSE silent
      /\ spared' = IF At(r, "remove", "write") THEN spared \cup {req[r].ws} ELSE spared
      /\ UNCHANGED <<rowVars, net, deleteLogged, held, late, requests>>
  BY DEF Fault, MemberOps, logVars
<1>2. Busy(r)
  BY <1>1 DEF IInv, SlotInv
<1>3. /\ req[r].op \in WorkspaceOps => req[r].ws \in Workspace
      /\ req[r].op \in MemberOps => req[r].ws \in Workspace /\ req[r].target \in User
  BY <1>2 DEF Busy, ShapeInv, WorkspaceOps, MemberOps
<1>4. TypeOK'
  <2>1. req' \in [Request -> RequestState]
    BY <1>1, EndFacts DEF IInv, TypeOK
  <2>2. silent' \subseteq Workspace \X User /\ spared' \subseteq Workspace
    BY <1>1, <1>3 DEF IInv, TypeOK, At, WorkspaceOps
  <2>3. faults' \in 0..MaxFaults
    BY <1>1, TenancyAssumption DEF IInv, TypeOK
  <2> QED
    BY <1>1, <2>1, <2>2, <2>3 DEF IInv, TypeOK, rowVars
<1>5. ASSUME NEW w \in Workspace, NEW u \in User
      PROVE  LogInv(w, u)'
  <2>1. CASE req[r].step = "audit" /\ req[r].op \in MemberOps
             /\ req[r].ws = w /\ req[r].target = u
    <3>1. ~Fresh(w, u)' /\ <<w, u>> \in silent'
      <4>1. ~Fresh(w, u)
        BY <2>1, LoggedPair
      <4> QED
        BY <1>1, <2>1, <4>1 DEF Fresh, rowVars
    <3> QED
      BY <3>1 DEF LogInv
  <2>2. CASE ~(req[r].step = "audit" /\ req[r].op \in MemberOps
               /\ req[r].ws = w /\ req[r].target = u)
    BY <1>1, <2>2, OtherPair
  <2> QED
    BY <2>1, <2>2
<1> QED
  BY <1>1, <1>4, <1>5, EndStep

-----------------------------------------------------------------------------
(* The invariant is inductive *)

LEMMA INext == IInv /\ [Next]_vars => IInv'
<1> SUFFICES ASSUME IInv, [Next]_vars PROVE IInv'
  OBVIOUS
<1>1. ASSUME NEW u \in User, Login(u) \/ RemoveUser(u) PROVE IInv'
  BY <1>1, LoginNext, RemoveUserNext
<1>2. ASSUME NEW u \in User, NEW w \in Workspace \cup {None}, CreateUser(u, w) PROVE IInv'
  BY <1>2, CreateUserNext
<1>3. ASSUME NEW w \in Workspace, NEW p \in Repository, Use(w, p) \/ Release(w, p) PROVE IInv'
  BY <1>3, UseNext
<1>4. ASSUME NEW r \in Request, NEW c \in User, NEW w \in Workspace,
             \/ \E p \in Repository \cup {None} : CreateWorkspace(r, c, w, p)
             \/ \E p \in Repository \cup {None, Keep} : Update(r, c, w, p)
             \/ Remove(r, c, w)
             \/ \E u \in User : RemoveMember(r, c, w, u)
             \/ \E u \in User, role \in WorkspaceRole : AddUser(r, c, w, u, role)
      PROVE  IInv'
  BY <1>4, CreateWorkspaceNext, UpdateNext, RemoveNext, RemoveMemberNext, AddUserNext
<1>5. ASSUME NEW r \in Request, NEW c \in User, NEW p \in Repository,
             CreateRepository(r, c, p) \/ RemoveRepository(r, c, p)
      PROVE  IInv'
  BY <1>5, CreateRepositoryNext, RemoveRepositoryNext
<1>6. ASSUME NEW r \in Request,
             \/ UpdateWrite(r) \/ RemoveLog(r) \/ RemoveWrite(r)
             \/ Authority(r) \/ Lookup(r) \/ Membership(r) \/ AddWrite(r) \/ RemoveMemberWrite(r)
             \/ CreateRepositoryWrite(r) \/ RepositoryLinks(r) \/ RemoveRepositoryWrite(r)
             \/ Audit(r) \/ Fault(r)
      PROVE  IInv'
  BY <1>6, UpdateWriteNext, RemoveLogNext, RemoveWriteNext, AuthorityNext, LookupNext,
     MembershipNext, AddWriteNext, RemoveMemberWriteNext, CreateRepositoryWriteNext,
     RepositoryLinksNext, RemoveRepositoryWriteNext, AuditNext, FaultNext
<1>7. CASE UNCHANGED vars
  <2>1. UNCHANGED <<users, gone, audited, repo, ws, member, used, net, deleteLogged, req,
                    held, late, silent, spared, requests, faults>>
    BY <1>7 DEF vars, rowVars, logVars, historyVars, budgetVars
  <2>2. TypeOK'
    BY <2>1 DEF IInv, TypeOK
  <2>3. \A q \in Request : SlotInv(q)'
    BY <2>1 DEF IInv, SlotInv, Busy, ShapeInv, HeldInv, DropInv, At, MayManage, LinkedTo, ThereIs
  <2>4. \A x \in Workspace : WorkspaceInv(x)' /\ DeletionInv(x)'
    BY <2>1 DEF IInv, WorkspaceInv, DeletionInv, ThereIs, IsMember, At
  <2>5. \A x \in Repository : RepositoryInv(x)'
    BY <2>1 DEF IInv, RepositoryInv, IsThere
  <2>6. ASSUME NEW x \in Workspace, NEW v \in User
        PROVE  LogInv(x, v)'
    <3>1. \A op \in MemberOps : Unlogged(op, x, v)' = Unlogged(op, x, v)
      BY <2>1 DEF Unlogged, At
    <3>2. Fresh(x, v)' = Fresh(x, v) /\ ThereIs(x)' = ThereIs(x) /\ IsMember(x, v)' = IsMember(x, v)
      BY <2>1 DEF Fresh, ThereIs, IsMember
    <3> QED
      BY <2>1, <3>1, <3>2 DEF IInv, LogInv, MemberOps
  <2> QED
    BY <2>1, <2>2, <2>3, <2>4, <2>5, <2>6 DEF IInv
<1> QED
  BY <1>1, <1>2, <1>3, <1>4, <1>5, <1>6, <1>7 DEF Next

\* IInv always holds.
LEMMA TenancyInvariant == Spec => []IInv
<1>1. Init => IInv
  BY IInit
<1>2. IInv /\ [Next]_vars => IInv'
  BY INext
<1> QED
  BY <1>1, <1>2, PTL DEF Spec

-----------------------------------------------------------------------------
(* The theorems *)

\* Every variable keeps its type, for any constants.
THEOREM TenancyTypeOK == Spec => []TypeOK
<1>1. IInv => TypeOK
  BY DEF IInv
<1> QED
  BY <1>1, TenancyInvariant, PTL

\* The owner of a repository or of a workspace is a row of users: a caller has left the audit row
\* that forbids to delete its user, and the owner of a workspace is a foreign key.
THEOREM TenancyOwnersStay == Spec => []OwnersStay
<1>1. IInv => OwnersStay
  BY DEF IInv, RepositoryInv, WorkspaceInv, OwnersStay
<1> QED
  BY <1>1, TenancyInvariant, PTL

\* The additions and removals that addUser and removeUser have logged, or are about to, sum up to
\* the membership.
THEOREM TenancyMembershipMatchesLog == Spec => []MembershipMatchesLog
<1>1. IInv => MembershipMatchesLog
  <2> SUFFICES ASSUME IInv, NEW w \in Workspace, NEW u \in users, ThereIs(w), <<w, u>> \notin silent
               PROVE  net[w][u] = (IF IsMember(w, u) THEN 1 ELSE 0)
                                  - Cardinality(Unlogged("addUser", w, u))
                                  + Cardinality(Unlogged("removeUser", w, u))
    BY DEF MembershipMatchesLog
  <2>1. u \in User
    BY DEF IInv, TypeOK
  <2> QED
    BY <2>1 DEF IInv, LogInv
<1> QED
  BY <1>1, TenancyInvariant, PTL

\* A deleted workspace is logged, and a logged one that is there is being deleted or was spared.
THEOREM TenancyDeletionMatchesLog == Spec => []DeletionMatchesLog
<1>1. IInv => DeletionMatchesLog
  BY DEF IInv, DeletionInv, DeletionMatchesLog
<1> QED
  BY <1>1, TenancyInvariant, PTL
\* Only RemoveRepositoryWrite deletes a repository.
LEMMA RepositoryDeletion ==
    ASSUME IInv, [Next]_vars, NEW p \in Repository, IsThere(p), ~IsThere(p)'
    PROVE  \E r \in Request : At(r, "removeRepository", "write") /\ req[r].repo = p
<1>1. repo' # repo
  BY DEF IsThere
<1>2. ASSUME NEW u \in User, Login(u) \/ RemoveUser(u) PROVE repo' = repo
  BY <1>2 DEF Login, RemoveUser
<1>3. ASSUME NEW u \in User, NEW w \in Workspace \cup {None}, CreateUser(u, w) PROVE repo' = repo
  BY <1>3 DEF CreateUser
<1>4. ASSUME NEW w \in Workspace, NEW x \in Repository, Use(w, x) \/ Release(w, x)
      PROVE  repo' = repo
  BY <1>4 DEF Use, Release
<1>5. ASSUME NEW r \in Request, NEW c \in User, NEW w \in Workspace,
             \/ \E x \in Repository \cup {None} : CreateWorkspace(r, c, w, x)
             \/ \E x \in Repository \cup {None, Keep} : Update(r, c, w, x)
             \/ Remove(r, c, w)
             \/ \E u \in User : RemoveMember(r, c, w, u)
             \/ \E u \in User, role \in WorkspaceRole : AddUser(r, c, w, u, role)
      PROVE  repo' = repo
  BY <1>5 DEF CreateWorkspace, Update, Remove, RemoveMember, AddUser, Manage, rowVars
<1>6. ASSUME NEW r \in Request, NEW c \in User, NEW x \in Repository,
             CreateRepository(r, c, x) \/ RemoveRepository(r, c, x)
      PROVE  repo' = repo
  BY <1>6 DEF CreateRepository, RemoveRepository, rowVars
<1>7. ASSUME NEW r \in Request,
             \/ UpdateWrite(r) \/ RemoveLog(r) \/ RemoveWrite(r)
             \/ Authority(r) \/ Lookup(r) \/ Membership(r) \/ AddWrite(r) \/ RemoveMemberWrite(r)
             \/ RepositoryLinks(r) \/ Audit(r) \/ Fault(r)
      PROVE  repo' = repo
  BY <1>7 DEF UpdateWrite, RemoveLog, RemoveWrite, Authority, Lookup, Membership, AddWrite,
              RemoveMemberWrite, RepositoryLinks, Audit, Fault, Reads, rowVars
<1>8. ASSUME NEW r \in Request, CreateRepositoryWrite(r) PROVE IsThere(p)'
  <2>1. repo \in [Repository -> [state : State, owner : User \cup {None}]]
    BY DEF IInv, TypeOK
  <2> QED
    BY <1>8, <2>1 DEF CreateRepositoryWrite, IsThere
<1>9. ASSUME NEW r \in Request, RemoveRepositoryWrite(r)
      PROVE  At(r, "removeRepository", "write") /\ req[r].repo = p
  <2>1. At(r, "removeRepository", "write")
    BY <1>9 DEF RemoveRepositoryWrite
  <2>2. CASE repo' = repo
    BY <1>1, <2>2
  <2>3. CASE repo' = [repo EXCEPT ![req[r].repo] = [state |-> "deleted", owner |-> None]]
    BY <2>1, <2>3 DEF IsThere, IInv, TypeOK
  <2> QED
    BY <1>9, <2>1, <2>2, <2>3 DEF RemoveRepositoryWrite
<1>10. CASE UNCHANGED vars
  BY <1>1, <1>10 DEF vars, rowVars
<1> QED
  BY <1>1, <1>2, <1>3, <1>4, <1>5, <1>6, <1>7, <1>8, <1>9, <1>10 DEF Next

\* A repository goes away under a workspace only when the workspace was linked after the check.
THEOREM TenancyLinkLostOnlyByRace == Spec => LinkLostOnlyByRace
<1> DEFINE Kept == \A w \in Workspace, p \in Repository :
                      ThereIs(w) /\ ws[w].repo = p /\ IsThere(p) /\ ~IsThere(p)' => w \in late
<1>1. IInv /\ [Next]_vars => [Kept]_vars
  <2> SUFFICES ASSUME IInv, [Next]_vars, NEW w \in Workspace, NEW p \in Repository,
                      ThereIs(w), ws[w].repo = p, IsThere(p), ~IsThere(p)'
               PROVE  w \in late
    OBVIOUS
  <2>1. PICK r \in Request : At(r, "removeRepository", "write") /\ req[r].repo = p
    BY RepositoryDeletion
  <2>2. Busy(r)
    BY <2>1 DEF IInv, SlotInv, At
  <2>3. LinkedTo(p) \subseteq late
    BY <2>1, <2>2 DEF Busy, DropInv
  <2> QED
    BY <2>3 DEF LinkedTo
<1> QED
  BY <1>1, TenancyInvariant, PTL DEF LinkLostOnlyByRace, Spec

\* What a step that changes a membership is.
LEMMA MembershipChange ==
    ASSUME IInv, [Next]_vars, NEW w \in Workspace, NEW u \in User, member'[w][u] # member[w][u]
    PROVE  \/ ~ThereIs(w)' \/ u \notin users' \/ u \notin users
           \/ \E r \in held : req[r].ws = w /\ req[r].target = u /\ req'[r] # req[r]
<1> DEFINE Goal == \/ ~ThereIs(w)' \/ u \notin users' \/ u \notin users
                   \/ \E r \in held : req[r].ws = w /\ req[r].target = u /\ req'[r] # req[r]
<1>1. member' # member
  OBVIOUS
<1>2. member \in [Workspace -> [User -> WorkspaceRole \cup {"none"}]]
  BY DEF IInv, TypeOK
<1>3. ASSUME NEW v \in User, Login(v) \/ RemoveUser(v) PROVE Goal
  BY <1>1, <1>2, <1>3 DEF Login, RemoveUser
<1>4. ASSUME NEW v \in User, NEW x \in Workspace \cup {None}, CreateUser(v, x) PROVE Goal
  BY <1>1, <1>2, <1>4 DEF CreateUser
<1>5. ASSUME NEW x \in Workspace, NEW p \in Repository, Use(x, p) \/ Release(x, p)
      PROVE  member' = member
  BY <1>5 DEF Use, Release
<1>6. ASSUME NEW r \in Request, NEW c \in User, NEW x \in Workspace,
             \/ \E p \in Repository \cup {None} : CreateWorkspace(r, c, x, p)
             \/ \E p \in Repository \cup {None, Keep} : Update(r, c, x, p)
             \/ Remove(r, c, x)
             \/ \E v \in User : RemoveMember(r, c, x, v)
             \/ \E v \in User, role \in WorkspaceRole : AddUser(r, c, x, v, role)
      PROVE  member' = member
  BY <1>6 DEF CreateWorkspace, Update, Remove, RemoveMember, AddUser, Manage, rowVars
<1>7. ASSUME NEW r \in Request, NEW c \in User, NEW p \in Repository,
             CreateRepository(r, c, p) \/ RemoveRepository(r, c, p)
      PROVE  member' = member
  BY <1>7 DEF CreateRepository, RemoveRepository, rowVars
<1>8. ASSUME NEW r \in Request,
             \/ UpdateWrite(r) \/ RemoveLog(r)
             \/ Authority(r) \/ Lookup(r) \/ Membership(r)
             \/ CreateRepositoryWrite(r) \/ RepositoryLinks(r) \/ RemoveRepositoryWrite(r)
             \/ Audit(r) \/ Fault(r)
      PROVE  member' = member
  BY <1>8 DEF UpdateWrite, RemoveLog, Authority, Lookup, Membership, CreateRepositoryWrite,
              RepositoryLinks, RemoveRepositoryWrite, Audit, Fault, Reads, rowVars
<1>9. ASSUME NEW r \in Request, RemoveWrite(r) PROVE ~ThereIs(w)'
  <2>1. /\ member' = [member EXCEPT ![req[r].ws] = [v \in User |-> "none"]]
        /\ ws' = [ws EXCEPT ![req[r].ws] = [state |-> "deleted", owner |-> None, repo |-> None]]
    BY <1>1, <1>9 DEF RemoveWrite
  <2>2. req[r].ws = w
    BY <1>2, <2>1
  <2>3. ws \in [Workspace -> [state : State, owner : User \cup {None},
                              repo : Repository \cup {None}]]
    BY DEF IInv, TypeOK
  <2> QED
    BY <2>1, <2>2, <2>3 DEF ThereIs
<1>10. ASSUME NEW r \in Request, AddWrite(r) \/ RemoveMemberWrite(r) PROVE Goal
  <2>1. /\ req[r].op \in MemberOps /\ req[r].step = "write" /\ Goto(r, "audit")
        /\ \E role \in WorkspaceRole \cup {"none"} :
              member' = [member EXCEPT ![req[r].ws][req[r].target] = role]
    <3>1. req[r].role \in WorkspaceRole
      BY SlotTypes DEF IInv
    <3> QED
      BY <1>1, <1>10, <3>1 DEF AddWrite, RemoveMemberWrite, At, MemberOps
  <2>2. r \in held
    <3>1. Busy(r)
      BY <2>1 DEF IInv, SlotInv
    <3> QED
      BY <2>1, <3>1 DEF Busy, HeldInv
  <2>3. req'[r].step = "audit"
    BY <2>1, GotoFacts DEF IInv, TypeOK, Step
  <2>4. req[r].ws = w /\ req[r].target = u
    BY <1>2, <2>1
  <2> QED
    BY <2>1, <2>2, <2>3, <2>4
<1>11. CASE UNCHANGED vars
  BY <1>1, <1>11 DEF vars, rowVars
<1> QED
  BY <1>1, <1>3, <1>4, <1>5, <1>6, <1>7, <1>8, <1>9, <1>10, <1>11 DEF Next

\* addUser and removeUser write a membership only for a caller who was owner or admin at some
\* moment during the request.
THEOREM TenancyAuthorityHeld == Spec => AuthorityHeld
<1>1. IInv /\ [Next]_vars =>
        [\A w \in Workspace, u \in User :
            member'[w][u] # member[w][u] =>
               \/ ~ThereIs(w)' \/ u \notin users' \/ u \notin users
               \/ \E r \in held : req[r].ws = w /\ req[r].target = u /\ req'[r] # req[r]]_vars
  BY MembershipChange
<1> QED
  BY <1>1, TenancyInvariant, PTL DEF AuthorityHeld, Spec
=============================================================================
