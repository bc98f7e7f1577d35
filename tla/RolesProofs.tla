----------------------------- MODULE RolesProofs ------------------------------
(***************************************************************************)
(* What module Roles promises, for any accounts, roles and workspaces and  *)
(* any number of request slots.  Module AccountsProofs has what sign-up    *)
(* and UsersService preserve.                                              *)
(***************************************************************************)
EXTENDS Roles, AccountsProofs

\* The next await of each request, and what a slot holds there.
Control(k) ==
    /\ k.op = "none" <=> k.step = "idle"
    /\ k.op \in {"assign", "remove"} =>
        k.step \in {"find", "write", "audit", "members", "clear", "done"}
    /\ k.op = "change" =>
        k.step \in {"find", "drop", "insert", "audit", "members", "clear", "commit", "done"}
    /\ k.op \in {"list", "answer"} => k.step \in {"roles", "owner", "set", "done"}

Data(k) ==
    /\ k.op # "none" => k.user \in User
    /\ k.op \in {"assign", "remove", "change"} => k.role \in Role
    /\ k.step \in {"owner", "set"} =>
        k.found \in Value /\ (k.op = "answer" => k.found \subseteq {"yes"})
    /\ k.step = "owner" => k.scope # Global
    /\ k.step = "drop" => k.order # <<>>
    /\ k.step \in {"insert", "audit", "members", "clear", "commit", "done"} => k.order = <<>>
    /\ k.op = "remove" /\ k.step = "write" => k.row \in Row /\ k.row.user = k.user
    /\ k.step \in {"audit", "members", "clear", "commit"} => k.row \in Row /\ k.row.user = k.user
    /\ k.step # "clear" => k.keys = {}
    /\ k.step \notin {"idle", "done"} => k.answer = 0
    /\ k.step = "done" => k.answer \in {200, 400} /\ k.dropped = {}
    /\ k.step = "find" => k.dropped = {}
    /\ k.op # "change" => k.order = <<>> /\ k.dropped = {}
    /\ \A row \in k.dropped : row.user = k.user
    /\ \A i \in DOMAIN k.order : k.order[i].user = k.user

Shape(k) == Control(k) /\ Data(k)

\* A slot is about an account that is or was there; the id of its row has been given out.
TaskInv(t) ==
    /\ Shape(task[t])
    /\ task[t].op # "none" => Known(task[t].user)
    /\ task[t].row # None => task[t].row.id < nextRow

Base ==
    /\ AccountsInv
    /\ TypeOK
    /\ \A t \in Task : TaskInv(t)
    /\ \A k \in Key : cache[k] # None => Known(k.user)

-----------------------------------------------------------------------------
(* What the helpers leave in a slot *)

LEMMA PutStep ==
    ASSUME NEW k \in TaskState,
           NEW v \in {"idle", "find", "write", "drop", "insert", "audit", "members", "clear",
                  "commit", "roles", "owner", "set", "done"}
    PROVE  [k EXCEPT !.step = v] \in TaskState
BY DEF TaskState

LEMMA PutAnswer ==
    ASSUME NEW k \in TaskState, NEW v \in {0, 200, 400} PROVE [k EXCEPT !.answer = v] \in TaskState
BY DEF TaskState

LEMMA PutOrder ==
    ASSUME NEW k \in TaskState, NEW v \in Seq(Row) PROVE [k EXCEPT !.order = v] \in TaskState
BY DEF TaskState

LEMMA PutDropped ==
    ASSUME NEW k \in TaskState, NEW v \in SUBSET Row PROVE [k EXCEPT !.dropped = v] \in TaskState
BY DEF TaskState

LEMMA PutRow ==
    ASSUME NEW k \in TaskState, NEW v \in Row \cup {None} PROVE [k EXCEPT !.row = v] \in TaskState
BY DEF TaskState

LEMMA PutKeys ==
    ASSUME NEW k \in TaskState, NEW v \in SUBSET Scope PROVE [k EXCEPT !.keys = v] \in TaskState
BY DEF TaskState

LEMMA PutFound ==
    ASSUME NEW k \in TaskState, NEW v \in {None} \cup Value PROVE [k EXCEPT !.found = v] \in TaskState
BY DEF TaskState

LEMMA OnFacts ==
    ASSUME task \in [Task -> TaskState], NEW t \in Task,
           NEW step \in {"write", "drop", "insert", "members"}, On(t, step)
    PROVE  /\ task' \in [Task -> TaskState]
           /\ \A o \in Task \ {t} : task'[o] = task[o]
           /\ task'[t].op = task[t].op /\ task'[t].step = step /\ task'[t].user = task[t].user
           /\ task'[t].role = task[t].role /\ task'[t].scope = task[t].scope
           /\ task'[t].order = task[t].order /\ task'[t].dropped = task[t].dropped
           /\ task'[t].row = task[t].row /\ task'[t].keys = task[t].keys
           /\ task'[t].found = task[t].found /\ task'[t].answer = task[t].answer
<1> DEFINE k == [task[t] EXCEPT !.step = step]
<1>1. k \in TaskState
  BY PutStep
<1>2. /\ k.op = task[t].op /\ k.step = step /\ k.user = task[t].user
      /\ k.role = task[t].role /\ k.scope = task[t].scope
      /\ k.order = task[t].order /\ k.dropped = task[t].dropped
      /\ k.row = task[t].row /\ k.keys = task[t].keys
      /\ k.found = task[t].found /\ k.answer = task[t].answer
  BY DEF TaskState
<1>3. task' = [task EXCEPT ![t] = k]
  BY DEF On
<1> HIDE DEF k
<1> QED
  BY <1>1, <1>2, <1>3

Replied(k, code) == [k EXCEPT !.step = "done", !.answer = code, !.order = <<>>,
                              !.dropped = {}, !.keys = {}, !.found = None]

LEMMA ReplyType ==
    ASSUME NEW k \in TaskState, NEW code \in {200, 400}
    PROVE  Replied(k, code) \in TaskState
<1> DEFINE k1 == [k EXCEPT !.step = "done"]
           k2 == [k1 EXCEPT !.answer = code]
           k3 == [k2 EXCEPT !.order = <<>>]
           k4 == [k3 EXCEPT !.dropped = {}]
           k5 == [k4 EXCEPT !.keys = {}]
           k6 == [k5 EXCEPT !.found = None]
<1>1. k1 \in TaskState
  BY PutStep
<1> HIDE DEF k1
<1>2. k2 \in TaskState
  <2>1. \A v \in {0, 200, 400} : [k1 EXCEPT !.answer = v] \in TaskState
    BY <1>1, PutAnswer, Zenon
  <2>2. code \in {0, 200, 400}
    OBVIOUS
  <2> QED
    BY <2>1, <2>2
<1> HIDE DEF k2
<1>3. k3 \in TaskState
  <2>1. <<>> \in Seq(Row)
    OBVIOUS
  <2> QED
    BY <1>2, <2>1, PutOrder
<1> HIDE DEF k3
<1>4. k4 \in TaskState
  BY <1>3, PutDropped
<1> HIDE DEF k4
<1>5. k5 \in TaskState
  BY <1>4, PutKeys
<1> HIDE DEF k5
<1>6. k6 \in TaskState
  BY <1>5, PutFound
<1> QED
  BY <1>6 DEF k1, k2, k3, k4, k5, Replied

LEMMA ReplyFields ==
    ASSUME NEW k \in TaskState, NEW code \in {200, 400}
    PROVE  LET n == Replied(k, code) IN
           /\ n.op = k.op /\ n.step = "done" /\ n.user = k.user
           /\ n.role = k.role /\ n.scope = k.scope /\ n.order = <<>> /\ n.dropped = {}
           /\ n.row = k.row /\ n.keys = {} /\ n.found = None /\ n.answer = code
BY DEF TaskState, Replied

LEMMA ReplyFacts ==
    ASSUME task \in [Task -> TaskState], NEW t \in Task, NEW code \in {200, 400}, Reply(t, code)
    PROVE  /\ task' \in [Task -> TaskState]
           /\ \A o \in Task \ {t} : task'[o] = task[o]
           /\ task'[t].op = task[t].op /\ task'[t].step = "done" /\ task'[t].user = task[t].user
           /\ task'[t].role = task[t].role /\ task'[t].scope = task[t].scope
           /\ task'[t].order = <<>> /\ task'[t].dropped = {}
           /\ task'[t].row = task[t].row /\ task'[t].keys = {}
           /\ task'[t].found = None /\ task'[t].answer = code
<1>1. task[t] \in TaskState
  OBVIOUS
<1>2. task' = [task EXCEPT ![t] = Replied(task[t], code)]
  BY DEF Reply, Replied
<1>3. Replied(task[t], code) \in TaskState
  BY <1>1, ReplyType
<1>4. task'[t] = Replied(task[t], code) /\ task' \in [Task -> TaskState]
      /\ \A o \in Task \ {t} : task'[o] = task[o]
  BY <1>2, <1>3
<1> QED
  BY <1>1, <1>4, ReplyFields

\* The row a request inserts or removes.
LEMMA RowFacts ==
    ASSUME task \in [Task -> TaskState], NEW t \in Task, NEW step \in {"write", "audit"},
           NEW row \in Row, task' = [task EXCEPT ![t] = [@ EXCEPT !.step = step, !.row = row]]
    PROVE  /\ task' \in [Task -> TaskState]
           /\ \A o \in Task \ {t} : task'[o] = task[o]
           /\ task'[t].op = task[t].op /\ task'[t].step = step /\ task'[t].user = task[t].user
           /\ task'[t].role = task[t].role /\ task'[t].scope = task[t].scope
           /\ task'[t].order = task[t].order /\ task'[t].dropped = task[t].dropped
           /\ task'[t].row = row /\ task'[t].keys = task[t].keys
           /\ task'[t].found = task[t].found /\ task'[t].answer = task[t].answer
<1> DEFINE k == [task[t] EXCEPT !.step = step, !.row = row]
<1>1. k \in TaskState
  <2>1. [task[t] EXCEPT !.step = step] \in TaskState
    BY PutStep
  <2>2. \A j \in TaskState : [j EXCEPT !.row = row] \in TaskState
    BY PutRow
  <2> QED
    BY <2>1, <2>2
<1>2. /\ k.op = task[t].op /\ k.step = step /\ k.user = task[t].user
      /\ k.role = task[t].role /\ k.scope = task[t].scope
      /\ k.order = task[t].order /\ k.dropped = task[t].dropped
      /\ k.row = row /\ k.keys = task[t].keys
      /\ k.found = task[t].found /\ k.answer = task[t].answer
  BY DEF TaskState
<1>3. task' = [task EXCEPT ![t] = k]
  OBVIOUS
<1> HIDE DEF k
<1> QED
  BY <1>1, <1>2, <1>3

Deleting(k, order, dropped, step) == [k EXCEPT !.order = order, !.dropped = dropped, !.step = step]

LEMMA DeletingFacts ==
    ASSUME NEW k \in TaskState, NEW order \in Seq(Row), NEW dropped \in SUBSET Row,
           NEW step \in {"drop", "insert"}
    PROVE  LET n == Deleting(k, order, dropped, step) IN
           /\ n \in TaskState
           /\ n.op = k.op /\ n.step = step /\ n.user = k.user /\ n.role = k.role
           /\ n.scope = k.scope /\ n.order = order /\ n.dropped = dropped
           /\ n.row = k.row /\ n.keys = k.keys /\ n.found = k.found /\ n.answer = k.answer
<1> DEFINE k1 == [k EXCEPT !.order = order]
           k2 == [k1 EXCEPT !.dropped = dropped]
           k3 == [k2 EXCEPT !.step = step]
<1>1. k1 \in TaskState
  BY PutOrder
<1> HIDE DEF k1
<1>2. k2 \in TaskState
  BY <1>1, PutDropped
<1> HIDE DEF k2
<1>3. k3 \in TaskState
  BY <1>2, PutStep
<1>4. Deleting(k, order, dropped, step) \in TaskState
  BY <1>3 DEF k1, k2, Deleting
<1>5. LET n == Deleting(k, order, dropped, step) IN
      /\ n.op = k.op /\ n.step = step /\ n.user = k.user /\ n.role = k.role
      /\ n.scope = k.scope /\ n.order = order /\ n.dropped = dropped
      /\ n.row = k.row /\ n.keys = k.keys /\ n.found = k.found /\ n.answer = k.answer
  BY DEF TaskState, Deleting
<1> QED
  BY <1>4, <1>5

Listing(k, keys) == [k EXCEPT !.step = "clear", !.keys = keys]

LEMMA ListingFacts ==
    ASSUME NEW k \in TaskState, NEW keys \in SUBSET Scope
    PROVE  LET n == Listing(k, keys) IN
           /\ n \in TaskState
           /\ n.op = k.op /\ n.step = "clear" /\ n.user = k.user /\ n.role = k.role
           /\ n.scope = k.scope /\ n.order = k.order /\ n.dropped = k.dropped
           /\ n.row = k.row /\ n.keys = keys /\ n.found = k.found /\ n.answer = k.answer
<1> DEFINE k1 == [k EXCEPT !.step = "clear"]
           k2 == [k1 EXCEPT !.keys = keys]
<1>1. k1 \in TaskState
  BY PutStep
<1> HIDE DEF k1
<1>2. k2 \in TaskState
  BY <1>1, PutKeys
<1>3. Listing(k, keys) \in TaskState
  BY <1>2 DEF k1, Listing
<1>4. LET n == Listing(k, keys) IN
      /\ n.op = k.op /\ n.step = "clear" /\ n.user = k.user /\ n.role = k.role
      /\ n.scope = k.scope /\ n.order = k.order /\ n.dropped = k.dropped
      /\ n.row = k.row /\ n.keys = keys /\ n.found = k.found /\ n.answer = k.answer
  BY DEF TaskState, Listing
<1> QED
  BY <1>3, <1>4

Clearing(k, keys, step, answer) == [k EXCEPT !.keys = keys, !.step = step, !.answer = answer]

LEMMA Answered200 == ASSUME NEW k \in TaskState PROVE [k EXCEPT !.answer = 200] \in TaskState
BY DEF TaskState

LEMMA ClearingType ==
    ASSUME NEW k \in TaskState, NEW keys \in SUBSET Scope, NEW step \in {"clear", "commit", "done"}
    PROVE  Clearing(k, keys, step, 0) \in TaskState /\ Clearing(k, keys, step, 200) \in TaskState
<1> DEFINE k1 == [k EXCEPT !.keys = keys]
           k2 == [k1 EXCEPT !.step = step]
<1>1. k1 \in TaskState
  BY PutKeys
<1> HIDE DEF k1
<1>2. k2 \in TaskState
  BY <1>1, PutStep
<1> HIDE DEF k2
<1>3. [k2 EXCEPT !.answer = 0] \in TaskState
  BY <1>2 DEF TaskState
<1>4. [k2 EXCEPT !.answer = 200] \in TaskState
  BY <1>2, Answered200
<1> QED
  BY <1>3, <1>4 DEF k1, k2, Clearing

LEMMA ClearingFacts ==
    ASSUME NEW k \in TaskState, NEW keys \in SUBSET Scope, NEW step \in {"clear", "commit", "done"},
           NEW answer \in {0, 200}
    PROVE  LET n == Clearing(k, keys, step, answer) IN
           /\ n \in TaskState
           /\ n.op = k.op /\ n.step = step /\ n.user = k.user /\ n.role = k.role
           /\ n.scope = k.scope /\ n.order = k.order /\ n.dropped = k.dropped
           /\ n.row = k.row /\ n.keys = keys /\ n.found = k.found /\ n.answer = answer
<1>4. Clearing(k, keys, step, answer) \in TaskState
  BY ClearingType
<1>5. LET n == Clearing(k, keys, step, answer) IN
      /\ n.op = k.op /\ n.step = step /\ n.user = k.user /\ n.role = k.role
      /\ n.scope = k.scope /\ n.order = k.order /\ n.dropped = k.dropped
      /\ n.row = k.row /\ n.keys = keys /\ n.found = k.found /\ n.answer = answer
  BY DEF TaskState, Clearing
<1> QED
  BY <1>4, <1>5

Checking(k, found, step) == [k EXCEPT !.found = found, !.step = step]

LEMMA CheckingFacts ==
    ASSUME NEW k \in TaskState, NEW found \in {None} \cup Value, NEW step \in {"owner", "set"}
    PROVE  LET n == Checking(k, found, step) IN
           /\ n \in TaskState
           /\ n.op = k.op /\ n.step = step /\ n.user = k.user /\ n.role = k.role
           /\ n.scope = k.scope /\ n.order = k.order /\ n.dropped = k.dropped
           /\ n.row = k.row /\ n.keys = k.keys /\ n.found = found /\ n.answer = k.answer
<1> DEFINE k1 == [k EXCEPT !.found = found]
           k2 == [k1 EXCEPT !.step = step]
<1>1. k1 \in TaskState
  BY PutFound
<1> HIDE DEF k1
<1>2. k2 \in TaskState
  BY <1>1, PutStep
<1>3. Checking(k, found, step) \in TaskState
  BY <1>2 DEF k1, Checking
<1>4. LET n == Checking(k, found, step) IN
      /\ n.op = k.op /\ n.step = step /\ n.user = k.user /\ n.role = k.role
      /\ n.scope = k.scope /\ n.order = k.order /\ n.dropped = k.dropped
      /\ n.row = k.row /\ n.keys = k.keys /\ n.found = found /\ n.answer = k.answer
  BY DEF TaskState, Checking
<1> QED
  BY <1>3, <1>4

LEMMA FreeType == Free \in TaskState
<1>1. <<>> \in Seq(Row) /\ Global \in Scope
  BY DEF Scope
<1> QED
  BY <1>1 DEF Free, TaskState

LEMMA FreeFields ==
    /\ Free.op = "none" /\ Free.step = "idle" /\ Free.user = None /\ Free.role = None
    /\ Free.scope = Global /\ Free.order = <<>> /\ Free.dropped = {} /\ Free.row = None
    /\ Free.keys = {} /\ Free.found = None /\ Free.answer = 0
BY DEF Free

Started(op, u, role, s) == [Free EXCEPT !.op = op, !.step = "find", !.user = u, !.role = role,
                                        !.scope = s]

LEMMA StartFacts ==
    ASSUME NEW op \in {"assign", "remove"}, NEW u \in User, NEW role \in Role, NEW s \in Scope
    PROVE  LET n == Started(op, u, role, s) IN
           /\ n \in TaskState
           /\ n.op = op /\ n.step = "find" /\ n.user = u /\ n.role = role
           /\ n.scope = s /\ n.order = <<>> /\ n.dropped = {}
           /\ n.row = None /\ n.keys = {} /\ n.found = None /\ n.answer = 0
<1>1. <<>> \in Seq(Row)
  OBVIOUS
<1> QED
  BY <1>1 DEF Free, TaskState, Started

Changing(u, role, s, order) == [Free EXCEPT !.op = "change", !.step = "find", !.user = u,
                                            !.role = role, !.scope = s, !.order = order]

LEMMA ChangeFacts ==
    ASSUME NEW u \in User, NEW role \in Role, NEW s \in Scope, NEW order \in Seq(Row)
    PROVE  LET n == Changing(u, role, s, order) IN
           /\ n \in TaskState
           /\ n.op = "change" /\ n.step = "find" /\ n.user = u /\ n.role = role
           /\ n.scope = s /\ n.order = order /\ n.dropped = {}
           /\ n.row = None /\ n.keys = {} /\ n.found = None /\ n.answer = 0
BY DEF Free, TaskState, Changing

Asking(kind, u, s, step, answer) == [Free EXCEPT !.op = kind, !.user = u, !.scope = s,
                                                 !.step = step, !.answer = answer]

LEMMA CheckFacts ==
    ASSUME NEW kind \in {"list", "answer"}, NEW u \in User, NEW s \in Scope, NEW step, NEW answer,
           \/ step = "roles" /\ answer = 0
           \/ step = "done" /\ answer = 200
    PROVE  LET n == Asking(kind, u, s, step, answer) IN
           /\ n \in TaskState
           /\ n.op = kind /\ n.step = step /\ n.user = u /\ n.role = None
           /\ n.scope = s /\ n.order = <<>> /\ n.dropped = {}
           /\ n.row = None /\ n.keys = {} /\ n.found = None /\ n.answer = answer
<1>1. <<>> \in Seq(Row)
  OBVIOUS
<1> QED
  BY <1>1, ZenonT(60) DEF Free, TaskState, Asking

-----------------------------------------------------------------------------
(* Frames *)

\* The rows of accounts are left alone, but for role assignments.
LEMMA RowsKeep ==
    ASSUME AccountsInv, UNCHANGED <<user, link, audited, req, tx>>,
           requests' \in 0..MaxRequests, faults' \in 0..MaxFaults,
           assigned' \subseteq Row, IsFiniteSet(assigned'),
           \A row \in assigned' : row.id < nextRow', nextRow' \in Nat, nextRow' >= nextRow
    PROVE  AccountsInv'
<1>1. AccountsTypeOK'
  BY DEF AccountsInv, AccountsTypeOK
<1> QED
  BY <1>1, AccountsFrame

LEMMA RowsSame ==
    ASSUME AccountsInv, UNCHANGED <<rowVars, req, tx>>,
           requests' \in 0..MaxRequests, faults' \in 0..MaxFaults
    PROVE  AccountsInv'
<1>1. /\ UNCHANGED <<user, link, audited, req, tx>>
      /\ assigned' \subseteq Row /\ IsFiniteSet(assigned')
      /\ \A row \in assigned' : row.id < nextRow'
      /\ nextRow' \in Nat /\ nextRow' >= nextRow
  BY DEF AccountsInv, AccountsTypeOK, RowsInv, rowVars
<1> QED
  BY <1>1, RowsKeep

LEMMA AccountsSame ==
    ASSUME AccountsInv, UNCHANGED accountVars
    PROVE  AccountsInv'
<1>1. requests' \in 0..MaxRequests /\ faults' \in 0..MaxFaults /\ UNCHANGED <<rowVars, req, tx>>
  BY DEF AccountsInv, AccountsTypeOK, accountVars
<1> QED
  BY <1>1, RowsSame

\* The history and the cache keep their types.
HistoryType ==
    /\ trace \in [Task -> SUBSET {"written", "logged", "failed"}]
    /\ others \in [Task -> SUBSET Row]
    /\ excuse \in [Key -> SUBSET {"overlap", "early", "missed", "failed", "direct", "kept"}]

TenantType ==
    /\ owned \in [Workspace -> User \cup {None}]
    /\ member \subseteq User \X Workspace
    /\ changes \in 0..MaxChanges

CacheType ==
    /\ cache \in [Key -> {None} \cup Value]
    /\ \A k \in Key : k.kind = "answer" /\ cache[k] # None => cache[k] \subseteq {"yes"}

LEMMA BaseFacts ==
    ASSUME Base
    PROVE  /\ AccountsInv /\ HistoryType /\ TenantType /\ CacheType
           /\ task \in [Task -> TaskState]
           /\ \A t \in Task : TaskInv(t) /\ task[t] \in TaskState
           /\ nextRow \in Nat /\ assigned \subseteq Row /\ IsFiniteSet(assigned)
           /\ \A row \in assigned : row.id < nextRow
           /\ requests \in 0..MaxRequests /\ faults \in 0..MaxFaults
BY DEF Base, TypeOK, HistoryType, TenantType, CacheType, AccountsInv, AccountsTypeOK, RowsInv

LEMMA ExcuseType ==
    ASSUME HistoryType, NEW K,
           NEW cause \in {"overlap", "early", "missed", "failed", "direct", "kept"},
           Excuse(K, cause)
    PROVE  excuse' \in [Key -> SUBSET {"overlap", "early", "missed", "failed", "direct", "kept"}]
<1>1. excuse' = [k \in Key |-> excuse'[k]]
  BY DEF Excuse
<1>2. ASSUME NEW k \in Key PROVE excuse'[k] = excuse[k] \cup {cause} \/ excuse'[k] = excuse[k]
  BY DEF Excuse
<1>3. ASSUME NEW k \in Key
      PROVE  excuse'[k] \in SUBSET {"overlap", "early", "missed", "failed", "direct", "kept"}
  BY <1>2 DEF HistoryType
<1> QED
  BY <1>1, <1>3

LEMMA DidType ==
    ASSUME HistoryType, NEW t \in Task, NEW what \in {"written", "logged", "failed"}, Did(t, what)
    PROVE  /\ trace' \in [Task -> SUBSET {"written", "logged", "failed"}]
           /\ trace'[t] = trace[t] \cup {what}
           /\ \A o \in Task \ {t} : trace'[o] = trace[o]
BY DEF HistoryType, Did

LEMMA InsertedType ==
    ASSUME HistoryType, NEW row \in Row, Inserted(row)
    PROVE  /\ others' \in [Task -> SUBSET Row]
           /\ \A o \in Task : others'[o] = others[o] \cup {row}
BY DEF HistoryType, Inserted

\* Only slot t changes, and accounts stay.
LEMMA SlotKeeps ==
    ASSUME Base, NEW t \in Task, AccountsInv',
           task' \in [Task -> TaskState], \A o \in Task \ {t} : task'[o] = task[o],
           TaskInv(t)', nextRow' >= nextRow, UNCHANGED user,
           HistoryType', TenantType', CacheType',
           \A k \in Key : cache'[k] # None =>
                cache[k] # None \/ (k.user = task[t].user /\ task[t].op # "none")
    PROVE  Base'
<1>1. TypeOK'
  BY DEF TypeOK, HistoryType, TenantType, CacheType, AccountsInv, RowsInv
<1>2. ASSUME NEW o \in Task \ {t} PROVE TaskInv(o)'
  <2>1. TaskInv(o) /\ task'[o] = task[o] /\ task[o] \in TaskState
    BY BaseFacts
  <2>2. task[o].row # None => task[o].row.id \in Nat
    BY <2>1 DEF TaskState, Row
  <2>3. nextRow \in Nat /\ nextRow' \in Nat
    BY BaseFacts DEF AccountsInv, AccountsTypeOK
  <2>4. task[o].row # None => task[o].row.id < nextRow'
    BY <2>1, <2>2, <2>3 DEF TaskInv
  <2> QED
    BY <2>1, <2>4 DEF TaskInv, Known
<1>3. ASSUME NEW k \in Key, cache'[k] # None PROVE Known(k.user)'
  <2>1. cache[k] # None \/ (k.user = task[t].user /\ task[t].op # "none")
    BY <1>3
  <2>2. TaskInv(t)
    BY BaseFacts
  <2>3. Known(k.user)
    BY <2>1, <2>2 DEF Base, TaskInv
  <2> QED
    BY <2>3 DEF Known
<1> QED
  BY <1>1, <1>2, <1>3 DEF Base

-----------------------------------------------------------------------------
(* Base is inductive: one lemma for each action *)

\* Nothing changes but slot t and its history.
LEMMA SlotOnly ==
    ASSUME Base, NEW t \in Task, UNCHANGED <<accountVars, tenantRows, cache, changes>>,
           task' \in [Task -> TaskState], \A o \in Task \ {t} : task'[o] = task[o],
           TaskInv(t)', HistoryType'
    PROVE  Base'
<1>1. AccountsInv'
  BY BaseFacts, AccountsSame
<1>2. nextRow' >= nextRow /\ user' = user
  BY BaseFacts DEF accountVars, rowVars
<1>3. TenantType' /\ CacheType'
  BY BaseFacts DEF TenantType, CacheType, tenantRows
<1>4. \A k \in Key : cache'[k] # None =>
                cache[k] # None \/ (k.user = task[t].user /\ task[t].op # "none")
  OBVIOUS
<1> QED
  BY <1>1, <1>2, <1>3, <1>4, SlotKeeps

LEMMA StartsBase ==
    ASSUME Base, NEW t \in Task, NEW k \in TaskState, Starts(t, k),
           Shape(k), k.op # "none" => Known(k.user), k.row = None
    PROVE  Base'
<1>1. /\ task' \in [Task -> TaskState] /\ task'[t] = k
      /\ \A o \in Task \ {t} : task'[o] = task[o]
  BY BaseFacts DEF Starts
<1>2. UNCHANGED <<rowVars, req, tx, faults, tenantRows, cache, excuse, changes>>
      /\ requests' = requests + 1 /\ requests < MaxRequests
      /\ trace' = [trace EXCEPT ![t] = {}] /\ others' = [others EXCEPT ![t] = {}]
  BY DEF Starts
<1>3. requests' \in 0..MaxRequests /\ faults' \in 0..MaxFaults
  BY <1>2, BaseFacts, AccountsAssumption
<1>4. AccountsInv'
  BY <1>2, <1>3, BaseFacts, RowsSame
<1>5. HistoryType'
  BY <1>2, BaseFacts DEF HistoryType
<1>6. TenantType' /\ CacheType'
  BY <1>2, BaseFacts DEF TenantType, CacheType, tenantRows
<1>7. user' = user /\ nextRow' >= nextRow
  BY <1>2, BaseFacts DEF rowVars
<1>8. TaskInv(t)'
  BY <1>1, <1>7 DEF TaskInv, Known
<1>9. \A j \in Key : cache'[j] # None =>
                cache[j] # None \/ (j.user = task[t].user /\ task[t].op # "none")
  BY <1>2
<1> QED
  BY <1>1, <1>4, <1>5, <1>6, <1>7, <1>8, <1>9, SlotKeeps

\* A slot that has just taken a request.
LEMMA FreshData ==
    ASSUME NEW k, k.op # "none", k.user \in User,
           k.op \in {"assign", "remove", "change"} => k.role \in Role,
           \/ k.step \in {"find", "roles"} /\ k.answer = 0
           \/ k.step = "done" /\ k.answer = 200 /\ k.order = <<>>,
           k.op # "change" => k.order = <<>>,
           k.dropped = {}, k.keys = {}, \A i \in DOMAIN k.order : k.order[i].user = k.user
    PROVE  Data(k)
<1>1. /\ k.step \notin {"owner", "set", "drop", "insert", "audit", "members", "clear", "commit", "write"}
      /\ k.step \in {"find", "roles", "done"}
  OBVIOUS
<1>2. k.step = "done" => k.answer \in {200, 400} /\ k.dropped = {} /\ k.order = <<>>
  OBVIOUS
<1>3. k.step \notin {"idle", "done"} => k.answer = 0
  OBVIOUS
<1>4. \A row \in k.dropped : row.user = k.user
  OBVIOUS
<1> QED
  BY <1>1, <1>2, <1>3, <1>4 DEF Data

LEMMA AssignBase ==
    ASSUME Base, NEW t \in Task, NEW u \in User, NEW role \in Role, NEW s \in Scope,
           Assign(t, u, role, s) \/ Remove(t, u, role, s)
    PROVE  Base'
<1>1. PICK op \in {"assign", "remove"} :
        Known(u) /\ Starts(t, Started(op, u, role, s))
  BY DEF Assign, Remove, Refers, IsThere, Known, Started
<1> DEFINE k == Started(op, u, role, s)
<1>2. /\ k \in TaskState
      /\ k.op = op /\ k.step = "find" /\ k.user = u /\ k.role = role
      /\ k.scope = s /\ k.order = <<>> /\ k.dropped = {}
      /\ k.row = None /\ k.keys = {} /\ k.found = None /\ k.answer = 0
  BY StartFacts
<1>3. Starts(t, k)
  BY <1>1
<1> HIDE DEF k
<1>4. Control(k)
  BY <1>2 DEF Control
<1>5. Data(k)
  BY <1>2, FreshData
<1> QED
  BY <1>1, <1>2, <1>3, <1>4, <1>5, StartsBase DEF Shape

\* What findMany may answer.
LEMMA OrderFacts ==
    ASSUME NEW S, IsFiniteSet(S), NEW order \in Orders(S)
    PROVE  /\ order \in Seq(S)
           /\ Cardinality(S) \in Nat /\ DOMAIN order = 1..Cardinality(S)
           /\ order \in [1..Cardinality(S) -> S]
           /\ \A i, j \in DOMAIN order : order[i] = order[j] => i = j
<1>1. Cardinality(S) \in Nat
  BY FS_CardinalityType
<1>2. order \in [1..Cardinality(S) -> S] /\ \A i, j \in DOMAIN order : order[i] = order[j] => i = j
  BY DEF Orders
<1> QED
  BY <1>1, <1>2

LEMMA ChangeBase ==
    ASSUME Base, NEW t \in Task, NEW u \in User, NEW role \in Role, NEW s \in Scope,
           Change(t, u, role, s)
    PROVE  Base'
<1>1. Known(u)
  BY DEF Change
<1>2. PICK order \in Orders(InScope(u, s)) :
        Starts(t, Changing(u, role, s, order))
  BY DEF Change, Changing
<1>3. /\ order \in Seq(Row) /\ \A i \in DOMAIN order : order[i].user = u
  <2>1. /\ IsFiniteSet(InScope(u, s)) /\ InScope(u, s) \subseteq Row
        /\ \A row \in InScope(u, s) : row.user = u
    <3>1. InScope(u, s) \subseteq assigned
      BY DEF InScope
    <3> QED
      BY <3>1, BaseFacts, FS_Subset DEF InScope
  <2>2. /\ order \in Seq(InScope(u, s)) /\ DOMAIN order = 1..Cardinality(InScope(u, s))
        /\ order \in [1..Cardinality(InScope(u, s)) -> InScope(u, s)]
    BY <2>1, OrderFacts
  <2>3. order \in Seq(Row)
    BY <2>1, <2>2
  <2> QED
    BY <2>1, <2>2, <2>3
<1> DEFINE k == Changing(u, role, s, order)
<1>4. /\ k \in TaskState
      /\ k.op = "change" /\ k.step = "find" /\ k.user = u /\ k.role = role
      /\ k.scope = s /\ k.order = order /\ k.dropped = {}
      /\ k.row = None /\ k.keys = {} /\ k.found = None /\ k.answer = 0
  BY <1>3, ChangeFacts
<1>5. Starts(t, k)
  BY <1>2
<1> HIDE DEF k
<1>6. Control(k)
  BY <1>4 DEF Control
<1>7. Data(k)
  BY <1>3, <1>4, FreshData
<1> QED
  BY <1>1, <1>4, <1>5, <1>6, <1>7, StartsBase DEF Shape

LEMMA CheckBase ==
    ASSUME Base, NEW t \in Task, NEW kind \in {"list", "answer"}, NEW u \in User, NEW s \in Scope,
           Check(t, kind, u, s)
    PROVE  Base'
<1>1. Known(u)
  BY DEF Check
<1>2. PICK step, answer :
        /\ \/ step = "roles" /\ answer = 0
           \/ step = "done" /\ answer = 200
        /\ Starts(t, Asking(kind, u, s, step, answer))
  <2> DEFINE entry == cache[[kind |-> kind, user |-> u, scope |-> s]]
  <2>1. CASE entry = None
    BY <2>1 DEF Check, Asking
  <2>2. CASE entry # None
    BY <2>2 DEF Check, Asking
  <2> QED
    BY <2>1, <2>2
<1> DEFINE k == Asking(kind, u, s, step, answer)
<1>3. /\ k \in TaskState
      /\ k.op = kind /\ k.step = step /\ k.user = u /\ k.role = None
      /\ k.scope = s /\ k.order = <<>> /\ k.dropped = {}
      /\ k.row = None /\ k.keys = {} /\ k.found = None /\ k.answer = answer
  BY <1>2, CheckFacts
<1>4. Starts(t, k)
  BY <1>2
<1> HIDE DEF k
<1>5. Control(k)
  BY <1>2, <1>3 DEF Control
<1>6. Data(k)
  BY <1>2, <1>3, FreshData
<1> QED
  BY <1>1, <1>3, <1>4, <1>5, <1>6, StartsBase DEF Shape

\* A request that is answered leaves a slot in order.
LEMMA ReplyInv ==
    ASSUME Base, NEW t \in Task, NEW code \in {200, 400}, Reply(t, code), task[t].op # "none",
           UNCHANGED user, nextRow' \in Nat, nextRow' >= nextRow
    PROVE  TaskInv(t)'
<1>1. /\ task'[t].op = task[t].op /\ task'[t].step = "done" /\ task'[t].user = task[t].user
      /\ task'[t].role = task[t].role /\ task'[t].scope = task[t].scope
      /\ task'[t].order = <<>> /\ task'[t].dropped = {}
      /\ task'[t].row = task[t].row /\ task'[t].keys = {} /\ task'[t].answer = code
  BY BaseFacts, ReplyFacts
<1>2. TaskInv(t) /\ task[t] \in TaskState /\ nextRow \in Nat
  BY BaseFacts
<1>3. task[t].op \in {"assign", "remove", "change", "list", "answer"}
  BY <1>2 DEF TaskState
<1>4. Shape(task[t])'
  <2>1. Control(task[t])'
    BY <1>1, <1>3 DEF Control
  <2>2. Data(task[t])'
    BY <1>1, <1>2 DEF Shape, Data, TaskInv
  <2> QED
    BY <2>1, <2>2 DEF Shape
<1>5. task[t].row # None => task[t].row.id \in Nat /\ task[t].row.id < nextRow
  BY <1>2 DEF TaskState, Row, TaskInv
<1>6. task[t].row # None => task[t].row.id < nextRow'
  BY <1>2, <1>5
<1> QED
  BY <1>1, <1>2, <1>4, <1>6 DEF TaskInv, Known

\* A refused request has changed nothing but its slot.
LEMMA RefusedBase ==
    ASSUME Base, NEW t \in Task, Reply(t, 400), task[t].op # "none",
           UNCHANGED <<accountVars, tenantRows, cache, changes>>, HistoryType'
    PROVE  Base'
<1>1. /\ task' \in [Task -> TaskState] /\ \A o \in Task \ {t} : task'[o] = task[o]
  BY BaseFacts, ReplyFacts
<1>2. user' = user /\ nextRow' \in Nat /\ nextRow' >= nextRow
  BY BaseFacts DEF accountVars, rowVars
<1>3. TaskInv(t)'
  BY <1>2, ReplyInv
<1> QED
  BY <1>1, <1>3, SlotOnly

\* A slot that goes on to an await where it holds nothing new.
LEMMA OnInv ==
    ASSUME Base, NEW t \in Task, NEW step \in {"write", "drop", "insert", "members"}, On(t, step),
           UNCHANGED user, nextRow' \in Nat, nextRow' >= nextRow,
           step = "write" => task[t].op = "assign",
           step = "drop" => task[t].op = "change" /\ task[t].order # <<>>,
           step = "insert" => task[t].op = "change" /\ task[t].order = <<>>,
           step = "members" => task[t].step = "audit",
           task[t].step \in {"find", "audit"}
    PROVE  TaskInv(t)'
<1>1. /\ task'[t].op = task[t].op /\ task'[t].step = step /\ task'[t].user = task[t].user
      /\ task'[t].role = task[t].role /\ task'[t].scope = task[t].scope
      /\ task'[t].order = task[t].order /\ task'[t].dropped = task[t].dropped
      /\ task'[t].row = task[t].row /\ task'[t].keys = task[t].keys
      /\ task'[t].answer = task[t].answer
  BY BaseFacts, OnFacts
<1>2. TaskInv(t) /\ task[t] \in TaskState /\ nextRow \in Nat
  BY BaseFacts
<1>3. Control(task[t])'
  BY <1>1, <1>2 DEF Shape, Control, TaskInv
<1>4. Data(task[t])'
  BY <1>1, <1>2 DEF Shape, Data, TaskInv
<1>5. task[t].row # None => task[t].row.id \in Nat /\ task[t].row.id < nextRow
  BY <1>2 DEF TaskState, Row, TaskInv
<1>6. task[t].row # None => task[t].row.id < nextRow'
  BY <1>2, <1>5
<1> QED
  BY <1>1, <1>2, <1>3, <1>4, <1>6 DEF Shape, TaskInv, Known

\* A slot that has a row from now on.
LEMMA RowInv ==
    ASSUME Base, NEW t \in Task, NEW step \in {"write", "audit"}, NEW row \in Row,
           task' = [task EXCEPT ![t] = [@ EXCEPT !.step = step, !.row = row]],
           UNCHANGED user, row.id < nextRow', row.user = task[t].user,
           step = "write" => task[t].op = "remove",
           step = "audit" => task[t].op \in {"assign", "change"} /\ task[t].order = <<>>,
           task[t].step \in {"find", "write", "insert"}
    PROVE  TaskInv(t)'
<1>1. /\ task'[t].op = task[t].op /\ task'[t].step = step /\ task'[t].user = task[t].user
      /\ task'[t].role = task[t].role /\ task'[t].scope = task[t].scope
      /\ task'[t].order = task[t].order /\ task'[t].dropped = task[t].dropped
      /\ task'[t].row = row /\ task'[t].keys = task[t].keys
      /\ task'[t].answer = task[t].answer
  <2>1. task \in [Task -> TaskState]
    BY BaseFacts
  <2> QED
    BY <2>1, RowFacts
<1>2. TaskInv(t) /\ task[t] \in TaskState
  BY BaseFacts
<1>3. Control(task[t])'
  BY <1>1, <1>2 DEF Shape, Control, TaskInv
<1>4. Data(task[t])'
  BY <1>1, <1>2 DEF Shape, Data, TaskInv
<1> QED
  BY <1>1, <1>2, <1>3, <1>4 DEF Shape, TaskInv, Known

LEMMA FindBase ==
    ASSUME Base, NEW t \in Task, Find(t)
    PROVE  Base'
<1>a. /\ UNCHANGED <<accountVars, tenantRows, cache, changes>> /\ HistoryType'
      /\ user' = user /\ nextRow' \in Nat /\ nextRow' >= nextRow /\ nextRow' = nextRow
      /\ task[t].step = "find" /\ task[t].op \in {"assign", "remove"}
  <2>1. /\ UNCHANGED <<accountVars, tenantRows, cache, history, changes>>
        /\ task[t].step = "find" /\ task[t].op \in {"assign", "remove"}
    BY DEF Find
  <2>2. HistoryType'
    BY <2>1, BaseFacts DEF history, HistoryType
  <2>3. user' = user /\ nextRow' = nextRow /\ nextRow \in Nat
    BY <2>1, BaseFacts DEF accountVars, rowVars
  <2> QED
    BY <2>1, <2>2, <2>3
<1>1. ASSUME Reply(t, 400) PROVE Base'
  BY <1>1, <1>a, RefusedBase
<1>2. ASSUME task[t].op = "assign", On(t, "write") PROVE Base'
  <2>1. task' \in [Task -> TaskState] /\ \A o \in Task \ {t} : task'[o] = task[o]
    BY <1>2, BaseFacts, OnFacts
  <2>2. TaskInv(t)'
    BY <1>2, <1>a, OnInv
  <2> QED
    BY <2>1, <2>2, <1>a, SlotOnly
<1>3. ASSUME NEW row \in assigned, SameKey(row, task[t].user, task[t].role, task[t].scope),
             task[t].op = "remove",
             task' = [task EXCEPT ![t] = [@ EXCEPT !.step = "write", !.row = row]]
      PROVE  Base'
  <2>1. row \in Row /\ row.id < nextRow /\ row.user = task[t].user
    BY <1>3, BaseFacts DEF SameKey
  <2>2. task' \in [Task -> TaskState] /\ \A o \in Task \ {t} : task'[o] = task[o]
    BY <1>3, <2>1, BaseFacts, RowFacts
  <2>3. TaskInv(t)'
    BY <1>3, <1>a, <2>1, RowInv
  <2> QED
    BY <2>2, <2>3, <1>a, SlotOnly
<1> QED
  BY <1>1, <1>2, <1>3 DEF Find

\* What the writes of assignRole and removeRole leave.
LEMMA WriteBase ==
    ASSUME Base, NEW t \in Task, task' \in [Task -> TaskState],
           \A o \in Task \ {t} : task'[o] = task[o], TaskInv(t)',
           UNCHANGED <<user, link, audited, req, tx, requests, faults, tenantRows, cache, changes>>,
           assigned' \subseteq Row, IsFiniteSet(assigned'),
           \A row \in assigned' : row.id < nextRow',
           nextRow' \in Nat, nextRow' >= nextRow, HistoryType'
    PROVE  Base'
<1>1. AccountsInv'
  BY BaseFacts, RowsKeep
<1>2. TenantType' /\ CacheType'
  BY BaseFacts DEF TenantType, CacheType, tenantRows
<1>3. \A k \in Key : cache'[k] # None =>
                cache[k] # None \/ (k.user = task[t].user /\ task[t].op # "none")
  OBVIOUS
<1> QED
  BY <1>1, <1>2, <1>3, SlotKeeps

\* The row of an insert.
NewRow(k) == [id |-> nextRow, user |-> k.user, role |-> k.role, scope |-> k.scope]

LEMMA NewRowFacts ==
    ASSUME Base, NEW t \in Task, task[t].op \in {"assign", "change"}
    PROVE  LET row == NewRow(task[t]) IN
           /\ row \in Row /\ row # None
           /\ row.id = nextRow /\ row.user = task[t].user /\ row.role = task[t].role
           /\ row.scope = task[t].scope
<1>1. TaskInv(t) /\ task[t] \in TaskState /\ nextRow \in Nat
  BY BaseFacts
<1>2. task[t].user \in User /\ task[t].role \in Role /\ task[t].scope \in Scope
  BY <1>1 DEF TaskInv, Shape, Data, TaskState
<1> QED
  BY <1>1, <1>2, RolesAssumption DEF NewRow, Row

LEMMA AssignWriteBase ==
    ASSUME Base, NEW t \in Task, AssignWrite(t)
    PROVE  Base'
<1> DEFINE row == NewRow(task[t])
<1>a. /\ UNCHANGED <<user, link, audited, req, tx, requests, faults, tenantRows, cache, changes>>
      /\ task[t].op = "assign" /\ task[t].step = "write"
      /\ Excuse(AnswersOf(task[t].user), "kept")
  BY DEF AssignWrite, Doing
<1>b. excuse' \in [Key -> SUBSET {"overlap", "early", "missed", "failed", "direct", "kept"}]
  BY <1>a, BaseFacts, ExcuseType
<1>c. task[t].order = <<>>
  BY <1>a, BaseFacts DEF TaskInv, Shape, Data
<1>d. row \in Row /\ row.id = nextRow /\ row.user = task[t].user
  BY <1>a, NewRowFacts
<1>1. ASSUME assigned' = assigned \cup {row}, nextRow' = nextRow + 1,
             task' = [task EXCEPT ![t] = [@ EXCEPT !.step = "audit", !.row = row]],
             Did(t, "written"), Inserted(row)
      PROVE  Base'
  <2> HIDE DEF row
  <2>1. task' \in [Task -> TaskState] /\ \A o \in Task \ {t} : task'[o] = task[o]
    BY <1>1, <1>d, BaseFacts, RowFacts
  <2>2. nextRow' \in Nat /\ nextRow' >= nextRow /\ row.id < nextRow' /\ nextRow \in Nat
    BY <1>1, <1>d, BaseFacts
  <2>3. TaskInv(t)'
    BY <1>1, <1>a, <1>c, <1>d, <2>2, RowInv
  <2>4. HistoryType'
    BY <1>1, <1>b, <1>d, BaseFacts, DidType, InsertedType DEF HistoryType
  <2>5. assigned' \subseteq Row
    BY <1>1, <1>d, BaseFacts
  <2>6. IsFiniteSet(assigned')
    BY <1>1, BaseFacts, FS_AddElement
  <2>7. \A x \in assigned' : x.id < nextRow'
    <3>1. \A x \in assigned : x.id \in Nat /\ x.id < nextRow
      BY BaseFacts DEF Row
    <3>2. \A x \in assigned : x.id < nextRow'
      BY <3>1, <1>1, <2>2
    <3> QED
      BY <3>2, <1>1, <2>2
  <2> QED
    BY <1>a, <2>1, <2>2, <2>3, <2>4, <2>5, <2>6, <2>7, WriteBase
<1>2. ASSUME Reply(t, 400), UNCHANGED <<assigned, nextRow, trace, others>>
      PROVE  Base'
  <2>1. HistoryType'
    BY <1>2, <1>b, BaseFacts DEF HistoryType
  <2>2. UNCHANGED <<accountVars, tenantRows, cache, changes>>
    BY <1>2, <1>a DEF accountVars, rowVars
  <2> QED
    BY <2>1, <2>2, <1>2, <1>a, RefusedBase
<1> QED
  BY <1>1, <1>2 DEF AssignWrite, NewRow

LEMMA RemoveWriteBase ==
    ASSUME Base, NEW t \in Task, RemoveWrite(t)
    PROVE  Base'
<1>a. /\ UNCHANGED <<user, link, nextRow, audited, req, tx, requests, faults, tenantRows, cache,
                     others, changes>>
      /\ task[t].op = "remove" /\ task[t].step = "write"
      /\ Excuse(AnswersOf(task[t].row.user), "kept")
  BY DEF RemoveWrite, Doing
<1>b. excuse' \in [Key -> SUBSET {"overlap", "early", "missed", "failed", "direct", "kept"}]
  BY <1>a, BaseFacts, ExcuseType
<1>1. ASSUME assigned' = assigned \ {task[t].row}, On(t, "audit"), Did(t, "written")
      PROVE  Base'
  <2>a. TaskInv(t) /\ task[t] \in TaskState /\ nextRow \in Nat
    BY BaseFacts
  <2>1. task' = [task EXCEPT ![t] = [@ EXCEPT !.step = "audit"]]
    BY <1>1 DEF On
  <2> DEFINE k == [task[t] EXCEPT !.step = "audit"]
  <2>2. k \in TaskState
    BY <2>a, PutStep
  <2>3. /\ k.op = task[t].op /\ k.step = "audit" /\ k.user = task[t].user
        /\ k.role = task[t].role /\ k.scope = task[t].scope
        /\ k.order = task[t].order /\ k.dropped = task[t].dropped
        /\ k.row = task[t].row /\ k.keys = task[t].keys /\ k.answer = task[t].answer
    BY <2>a DEF TaskState
  <2>4. task' = [task EXCEPT ![t] = k]
    BY <2>1
  <2> HIDE DEF k
  <2>5. /\ task' \in [Task -> TaskState] /\ \A o \in Task \ {t} : task'[o] = task[o]
        /\ task'[t] = k
    BY <2>2, <2>4, BaseFacts
  <2>6. TaskInv(t)'
    <3>1. Control(task[t])'
      BY <2>3, <2>5, <1>a DEF Control
    <3>2. Data(task[t])'
      BY <2>3, <2>5, <2>a, <1>a DEF Data, Shape, TaskInv
    <3> QED
      BY <3>1, <3>2, <2>3, <2>5, <2>a, <1>a DEF TaskInv, Shape, Known
  <2>7. HistoryType'
    BY <1>1, <1>a, <1>b, BaseFacts, DidType DEF HistoryType
  <2>8. /\ assigned' \subseteq Row /\ IsFiniteSet(assigned')
        /\ \A x \in assigned' : x.id < nextRow'
        /\ nextRow' \in Nat /\ nextRow' >= nextRow
    <3>1. assigned' \subseteq assigned
      BY <1>1
    <3>2. IsFiniteSet(assigned')
      BY <3>1, BaseFacts, FS_Subset
    <3> QED
      BY <3>1, <3>2, <1>a, BaseFacts
  <2> QED
    BY <2>5, <2>6, <2>7, <2>8, <1>a, WriteBase
<1>2. ASSUME Reply(t, 400), UNCHANGED <<assigned, trace>>
      PROVE  Base'
  <2>1. HistoryType'
    BY <1>2, <1>a, <1>b, BaseFacts DEF HistoryType
  <2>2. UNCHANGED <<accountVars, tenantRows, cache, changes>>
    BY <1>2, <1>a DEF accountVars, rowVars
  <2> QED
    BY <2>1, <2>2, <1>2, <1>a, RefusedBase
<1> QED
  BY <1>1, <1>2 DEF RemoveWrite

\* What an action of changeRole leaves alone before the commit.
LEMMA QuietHistory ==
    ASSUME Base, UNCHANGED history
    PROVE  HistoryType'
BY BaseFacts DEF history, HistoryType

LEMMA QuietRows ==
    ASSUME Base, UNCHANGED accountVars
    PROVE  UNCHANGED <<user, assigned>> /\ nextRow' = nextRow /\ nextRow \in Nat /\ nextRow' \in Nat
           /\ nextRow' >= nextRow
BY BaseFacts DEF accountVars, rowVars

LEMMA ChangeFindBase ==
    ASSUME Base, NEW t \in Task, ChangeFind(t)
    PROVE  Base'
<1>a. /\ UNCHANGED <<accountVars, tenantRows, cache, history, changes>>
      /\ task[t].op = "change" /\ task[t].step = "find"
  BY DEF ChangeFind, Doing
<1>b. HistoryType' /\ user' = user /\ nextRow' \in Nat /\ nextRow' >= nextRow
  BY <1>a, QuietHistory, QuietRows
<1>1. ASSUME Reply(t, 400) PROVE Base'
  BY <1>1, <1>a, <1>b, RefusedBase
<1>2. ASSUME NEW step \in {"insert", "drop"}, On(t, step),
             step = "insert" <=> task[t].order = <<>>
      PROVE  Base'
  <2>1. task' \in [Task -> TaskState] /\ \A o \in Task \ {t} : task'[o] = task[o]
    BY <1>2, BaseFacts, OnFacts
  <2>2. TaskInv(t)'
    BY <1>2, <1>a, <1>b, OnInv
  <2> QED
    BY <2>1, <2>2, <1>a, <1>b, SlotOnly
<1>3. CASE \E i \in DOMAIN task[t].order : task[t].order[i].role = task[t].role
  BY <1>3, <1>1 DEF ChangeFind
<1>4. CASE ~\E i \in DOMAIN task[t].order : task[t].order[i].role = task[t].role
  <2>1. On(t, IF task[t].order = <<>> THEN "insert" ELSE "drop")
    BY <1>4 DEF ChangeFind
  <2>2. CASE task[t].order = <<>>
    BY <2>1, <2>2, <1>2
  <2>3. CASE task[t].order # <<>>
    BY <2>1, <2>3, <1>2
  <2> QED
    BY <2>2, <2>3
<1> QED
  BY <1>3, <1>4

\* The delete of one row.
LEMMA DropFacts ==
    ASSUME Base, NEW t \in Task, task[t].op = "change", task[t].step = "drop",
           task' = [task EXCEPT ![t] = [@ EXCEPT
                    !.order = Tail(task[t].order),
                    !.dropped = task[t].dropped \cup {Head(task[t].order)},
                    !.step = IF Tail(task[t].order) = <<>> THEN "insert" ELSE "drop"]]
    PROVE  /\ task' \in [Task -> TaskState]
           /\ \A o \in Task \ {t} : task'[o] = task[o]
           /\ task'[t].op = task[t].op /\ task'[t].user = task[t].user
           /\ task'[t].step \in {"insert", "drop"}
           /\ task'[t].step = "insert" <=> task'[t].order = <<>>
           /\ task'[t].role = task[t].role /\ task'[t].scope = task[t].scope
           /\ task'[t].order = Tail(task[t].order)
           /\ task'[t].dropped = task[t].dropped \cup {Head(task[t].order)}
           /\ task'[t].row = task[t].row /\ task'[t].keys = task[t].keys
           /\ task'[t].answer = task[t].answer
           /\ Head(task[t].order) \in Row /\ Head(task[t].order).user = task[t].user
           /\ \A i \in DOMAIN Tail(task[t].order) : Tail(task[t].order)[i].user = task[t].user
           /\ \A i \in DOMAIN task[t].order :
                task[t].order[i] = Head(task[t].order)
                \/ \E j \in DOMAIN Tail(task[t].order) : task[t].order[i] = Tail(task[t].order)[j]
<1> DEFINE order == task[t].order
           step == IF Tail(order) = <<>> THEN "insert" ELSE "drop"
<1>1. /\ order \in Seq(Row) /\ order # <<>> /\ \A i \in DOMAIN order : order[i].user = task[t].user
      /\ task[t].dropped \in SUBSET Row /\ task[t] \in TaskState
  BY BaseFacts DEF TaskInv, Shape, Data, TaskState
<1> HIDE DEF order
<1>2. /\ Head(order) \in Row /\ Tail(order) \in Seq(Row) /\ Head(order) = order[1]
      /\ 1 \in DOMAIN order
      /\ \A i \in DOMAIN Tail(order) : i + 1 \in DOMAIN order /\ Tail(order)[i] = order[i + 1]
      /\ \A i \in DOMAIN order : i = 1 \/ (i - 1 \in DOMAIN Tail(order) /\ order[i] = Tail(order)[i - 1])
  BY <1>1
<1>3. step \in {"drop", "insert"} /\ (step = "insert" <=> Tail(order) = <<>>)
  OBVIOUS
<1> DEFINE rest == Tail(order)
           gone == task[t].dropped \cup {Head(order)}
<1>4. task' = [task EXCEPT ![t] = Deleting(task[t], rest, gone, step)]
  BY DEF Deleting, order
<1>5. task[t] \in TaskState /\ rest \in Seq(Row) /\ gone \in SUBSET Row
  BY <1>1, <1>2
<1> HIDE DEF step, rest, gone
<1> DEFINE n == Deleting(task[t], rest, gone, step)
<1>6. /\ n \in TaskState
      /\ n.op = task[t].op /\ n.step = step /\ n.user = task[t].user /\ n.role = task[t].role
      /\ n.scope = task[t].scope /\ n.order = rest /\ n.dropped = gone
      /\ n.row = task[t].row /\ n.keys = task[t].keys /\ n.answer = task[t].answer
  BY <1>3, <1>5, DeletingFacts
<1> HIDE DEF n
<1>7. task' \in [Task -> TaskState] /\ task'[t] = n /\ \A o \in Task \ {t} : task'[o] = task[o]
  BY <1>4, <1>6, BaseFacts DEF n
<1>8. /\ Head(order).user = task[t].user
      /\ \A i \in DOMAIN Tail(order) : Tail(order)[i].user = task[t].user
      /\ \A i \in DOMAIN order :
            order[i] = Head(order) \/ \E j \in DOMAIN Tail(order) : order[i] = Tail(order)[j]
  BY <1>1, <1>2
<1>9. /\ task'[t].op = task[t].op /\ task'[t].user = task[t].user
      /\ task'[t].step \in {"insert", "drop"}
      /\ (task'[t].step = "insert" <=> task'[t].order = <<>>)
      /\ task'[t].role = task[t].role /\ task'[t].scope = task[t].scope
      /\ task'[t].order = Tail(order)
      /\ task'[t].dropped = task[t].dropped \cup {Head(order)}
      /\ task'[t].row = task[t].row /\ task'[t].keys = task[t].keys
      /\ task'[t].answer = task[t].answer
  BY <1>3, <1>6, <1>7 DEF rest, gone
<1> QED
  BY <1>2, <1>7, <1>8, <1>9 DEF order

LEMMA DropBase ==
    ASSUME Base, NEW t \in Task, Drop(t)
    PROVE  Base'
<1>a. /\ UNCHANGED <<accountVars, tenantRows, cache, history, changes>>
      /\ task[t].op = "change" /\ task[t].step = "drop"
  BY DEF Drop, Doing
<1>b. HistoryType' /\ user' = user /\ nextRow' = nextRow
  BY <1>a, QuietHistory, QuietRows
<1>1. ASSUME Reply(t, 400) PROVE Base'
  BY <1>1, <1>a, <1>b, RefusedBase
<1>2. ASSUME task' = [task EXCEPT ![t] = [@ EXCEPT
                    !.order = Tail(task[t].order),
                    !.dropped = task[t].dropped \cup {Head(task[t].order)},
                    !.step = IF Tail(task[t].order) = <<>> THEN "insert" ELSE "drop"]]
      PROVE  Base'
  <2>1. /\ task' \in [Task -> TaskState]
        /\ \A o \in Task \ {t} : task'[o] = task[o]
        /\ task'[t].op = task[t].op /\ task'[t].user = task[t].user
        /\ task'[t].step \in {"insert", "drop"}
        /\ task'[t].step = "insert" <=> task'[t].order = <<>>
        /\ task'[t].role = task[t].role /\ task'[t].scope = task[t].scope
        /\ task'[t].order = Tail(task[t].order)
        /\ task'[t].dropped = task[t].dropped \cup {Head(task[t].order)}
        /\ task'[t].row = task[t].row /\ task'[t].keys = task[t].keys
        /\ task'[t].answer = task[t].answer
        /\ Head(task[t].order).user = task[t].user
        /\ \A i \in DOMAIN Tail(task[t].order) : Tail(task[t].order)[i].user = task[t].user
    BY <1>2, <1>a, DropFacts
  <2>2. TaskInv(t)
    BY BaseFacts
  <2>3. Control(task[t])'
    BY <2>1, <1>a DEF Control
  <2>4. Data(task[t])'
    BY <2>1, <2>2, <1>a DEF Data, TaskInv, Shape
  <2>5. TaskInv(t)'
    BY <2>1, <2>2, <2>3, <2>4, <1>b DEF TaskInv, Shape, Known
  <2> QED
    BY <2>1, <2>5, <1>a, <1>b, SlotOnly
<1> QED
  BY <1>1, <1>2 DEF Drop

LEMMA ChangeInsertBase ==
    ASSUME Base, NEW t \in Task, ChangeInsert(t)
    PROVE  Base'
<1> DEFINE row == NewRow(task[t])
<1>a. /\ UNCHANGED <<user, link, assigned, audited, req, tx, requests, faults, tenantRows, cache,
                     history, changes>>
      /\ task[t].op = "change" /\ task[t].step = "insert"
  BY DEF ChangeInsert, Doing
<1>b. HistoryType'
  BY <1>a, QuietHistory
<1>c. task[t].order = <<>>
  BY <1>a, BaseFacts DEF TaskInv, Shape, Data
<1>d. row \in Row /\ row.id = nextRow /\ row.user = task[t].user
  BY <1>a, NewRowFacts
<1>1. ASSUME nextRow' = nextRow + 1,
             task' = [task EXCEPT ![t] = [@ EXCEPT !.step = "audit", !.row = row]]
      PROVE  Base'
  <2> HIDE DEF row
  <2>1. task' \in [Task -> TaskState] /\ \A o \in Task \ {t} : task'[o] = task[o]
    BY <1>1, <1>d, BaseFacts, RowFacts
  <2>2. nextRow' \in Nat /\ nextRow' >= nextRow /\ row.id < nextRow' /\ nextRow \in Nat
    BY <1>1, <1>d, BaseFacts
  <2>3. TaskInv(t)'
    BY <1>1, <1>a, <1>c, <1>d, <2>2, RowInv
  <2>4. assigned' \subseteq Row /\ IsFiniteSet(assigned')
    BY <1>a, BaseFacts
  <2>5. \A x \in assigned' : x.id < nextRow'
    <3>1. \A x \in assigned : x.id \in Nat /\ x.id < nextRow
      BY BaseFacts DEF Row
    <3> QED
      BY <3>1, <1>a, <1>1, <2>2
  <2> QED
    BY <1>a, <1>b, <2>1, <2>2, <2>3, <2>4, <2>5, WriteBase
<1>2. ASSUME Reply(t, 400), UNCHANGED nextRow PROVE Base'
  <2>1. UNCHANGED <<accountVars, tenantRows, cache, changes>>
    BY <1>2, <1>a DEF accountVars, rowVars
  <2> QED
    BY <2>1, <1>2, <1>a, <1>b, RefusedBase
<1> QED
  BY <1>1, <1>2 DEF ChangeInsert, NewRow

LEMMA TimeOutBase ==
    ASSUME Base, NEW t \in Task, TimeOut(t)
    PROVE  Base'
<1>1. UNCHANGED <<accountVars, tenantRows, cache, history, changes>> /\ Reply(t, 400)
      /\ task[t].op # "none"
  BY DEF TimeOut, Doing
<1> QED
  BY <1>1, QuietHistory, RefusedBase

LEMMA ChangeCommitBase ==
    ASSUME Base, NEW t \in Task, ChangeCommit(t)
    PROVE  Base'
<1>a. /\ UNCHANGED <<user, link, nextRow, audited, req, tx, requests, faults, tenantRows, cache,
                     changes>>
      /\ task[t].op = "change" /\ task[t].step = "commit" /\ Reply(t, 200)
      /\ assigned' = (assigned \ task[t].dropped) \cup {task[t].row}
      /\ Did(t, "written") /\ Inserted(task[t].row)
  BY DEF ChangeCommit, Doing
<1>b. TaskInv(t) /\ task[t] \in TaskState /\ nextRow \in Nat
  BY BaseFacts
<1>c. task[t].row \in Row /\ task[t].row.id < nextRow
  BY <1>a, <1>b, RolesAssumption DEF TaskInv, Shape, Data
<1>1. task' \in [Task -> TaskState] /\ \A o \in Task \ {t} : task'[o] = task[o]
  BY <1>a, BaseFacts, ReplyFacts
<1>2. nextRow' \in Nat /\ nextRow' >= nextRow /\ nextRow' = nextRow
  BY <1>a, <1>b
<1>3. TaskInv(t)'
  BY <1>a, <1>2, ReplyInv
<1>4. excuse' \in [Key -> SUBSET {"overlap", "early", "missed", "failed", "direct", "kept"}]
  <2>1. excuse' = [x \in Key |-> excuse'[x]]
    BY DEF ChangeCommit
  <2>2. ASSUME NEW x \in Key
        PROVE  \/ excuse'[x] = excuse[x] \cup {"early"} \/ excuse'[x] = excuse[x] \cup {"kept"}
               \/ excuse'[x] = excuse[x]
    BY DEF ChangeCommit
  <2>3. ASSUME NEW x \in Key
        PROVE  excuse'[x] \in SUBSET {"overlap", "early", "missed", "failed", "direct", "kept"}
    BY <2>2, BaseFacts DEF HistoryType
  <2> QED
    BY <2>1, <2>3
<1>5. HistoryType'
  BY <1>4, <1>a, <1>c, BaseFacts, DidType, InsertedType DEF HistoryType
<1>6. assigned' \subseteq Row /\ \A x \in assigned' : x.id < nextRow'
  BY <1>a, <1>c, BaseFacts
<1>7. IsFiniteSet(assigned')
  <2>1. IsFiniteSet(assigned \ task[t].dropped)
    BY BaseFacts, FS_Subset
  <2> QED
    BY <2>1, <1>a, FS_AddElement
<1> QED
  BY <1>a, <1>1, <1>2, <1>3, <1>5, <1>6, <1>7, WriteBase

\* A request that fails.
LEMMA FailsFacts ==
    ASSUME Base, NEW t \in Task, Fails(t), task[t].op # "none", UNCHANGED others
    PROVE  /\ Reply(t, 400) /\ HistoryType' /\ trace'[t] = trace[t] \cup {"failed"}
           /\ \A o \in Task \ {t} : trace'[o] = trace[o]
<1>1. HistoryType
  BY BaseFacts
<1>2. PICK K : Excuse(K, "failed")
  BY DEF Fails
<1>3. excuse' \in [Key -> SUBSET {"overlap", "early", "missed", "failed", "direct", "kept"}]
  BY <1>1, <1>2, ExcuseType
<1>4. Did(t, "failed") /\ Reply(t, 400)
  BY DEF Fails
<1> QED
  BY <1>1, <1>3, <1>4, DidType DEF HistoryType

LEMMA AuditRoleBase ==
    ASSUME Base, NEW t \in Task, AuditRole(t)
    PROVE  Base'
<1>a. UNCHANGED <<accountVars, tenantRows, cache, others, changes>> /\ task[t].step = "audit"
  BY DEF AuditRole
<1>b. task[t].op # "none"
  BY <1>a, BaseFacts DEF TaskInv, Shape, Control
<1>1. ASSUME Fails(t) PROVE Base'
  BY <1>1, <1>a, <1>b, FailsFacts, RefusedBase
<1>2. ASSUME On(t, "members"), Did(t, "logged"), UNCHANGED excuse PROVE Base'
  <2>1. task' \in [Task -> TaskState] /\ \A o \in Task \ {t} : task'[o] = task[o]
    BY <1>2, BaseFacts, OnFacts
  <2>2. TaskInv(t)'
    BY <1>2, <1>a, QuietRows, OnInv
  <2>3. HistoryType'
    BY <1>2, <1>a, BaseFacts, DidType DEF HistoryType
  <2> QED
    BY <2>1, <2>2, <2>3, <1>a, SlotOnly
<1> QED
  BY <1>1, <1>2 DEF AuditRole

LEMMA TaskFaultBase ==
    ASSUME Base, NEW t \in Task, TaskFault(t)
    PROVE  Base'
<1>a. /\ UNCHANGED <<rowVars, req, tx, requests, tenantRows, cache, others, changes>>
      /\ task[t].step \notin {"idle", "done"} /\ Fails(t) /\ faults < MaxFaults
      /\ faults' = faults + 1
  BY DEF TaskFault
<1>b. task[t].op # "none"
  BY <1>a, BaseFacts DEF TaskInv, Shape, Control
<1>c. Reply(t, 400) /\ HistoryType'
  BY <1>a, <1>b, FailsFacts
<1>1. /\ task' \in [Task -> TaskState] /\ \A o \in Task \ {t} : task'[o] = task[o]
  BY <1>c, BaseFacts, ReplyFacts
<1>2. user' = user /\ nextRow' \in Nat /\ nextRow' >= nextRow
  BY <1>a, BaseFacts DEF rowVars
<1>3. TaskInv(t)'
  BY <1>b, <1>c, <1>2, ReplyInv
<1>4. AccountsInv'
  <2>1. requests' \in 0..MaxRequests /\ faults' \in 0..MaxFaults
    BY <1>a, BaseFacts, AccountsAssumption
  <2> QED
    BY <2>1, <1>a, BaseFacts, RowsSame
<1>5. TenantType' /\ CacheType'
  BY <1>a, BaseFacts DEF TenantType, CacheType, tenantRows
<1>6. \A k \in Key : cache'[k] # None =>
                cache[k] # None \/ (k.user = task[t].user /\ task[t].op # "none")
  BY <1>a
<1> QED
  BY <1>c, <1>1, <1>2, <1>3, <1>4, <1>5, <1>6, SlotKeeps

LEMMA MembersFacts ==
    ASSUME Base, NEW t \in Task, ReadMembers(t)
    PROVE  /\ task' \in [Task -> TaskState] /\ \A o \in Task \ {t} : task'[o] = task[o]
           /\ task'[t].op = task[t].op /\ task'[t].step = "clear" /\ task'[t].user = task[t].user
           /\ task'[t].role = task[t].role /\ task'[t].scope = task[t].scope
           /\ task'[t].order = task[t].order /\ task'[t].dropped = task[t].dropped
           /\ task'[t].row = task[t].row /\ task'[t].keys = Covered(task[t].user)
           /\ task'[t].answer = task[t].answer /\ task'[t].found = task[t].found
<1> DEFINE keys == Covered(task[t].user)
           n == Listing(task[t], keys)
<1>1. task' = [task EXCEPT ![t] = n]
  BY DEF ReadMembers, Listing
<1>2. task[t] \in TaskState /\ keys \in SUBSET Scope
  BY BaseFacts DEF Covered, Scope
<1> HIDE DEF keys
<1>3. /\ n \in TaskState
      /\ n.op = task[t].op /\ n.step = "clear" /\ n.user = task[t].user /\ n.role = task[t].role
      /\ n.scope = task[t].scope /\ n.order = task[t].order /\ n.dropped = task[t].dropped
      /\ n.row = task[t].row /\ n.keys = keys /\ n.answer = task[t].answer
      /\ n.found = task[t].found
  BY <1>2, ListingFacts
<1> HIDE DEF n
<1>4. task' \in [Task -> TaskState] /\ task'[t] = n /\ \A o \in Task \ {t} : task'[o] = task[o]
  BY <1>1, <1>3, BaseFacts
<1> QED
  BY <1>3, <1>4 DEF keys

LEMMA ReadMembersBase ==
    ASSUME Base, NEW t \in Task, ReadMembers(t)
    PROVE  Base'
<1>a. /\ UNCHANGED <<accountVars, tenantRows, cache, trace, others, changes>>
      /\ task[t].step = "members"
  BY DEF ReadMembers
<1>b. TaskInv(t) /\ user' = user /\ nextRow' = nextRow
  BY <1>a, BaseFacts, QuietRows
<1>1. HistoryType'
  <2>1. PICK K : Excuse(K, "missed")
    BY DEF ReadMembers
  <2>2. excuse' \in [Key -> SUBSET {"overlap", "early", "missed", "failed", "direct", "kept"}]
    BY <2>1, BaseFacts, ExcuseType
  <2> QED
    BY <2>2, <1>a, BaseFacts DEF HistoryType
<1>2. Control(task[t])'
  BY <1>a, <1>b, MembersFacts DEF Control, TaskInv, Shape
<1>3. Data(task[t])'
  BY <1>a, <1>b, MembersFacts DEF Data, TaskInv, Shape
<1>4. TaskInv(t)'
  BY <1>b, <1>2, <1>3, MembersFacts DEF TaskInv, Shape, Known
<1> QED
  BY <1>a, <1>1, <1>4, MembersFacts, SlotOnly

ListKey(u, s) == [kind |-> "list", user |-> u, scope |-> s]

LEMMA ClearFacts ==
    ASSUME Base, NEW t \in Task, Clear(t)
    PROVE  \E s \in task[t].keys :
           /\ s \in Scope
           /\ cache' = [cache EXCEPT ![ListKey(task[t].user, s)] = None]
           /\ excuse' = [excuse EXCEPT ![ListKey(task[t].user, s)] = {}]
           /\ task' \in [Task -> TaskState] /\ \A o \in Task \ {t} : task'[o] = task[o]
           /\ task'[t].op = task[t].op /\ task'[t].user = task[t].user
           /\ task'[t].role = task[t].role /\ task'[t].scope = task[t].scope
           /\ task'[t].order = task[t].order /\ task'[t].dropped = task[t].dropped
           /\ task'[t].row = task[t].row /\ task'[t].keys = task[t].keys \ {s}
           /\ task'[t].found = task[t].found
           /\ \/ task'[t].step = "clear" /\ task'[t].answer = 0
              \/ task[t].op = "change" /\ task'[t].step = "commit" /\ task'[t].answer = 0
                 /\ task'[t].keys = {}
              \/ task[t].op # "change" /\ task'[t].step = "done" /\ task'[t].answer = 200
                 /\ task'[t].keys = {}
<1>1. PICK s \in task[t].keys :
        /\ cache' = [cache EXCEPT ![ListKey(task[t].user, s)] = None]
        /\ excuse' = [excuse EXCEPT ![ListKey(task[t].user, s)] = {}]
        /\ task' = [task EXCEPT ![t] = [@ EXCEPT
                !.keys = task[t].keys \ {s},
                !.step = IF task[t].keys # {s} THEN "clear"
                         ELSE IF task[t].op = "change" THEN "commit" ELSE "done",
                !.answer = IF task[t].keys = {s} /\ task[t].op # "change" THEN 200 ELSE 0]]
  BY DEF Clear, ListKey
<1> DEFINE keys == task[t].keys \ {s}
           step == IF task[t].keys # {s} THEN "clear"
                   ELSE IF task[t].op = "change" THEN "commit" ELSE "done"
           answer == IF task[t].keys = {s} /\ task[t].op # "change" THEN 200 ELSE 0
           n == Clearing(task[t], keys, step, answer)
<1>2. task' = [task EXCEPT ![t] = n]
  BY <1>1 DEF Clearing
<1>3. task[t] \in TaskState /\ task[t].keys \subseteq Scope /\ keys \in SUBSET Scope /\ s \in Scope
  BY BaseFacts DEF TaskState
<1>4. \/ step = "clear" /\ answer = 0
      \/ task[t].op = "change" /\ step = "commit" /\ answer = 0 /\ keys = {}
      \/ task[t].op # "change" /\ step = "done" /\ answer = 200 /\ keys = {}
  OBVIOUS
<1>5. step \in {"clear", "commit", "done"} /\ answer \in {0, 200}
  BY <1>4
<1> HIDE DEF keys, step, answer
<1>6. /\ n \in TaskState
      /\ n.op = task[t].op /\ n.step = step /\ n.user = task[t].user /\ n.role = task[t].role
      /\ n.scope = task[t].scope /\ n.order = task[t].order /\ n.dropped = task[t].dropped
      /\ n.row = task[t].row /\ n.keys = keys /\ n.answer = answer
      /\ n.found = task[t].found
  BY <1>3, <1>5, ClearingFacts
<1> HIDE DEF n
<1>7. task' \in [Task -> TaskState] /\ task'[t] = n /\ \A o \in Task \ {t} : task'[o] = task[o]
  BY <1>2, <1>6, BaseFacts
<1>8. /\ task'[t].op = task[t].op /\ task'[t].user = task[t].user
      /\ task'[t].role = task[t].role /\ task'[t].scope = task[t].scope
      /\ task'[t].order = task[t].order /\ task'[t].dropped = task[t].dropped
      /\ task'[t].row = task[t].row /\ task'[t].keys = task[t].keys \ {s}
      /\ task'[t].found = task[t].found
  BY <1>6, <1>7 DEF keys
<1>9. \/ task'[t].step = "clear" /\ task'[t].answer = 0
      \/ task[t].op = "change" /\ task'[t].step = "commit" /\ task'[t].answer = 0
         /\ task'[t].keys = {}
      \/ task[t].op # "change" /\ task'[t].step = "done" /\ task'[t].answer = 200
         /\ task'[t].keys = {}
  BY <1>4, <1>6, <1>7
<1> QED
  BY <1>1, <1>3, <1>7, <1>8, <1>9

LEMMA KeyFacts ==
    ASSUME NEW u \in User, NEW s \in Scope, NEW kind \in {"list", "answer"}
    PROVE  /\ [kind |-> kind, user |-> u, scope |-> s] \in Key
           /\ ListKey(u, s) \in Key /\ ListKey(u, s).user = u /\ ListKey(u, s).scope = s
           /\ ListKey(u, s).kind = "list"
BY DEF Key, ListKey

LEMMA ClearBase ==
    ASSUME Base, NEW t \in Task, Clear(t)
    PROVE  Base'
<1>a. /\ UNCHANGED <<accountVars, tenantRows, trace, others, changes>> /\ task[t].step = "clear"
  BY DEF Clear
<1>b. TaskInv(t) /\ user' = user /\ nextRow' = nextRow /\ nextRow \in Nat
  BY <1>a, BaseFacts, QuietRows
<1>1. PICK s \in task[t].keys :
           /\ s \in Scope
           /\ cache' = [cache EXCEPT ![ListKey(task[t].user, s)] = None]
           /\ excuse' = [excuse EXCEPT ![ListKey(task[t].user, s)] = {}]
           /\ task' \in [Task -> TaskState] /\ \A o \in Task \ {t} : task'[o] = task[o]
           /\ task'[t].op = task[t].op /\ task'[t].user = task[t].user
           /\ task'[t].role = task[t].role /\ task'[t].scope = task[t].scope
           /\ task'[t].order = task[t].order /\ task'[t].dropped = task[t].dropped
           /\ task'[t].row = task[t].row
           /\ \/ task'[t].step = "clear" /\ task'[t].answer = 0
              \/ task[t].op = "change" /\ task'[t].step = "commit" /\ task'[t].answer = 0
                 /\ task'[t].keys = {}
              \/ task[t].op # "change" /\ task'[t].step = "done" /\ task'[t].answer = 200
                 /\ task'[t].keys = {}
  BY ClearFacts
<1>c. task[t].op \in {"assign", "remove", "change"} /\ task[t].user \in User
  <2>1. task[t] \in TaskState
    BY BaseFacts
  <2> QED
    BY <2>1, <1>a, <1>b DEF TaskInv, Shape, Control, Data, TaskState
<1>2. Control(task[t])'
  BY <1>1, <1>c DEF Control
<1>3. Data(task[t])'
  BY <1>1, <1>a, <1>b, <1>c DEF Data, TaskInv, Shape
<1>4. TaskInv(t)'
  BY <1>1, <1>b, <1>2, <1>3 DEF TaskInv, Shape, Known
<1>5. HistoryType'
  BY <1>1, <1>a, BaseFacts DEF HistoryType
<1> DEFINE key == ListKey(task[t].user, s)
<1>d. key \in Key
  BY <1>1, <1>c, KeyFacts
<1>e. cache' = [cache EXCEPT ![key] = None]
  BY <1>1
<1> HIDE DEF key
<1>f. cache \in [Key -> {None} \cup Value]
  BY BaseFacts DEF CacheType
<1>g. cache' \in [Key -> {None} \cup Value]
  BY <1>d, <1>e, <1>f
<1>h. \A k \in Key : cache'[k] = None \/ cache'[k] = cache[k]
  BY <1>d, <1>e, <1>f
<1>6. CacheType'
  BY <1>g, <1>h, BaseFacts DEF CacheType
<1>7. TenantType'
  BY <1>a, BaseFacts DEF TenantType, tenantRows
<1>8. \A k \in Key : cache'[k] # None =>
                cache[k] # None \/ (k.user = task[t].user /\ task[t].op # "none")
  BY <1>h
<1>9. AccountsInv'
  BY <1>a, BaseFacts, AccountsSame
<1>10. nextRow' >= nextRow
  BY <1>b
<1> QED
  BY <1>1, <1>b, <1>4, <1>5, <1>6, <1>7, <1>8, <1>9, <1>10, SlotKeeps

\* What a list or an answer is made of.
LEMMA ListType ==
    ASSUME Base, NEW u \in User, NEW s
    PROVE  List(u, s) \subseteq Role \cup {"all", "owner"}
<1>1. assigned \subseteq Row
  BY BaseFacts
<1>2. \A row \in assigned : row.role \in Role
  BY <1>1 DEF Row
<1> QED
  BY <1>2 DEF List

LEMMA ValueType ==
    ASSUME NEW kind \in {"list", "answer"}, NEW list, list \in Value
    PROVE  ValueOf(kind, list) \in Value /\ (kind = "answer" => ValueOf(kind, list) \subseteq {"yes"})
BY DEF ValueOf, Value

LEMMA ReadFacts ==
    ASSUME Base, NEW t \in Task, ReadRoles(t) \/ ReadOwner(t)
    PROVE  /\ task' \in [Task -> TaskState] /\ \A o \in Task \ {t} : task'[o] = task[o]
           /\ task[t].step \in {"roles", "owner"}
           /\ task'[t].op = task[t].op /\ task'[t].step \in {"owner", "set"}
           /\ task'[t].user = task[t].user
           /\ task'[t].role = task[t].role /\ task'[t].scope = task[t].scope
           /\ task'[t].order = task[t].order /\ task'[t].dropped = task[t].dropped
           /\ task'[t].row = task[t].row /\ task'[t].keys = task[t].keys
           /\ task'[t].answer = task[t].answer
           /\ task'[t].found \in Value
           /\ (task[t].op = "answer" => task'[t].found \subseteq {"yes"})
           /\ (task'[t].step = "owner" => task[t].scope # Global)
<1>1. TaskInv(t) /\ task[t] \in TaskState /\ task[t].step \in {"roles", "owner"}
  BY BaseFacts DEF ReadRoles, ReadOwner
<1>2. task[t].op \in {"list", "answer"} /\ task[t].user \in User
  BY <1>1 DEF TaskInv, Shape, Control, Data, TaskState
<1>3. PICK found, step :
        /\ task' = [task EXCEPT ![t] = Checking(task[t], found, step)]
        /\ found \in Value /\ (task[t].op = "answer" => found \subseteq {"yes"})
        /\ step \in {"owner", "set"} /\ (step = "owner" => task[t].scope # Global)
  <2>1. CASE ReadRoles(t)
    <3> DEFINE seen == List(task[t].user, task[t].scope) \ {"owner"}
               found == ValueOf(task[t].op, seen)
               step == IF ~IsThere(task[t].user) \/ "all" \in seen \/ task[t].scope = Global
                          \/ "yes" \in found
                       THEN "set" ELSE "owner"
    <3>1. seen \in Value
      BY <1>2, ListType DEF Value
    <3>2. task' = [task EXCEPT ![t] = Checking(task[t], found, step)]
      BY <2>1 DEF ReadRoles, Checking
    <3>3. step \in {"owner", "set"} /\ (step = "owner" => task[t].scope # Global)
      OBVIOUS
    <3> HIDE DEF seen, step
    <3>4. found \in Value /\ (task[t].op = "answer" => found \subseteq {"yes"})
      BY <3>1, <1>2, ValueType
    <3> QED
      BY <3>2, <3>3, <3>4
  <2>2. CASE ReadOwner(t)
    <3>1. task[t].step = "owner"
      BY <2>2 DEF ReadOwner
    <3>2. task[t].found \in Value /\ (task[t].op = "answer" => task[t].found \subseteq {"yes"})
          /\ task[t].scope # Global
      BY <1>1, <3>1 DEF TaskInv, Shape, Data
    <3> DEFINE more == task[t].found \cup {"owner"}
               found == IF owned[task[t].scope] = task[t].user THEN ValueOf(task[t].op, more)
                        ELSE task[t].found
    <3>3. more \in Value
      BY <3>2 DEF Value
    <3>4. task' = [task EXCEPT ![t] = Checking(task[t], found, "set")]
      BY <2>2 DEF ReadOwner, Checking
    <3> HIDE DEF more
    <3>5. found \in Value /\ (task[t].op = "answer" => found \subseteq {"yes"})
      BY <3>2, <3>3, <1>2, ValueType
    <3> HIDE DEF found
    <3> QED
      BY <3>2, <3>4, <3>5
  <2> QED
    BY <1>1, <2>1, <2>2
<1> DEFINE n == Checking(task[t], found, step)
<1>4. /\ n \in TaskState
      /\ n.op = task[t].op /\ n.step = step /\ n.user = task[t].user /\ n.role = task[t].role
      /\ n.scope = task[t].scope /\ n.order = task[t].order /\ n.dropped = task[t].dropped
      /\ n.row = task[t].row /\ n.keys = task[t].keys /\ n.found = found
      /\ n.answer = task[t].answer
  BY <1>1, <1>3, CheckingFacts
<1>5. task' = [task EXCEPT ![t] = n]
  BY <1>3
<1> HIDE DEF n
<1>6. task' \in [Task -> TaskState] /\ task'[t] = n /\ \A o \in Task \ {t} : task'[o] = task[o]
  BY <1>4, <1>5, BaseFacts
<1> QED
  BY <1>1, <1>3, <1>4, <1>6

LEMMA ReadBase ==
    ASSUME Base, NEW t \in Task, ReadRoles(t) \/ ReadOwner(t)
    PROVE  Base'
<1>a. /\ UNCHANGED <<accountVars, tenantRows, cache, history, changes>>
  BY DEF ReadRoles, ReadOwner
<1>b. TaskInv(t) /\ task[t] \in TaskState /\ user' = user /\ nextRow' = nextRow
  BY <1>a, BaseFacts, QuietRows
<1>c. task[t].op \in {"list", "answer"}
  BY <1>b, ReadFacts DEF TaskInv, Shape, Control, TaskState
<1>1. Control(task[t])'
  BY <1>c, ReadFacts DEF Control
<1>2. Data(task[t])'
  BY <1>b, <1>c, ReadFacts DEF Data, TaskInv, Shape
<1>3. TaskInv(t)'
  BY <1>b, <1>1, <1>2, ReadFacts DEF TaskInv, Shape, Known
<1>4. HistoryType'
  BY <1>a, QuietHistory
<1> QED
  BY <1>a, <1>3, <1>4, ReadFacts, SlotOnly

LEMMA SetBase ==
    ASSUME Base, NEW t \in Task, Set(t)
    PROVE  Base'
<1>a. /\ UNCHANGED <<accountVars, tenantRows, trace, others, changes>> /\ task[t].step = "set"
      /\ Reply(t, 200)
  BY DEF Set
<1>b. TaskInv(t) /\ task[t] \in TaskState
  BY BaseFacts
<1>c. task[t].op \in {"list", "answer"} /\ task[t].user \in User /\ task[t].scope \in Scope
  BY <1>a, <1>b DEF TaskInv, Shape, Control, Data, TaskState
<1>d. task[t].found \in Value /\ (task[t].op = "answer" => task[t].found \subseteq {"yes"})
  BY <1>a, <1>b DEF TaskInv, Shape, Data
<1> DEFINE key == [kind |-> task[t].op, user |-> task[t].user, scope |-> task[t].scope]
           kept == IF task[t].found # Current(key) THEN {"overlap"} ELSE {}
<1>1. key \in Key /\ key.user = task[t].user /\ key.kind = task[t].op
  BY <1>c DEF Key
<1>2. cache' = [cache EXCEPT ![key] = task[t].found] /\ excuse' = [excuse EXCEPT ![key] = kept]
  BY DEF Set
<1>3. kept \in SUBSET {"overlap", "early", "missed", "failed", "direct", "kept"}
  OBVIOUS
<1> HIDE DEF key, kept
<1>4. /\ cache \in [Key -> {None} \cup Value]
      /\ \A k \in Key : k.kind = "answer" /\ cache[k] # None => cache[k] \subseteq {"yes"}
      /\ excuse \in [Key -> SUBSET {"overlap", "early", "missed", "failed", "direct", "kept"}]
      /\ trace \in [Task -> SUBSET {"written", "logged", "failed"}]
      /\ others \in [Task -> SUBSET Row]
  BY BaseFacts DEF CacheType, HistoryType
<1>5. cache' \in [Key -> {None} \cup Value]
  BY <1>1, <1>2, <1>4, <1>d
<1>6. \A k \in Key : (k = key /\ cache'[k] = task[t].found) \/ cache'[k] = cache[k]
  BY <1>1, <1>2, <1>4
<1>7. CacheType'
  BY <1>1, <1>4, <1>5, <1>6, <1>d DEF CacheType
<1>8. excuse' \in [Key -> SUBSET {"overlap", "early", "missed", "failed", "direct", "kept"}]
  BY <1>2, <1>3, <1>4
<1>9. HistoryType'
  BY <1>4, <1>8, <1>a DEF HistoryType
<1>10. TenantType'
  BY <1>a, BaseFacts DEF TenantType, tenantRows
<1>11. AccountsInv'
  BY <1>a, BaseFacts, AccountsSame
<1>12. nextRow' >= nextRow /\ user' = user
  BY <1>a, BaseFacts, QuietRows
<1>13. \A k \in Key : cache'[k] # None =>
                cache[k] # None \/ (k.user = task[t].user /\ task[t].op # "none")
  BY <1>1, <1>6, <1>c
<1>14. /\ task' \in [Task -> TaskState] /\ \A o \in Task \ {t} : task'[o] = task[o]
       /\ TaskInv(t)'
  <2>1. task[t].op # "none" /\ nextRow' \in Nat
    BY <1>a, <1>c, BaseFacts, QuietRows
  <2>2. TaskInv(t)'
    BY <2>1, <1>a, <1>12, ReplyInv
  <2>3. task' \in [Task -> TaskState] /\ \A o \in Task \ {t} : task'[o] = task[o]
    BY <1>a, BaseFacts, ReplyFacts
  <2> QED
    BY <2>2, <2>3
<1> QED
  BY <1>7, <1>9, <1>10, <1>11, <1>12, <1>13, <1>14, SlotKeeps

\* The slots stay, and nobody becomes unknown.
LEMMA TasksStay ==
    ASSUME Base, AccountsInv', HistoryType', TenantType', CacheType', UNCHANGED task,
           \A u \in User : Known(u) => Known(u)', nextRow' >= nextRow,
           \A k \in Key : cache'[k] # None => cache[k] # None
    PROVE  Base'
<1>1. TypeOK'
  BY BaseFacts DEF TypeOK, HistoryType, TenantType, CacheType, AccountsInv, RowsInv
<1>2. ASSUME NEW t \in Task PROVE TaskInv(t)'
  <2>1. TaskInv(t) /\ task'[t] = task[t] /\ task[t] \in TaskState
    BY BaseFacts
  <2>2. task[t].row # None => task[t].row.id \in Nat
    BY <2>1 DEF TaskState, Row
  <2>3. nextRow \in Nat /\ nextRow' \in Nat
    BY BaseFacts DEF AccountsInv, AccountsTypeOK
  <2>4. task[t].row # None => task[t].row.id < nextRow'
    BY <2>1, <2>2, <2>3 DEF TaskInv
  <2>5. task[t].op # "none" => task[t].user \in User /\ Known(task[t].user)
    BY <2>1 DEF TaskInv, Shape, Data
  <2>6. task[t].op # "none" => user'[task[t].user].state # "absent"
    BY <2>5 DEF Known
  <2>7. Shape(task[t])'
    BY <2>1 DEF TaskInv, Shape, Control, Data
  <2> QED
    BY <2>1, <2>4, <2>6, <2>7 DEF TaskInv, Known
<1>3. ASSUME NEW k \in Key, cache'[k] # None PROVE Known(k.user)'
  <2>1. Known(k.user) /\ k.user \in User
    BY <1>3 DEF Base, Key
  <2> QED
    BY <2>1
<1> QED
  BY <1>1, <1>2, <1>3 DEF Base

LEMMA ExpireBase ==
    ASSUME Base, NEW k \in Key, Expire(k)
    PROVE  Base'
<1>1. /\ UNCHANGED <<accountVars, tenantRows, task, trace, others, changes>>
      /\ cache' = [cache EXCEPT ![k] = None] /\ excuse' = [excuse EXCEPT ![k] = {}]
  BY DEF Expire
<1>2. /\ cache \in [Key -> {None} \cup Value]
      /\ \A x \in Key : x.kind = "answer" /\ cache[x] # None => cache[x] \subseteq {"yes"}
  BY BaseFacts DEF CacheType
<1>3. cache' \in [Key -> {None} \cup Value] /\ \A x \in Key : cache'[x] = None \/ cache'[x] = cache[x]
  BY <1>1, <1>2
<1>4. CacheType'
  BY <1>2, <1>3 DEF CacheType
<1>5. HistoryType'
  BY <1>1, BaseFacts DEF HistoryType
<1>6. TenantType' /\ AccountsInv'
  BY <1>1, BaseFacts, AccountsSame DEF TenantType, tenantRows
<1>7. nextRow' >= nextRow /\ user' = user
  BY <1>1, BaseFacts, QuietRows
<1>8. \A u \in User : Known(u) => Known(u)'
  BY <1>7 DEF Known
<1> QED
  BY <1>1, <1>3, <1>4, <1>5, <1>6, <1>7, <1>8, TasksStay

\* A write that clears nothing leaves the cache and the slots.
LEMMA DirectBase ==
    ASSUME Base, AccountsInv', Directly,
           owned' \in [Workspace -> User \cup {None}], member' \subseteq User \X Workspace,
           \A u \in User : Known(u) => Known(u)', UNCHANGED nextRow
    PROVE  Base'
<1>1. /\ changes < MaxChanges /\ changes' = changes + 1 /\ Excuse(Key, "direct")
      /\ UNCHANGED <<cache, task, trace, others>>
  BY DEF Directly
<1>2. excuse' \in [Key -> SUBSET {"overlap", "early", "missed", "failed", "direct", "kept"}]
  BY <1>1, BaseFacts, ExcuseType
<1>3. HistoryType'
  BY <1>1, <1>2, BaseFacts DEF HistoryType
<1>4. changes' \in 0..MaxChanges
  BY <1>1, BaseFacts, RolesAssumption DEF TenantType
<1>5. TenantType' /\ CacheType'
  BY <1>1, <1>4, BaseFacts DEF TenantType, CacheType
<1>6. nextRow' >= nextRow
  BY BaseFacts
<1> QED
  BY <1>1, <1>3, <1>5, <1>6, TasksStay

LEMMA WriteUserBase ==
    ASSUME Base, NEW u \in User, NEW e \in Email, NEW super \in BOOLEAN, WriteUser(u, e, super)
    PROVE  Base'
<1>1. UpdateUser(u, e, super) /\ UNCHANGED tenantRows /\ Directly
  BY DEF WriteUser
<1>2. AccountsInv'
  BY <1>1, BaseFacts, UpdateUserKeeps
<1>3. user \in [User -> [state : {"absent", "present", "gone"}, email : Email \cup {None},
                         super : BOOLEAN]]
  BY BaseFacts DEF AccountsInv, AccountsTypeOK
<1>4. UNCHANGED nextRow /\ user' = [user EXCEPT ![u].email = e, ![u].super = super]
  BY <1>1 DEF UpdateUser
<1>5. \A v \in User : user'[v].state = user[v].state
  BY <1>3, <1>4
<1>6. \A v \in User : Known(v) => Known(v)'
  BY <1>5 DEF Known
<1>7. owned' \in [Workspace -> User \cup {None}] /\ member' \subseteq User \X Workspace
  BY <1>1, BaseFacts DEF tenantRows, TenantType
<1> QED
  BY <1>1, <1>2, <1>4, <1>6, <1>7, DirectBase

LEMMA DeleteUserBase ==
    ASSUME Base, NEW u \in User, DeleteUser(u)
    PROVE  Base'
<1>1. /\ RemoveUser(u) /\ Directly /\ UNCHANGED owned
      /\ member' = {m \in member : m[1] # u}
  BY DEF DeleteUser
<1>2. AccountsInv'
  BY <1>1, BaseFacts, RemoveUserKeeps
<1>3. user \in [User -> [state : {"absent", "present", "gone"}, email : Email \cup {None},
                         super : BOOLEAN]]
  BY BaseFacts DEF AccountsInv, AccountsTypeOK
<1>4. UNCHANGED nextRow
      /\ user' = [user EXCEPT ![u] = [state |-> "gone", email |-> None, super |-> FALSE]]
  BY <1>1 DEF RemoveUser
<1>5. \A v \in User : user'[v].state = user[v].state \/ user'[v].state = "gone"
  BY <1>3, <1>4
<1>6. \A v \in User : Known(v) => Known(v)'
  BY <1>5 DEF Known
<1>7. owned' \in [Workspace -> User \cup {None}] /\ member' \subseteq User \X Workspace
  BY <1>1, BaseFacts DEF TenantType
<1> QED
  BY <1>1, <1>2, <1>4, <1>6, <1>7, DirectBase

LEMMA WriteMemberBase ==
    ASSUME Base, NEW u \in User, NEW w \in Workspace, WriteMember(u, w)
    PROVE  Base'
<1>1. /\ Directly /\ UNCHANGED <<accountVars, owned>>
      /\ member' = member \ {<<u, w>>} \/ member' = member \cup {<<u, w>>}
  BY DEF WriteMember
<1>2. AccountsInv'
  BY <1>1, BaseFacts, AccountsSame
<1>3. UNCHANGED nextRow /\ user' = user
  BY <1>1 DEF accountVars, rowVars
<1>4. \A v \in User : Known(v) => Known(v)'
  BY <1>3 DEF Known
<1>5. owned' \in [Workspace -> User \cup {None}] /\ member' \subseteq User \X Workspace
  BY <1>1, BaseFacts DEF TenantType
<1> QED
  BY <1>1, <1>2, <1>3, <1>4, <1>5, DirectBase

LEMMA DeleteWorkspaceBase ==
    ASSUME Base, NEW w \in Workspace, DeleteWorkspace(w)
    PROVE  Base'
<1>1. /\ Directly /\ owned' = [owned EXCEPT ![w] = None]
      /\ member' = {m \in member : m[2] # w} /\ assigned' = {row \in assigned : row.scope # w}
      /\ UNCHANGED <<user, link, nextRow, audited, req, tx, requests, faults>>
  BY DEF DeleteWorkspace
<1>2. assigned' \subseteq assigned
  BY <1>1
<1>3. /\ assigned' \subseteq Row /\ IsFiniteSet(assigned')
      /\ \A row \in assigned' : row.id < nextRow'
      /\ nextRow' \in Nat /\ nextRow' >= nextRow
      /\ requests' \in 0..MaxRequests /\ faults' \in 0..MaxFaults
  BY <1>1, <1>2, BaseFacts, FS_Subset
<1>4. AccountsInv'
  BY <1>1, <1>3, BaseFacts, RowsKeep
<1>5. \A v \in User : Known(v) => Known(v)'
  BY <1>1 DEF Known
<1>6. owned' \in [Workspace -> User \cup {None}] /\ member' \subseteq User \X Workspace
  BY <1>1, BaseFacts DEF TenantType
<1> QED
  BY <1>1, <1>4, <1>5, <1>6, DirectBase

\* What sign-up does to the rows of accounts: a Commit inserts a user, nobody goes.
LEMMA SignUpGrows ==
    ASSUME AccountsInv, SignUp
    PROVE  /\ nextRow' >= nextRow
           /\ \A u \in User : user'[u] = user[u] \/ user'[u].state = "present"
<1>1. nextRow \in Nat
  BY DEF AccountsInv, AccountsTypeOK
<1>2. user \in [User -> [state : {"absent", "present", "gone"}, email : Email \cup {None},
                         super : BOOLEAN]]
  BY DEF AccountsInv, AccountsTypeOK
<1>3. PICK r \in Request :
        \/ \E e \in Email : Register(r, e) \/ CreateUser(r, e)
        \/ \E i \in Identity : OAuth(r, i)
        \/ FindEmail(r) \/ InsertUser(r) \/ InsertLink(r) \/ AssignDefault(r) \/ Commit(r)
        \/ LinkExisting(r) \/ Audit(r) \/ CreateSession(r) \/ Fault(r)
  BY DEF SignUp
<1>4. ASSUME UNCHANGED <<user, nextRow>>
      PROVE  /\ nextRow' >= nextRow
             /\ \A u \in User : user'[u] = user[u] \/ user'[u].state = "present"
  BY <1>1, <1>4
<1>5. ASSUME NEW e \in Email, Register(r, e) \/ CreateUser(r, e) PROVE UNCHANGED <<user, nextRow>>
  BY <1>5 DEF Register, CreateUser, rowVars
<1>6. ASSUME NEW i \in Identity, OAuth(r, i) PROVE UNCHANGED <<user, nextRow>>
  BY <1>6 DEF OAuth, rowVars
<1>7. ASSUME FindEmail(r) \/ InsertUser(r) \/ InsertLink(r) \/ CreateSession(r) \/ Fault(r)
      PROVE  UNCHANGED <<user, nextRow>>
  BY <1>7 DEF FindEmail, InsertUser, InsertLink, CreateSession, Fault, rowVars
<1>8. ASSUME LinkExisting(r) \/ Audit(r) PROVE UNCHANGED <<user, nextRow>>
  BY <1>8 DEF LinkExisting, Audit
<1>9. ASSUME AssignDefault(r)
      PROVE  nextRow' \in {nextRow, nextRow + 1} /\ user' = user
  BY <1>9 DEF AssignDefault
<1>10. ASSUME Commit(r)
       PROVE  /\ nextRow' = nextRow
              /\ \A u \in User : user'[u] = user[u] \/ user'[u].state = "present"
  <2>1. nextRow' = nextRow
    BY <1>10 DEF Commit
  <2>2. PICK super \in BOOLEAN :
            user' = [user EXCEPT ![tx[r].user] = [state |-> "present", email |-> req[r].email,
                                                  super |-> super]]
    BY <1>10 DEF Commit
  <2> QED
    BY <2>1, <2>2, <1>2
<1> QED
  BY <1>1, <1>3, <1>4, <1>5, <1>6, <1>7, <1>8, <1>9, <1>10

LEMMA SignUpBase ==
    ASSUME Base, SignUp, UNCHANGED <<tenantRows, cache, task, history, changes>>
    PROVE  Base'
<1>1. AccountsInv'
  BY BaseFacts, SignUpKeeps
<1>2. HistoryType' /\ TenantType' /\ CacheType'
  BY BaseFacts DEF HistoryType, TenantType, CacheType, history, tenantRows
<1>3. nextRow' >= nextRow
  BY BaseFacts, SignUpGrows
<1>4. \A u \in User : Known(u) => Known(u)'
  <2>1. \A u \in User : user'[u] = user[u] \/ user'[u].state = "present"
    BY BaseFacts, SignUpGrows
  <2> QED
    BY <2>1 DEF Known
<1> QED
  BY <1>1, <1>2, <1>3, <1>4, TasksStay

LEMMA StartBase == Init => Base
<1> SUFFICES ASSUME Init PROVE Base
  OBVIOUS
<1>1. AccountsInv
  BY AccountsStart DEF Init
<1>2. /\ task = [t \in Task |-> Free] /\ cache = [k \in Key |-> None]
      /\ trace = [t \in Task |-> {}] /\ others = [t \in Task |-> {}]
      /\ excuse = [k \in Key |-> {}] /\ owned = Owner /\ member = {} /\ changes = 0
  BY DEF Init
<1>3. HistoryType /\ CacheType
  BY <1>2 DEF HistoryType, CacheType
<1>4. TenantType
  BY <1>2, RolesAssumption, AccountsAssumption DEF TenantType
<1>5. TypeOK
  BY <1>1, <1>2, <1>3, <1>4, FreeType
     DEF TypeOK, HistoryType, CacheType, TenantType, AccountsInv, RowsInv
<1>6. ASSUME NEW t \in Task PROVE TaskInv(t)
  <2>1. task[t] = Free
    BY <1>2
  <2> QED
    BY <2>1, FreeFields DEF TaskInv, Shape, Control, Data
<1>7. \A k \in Key : cache[k] = None
  BY <1>2
<1> QED
  BY <1>1, <1>5, <1>6, <1>7 DEF Base

LEMMA NextBase == Base /\ [Next]_vars => Base'
<1> SUFFICES ASSUME Base, [Next]_vars PROVE Base'
  OBVIOUS
<1>1. ASSUME NEW t \in Task, NEW u \in User, NEW role \in Role, NEW s \in Scope,
             Assign(t, u, role, s) \/ Remove(t, u, role, s) \/ Change(t, u, role, s)
      PROVE  Base'
  BY <1>1, AssignBase, ChangeBase
<1>2. ASSUME NEW t \in Task, NEW kind \in {"list", "answer"}, NEW u \in User, NEW s \in Scope,
             Check(t, kind, u, s)
      PROVE  Base'
  BY <1>2, CheckBase
<1>3. ASSUME NEW t \in Task,
             Find(t) \/ AssignWrite(t) \/ RemoveWrite(t) \/ ChangeFind(t) \/ Drop(t)
      PROVE  Base'
  BY <1>3, FindBase, AssignWriteBase, RemoveWriteBase, ChangeFindBase, DropBase
<1>4. ASSUME NEW t \in Task,
             ChangeInsert(t) \/ TimeOut(t) \/ ChangeCommit(t) \/ AuditRole(t) \/ ReadMembers(t)
      PROVE  Base'
  BY <1>4, ChangeInsertBase, TimeOutBase, ChangeCommitBase, AuditRoleBase, ReadMembersBase
<1>5. ASSUME NEW t \in Task, Clear(t) \/ TaskFault(t) \/ ReadRoles(t) \/ ReadOwner(t) \/ Set(t)
      PROVE  Base'
  BY <1>5, ClearBase, TaskFaultBase, ReadBase, SetBase
<1>6. ASSUME NEW k \in Key, Expire(k) PROVE Base'
  BY <1>6, ExpireBase
<1>7. ASSUME NEW u \in User,
             \/ \E e \in Email, super \in BOOLEAN : WriteUser(u, e, super)
             \/ DeleteUser(u)
             \/ \E w \in Workspace : WriteMember(u, w)
      PROVE  Base'
  BY <1>7, WriteUserBase, DeleteUserBase, WriteMemberBase
<1>8. ASSUME NEW w \in Workspace, DeleteWorkspace(w) PROVE Base'
  BY <1>8, DeleteWorkspaceBase
<1>9. ASSUME SignUp, UNCHANGED <<tenantRows, cache, task, history, changes>> PROVE Base'
  BY <1>9, SignUpBase
<1>10. ASSUME UNCHANGED vars PROVE Base'
  <2>1. /\ UNCHANGED <<accountVars, tenantRows, cache, task, history, changes>>
    BY <1>10 DEF vars
  <2>2. AccountsInv' /\ HistoryType' /\ TenantType' /\ CacheType'
    BY <2>1, BaseFacts, AccountsSame DEF HistoryType, TenantType, CacheType, history, tenantRows
  <2>3. nextRow' >= nextRow /\ user' = user
    BY <2>1, BaseFacts, QuietRows
  <2>4. \A u \in User : Known(u) => Known(u)'
    BY <2>3 DEF Known
  <2> QED
    BY <2>1, <2>2, <2>3, <2>4, TasksStay
<1> QED
  BY <1>1, <1>2, <1>3, <1>4, <1>5, <1>6, <1>7, <1>8, <1>9, <1>10 DEF Next

-----------------------------------------------------------------------------
(* What requests have written, and which rows they know of *)

\* What the request of slot t has done before each of its awaits.
Told(t) ==
    LET k == task[t] IN
    /\ k.op \in {"assign", "remove"} =>
        /\ k.step \in {"find", "write"} => trace[t] = {}
        /\ k.step = "audit" => trace[t] = {"written"}
        /\ k.step \in {"members", "clear"} => trace[t] = {"written", "logged"}
        /\ k.step = "done" /\ k.answer = 200 => {"written", "logged"} \subseteq trace[t]
        /\ k.step = "done" /\ k.answer = 400 => "failed" \in trace[t] \/ trace[t] = {}
    /\ k.op = "change" =>
        /\ k.step \in {"find", "drop", "insert", "audit"} => trace[t] = {}
        /\ k.step \in {"members", "clear", "commit"} => trace[t] = {"logged"}
        /\ k.step = "done" /\ k.answer = 200 => {"written", "logged"} \subseteq trace[t]
        /\ k.step = "done" /\ k.answer = 400 =>
            ("failed" \in trace[t] \/ trace[t] = {}) /\ "written" \notin trace[t]

\* The row of a changeRole is nobody else's until it is committed.
Pending(t) == task[t].op = "change" /\ task[t].row # None /\ task[t].answer # 200
Fresh(t) ==
    Pending(t) =>
        /\ task[t].row \notin assigned
        /\ \A r \in Request : task[t].row \notin tx[r].rows
        /\ \A o \in Task \ {t} : Pending(o) => task[o].row # task[t].row

\* What a changeRole has not read, it has seen come.
Seen(t) ==
    task[t].op = "change" /\ task[t].answer # 400 =>
        \A row \in InScope(task[t].user, task[t].scope) :
            \/ row \in others[t] \/ row \in task[t].dropped
            \/ \E i \in DOMAIN task[t].order : row = task[t].order[i]

Fit == Base /\ \A t \in Task : Told(t) /\ Fresh(t) /\ Seen(t)

LEMMA FitFacts ==
    ASSUME Fit
    PROVE  Base /\ \A t \in Task : Told(t) /\ Fresh(t) /\ Seen(t) /\ TaskInv(t)
BY BaseFacts DEF Fit

\* No row comes, and only slot t changes.
LEMMA SlotFits ==
    ASSUME Fit, Base', NEW t \in Task,
           \A o \in Task \ {t} :
                task'[o] = task[o] /\ trace'[o] = trace[o] /\ others'[o] = others[o],
           assigned' \subseteq assigned, \A r \in Request : tx'[r].rows \subseteq tx[r].rows,
           Pending(t)' => Pending(t) /\ task'[t].row = task[t].row,
           Told(t)', Seen(t)'
    PROVE  Fit'
<1>1. ASSUME NEW o \in Task \ {t} PROVE Told(o)'
  BY <1>1, FitFacts DEF Told
<1>2. ASSUME NEW o \in Task \ {t} PROVE Seen(o)'
  <2>1. Seen(o) /\ task'[o] = task[o] /\ others'[o] = others[o]
    BY <1>2, FitFacts
  <2>2. \A u, s : InScope(u, s)' \subseteq InScope(u, s)
    BY DEF InScope
  <2> QED
    BY <2>1, <2>2 DEF Seen, InScope
<1>3. ASSUME NEW o \in Task \ {t} PROVE Fresh(o)'
  <2>1. Fresh(o) /\ (Pending(o)' <=> Pending(o)) /\ task'[o] = task[o]
    BY <1>3, FitFacts DEF Pending
  <2>2. ASSUME NEW p \in Task \ {o}, Pending(p)', Pending(o)' PROVE task'[p].row # task'[o].row
    <3>1. Pending(p) /\ task'[p].row = task[p].row
      BY <2>2 DEF Pending
    <3> QED
      BY <3>1, <2>1, <2>2 DEF Fresh
  <2> QED
    BY <2>1, <2>2 DEF Fresh
<1>4. Fresh(t)'
  <2>1. Fresh(t)
    BY FitFacts
  <2>2. ASSUME NEW p \in Task \ {t}, Pending(p)', Pending(t)' PROVE task'[p].row # task'[t].row
    <3>1. Pending(p) /\ task'[p] = task[p]
      BY <2>2 DEF Pending
    <3> QED
      BY <3>1, <2>1, <2>2 DEF Fresh
  <2> QED
    BY <2>1, <2>2 DEF Fresh
<1> QED
  BY <1>1, <1>2, <1>3, <1>4 DEF Fit

\* No request does anything, and no row comes.
LEMMA RowsFit ==
    ASSUME Fit, Base', UNCHANGED <<task, trace, others>>,
           assigned' \subseteq assigned, UNCHANGED tx
    PROVE  Fit'
<1>1. ASSUME NEW o \in Task PROVE Told(o)'
  BY <1>1, FitFacts DEF Told
<1>2. ASSUME NEW o \in Task PROVE Seen(o)'
  <2>1. Seen(o)
    BY FitFacts
  <2> QED
    BY <2>1 DEF Seen, InScope
<1>3. ASSUME NEW o \in Task PROVE Fresh(o)'
  <2>1. Fresh(o)
    BY FitFacts
  <2> QED
    BY <2>1 DEF Fresh, Pending
<1> QED
  BY <1>1, <1>2, <1>3 DEF Fit

\* A slot that is refused where it has written nothing.
LEMMA RefusedFits ==
    ASSUME Fit, Base', NEW t \in Task, Reply(t, 400),
           task[t].op \in {"assign", "remove"} => task[t].step \in {"find", "write"},
           task[t].op = "change" => task[t].step \in {"find", "drop", "insert"},
           UNCHANGED <<trace, others, assigned, tx>>
    PROVE  Fit'
<1>1. /\ \A o \in Task \ {t} : task'[o] = task[o]
      /\ task'[t].op = task[t].op /\ task'[t].step = "done"
      /\ task'[t].row = task[t].row /\ task'[t].answer = 400
  BY FitFacts, BaseFacts, ReplyFacts
<1>2. TaskInv(t) /\ Told(t) /\ (task[t].step \notin {"idle", "done"} => task[t].answer = 0)
  BY FitFacts DEF TaskInv, Shape, Data
<1>3. Told(t)'
  BY <1>1, <1>2 DEF Told
<1>4. Seen(t)'
  BY <1>1 DEF Seen
<1>5. Pending(t)' => Pending(t) /\ task'[t].row = task[t].row
  BY <1>1, <1>2 DEF Pending
<1> QED
  BY <1>1, <1>3, <1>4, <1>5, SlotFits

\* A slot that fails.
LEMMA FailedFits ==
    ASSUME Fit, Base', NEW t \in Task, Fails(t), task[t].step \notin {"idle", "done"},
           UNCHANGED <<others, assigned, tx>>
    PROVE  Fit'
<1>1. TaskInv(t) /\ Told(t) /\ task[t].answer = 0 /\ task[t].op # "none"
  BY FitFacts DEF TaskInv, Shape, Data, Control
<1>2. /\ Reply(t, 400) /\ trace'[t] = trace[t] \cup {"failed"}
      /\ \A o \in Task \ {t} : trace'[o] = trace[o]
  BY <1>1, FitFacts, FailsFacts
<1>3. /\ \A o \in Task \ {t} : task'[o] = task[o]
      /\ task'[t].op = task[t].op /\ task'[t].step = "done"
      /\ task'[t].row = task[t].row /\ task'[t].answer = 400
  BY <1>2, FitFacts, BaseFacts, ReplyFacts
<1>4. task[t].op = "change" => "written" \notin trace[t]
  BY <1>1 DEF Told, TaskInv, Shape, Control
<1>5. Told(t)'
  BY <1>2, <1>3, <1>4 DEF Told
<1>6. Seen(t)'
  BY <1>3 DEF Seen
<1>7. Pending(t)' => Pending(t) /\ task'[t].row = task[t].row
  BY <1>1, <1>3 DEF Pending
<1> QED
  BY <1>2, <1>3, <1>5, <1>6, <1>7, SlotFits

\* A request that starts, but for changeRole.
LEMMA StartsFit ==
    ASSUME Fit, Base', NEW t \in Task, NEW k \in TaskState, Starts(t, k),
           k.op = "change" => k.step = "find" /\ k.row = None /\
                \A row \in InScope(k.user, k.scope) : \E i \in DOMAIN k.order : row = k.order[i],
           k.op \in {"assign", "remove"} => k.step = "find"
    PROVE  Fit'
<1>1. /\ task'[t] = k /\ \A o \in Task \ {t} : task'[o] = task[o]
  BY FitFacts, BaseFacts DEF Starts
<1>2. UNCHANGED <<rowVars, tx>>
      /\ trace' = [trace EXCEPT ![t] = {}] /\ others' = [others EXCEPT ![t] = {}]
  BY DEF Starts
<1>3. trace'[t] = {}
      /\ \A o \in Task \ {t} : trace'[o] = trace[o] /\ others'[o] = others[o]
  BY <1>2, FitFacts, BaseFacts DEF HistoryType
<1>4. UNCHANGED assigned
  BY <1>2 DEF rowVars
<1>5. Told(t)'
  BY <1>1, <1>3 DEF Told
<1>6. Seen(t)'
  <2>1. InScope(k.user, k.scope)' = InScope(k.user, k.scope)
    BY <1>4 DEF InScope
  <2> QED
    BY <1>1, <1>4 DEF Seen, InScope
<1>7. ~Pending(t)'
  BY <1>1 DEF Pending
<1> QED
  BY <1>1, <1>2, <1>3, <1>4, <1>5, <1>6, <1>7, SlotFits

LEMMA AssignFits ==
    ASSUME Fit, Base', NEW t \in Task, NEW u \in User, NEW role \in Role, NEW s \in Scope,
           Assign(t, u, role, s) \/ Remove(t, u, role, s)
    PROVE  Fit'
<1>1. PICK op \in {"assign", "remove"} : Starts(t, Started(op, u, role, s))
  BY DEF Assign, Remove, Started
<1> DEFINE k == Started(op, u, role, s)
<1>2. k \in TaskState /\ k.op = op /\ k.step = "find"
  BY StartFacts
<1>3. Starts(t, k)
  BY <1>1
<1> HIDE DEF k
<1> QED
  BY <1>2, <1>3, StartsFit

LEMMA CheckFits ==
    ASSUME Fit, Base', NEW t \in Task, NEW kind \in {"list", "answer"}, NEW u \in User,
           NEW s \in Scope, Check(t, kind, u, s)
    PROVE  Fit'
<1>2. PICK step, answer :
        /\ \/ step = "roles" /\ answer = 0
           \/ step = "done" /\ answer = 200
        /\ Starts(t, Asking(kind, u, s, step, answer))
  <2> DEFINE entry == cache[[kind |-> kind, user |-> u, scope |-> s]]
  <2>1. CASE entry = None
    BY <2>1 DEF Check, Asking
  <2>2. CASE entry # None
    BY <2>2 DEF Check, Asking
  <2> QED
    BY <2>1, <2>2
<1> DEFINE k == Asking(kind, u, s, step, answer)
<1>3. k \in TaskState /\ k.op = kind
  BY <1>2, CheckFacts
<1>4. Starts(t, k)
  BY <1>2
<1> HIDE DEF k
<1> QED
  BY <1>3, <1>4, StartsFit

\* findMany answers every row once.
LEMMA OrderCovers ==
    ASSUME NEW S, IsFiniteSet(S), NEW order \in Orders(S)
    PROVE  \A row \in S : \E i \in DOMAIN order : row = order[i]
<1> DEFINE n == Cardinality(S)
<1>1. /\ n \in Nat /\ DOMAIN order = 1..n /\ order \in [1..n -> S]
      /\ \A i, j \in DOMAIN order : order[i] = order[j] => i = j
  BY OrderFacts
<1>2. order \in Injection(1..n, S)
  BY <1>1 DEF Injection, IsInjective
<1>3. Cardinality(1..n) = n
  BY <1>1, FS_Interval
<1>4. order \in Surjection(1..n, S)
  BY <1>2, <1>3, FS_Injection
<1> QED
  BY <1>1, <1>4 DEF Surjection

LEMMA ChangeFits ==
    ASSUME Fit, Base', NEW t \in Task, NEW u \in User, NEW role \in Role, NEW s \in Scope,
           Change(t, u, role, s)
    PROVE  Fit'
<1>1. PICK order \in Orders(InScope(u, s)) : Starts(t, Changing(u, role, s, order))
  BY DEF Change, Changing
<1>2. IsFiniteSet(InScope(u, s)) /\ InScope(u, s) \subseteq Row
  <2>1. InScope(u, s) \subseteq assigned
    BY DEF InScope
  <2> QED
    BY <2>1, FitFacts, BaseFacts, FS_Subset
<1>3. order \in Seq(Row) /\ \A row \in InScope(u, s) : \E i \in DOMAIN order : row = order[i]
  BY <1>2, OrderFacts, OrderCovers
<1> DEFINE k == Changing(u, role, s, order)
<1>4. /\ k \in TaskState /\ k.op = "change" /\ k.step = "find" /\ k.user = u
      /\ k.scope = s /\ k.order = order /\ k.row = None
  BY <1>3, ChangeFacts
<1>5. Starts(t, k)
  BY <1>1
<1> HIDE DEF k
<1> QED
  BY <1>3, <1>4, <1>5, StartsFit

LEMMA FindFits ==
    ASSUME Fit, Base', NEW t \in Task, Find(t)
    PROVE  Fit'
<1>a. /\ UNCHANGED <<trace, others, assigned, tx>>
      /\ task[t].step = "find" /\ task[t].op \in {"assign", "remove"}
  BY DEF Find, history, accountVars, rowVars
<1>b. Told(t)
  BY FitFacts
<1>1. ASSUME Reply(t, 400) PROVE Fit'
  BY <1>1, <1>a, RefusedFits
<1>2. ASSUME \A o \in Task \ {t} : task'[o] = task[o],
             task'[t].op = task[t].op, task'[t].step = "write"
      PROVE  Fit'
  <2>1. Told(t)' /\ Seen(t)' /\ ~Pending(t)'
    BY <1>2, <1>a, <1>b DEF Told, Seen, Pending
  <2> QED
    BY <2>1, <1>2, <1>a, SlotFits
<1>3. ASSUME On(t, "write") PROVE Fit'
  <2>1. /\ \A o \in Task \ {t} : task'[o] = task[o]
        /\ task'[t].op = task[t].op /\ task'[t].step = "write"
    BY <1>3, FitFacts, BaseFacts, OnFacts
  <2> QED
    BY <2>1, <1>2
<1>4. ASSUME NEW row \in assigned,
             task' = [task EXCEPT ![t] = [@ EXCEPT !.step = "write", !.row = row]]
      PROVE  Fit'
  <2>1. /\ \A o \in Task \ {t} : task'[o] = task[o]
        /\ task'[t].op = task[t].op /\ task'[t].step = "write"
    BY <1>4, FitFacts, BaseFacts, RowFacts
  <2> QED
    BY <2>1, <1>2
<1> QED
  BY <1>1, <1>3, <1>4 DEF Find

\* Every row there is has an id below nextRow, so has every row of an open transaction.
LEMMA NewIsFresh ==
    ASSUME Fit, NEW row \in Row, row.id = nextRow
    PROVE  /\ row \notin assigned
           /\ \A r \in Request : row \notin tx[r].rows
           /\ \A o \in Task : task[o].row # None => task[o].row # row
<1>1. nextRow \in Nat
  BY FitFacts, BaseFacts
<1>2. row \notin assigned
  BY <1>1, FitFacts, BaseFacts
<1>3. ASSUME NEW r \in Request PROVE row \notin tx[r].rows
  <2>1. TxInv(r)
    BY FitFacts, BaseFacts DEF AccountsInv
  <2>2. \A x \in tx[r].rows : x.id < nextRow
    BY <2>1, NoTxType DEF TxInv
  <2> QED
    BY <2>2, <1>1
<1>4. ASSUME NEW o \in Task, task[o].row # None PROVE task[o].row # row
  <2>1. task[o].row.id < nextRow
    BY <1>4, FitFacts DEF TaskInv
  <2> QED
    BY <2>1, <1>1
<1> QED
  BY <1>2, <1>3, <1>4

\* Slot t has committed a row, which every other changeRole sees come.
LEMMA InsertFits ==
    ASSUME Fit, Base', NEW t \in Task, NEW row \in Row,
           \A o \in Task \ {t} : task'[o] = task[o] /\ trace'[o] = trace[o],
           \A o \in Task : others'[o] = others[o] \cup {row},
           assigned' \subseteq assigned \cup {row}, UNCHANGED tx,
           \A o \in Task \ {t} : Pending(o) => task[o].row # row,
           Told(t)', Seen(t)', ~Pending(t)'
    PROVE  Fit'
<1>1. ASSUME NEW o \in Task \ {t} PROVE Told(o)'
  BY <1>1, FitFacts DEF Told
<1>2. ASSUME NEW o \in Task \ {t} PROVE Seen(o)'
  <2>1. Seen(o) /\ task'[o] = task[o] /\ others'[o] = others[o] \cup {row}
    BY <1>2, FitFacts
  <2>2. ASSUME NEW x \in InScope(task[o].user, task[o].scope)'
        PROVE  x \in InScope(task[o].user, task[o].scope) \/ x = row
    BY <2>2, <2>1 DEF InScope
  <2>3. ASSUME task[o].op = "change", task[o].answer # 400,
               NEW x \in assigned', x.user = task[o].user, task[o].scope \in {x.scope, Global}
        PROVE  \/ x \in others'[o] \/ x \in task[o].dropped
               \/ \E i \in DOMAIN task[o].order : x = task[o].order[i]
    <3>1. CASE x = row
      BY <3>1, <2>1
    <3>2. CASE x # row
      <4>1. x \in InScope(task[o].user, task[o].scope)
        BY <3>2, <2>3 DEF InScope
      <4> QED
        BY <4>1, <2>1, <2>3 DEF Seen
    <3> QED
      BY <3>1, <3>2
  <2> QED
    BY <2>1, <2>3 DEF Seen, InScope
<1>3. ASSUME NEW o \in Task \ {t} PROVE Fresh(o)'
  <2>1. Fresh(o) /\ (Pending(o)' <=> Pending(o)) /\ task'[o] = task[o]
    BY <1>3, FitFacts DEF Pending
  <2>2. ASSUME NEW p \in Task \ {o}, Pending(p)', Pending(o)' PROVE task'[p].row # task'[o].row
    <3>1. p # t
      BY <2>2
    <3>2. Pending(p) /\ task'[p] = task[p]
      BY <2>2, <3>1 DEF Pending
    <3> QED
      BY <3>2, <2>1, <2>2 DEF Fresh
  <2>3. Pending(o)' => task[o].row \notin assigned'
    BY <2>1 DEF Fresh
  <2> QED
    BY <2>1, <2>2, <2>3 DEF Fresh
<1>4. Fresh(t)'
  BY DEF Fresh
<1> QED
  BY <1>1, <1>2, <1>3, <1>4 DEF Fit

LEMMA AssignWriteFits ==
    ASSUME Fit, Base', NEW t \in Task, AssignWrite(t)
    PROVE  Fit'
<1> DEFINE row == NewRow(task[t])
<1>a. /\ UNCHANGED tx /\ task[t].op = "assign" /\ task[t].step = "write"
  BY DEF AssignWrite, Doing
<1>b. row \in Row /\ row.id = nextRow
  BY <1>a, FitFacts, NewRowFacts
<1>c. Told(t) /\ HistoryType
  BY FitFacts, BaseFacts
<1>1. ASSUME assigned' = assigned \cup {row},
             task' = [task EXCEPT ![t] = [@ EXCEPT !.step = "audit", !.row = row]],
             Did(t, "written"), Inserted(row)
      PROVE  Fit'
  <2> HIDE DEF row
  <2>1. /\ \A o \in Task \ {t} : task'[o] = task[o]
        /\ task'[t].op = task[t].op /\ task'[t].step = "audit"
    BY <1>1, <1>b, FitFacts, BaseFacts, RowFacts
  <2>2. /\ trace'[t] = trace[t] \cup {"written"} /\ \A o \in Task \ {t} : trace'[o] = trace[o]
        /\ \A o \in Task : others'[o] = others[o] \cup {row}
    BY <1>1, <1>b, <1>c, DidType, InsertedType
  <2>3. Told(t)' /\ Seen(t)' /\ ~Pending(t)'
    BY <2>1, <2>2, <1>a, <1>c DEF Told, Seen, Pending
  <2>4. \A o \in Task \ {t} : Pending(o) => task[o].row # row
    BY <1>b, NewIsFresh DEF Pending
  <2> QED
    BY <2>1, <2>2, <2>3, <2>4, <1>1, <1>a, <1>b, InsertFits
<1>2. ASSUME Reply(t, 400), UNCHANGED <<assigned, nextRow, trace, others>>
      PROVE  Fit'
  BY <1>2, <1>a, RefusedFits
<1> QED
  BY <1>1, <1>2 DEF AssignWrite, NewRow

LEMMA RemoveWriteFits ==
    ASSUME Fit, Base', NEW t \in Task, RemoveWrite(t)
    PROVE  Fit'
<1>a. /\ UNCHANGED <<tx, others>> /\ task[t].op = "remove" /\ task[t].step = "write"
  BY DEF RemoveWrite, Doing
<1>b. Told(t) /\ HistoryType /\ task \in [Task -> TaskState] /\ task[t] \in TaskState
  BY FitFacts, BaseFacts
<1>1. ASSUME assigned' = assigned \ {task[t].row}, On(t, "audit"), Did(t, "written")
      PROVE  Fit'
  <2>1. task' = [task EXCEPT ![t] = [@ EXCEPT !.step = "audit"]]
    BY <1>1 DEF On
  <2> DEFINE k == [task[t] EXCEPT !.step = "audit"]
  <2>2. k.op = task[t].op /\ k.step = "audit"
    BY <1>b DEF TaskState
  <2>3. task' = [task EXCEPT ![t] = k]
    BY <2>1
  <2> HIDE DEF k
  <2>4. task'[t] = k /\ \A o \in Task \ {t} : task'[o] = task[o]
    BY <2>3, <1>b
  <2>5. trace'[t] = trace[t] \cup {"written"} /\ \A o \in Task \ {t} : trace'[o] = trace[o]
    BY <1>1, <1>b, DidType
  <2>6. Told(t)' /\ Seen(t)' /\ ~Pending(t)'
    BY <2>2, <2>4, <2>5, <1>a, <1>b DEF Told, Seen, Pending
  <2> QED
    BY <2>4, <2>5, <2>6, <1>1, <1>a, SlotFits
<1>2. ASSUME Reply(t, 400), UNCHANGED <<assigned, trace>>
      PROVE  Fit'
  BY <1>2, <1>a, RefusedFits
<1> QED
  BY <1>1, <1>2 DEF RemoveWrite

LEMMA ChangeFindFits ==
    ASSUME Fit, Base', NEW t \in Task, ChangeFind(t)
    PROVE  Fit'
<1>a. /\ UNCHANGED <<trace, others, assigned, tx>>
      /\ task[t].op = "change" /\ task[t].step = "find"
  BY DEF ChangeFind, Doing, history, accountVars, rowVars
<1>1. ASSUME Reply(t, 400) PROVE Fit'
  BY <1>1, <1>a, RefusedFits
<1>2. ASSUME NEW step \in {"insert", "drop"}, On(t, step) PROVE Fit'
  <2>1. /\ \A o \in Task \ {t} : task'[o] = task[o]
        /\ task'[t].op = task[t].op /\ task'[t].step = step /\ task'[t].user = task[t].user
        /\ task'[t].scope = task[t].scope
        /\ task'[t].order = task[t].order /\ task'[t].dropped = task[t].dropped
        /\ task'[t].row = task[t].row /\ task'[t].answer = task[t].answer
    BY <1>2, FitFacts, BaseFacts, OnFacts
  <2>2. Told(t) /\ Seen(t)
    BY FitFacts
  <2>3. Told(t)' /\ (Pending(t)' => Pending(t) /\ task'[t].row = task[t].row)
    BY <2>1, <2>2, <1>a DEF Told, Pending
  <2>4. Seen(t)'
    BY <2>1, <2>2, <1>a DEF Seen, InScope
  <2> QED
    BY <2>1, <2>3, <2>4, <1>a, SlotFits
<1>3. CASE \E i \in DOMAIN task[t].order : task[t].order[i].role = task[t].role
  BY <1>3, <1>1 DEF ChangeFind
<1>4. CASE ~\E i \in DOMAIN task[t].order : task[t].order[i].role = task[t].role
  <2>1. On(t, IF task[t].order = <<>> THEN "insert" ELSE "drop")
    BY <1>4 DEF ChangeFind
  <2>2. CASE task[t].order = <<>>
    BY <2>1, <2>2, <1>2
  <2>3. CASE task[t].order # <<>>
    BY <2>1, <2>3, <1>2
  <2> QED
    BY <2>2, <2>3
<1> QED
  BY <1>3, <1>4

LEMMA DropFits ==
    ASSUME Fit, Base', NEW t \in Task, Drop(t)
    PROVE  Fit'
<1>a. /\ UNCHANGED <<trace, others, assigned, tx>>
      /\ task[t].op = "change" /\ task[t].step = "drop"
  BY DEF Drop, Doing, history, accountVars, rowVars
<1>1. ASSUME Reply(t, 400) PROVE Fit'
  BY <1>1, <1>a, RefusedFits
<1>2. ASSUME task' = [task EXCEPT ![t] = [@ EXCEPT
                    !.order = Tail(task[t].order),
                    !.dropped = task[t].dropped \cup {Head(task[t].order)},
                    !.step = IF Tail(task[t].order) = <<>> THEN "insert" ELSE "drop"]]
      PROVE  Fit'
  <2> DEFINE row == Head(task[t].order)
             rest == Tail(task[t].order)
  <2>1. /\ \A o \in Task \ {t} : task'[o] = task[o]
        /\ task'[t].op = task[t].op /\ task'[t].user = task[t].user
        /\ task'[t].step \in {"insert", "drop"}
        /\ task'[t].scope = task[t].scope
        /\ task'[t].order = rest /\ task'[t].dropped = task[t].dropped \cup {row}
        /\ task'[t].row = task[t].row /\ task'[t].answer = task[t].answer
        /\ \A i \in DOMAIN task[t].order :
                task[t].order[i] = row \/ \E j \in DOMAIN rest : task[t].order[i] = rest[j]
    BY <1>2, <1>a, FitFacts, DropFacts
  <2> HIDE DEF row, rest
  <2>2. Told(t) /\ Seen(t)
    BY FitFacts
  <2>3. Told(t)' /\ (Pending(t)' => Pending(t) /\ task'[t].row = task[t].row)
    BY <2>1, <2>2, <1>a DEF Told, Pending
  <2>4. Seen(t)'
    <3>1. ASSUME task[t].answer # 400, NEW x \in InScope(task[t].user, task[t].scope)
          PROVE  \/ x \in others'[t] \/ x \in task'[t].dropped
                 \/ \E i \in DOMAIN task'[t].order : x = task'[t].order[i]
      <4>1. \/ x \in others[t] \/ x \in task[t].dropped
            \/ \E i \in DOMAIN task[t].order : x = task[t].order[i]
        BY <3>1, <2>2, <1>a DEF Seen
      <4> QED
        BY <4>1, <2>1, <1>a
    <3> QED
      BY <3>1, <2>1, <1>a DEF Seen, InScope
  <2> QED
    BY <2>1, <2>3, <2>4, <1>a, SlotFits
<1> QED
  BY <1>1, <1>2 DEF Drop

\* The row a changeRole inserts is nobody else's.
LEMMA ChangeInsertFits ==
    ASSUME Fit, Base', NEW t \in Task, ChangeInsert(t)
    PROVE  Fit'
<1> DEFINE row == NewRow(task[t])
<1>a. /\ UNCHANGED <<trace, others, assigned, tx>>
      /\ task[t].op = "change" /\ task[t].step = "insert"
  BY DEF ChangeInsert, Doing, history
<1>b. row \in Row /\ row.id = nextRow
  BY <1>a, FitFacts, NewRowFacts
<1>1. ASSUME task' = [task EXCEPT ![t] = [@ EXCEPT !.step = "audit", !.row = row]]
      PROVE  Fit'
  <2> HIDE DEF row
  <2>1. /\ \A o \in Task \ {t} : task'[o] = task[o]
        /\ task'[t].op = task[t].op /\ task'[t].step = "audit" /\ task'[t].user = task[t].user
        /\ task'[t].scope = task[t].scope
        /\ task'[t].order = task[t].order /\ task'[t].dropped = task[t].dropped
        /\ task'[t].row = row /\ task'[t].answer = task[t].answer
    BY <1>1, <1>b, FitFacts, BaseFacts, RowFacts
  <2>2. /\ row \notin assigned /\ \A r \in Request : row \notin tx[r].rows
        /\ \A o \in Task : task[o].row # None => task[o].row # row
    BY <1>b, NewIsFresh
  <2>3. ASSUME NEW o \in Task \ {t} PROVE Told(o)' /\ Seen(o)'
    BY <2>1, <2>3, <1>a, FitFacts DEF Told, Seen, InScope
  <2>4. ASSUME NEW o \in Task \ {t} PROVE Fresh(o)'
    <3>1. Fresh(o) /\ (Pending(o)' <=> Pending(o)) /\ task'[o] = task[o]
      BY <2>1, <2>4, FitFacts DEF Pending
    <3>2. ASSUME NEW p \in Task \ {o}, Pending(p)', Pending(o)'
          PROVE  task'[p].row # task'[o].row
      <4>1. CASE p = t
        BY <4>1, <3>1, <3>2, <2>1, <2>2 DEF Pending
      <4>2. CASE p # t
        <5>1. Pending(p) /\ task'[p] = task[p]
          BY <4>2, <3>2, <2>1 DEF Pending
        <5> QED
          BY <5>1, <3>1, <3>2 DEF Fresh
      <4> QED
        BY <4>1, <4>2
    <3> QED
      BY <3>1, <3>2, <1>a DEF Fresh
  <2>5. Told(t) /\ Seen(t)
    BY FitFacts
  <2>6. Told(t)'
    BY <2>1, <2>5, <1>a DEF Told
  <2>7. Seen(t)'
    BY <2>1, <2>5, <1>a DEF Seen, InScope
  <2>8. Fresh(t)'
    <3>1. ASSUME NEW p \in Task \ {t}, Pending(p)' PROVE task'[p].row # task'[t].row
      BY <3>1, <2>1, <2>2 DEF Pending
    <3> QED
      BY <3>1, <2>1, <2>2, <1>a DEF Fresh
  <2> QED
    BY <2>3, <2>4, <2>6, <2>7, <2>8 DEF Fit
<1>2. ASSUME Reply(t, 400) PROVE Fit'
  BY <1>2, <1>a, RefusedFits
<1> QED
  BY <1>1, <1>2 DEF ChangeInsert, NewRow

LEMMA TimeOutFits ==
    ASSUME Fit, Base', NEW t \in Task, TimeOut(t)
    PROVE  Fit'
<1>1. /\ UNCHANGED <<trace, others, assigned, tx>> /\ Reply(t, 400)
      /\ task[t].op = "change" /\ task[t].step \in {"drop", "insert"}
  BY DEF TimeOut, Doing, history, accountVars, rowVars
<1> QED
  BY <1>1, RefusedFits

LEMMA ChangeCommitFits ==
    ASSUME Fit, Base', NEW t \in Task, ChangeCommit(t)
    PROVE  Fit'
<1>a. /\ UNCHANGED tx
      /\ task[t].op = "change" /\ task[t].step = "commit" /\ Reply(t, 200)
      /\ assigned' = (assigned \ task[t].dropped) \cup {task[t].row}
      /\ Did(t, "written") /\ Inserted(task[t].row)
  BY DEF ChangeCommit, Doing
<1>b. TaskInv(t) /\ Told(t) /\ Seen(t) /\ Fresh(t) /\ HistoryType
  BY FitFacts, BaseFacts
<1>c. /\ task[t].row \in Row /\ task[t].row # None /\ task[t].order = <<>>
      /\ task[t].answer = 0
  BY <1>a, <1>b, RolesAssumption DEF TaskInv, Shape, Data
<1>1. /\ \A o \in Task \ {t} : task'[o] = task[o]
      /\ task'[t].op = task[t].op /\ task'[t].step = "done" /\ task'[t].user = task[t].user
      /\ task'[t].scope = task[t].scope
      /\ task'[t].row = task[t].row /\ task'[t].answer = 200
  BY <1>a, FitFacts, BaseFacts, ReplyFacts
<1>2. /\ trace'[t] = trace[t] \cup {"written"} /\ \A o \in Task \ {t} : trace'[o] = trace[o]
      /\ \A o \in Task : others'[o] = others[o] \cup {task[t].row}
  BY <1>a, <1>b, <1>c, DidType, InsertedType
<1>3. Told(t)' /\ ~Pending(t)'
  BY <1>1, <1>2, <1>a, <1>b DEF Told, Pending
<1>4. Seen(t)'
  <2>1. ASSUME NEW x \in assigned', x.user = task[t].user, task[t].scope \in {x.scope, Global}
        PROVE  x \in others'[t]
    <3>1. CASE x = task[t].row
      BY <3>1, <1>2
    <3>2. CASE x # task[t].row
      <4>1. x \in InScope(task[t].user, task[t].scope) /\ x \notin task[t].dropped
        BY <3>2, <2>1, <1>a DEF InScope
      <4>2. DOMAIN task[t].order = {}
        BY <1>c
      <4> QED
        BY <4>1, <4>2, <1>2, <1>a, <1>b, <1>c DEF Seen
    <3> QED
      BY <3>1, <3>2
  <2> QED
    BY <2>1, <1>1 DEF Seen, InScope
<1>5. \A o \in Task \ {t} : Pending(o) => task[o].row # task[t].row
  BY <1>a, <1>b, <1>c DEF Fresh, Pending
<1>6. assigned' \subseteq assigned \cup {task[t].row}
  BY <1>a
<1> QED
  BY <1>1, <1>2, <1>3, <1>4, <1>5, <1>6, <1>a, <1>c, InsertFits

LEMMA AuditRoleFits ==
    ASSUME Fit, Base', NEW t \in Task, AuditRole(t)
    PROVE  Fit'
<1>a. UNCHANGED <<others, assigned, tx>> /\ task[t].step = "audit"
  BY DEF AuditRole, accountVars, rowVars
<1>1. ASSUME Fails(t) PROVE Fit'
  BY <1>1, <1>a, FailedFits
<1>2. ASSUME On(t, "members"), Did(t, "logged") PROVE Fit'
  <2>1. /\ \A o \in Task \ {t} : task'[o] = task[o]
        /\ task'[t].op = task[t].op /\ task'[t].step = "members" /\ task'[t].user = task[t].user
        /\ task'[t].scope = task[t].scope
        /\ task'[t].order = task[t].order /\ task'[t].dropped = task[t].dropped
        /\ task'[t].row = task[t].row /\ task'[t].answer = task[t].answer
    BY <1>2, FitFacts, BaseFacts, OnFacts
  <2>2. Told(t) /\ Seen(t) /\ HistoryType
    BY FitFacts, BaseFacts
  <2>3. trace'[t] = trace[t] \cup {"logged"} /\ \A o \in Task \ {t} : trace'[o] = trace[o]
    BY <1>2, <2>2, DidType
  <2>4. Told(t)' /\ (Pending(t)' => Pending(t) /\ task'[t].row = task[t].row)
    BY <2>1, <2>2, <2>3, <1>a DEF Told, Pending
  <2>5. Seen(t)'
    BY <2>1, <2>2, <1>a DEF Seen, InScope
  <2> QED
    BY <2>1, <2>3, <2>4, <2>5, <1>a, SlotFits
<1> QED
  BY <1>1, <1>2 DEF AuditRole

LEMMA TaskFaultFits ==
    ASSUME Fit, Base', NEW t \in Task, TaskFault(t)
    PROVE  Fit'
<1>1. UNCHANGED <<others, assigned, tx>> /\ task[t].step \notin {"idle", "done"} /\ Fails(t)
  BY DEF TaskFault, rowVars
<1> QED
  BY <1>1, FailedFits

LEMMA ReadMembersFits ==
    ASSUME Fit, Base', NEW t \in Task, ReadMembers(t)
    PROVE  Fit'
<1>a. UNCHANGED <<trace, others, assigned, tx>> /\ task[t].step = "members"
  BY DEF ReadMembers, accountVars, rowVars
<1>1. /\ \A o \in Task \ {t} : task'[o] = task[o]
      /\ task'[t].op = task[t].op /\ task'[t].step = "clear" /\ task'[t].user = task[t].user
      /\ task'[t].scope = task[t].scope
      /\ task'[t].order = task[t].order /\ task'[t].dropped = task[t].dropped
      /\ task'[t].row = task[t].row /\ task'[t].answer = task[t].answer
  BY FitFacts, MembersFacts
<1>2. Told(t) /\ Seen(t)
  BY FitFacts
<1>3. Told(t)' /\ (Pending(t)' => Pending(t) /\ task'[t].row = task[t].row)
  BY <1>1, <1>2, <1>a DEF Told, Pending
<1>4. Seen(t)'
  BY <1>1, <1>2, <1>a DEF Seen, InScope
<1> QED
  BY <1>1, <1>3, <1>4, <1>a, SlotFits

LEMMA ClearFits ==
    ASSUME Fit, Base', NEW t \in Task, Clear(t)
    PROVE  Fit'
<1>a. UNCHANGED <<trace, others, assigned, tx>> /\ task[t].step = "clear"
  BY DEF Clear, accountVars, rowVars
<1>1. /\ \A o \in Task \ {t} : task'[o] = task[o]
      /\ task'[t].op = task[t].op /\ task'[t].user = task[t].user
      /\ task'[t].scope = task[t].scope
      /\ task'[t].order = task[t].order /\ task'[t].dropped = task[t].dropped
      /\ task'[t].row = task[t].row
      /\ \/ task'[t].step = "clear" /\ task'[t].answer = 0
         \/ task[t].op = "change" /\ task'[t].step = "commit" /\ task'[t].answer = 0
         \/ task[t].op # "change" /\ task'[t].step = "done" /\ task'[t].answer = 200
  BY FitFacts, ClearFacts
<1>2. Told(t) /\ Seen(t) /\ task[t].answer = 0
  BY <1>a, FitFacts DEF TaskInv, Shape, Data
<1>3. Told(t)' /\ (Pending(t)' => Pending(t) /\ task'[t].row = task[t].row)
  BY <1>1, <1>2, <1>a DEF Told, Pending
<1>4. Seen(t)'
  BY <1>1, <1>2, <1>a DEF Seen, InScope
<1> QED
  BY <1>1, <1>3, <1>4, <1>a, SlotFits

\* A check of permissions neither writes nor replaces a role.
LEMMA CheckingFits ==
    ASSUME Fit, Base', NEW t \in Task, ReadRoles(t) \/ ReadOwner(t) \/ Set(t)
    PROVE  Fit'
<1>a. /\ UNCHANGED <<trace, others, assigned, tx>>
      /\ task[t].op \in {"list", "answer"}
  <2>1. /\ UNCHANGED <<trace, others, assigned, tx>>
        /\ task[t].step \in {"roles", "owner", "set"}
    BY DEF ReadRoles, ReadOwner, Set, accountVars, rowVars, history
  <2>2. TaskInv(t) /\ task[t] \in TaskState
    BY FitFacts, BaseFacts
  <2> QED
    BY <2>1, <2>2 DEF TaskInv, Shape, Control, TaskState
<1>1. (\A o \in Task \ {t} : task'[o] = task[o]) /\ task'[t].op = task[t].op
  <2>1. ASSUME ReadRoles(t) \/ ReadOwner(t)
        PROVE  (\A o \in Task \ {t} : task'[o] = task[o]) /\ task'[t].op = task[t].op
    BY <2>1, FitFacts, ReadFacts
  <2>2. ASSUME Set(t)
        PROVE  (\A o \in Task \ {t} : task'[o] = task[o]) /\ task'[t].op = task[t].op
    BY <2>2, FitFacts, BaseFacts, ReplyFacts DEF Set
  <2> QED
    BY <2>1, <2>2
<1>2. Told(t)' /\ Seen(t)' /\ ~Pending(t)'
  BY <1>1, <1>a DEF Told, Seen, Pending
<1> QED
  BY <1>1, <1>2, <1>a, SlotFits

\* What sign-up does to role assignments: a Commit makes those of its transaction visible,
\* AssignDefault takes a new id.
LEMMA SignUpRows ==
    ASSUME AccountsInv, SignUp
    PROVE  /\ \A x \in assigned' : x \in assigned \/ \E r \in Request : x \in tx[r].rows
           /\ \A q \in Request : \A x \in tx'[q].rows : x \in tx[q].rows \/ x.id = nextRow
<1>1. tx \in [Request -> TxState] /\ NoTx.rows = {}
  BY NoTxType DEF AccountsInv, AccountsTypeOK
<1>2. PICK r \in Request :
        \/ \E e \in Email : Register(r, e) \/ CreateUser(r, e)
        \/ \E i \in Identity : OAuth(r, i)
        \/ FindEmail(r) \/ InsertUser(r) \/ InsertLink(r) \/ AssignDefault(r) \/ Commit(r)
        \/ LinkExisting(r) \/ Audit(r) \/ CreateSession(r) \/ Fault(r)
  BY DEF SignUp
<1> DEFINE Fewer == \A q \in Request : tx'[q].rows \subseteq tx[q].rows
<1>3. ASSUME tx' = [tx EXCEPT ![r] = NoTx] \/ UNCHANGED tx PROVE Fewer
  BY <1>1, <1>3
<1>4. ASSUME UNCHANGED assigned, Fewer
      PROVE  /\ \A x \in assigned' : x \in assigned \/ \E q \in Request : x \in tx[q].rows
             /\ \A q \in Request : \A x \in tx'[q].rows : x \in tx[q].rows \/ x.id = nextRow
  BY <1>4
<1>5. ASSUME NEW e \in Email, Register(r, e) \/ CreateUser(r, e)
      PROVE  UNCHANGED assigned /\ Fewer
  BY <1>3, <1>5 DEF Register, CreateUser, Takes, rowVars
<1>6. ASSUME NEW i \in Identity, OAuth(r, i) PROVE UNCHANGED assigned /\ Fewer
  BY <1>3, <1>6 DEF OAuth, Takes, rowVars
<1>7. ASSUME FindEmail(r) \/ CreateSession(r) \/ Fault(r) PROVE UNCHANGED assigned /\ Fewer
  BY <1>3, <1>7 DEF FindEmail, CreateSession, Fault, Rollback, rowVars
<1>8. ASSUME LinkExisting(r) \/ Audit(r) PROVE UNCHANGED assigned /\ Fewer
  BY <1>3, <1>8 DEF LinkExisting, Audit, Rollback
<1>9. ASSUME InsertUser(r) \/ InsertLink(r) PROVE UNCHANGED assigned /\ Fewer
  <2>1. UNCHANGED assigned
    BY <1>9 DEF InsertUser, InsertLink, rowVars
  <2>2. ASSUME NEW u, tx' = [tx EXCEPT ![r].user = u] PROVE Fewer
    BY <2>2, <1>1 DEF TxState
  <2>3. ASSUME NEW i, tx' = [tx EXCEPT ![r].identity = i] PROVE Fewer
    BY <2>3, <1>1 DEF TxState
  <2> QED
    BY <2>1, <2>2, <2>3, <1>3, <1>9 DEF InsertUser, InsertLink, Rollback
<1>10. ASSUME AssignDefault(r)
       PROVE  UNCHANGED assigned /\ \A q \in Request : \A x \in tx'[q].rows :
                                        x \in tx[q].rows \/ x.id = nextRow
  <2>1. UNCHANGED assigned
    BY <1>10 DEF AssignDefault
  <2>2. ASSUME NEW role,
               tx' = [tx EXCEPT ![r].rows = {[id |-> nextRow, user |-> req[r].user,
                                              role |-> role, scope |-> Global]}]
        PROVE  \A q \in Request : \A x \in tx'[q].rows : x \in tx[q].rows \/ x.id = nextRow
    <3> DEFINE new == [id |-> nextRow, user |-> req[r].user, role |-> role, scope |-> Global]
    <3>1. new.id = nextRow
      OBVIOUS
    <3> HIDE DEF new
    <3>2. tx' = [tx EXCEPT ![r].rows = {new}]
      BY <2>2 DEF new
    <3>3. tx'[r].rows = {new} /\ \A q \in Request \ {r} : tx'[q] = tx[q]
      BY <3>2, <1>1 DEF TxState
    <3> QED
      BY <3>1, <3>3
  <2> QED
    BY <2>1, <2>2, <1>10 DEF AssignDefault
<1>11. ASSUME Commit(r)
       PROVE  /\ \A x \in assigned' : x \in assigned \/ \E q \in Request : x \in tx[q].rows
              /\ Fewer
  BY <1>3, <1>11 DEF Commit
<1> QED
  BY <1>2, <1>4, <1>5, <1>6, <1>7, <1>8, <1>9, <1>10, <1>11

\* The user of a transaction is known to no task, so the default role is none of those a
\* changeRole replaces.
LEMMA SignUpFits ==
    ASSUME Fit, Base', SignUp, UNCHANGED <<tenantRows, cache, task, history, changes>>
    PROVE  Fit'
<1>a. /\ \A x \in assigned' : x \in assigned \/ \E r \in Request : x \in tx[r].rows
      /\ \A q \in Request : \A x \in tx'[q].rows : x \in tx[q].rows \/ x.id = nextRow
  BY FitFacts, BaseFacts, SignUpRows
<1>b. UNCHANGED <<trace, others>>
  BY DEF history
<1>1. ASSUME NEW o \in Task PROVE Told(o)'
  BY <1>1, <1>b, FitFacts DEF Told
<1>2. ASSUME NEW o \in Task PROVE Seen(o)'
  <2>1. ASSUME task[o].op = "change", task[o].answer # 400,
               NEW x \in assigned', x.user = task[o].user, task[o].scope \in {x.scope, Global}
        PROVE  x \in InScope(task[o].user, task[o].scope)
    <3>1. Known(task[o].user)
      BY <2>1, FitFacts DEF TaskInv
    <3>2. ASSUME NEW r \in Request, x \in tx[r].rows PROVE FALSE
      <4>1. TxInv(r)
        BY FitFacts, BaseFacts DEF AccountsInv
      <4>2. tx[r].user # None
        BY <3>2, <4>1, NoTxType DEF TxInv
      <4>3. x.user = tx[r].user /\ user[tx[r].user].state = "absent"
        BY <3>2, <4>1, <4>2 DEF TxInv
      <4> QED
        BY <4>3, <3>1, <2>1 DEF Known
    <3> QED
      BY <3>2, <2>1, <1>a DEF InScope
  <2>2. Seen(o)
    BY FitFacts
  <2> QED
    BY <2>1, <2>2, <1>b DEF Seen, InScope
<1>3. ASSUME NEW o \in Task PROVE Fresh(o)'
  <2>1. Fresh(o) /\ TaskInv(o) /\ nextRow \in Nat
    BY FitFacts, BaseFacts
  <2>2. ASSUME Pending(o) PROVE task[o].row.id # nextRow
    BY <2>1, <2>2 DEF TaskInv, Pending
  <2>3. ASSUME Pending(o) PROVE task[o].row \notin assigned'
    BY <2>1, <2>3, <1>a DEF Fresh
  <2>4. ASSUME Pending(o), NEW r \in Request PROVE task[o].row \notin tx'[r].rows
    BY <2>1, <2>2, <2>4, <1>a DEF Fresh
  <2>5. \A p \in Task : Pending(p)' <=> Pending(p)
    BY DEF Pending
  <2> QED
    BY <2>1, <2>3, <2>4, <2>5 DEF Fresh
<1> QED
  BY <1>1, <1>2, <1>3 DEF Fit

LEMMA DirectFits ==
    ASSUME Fit, Base',
           \/ \E k \in Key : Expire(k)
           \/ \E u \in User, e \in Email, super \in BOOLEAN : WriteUser(u, e, super)
           \/ \E u \in User : DeleteUser(u)
           \/ \E u \in User, w \in Workspace : WriteMember(u, w)
           \/ \E w \in Workspace : DeleteWorkspace(w)
    PROVE  Fit'
<1>1. UNCHANGED <<task, trace, others, tx>> /\ assigned' \subseteq assigned
  BY DEF Expire, WriteUser, DeleteUser, WriteMember, DeleteWorkspace, Directly, UpdateUser,
         RemoveUser, accountVars, rowVars
<1> QED
  BY <1>1, RowsFit

LEMMA StartFits == Init => Fit
<1> SUFFICES ASSUME Init PROVE Fit
  OBVIOUS
<1>1. ASSUME NEW t \in Task PROVE Told(t) /\ Fresh(t) /\ Seen(t)
  <2>1. task[t] = Free
    BY DEF Init
  <2> QED
    BY <2>1, FreeFields DEF Told, Fresh, Seen, Pending
<1> QED
  BY <1>1, StartBase DEF Fit

LEMMA NextFits == Fit /\ [Next]_vars => Fit'
<1> SUFFICES ASSUME Fit, [Next]_vars PROVE Fit'
  OBVIOUS
<1>a. Base'
  BY FitFacts, NextBase
<1>1. ASSUME NEW t \in Task, NEW u \in User, NEW role \in Role, NEW s \in Scope,
             Assign(t, u, role, s) \/ Remove(t, u, role, s) \/ Change(t, u, role, s)
      PROVE  Fit'
  BY <1>1, <1>a, AssignFits, ChangeFits
<1>2. ASSUME NEW t \in Task, NEW kind \in {"list", "answer"}, NEW u \in User, NEW s \in Scope,
             Check(t, kind, u, s)
      PROVE  Fit'
  BY <1>2, <1>a, CheckFits
<1>3. ASSUME NEW t \in Task,
             Find(t) \/ AssignWrite(t) \/ RemoveWrite(t) \/ ChangeFind(t) \/ Drop(t)
      PROVE  Fit'
  BY <1>3, <1>a, FindFits, AssignWriteFits, RemoveWriteFits, ChangeFindFits, DropFits
<1>4. ASSUME NEW t \in Task,
             ChangeInsert(t) \/ TimeOut(t) \/ ChangeCommit(t) \/ AuditRole(t) \/ ReadMembers(t)
      PROVE  Fit'
  BY <1>4, <1>a, ChangeInsertFits, TimeOutFits, ChangeCommitFits, AuditRoleFits, ReadMembersFits
<1>5. ASSUME NEW t \in Task, Clear(t) \/ TaskFault(t) \/ ReadRoles(t) \/ ReadOwner(t) \/ Set(t)
      PROVE  Fit'
  BY <1>5, <1>a, ClearFits, TaskFaultFits, CheckingFits
<1>6. ASSUME NEW k \in Key, Expire(k) PROVE Fit'
  BY <1>6, <1>a, DirectFits
<1>7. ASSUME NEW u \in User,
             \/ \E e \in Email, super \in BOOLEAN : WriteUser(u, e, super)
             \/ DeleteUser(u)
             \/ \E w \in Workspace : WriteMember(u, w)
      PROVE  Fit'
  BY <1>7, <1>a, DirectFits
<1>8. ASSUME NEW w \in Workspace, DeleteWorkspace(w) PROVE Fit'
  BY <1>8, <1>a, DirectFits
<1>9. ASSUME SignUp, UNCHANGED <<tenantRows, cache, task, history, changes>> PROVE Fit'
  BY <1>9, <1>a, SignUpFits
<1>10. ASSUME UNCHANGED vars PROVE Fit'
  <2>1. UNCHANGED <<task, trace, others, assigned, tx>>
    BY <1>10 DEF vars, history, accountVars, rowVars
  <2> QED
    BY <2>1, <1>a, RowsFit
<1> QED
  BY <1>1, <1>2, <1>3, <1>4, <1>5, <1>6, <1>7, <1>8, <1>9, <1>10 DEF Next

LEMMA FitReplaces == Fit => ChangeReplaces
<1> SUFFICES ASSUME Fit, NEW t \in Task, task[t].op = "change", task[t].answer = 200
             PROVE  InScope(task[t].user, task[t].scope) \subseteq others[t]
  BY DEF ChangeReplaces
<1>1. Shape(task[t]) /\ Seen(t) /\ task[t] \in TaskState
  BY FitFacts, BaseFacts DEF TaskInv
<1>2. task[t].step = "done"
  BY <1>1 DEF Shape, Control, Data
<1>3. task[t].order = <<>> /\ task[t].dropped = {}
  BY <1>1, <1>2 DEF Shape, Data
<1>4. DOMAIN task[t].order = {}
  BY <1>3
<1> QED
  BY <1>1, <1>3, <1>4 DEF Seen

LEMMA FitTells == Fit => OutcomeMatchesRows
<1> SUFFICES ASSUME Fit, NEW t \in Task, task[t].op \in {"assign", "remove", "change"},
                    task[t].step = "done"
             PROVE  /\ task[t].answer = 200 => {"written", "logged"} \subseteq trace[t]
                    /\ task[t].answer = 400 /\ "failed" \notin trace[t] => trace[t] = {}
                    /\ task[t].answer = 400 /\ task[t].op = "change" =>
                            "written" \notin trace[t] /\ task[t].row \notin assigned
  BY DEF OutcomeMatchesRows
<1>1. Told(t) /\ Fresh(t)
  BY FitFacts
<1>2. None \notin assigned
  BY FitFacts, BaseFacts, RolesAssumption
<1>3. task[t].answer = 400 /\ task[t].op = "change" => task[t].row \notin assigned
  BY <1>1, <1>2 DEF Fresh, Pending
<1> QED
  BY <1>1, <1>3 DEF Told

-----------------------------------------------------------------------------
(* The cache *)

Good(k) == excuse[k] # {} \/ \E t \in Task : ClearsYet(t, k)

Settled == Fit /\ CacheAgrees

LEMMA SettledFacts ==
    ASSUME Settled
    PROVE  /\ Fit /\ Base /\ HistoryType /\ CacheType /\ CacheAgrees
           /\ \A t \in Task : Told(t) /\ TaskInv(t)
           /\ \A k \in Key : Stale(k) => Good(k)
<1>1. Fit /\ CacheAgrees
  BY DEF Settled
<1>2. \A k \in Key : Stale(k) => Good(k)
  BY <1>1 DEF CacheAgrees, Good
<1> QED
  BY <1>1, <1>2, FitFacts, BaseFacts

\* Only the rows of its own user make an entry.
LEMMA CurrentSame ==
    ASSUME NEW k \in Key, UNCHANGED owned, user'[k.user] = user[k.user],
           \A x : x.user = k.user => (x \in assigned' <=> x \in assigned)
    PROVE  Current(k)' = Current(k)
<1> DEFINE u == k.user
           s == k.scope
<1>1. {x \in assigned' : x.user = u /\ x.scope \in {s, Global}}
        = {x \in assigned : x.user = u /\ x.scope \in {s, Global}}
  OBVIOUS
<1>2. List(u, s)' = List(u, s)
  BY <1>1 DEF List
<1> QED
  BY <1>2 DEF Current, ValueOf

LEMMA StaleSame ==
    ASSUME NEW k \in Key, cache'[k] = cache[k], Current(k)' = Current(k), Stale(k)'
    PROVE  Stale(k)
BY DEF Stale

LEMMA ExcuseFacts ==
    ASSUME NEW K, NEW cause, Excuse(K, cause), UNCHANGED cache, NEW k \in Key
    PROVE  /\ excuse[k] \subseteq excuse'[k]
           /\ k \in K /\ Stale(k)' => excuse'[k] # {}
BY DEF Excuse, Stale

\* Only slot t changes, and it still clears what it was to clear.
LEMMA GoodKeeps ==
    ASSUME NEW k \in Key, Good(k), excuse[k] \subseteq excuse'[k], NEW t \in Task,
           \A o \in Task \ {t} : task'[o] = task[o] /\ trace'[o] = trace[o],
           ClearsYet(t, k) => ClearsYet(t, k)' \/ excuse'[k] # {}
    PROVE  Good(k)'
<1>1. CASE excuse[k] # {}
  BY <1>1 DEF Good
<1>2. CASE \E o \in Task : ClearsYet(o, k)
  <2>1. PICK o \in Task : ClearsYet(o, k)
    BY <1>2
  <2>2. CASE o = t
    BY <2>1, <2>2 DEF Good
  <2>3. CASE o # t
    <3>1. ClearsYet(o, k)'
      BY <2>1, <2>3 DEF ClearsYet
    <3> QED
      BY <3>1 DEF Good
  <2> QED
    BY <2>2, <2>3
<1> QED
  BY <1>1, <1>2 DEF Good

\* A slot clears nothing before its write, and nothing once it is answered.
LEMMA StillClearing ==
    ASSUME Settled, NEW t \in Task, NEW k \in Key, ClearsYet(t, k)
    PROVE  /\ task[t].step \in {"audit", "members", "clear"} /\ "written" \in trace[t]
           /\ k.kind = "list" /\ k.user = task[t].user
           /\ task[t].step = "clear" => k.scope \in task[t].keys
BY SettledFacts DEF ClearsYet, TaskInv, Shape, Data

\* A step of a slot that is not about to clear, over the same rows and entries.
LEMMA QuietAgrees ==
    ASSUME Settled, NEW t \in Task,
           \A o \in Task \ {t} : task'[o] = task[o] /\ trace'[o] = trace[o],
           UNCHANGED <<user, assigned, owned, cache, excuse>>,
           task[t].step \notin {"audit", "members", "clear"}
    PROVE  CacheAgrees'
<1> SUFFICES ASSUME NEW k \in Key, Stale(k)' PROVE Good(k)'
  BY DEF CacheAgrees, Good
<1>1. Current(k)' = Current(k)
  BY CurrentSame
<1>2. Good(k)
  BY <1>1, StaleSame, SettledFacts
<1>3. ~ClearsYet(t, k)
  BY StillClearing
<1> QED
  BY <1>2, <1>3, GoodKeeps

\* A step that lets every entry that is stale after it be excused, but those of the lists
\* slot t is about to clear.
LEMMA ExcusedAgrees ==
    ASSUME Settled, NEW t \in Task, NEW K, NEW cause, Excuse(K, cause),
           \A o \in Task \ {t} : task'[o] = task[o] /\ trace'[o] = trace[o],
           UNCHANGED <<user, owned, cache>>,
           \A k \in Key : \A x : k \notin KeysOf(task[t].user) /\ x.user = k.user =>
                                (x \in assigned' <=> x \in assigned),
           \A k \in KeysOf(task[t].user) :
                \/ k \in K
                \/ ClearsYet(t, k)'
                \/ UNCHANGED assigned /\ ~ClearsYet(t, k)
    PROVE  CacheAgrees'
<1> SUFFICES ASSUME NEW k \in Key, Stale(k)' PROVE Good(k)'
  BY DEF CacheAgrees, Good
<1>1. excuse[k] \subseteq excuse'[k] /\ (k \in K => excuse'[k] # {})
  BY ExcuseFacts
<1>2. ASSUME Current(k)' = Current(k), ~ClearsYet(t, k) PROVE Good(k)'
  <2>1. Good(k)
    BY <1>2, StaleSame, SettledFacts
  <2> QED
    BY <2>1, <1>1, <1>2, GoodKeeps
<1>3. CASE k \notin KeysOf(task[t].user)
  <2>1. ~ClearsYet(t, k)
    BY <1>3, StillClearing DEF KeysOf
  <2>2. Current(k)' = Current(k)
    BY <1>3, CurrentSame
  <2> QED
    BY <2>1, <2>2, <1>2
<1>4. CASE k \in K
  BY <1>1, <1>4 DEF Good
<1>5. CASE ClearsYet(t, k)'
  BY <1>5 DEF Good
<1>6. CASE UNCHANGED assigned /\ ~ClearsYet(t, k)
  <2>1. Current(k)' = Current(k)
    BY <1>6, CurrentSame
  <2> QED
    BY <2>1, <1>2, <1>6
<1> QED
  BY <1>3, <1>4, <1>5, <1>6

LEMMA StartsAgree ==
    ASSUME Settled, NEW t \in Task, NEW k, Starts(t, k)
    PROVE  CacheAgrees'
<1>1. /\ task[t].step \in {"idle", "done"} /\ UNCHANGED <<rowVars, tenantRows, cache, excuse>>
      /\ task' = [task EXCEPT ![t] = k] /\ trace' = [trace EXCEPT ![t] = {}]
  BY DEF Starts
<1>2. \A o \in Task \ {t} : task'[o] = task[o] /\ trace'[o] = trace[o]
  BY <1>1, SettledFacts, BaseFacts DEF HistoryType
<1> QED
  BY <1>1, <1>2, QuietAgrees DEF rowVars, tenantRows

LEMMA BeginAgrees ==
    ASSUME Settled, NEW t \in Task, NEW u \in User, NEW s \in Scope,
           \/ \E role \in Role : Assign(t, u, role, s) \/ Remove(t, u, role, s)
                                 \/ Change(t, u, role, s)
           \/ \E kind \in {"list", "answer"} : Check(t, kind, u, s)
    PROVE  CacheAgrees'
<1>1. \E k : Starts(t, k)
  BY DEF Assign, Remove, Change, Check
<1> QED
  BY <1>1, StartsAgree

LEMMA QuietSteps ==
    ASSUME Settled, NEW t \in Task,
           \/ Find(t) \/ ChangeFind(t) \/ Drop(t) \/ ChangeInsert(t) \/ TimeOut(t)
           \/ ReadRoles(t) \/ ReadOwner(t)
    PROVE  CacheAgrees'
<1>1. /\ UNCHANGED <<user, assigned, owned, cache, excuse, trace>>
      /\ task[t].step \in {"find", "drop", "insert", "roles", "owner"}
  BY DEF Find, ChangeFind, Drop, ChangeInsert, TimeOut, ReadRoles, ReadOwner, Doing, accountVars,
         rowVars, tenantRows, history
<1>2. \A o \in Task \ {t} : task'[o] = task[o]
  <2>1. \E k : task' = [task EXCEPT ![t] = k]
    <3>1. CASE Find(t) \/ ChangeFind(t) \/ Drop(t)
      BY <3>1 DEF Find, ChangeFind, Drop, On, Reply
    <3>2. CASE ChangeInsert(t) \/ TimeOut(t)
      BY <3>2 DEF ChangeInsert, TimeOut, On, Reply
    <3>3. CASE ReadRoles(t) \/ ReadOwner(t)
      BY <3>3 DEF ReadRoles, ReadOwner, On, Reply
    <3> QED
      BY <3>1, <3>2, <3>3
  <2> QED
    BY <2>1, SettledFacts, BaseFacts
<1> QED
  BY <1>1, <1>2, QuietAgrees

LEMMA WritesAgree ==
    ASSUME Settled, NEW t \in Task, AssignWrite(t) \/ RemoveWrite(t)
    PROVE  CacheAgrees'
<1> DEFINE u == task[t].user
<1>1. /\ UNCHANGED <<user, owned, cache>> /\ task[t].step = "write"
      /\ task[t].op \in {"assign", "remove"}
  BY DEF AssignWrite, RemoveWrite, Doing, tenantRows
<1>2. TaskInv(t) /\ task[t] \in TaskState /\ task \in [Task -> TaskState]
  BY SettledFacts, BaseFacts
<1>3. Excuse(AnswersOf(u), "kept")
  <2>1. ASSUME RemoveWrite(t) PROVE task[t].row.user = u
    BY <2>1, <1>2 DEF RemoveWrite, Doing, TaskInv, Shape, Data
  <2> QED
    BY <2>1 DEF AssignWrite, RemoveWrite
<1>4. \A o \in Task \ {t} : task'[o] = task[o]
  <2>1. \E k : task' = [task EXCEPT ![t] = k]
    BY DEF AssignWrite, RemoveWrite, On, Reply
  <2> QED
    BY <2>1, <1>2
<1>5. \A o \in Task \ {t} : trace'[o] = trace[o]
  BY SettledFacts, DidType DEF AssignWrite, RemoveWrite
<1>6. \A x : x.user # u => (x \in assigned' <=> x \in assigned)
  <2>1. ASSUME AssignWrite(t) PROVE \A x : x.user # u => (x \in assigned' <=> x \in assigned)
    <3>1. task[t].op = "assign" /\ (UNCHANGED assigned \/ assigned' = assigned \cup {NewRow(task[t])})
      BY <2>1 DEF AssignWrite, Doing, NewRow
    <3>2. NewRow(task[t]).user = u
      BY <3>1, SettledFacts, NewRowFacts
    <3> QED
      BY <3>1, <3>2
  <2>2. ASSUME RemoveWrite(t) PROVE \A x : x.user # u => (x \in assigned' <=> x \in assigned)
    <3>1. task[t].row.user = u
      BY <2>2, <1>2 DEF RemoveWrite, Doing, TaskInv, Shape, Data
    <3> QED
      BY <3>1, <2>2 DEF RemoveWrite
  <2> QED
    BY <2>1, <2>2
<1>7. ASSUME NEW k \in KeysOf(u)
      PROVE  \/ k \in AnswersOf(u) \/ ClearsYet(t, k)'
             \/ UNCHANGED assigned /\ ~ClearsYet(t, k)
  <2>1. k \in Key /\ k.user = u /\ k.kind \in {"list", "answer"}
    BY DEF KeysOf, Key
  <2>2. ~ClearsYet(t, k)
    BY <1>1, <2>1, StillClearing
  <2>3. \/ UNCHANGED assigned
        \/ Did(t, "written") /\ task'[t].step = "audit" /\ task'[t].user = u
    <3>1. ASSUME AssignWrite(t), ~UNCHANGED assigned
          PROVE  Did(t, "written") /\ task'[t].step = "audit" /\ task'[t].user = u
      <4>1. /\ Did(t, "written") /\ task[t].op = "assign"
            /\ task' = [task EXCEPT ![t] =
                            [@ EXCEPT !.step = "audit", !.row = NewRow(task[t])]]
        BY <3>1 DEF AssignWrite, Doing, NewRow
      <4>2. NewRow(task[t]) \in Row
        BY <4>1, SettledFacts, NewRowFacts
      <4> QED
        BY <4>1, <4>2, <1>2, RowFacts
    <3>2. ASSUME RemoveWrite(t), ~UNCHANGED assigned
          PROVE  Did(t, "written") /\ task'[t].step = "audit" /\ task'[t].user = u
      <4>1. Did(t, "written") /\ task' = [task EXCEPT ![t].step = "audit"]
        BY <3>2 DEF RemoveWrite, On
      <4> QED
        BY <4>1, <1>2 DEF TaskState
    <3> QED
      BY <3>1, <3>2
  <2>4. Did(t, "written") => "written" \in trace'[t]
    BY SettledFacts, DidType
  <2>5. CASE k.kind = "answer"
    BY <2>1, <2>5 DEF AnswersOf, KeysOf
  <2>6. CASE k.kind = "list"
    BY <2>1, <2>2, <2>3, <2>4, <2>6 DEF ClearsYet
  <2> QED
    BY <2>1, <2>5, <2>6
<1>8. \A k \in Key : \A x : k \notin KeysOf(u) /\ x.user = k.user =>
                            (x \in assigned' <=> x \in assigned)
  BY <1>6 DEF KeysOf
<1> QED
  BY <1>1, <1>3, <1>4, <1>5, <1>7, <1>8, ExcusedAgrees

LEMMA ChangeCommitAgrees ==
    ASSUME Settled, NEW t \in Task, ChangeCommit(t)
    PROVE  CacheAgrees'
<1> DEFINE u == task[t].user
<1>1. /\ UNCHANGED <<user, owned, cache>> /\ Reply(t, 200)
      /\ task[t].op = "change" /\ task[t].step = "commit"
      /\ assigned' = (assigned \ task[t].dropped) \cup {task[t].row}
      /\ Did(t, "written")
  BY DEF ChangeCommit, Doing, tenantRows
<1>2. /\ task[t].row.user = u /\ \A row \in task[t].dropped : row.user = u
  BY <1>1, SettledFacts DEF TaskInv, Shape, Data
<1>3. \A o \in Task \ {t} : task'[o] = task[o] /\ trace'[o] = trace[o]
  BY <1>1, SettledFacts, BaseFacts, ReplyFacts, DidType
<1>4. \A x : x.user # u => (x \in assigned' <=> x \in assigned)
  BY <1>1, <1>2
<1>5. ASSUME NEW k \in Key
      PROVE  excuse[k] \subseteq excuse'[k] /\ (k.user = u /\ Stale(k)' => excuse'[k] # {})
  BY <1>1 DEF ChangeCommit, Stale
<1>6. ASSUME NEW k \in Key, Stale(k)' PROVE Good(k)'
  <2>1. CASE k.user = u
    BY <1>5, <1>6, <2>1 DEF Good
  <2>2. CASE k.user # u
    <3>1. Current(k)' = Current(k)
      BY <1>1, <1>4, <2>2, CurrentSame
    <3>2. Good(k)
      BY <3>1, <1>1, <1>6, StaleSame, SettledFacts
    <3>3. ~ClearsYet(t, k)
      BY <1>1, StillClearing
    <3> QED
      BY <3>2, <3>3, <1>3, <1>5, GoodKeeps
  <2> QED
    BY <2>1, <2>2
<1> QED
  BY <1>6 DEF CacheAgrees, Good

\* A request that fails leaves the lists of its user, if it has written.
LEMMA FailsAgrees ==
    ASSUME Settled, NEW t \in Task, Fails(t), task[t].op # "none", UNCHANGED others,
           UNCHANGED <<user, owned, cache, assigned>>
    PROVE  CacheAgrees'
<1> DEFINE K == IF "written" \in trace[t] THEN ListsOf(task[t].user) ELSE {}
<1>1. /\ Reply(t, 400) /\ \A o \in Task \ {t} : trace'[o] = trace[o]
  BY SettledFacts, FailsFacts
<1>2. \A o \in Task \ {t} : task'[o] = task[o]
  BY <1>1, SettledFacts, BaseFacts, ReplyFacts
<1>3. Excuse(K, "failed")
  BY DEF Fails
<1>4. ASSUME NEW k \in KeysOf(task[t].user) PROVE k \in K \/ ~ClearsYet(t, k)
  BY StillClearing DEF KeysOf, ListsOf
<1> HIDE DEF K
<1> QED
  BY <1>1, <1>2, <1>3, <1>4, ExcusedAgrees

LEMMA AuditRoleAgrees ==
    ASSUME Settled, NEW t \in Task, AuditRole(t)
    PROVE  CacheAgrees'
<1>a. /\ UNCHANGED <<user, owned, cache, assigned, others>> /\ task[t].step = "audit"
      /\ task[t].op # "none"
  BY SettledFacts DEF AuditRole, accountVars, rowVars, tenantRows, TaskInv, Shape, Control
<1>1. ASSUME Fails(t) PROVE CacheAgrees'
  BY <1>1, <1>a, FailsAgrees
<1>2. ASSUME On(t, "members"), Did(t, "logged"), UNCHANGED excuse PROVE CacheAgrees'
  <2>1. /\ \A o \in Task \ {t} : task'[o] = task[o]
        /\ task'[t].step = "members" /\ task'[t].user = task[t].user
    BY <1>2, SettledFacts, BaseFacts, OnFacts
  <2>2. /\ \A o \in Task \ {t} : trace'[o] = trace[o]
        /\ trace'[t] = trace[t] \cup {"logged"}
    BY <1>2, SettledFacts, DidType
  <2>3. ASSUME NEW k \in Key, Stale(k)' PROVE Good(k)'
    <3>1. Good(k)
      BY <2>3, <1>a, CurrentSame, StaleSame, SettledFacts
    <3>2. ClearsYet(t, k) => ClearsYet(t, k)'
      BY <2>1, <2>2, <1>a DEF ClearsYet
    <3> QED
      BY <3>1, <3>2, <2>1, <2>2, <1>2, GoodKeeps
  <2> QED
    BY <2>3 DEF CacheAgrees, Good
<1> QED
  BY <1>1, <1>2 DEF AuditRole

LEMMA TaskFaultAgrees ==
    ASSUME Settled, NEW t \in Task, TaskFault(t)
    PROVE  CacheAgrees'
<1>1. /\ UNCHANGED <<user, owned, cache, assigned, others>> /\ Fails(t)
      /\ task[t].op # "none"
  BY SettledFacts DEF TaskFault, rowVars, tenantRows, TaskInv, Shape, Control
<1> QED
  BY <1>1, FailsAgrees

\* The lists of the workspaces the user is no member of are missed, the others are to be
\* cleared.
LEMMA ReadMembersAgrees ==
    ASSUME Settled, NEW t \in Task, ReadMembers(t)
    PROVE  CacheAgrees'
<1> DEFINE u == task[t].user
           K == {k \in ListsOf(u) : k.scope # Global /\ <<u, k.scope>> \notin member}
<1>1. /\ UNCHANGED <<user, owned, cache, assigned, trace>> /\ Excuse(K, "missed")
      /\ task[t].step = "members"
  BY DEF ReadMembers, accountVars, rowVars, tenantRows
<1>2. /\ \A o \in Task \ {t} : task'[o] = task[o]
      /\ task'[t].user = u /\ task'[t].keys = Covered(u)
  BY SettledFacts, MembersFacts
<1>3. ASSUME NEW k \in KeysOf(u)
      PROVE  k \in K \/ ClearsYet(t, k)' \/ ~ClearsYet(t, k)
  <2>1. k \in Key /\ k.user = u
    BY DEF KeysOf
  <2>2. ASSUME ClearsYet(t, k), k \notin K PROVE ClearsYet(t, k)'
    <3>1. k.kind = "list" /\ "written" \in trace[t]
      BY <2>1, <2>2, StillClearing
    <3>2. k \in ListsOf(u)
      BY <3>1 DEF ListsOf
    <3>3. k.scope = Global \/ <<u, k.scope>> \in member
      BY <3>2, <2>2
    <3>4. k.scope \in Scope
      BY <2>1 DEF Key
    <3>5. k.scope \in Covered(u)
      BY <3>3, <3>4 DEF Covered, Scope
    <3> QED
      BY <3>1, <3>5, <2>1, <1>1, <1>2 DEF ClearsYet
  <2> QED
    BY <2>2
<1> HIDE DEF K
<1> QED
  BY <1>1, <1>2, <1>3, ExcusedAgrees

LEMMA ClearAgrees ==
    ASSUME Settled, NEW t \in Task, Clear(t)
    PROVE  CacheAgrees'
<1> DEFINE u == task[t].user
<1>a. UNCHANGED <<user, owned, assigned, trace>> /\ task[t].step = "clear"
  BY DEF Clear, accountVars, rowVars, tenantRows
<1>1. PICK s \in task[t].keys :
           /\ cache' = [cache EXCEPT ![ListKey(u, s)] = None]
           /\ excuse' = [excuse EXCEPT ![ListKey(u, s)] = {}]
           /\ \A o \in Task \ {t} : task'[o] = task[o]
           /\ task'[t].user = u /\ task'[t].keys = task[t].keys \ {s}
  BY SettledFacts, ClearFacts
<1> DEFINE key == ListKey(u, s)
<1>2. \A k \in Key : k # key => cache'[k] = cache[k] /\ excuse'[k] = excuse[k]
  BY <1>1, SettledFacts DEF CacheType, HistoryType
<1>3. key \in Key => cache'[key] = None
  BY <1>1, SettledFacts DEF CacheType
<1>4. ASSUME NEW k \in Key, Stale(k)' PROVE Good(k)'
  <2>1. k # key
    BY <1>3, <1>4 DEF Stale
  <2>2. Good(k)
    BY <2>1, <1>2, <1>4, <1>a, CurrentSame, StaleSame, SettledFacts
  <2>3. ASSUME ClearsYet(t, k) PROVE ClearsYet(t, k)'
    <3>1. /\ "written" \in trace[t] /\ k.kind = "list" /\ k.user = u /\ k.scope \in task[t].keys
      BY <2>3, <1>a, StillClearing
    <3>2. k.scope # s
      BY <3>1, <2>1 DEF ListKey, Key
    <3> QED
      BY <3>1, <3>2, <1>1, <1>a DEF ClearsYet
  <2> QED
    BY <2>1, <2>2, <2>3, <1>1, <1>2, <1>a, GoodKeeps
<1> QED
  BY <1>4 DEF CacheAgrees, Good

LEMMA SetAgrees ==
    ASSUME Settled, NEW t \in Task, Set(t)
    PROVE  CacheAgrees'
<1> DEFINE key == [kind |-> task[t].op, user |-> task[t].user, scope |-> task[t].scope]
           kept == IF task[t].found # Current(key) THEN {"overlap"} ELSE {}
<1>1. /\ UNCHANGED <<user, owned, assigned, trace>> /\ task[t].step = "set" /\ Reply(t, 200)
      /\ cache' = [cache EXCEPT ![key] = task[t].found] /\ excuse' = [excuse EXCEPT ![key] = kept]
  BY DEF Set, accountVars, rowVars, tenantRows
<1>2. \A o \in Task \ {t} : task'[o] = task[o]
  BY <1>1, SettledFacts, BaseFacts, ReplyFacts
<1>3. \A k \in Key : k # key => cache'[k] = cache[k] /\ excuse'[k] = excuse[k]
  BY <1>1, SettledFacts DEF CacheType, HistoryType
<1>4. ASSUME NEW k \in Key, Stale(k)' PROVE Good(k)'
  <2>1. Current(k)' = Current(k)
    BY <1>1, CurrentSame
  <2>2. CASE k # key
    <3>1. Good(k)
      BY <2>1, <2>2, <1>3, <1>4, StaleSame, SettledFacts
    <3>2. ~ClearsYet(t, k)
      BY <1>1, StillClearing
    <3> QED
      BY <3>1, <3>2, <2>2, <1>1, <1>2, <1>3, GoodKeeps
  <2>3. CASE k = key
    <3>1. cache'[k] = task[t].found /\ excuse'[k] = kept
      BY <2>3, <1>1, SettledFacts DEF CacheType, HistoryType
    <3>2. task[t].found # Current(k)
      BY <3>1, <2>1, <1>4 DEF Stale
    <3>3. kept # {}
      BY <3>2, <2>3
    <3> QED
      BY <3>1, <3>3 DEF Good
  <2> QED
    BY <2>2, <2>3
<1> QED
  BY <1>4 DEF CacheAgrees, Good

\* No slot does anything.
LEMMA StillGood ==
    ASSUME NEW k \in Key, Good(k), UNCHANGED <<task, trace>>, excuse[k] \subseteq excuse'[k]
    PROVE  Good(k)'
BY DEF Good, ClearsYet

LEMMA ExpireAgrees ==
    ASSUME Settled, NEW key \in Key, Expire(key)
    PROVE  CacheAgrees'
<1>1. /\ UNCHANGED <<user, owned, assigned, task, trace>>
      /\ cache' = [cache EXCEPT ![key] = None] /\ excuse' = [excuse EXCEPT ![key] = {}]
  BY DEF Expire, accountVars, rowVars, tenantRows
<1>2. \A k \in Key : \/ k # key /\ cache'[k] = cache[k] /\ excuse'[k] = excuse[k]
                     \/ k = key /\ cache'[k] = None
  BY <1>1, SettledFacts DEF CacheType, HistoryType
<1>3. ASSUME NEW k \in Key, Stale(k)' PROVE Good(k)'
  <2>1. cache'[k] = cache[k] /\ excuse'[k] = excuse[k]
    BY <1>2, <1>3 DEF Stale
  <2>2. Good(k)
    BY <2>1, <1>1, <1>3, CurrentSame, StaleSame, SettledFacts
  <2> QED
    BY <2>1, <2>2, <1>1, StillGood
<1> QED
  BY <1>3 DEF CacheAgrees, Good

LEMMA DirectAgrees ==
    ASSUME Settled, Directly
    PROVE  CacheAgrees'
<1>1. Excuse(Key, "direct") /\ UNCHANGED cache
  BY DEF Directly
<1>2. ASSUME NEW k \in Key, Stale(k)' PROVE excuse'[k] # {}
  BY <1>1, <1>2, ExcuseFacts
<1> QED
  BY <1>2 DEF CacheAgrees

\* Sign-up changes no row of a user that is there or has been: only those of the user its
\* transaction has inserted.
LEMMA KnownStays ==
    ASSUME AccountsInv, SignUp, NEW v \in User, Known(v)
    PROVE  /\ user'[v] = user[v]
           /\ \A x : x.user = v => (x \in assigned' <=> x \in assigned)
<1>1. PICK r \in Request :
        \/ \E e \in Email : Register(r, e) \/ CreateUser(r, e)
        \/ \E i \in Identity : OAuth(r, i)
        \/ FindEmail(r) \/ InsertUser(r) \/ InsertLink(r) \/ AssignDefault(r) \/ Commit(r)
        \/ LinkExisting(r) \/ Audit(r) \/ CreateSession(r) \/ Fault(r)
  BY DEF SignUp
<1>2. ASSUME UNCHANGED <<user, assigned>>
      PROVE  /\ user'[v] = user[v]
             /\ \A x : x.user = v => (x \in assigned' <=> x \in assigned)
  BY <1>2
<1>3. ASSUME NEW e \in Email, Register(r, e) \/ CreateUser(r, e)
      PROVE  UNCHANGED <<user, assigned>>
  BY <1>3 DEF Register, CreateUser, rowVars
<1>4. ASSUME NEW i \in Identity, OAuth(r, i) PROVE UNCHANGED <<user, assigned>>
  BY <1>4 DEF OAuth, rowVars
<1>5. ASSUME FindEmail(r) \/ InsertUser(r) \/ InsertLink(r) \/ CreateSession(r) \/ Fault(r)
      PROVE  UNCHANGED <<user, assigned>>
  BY <1>5 DEF FindEmail, InsertUser, InsertLink, CreateSession, Fault, rowVars
<1>6. ASSUME LinkExisting(r) \/ Audit(r) \/ AssignDefault(r) PROVE UNCHANGED <<user, assigned>>
  BY <1>6 DEF LinkExisting, Audit, AssignDefault
<1>7. ASSUME Commit(r)
      PROVE  /\ user'[v] = user[v]
             /\ \A x : x.user = v => (x \in assigned' <=> x \in assigned)
  <2>1. req[r].step = "commit" /\ ReqInv(r) /\ TxInv(r)
    BY <1>7 DEF Commit, AccountsInv
  <2>2. tx[r].user # None
    BY <2>1 DEF ReqInv
  <2>3. user[tx[r].user].state = "absent" /\ \A x \in tx[r].rows : x.user = tx[r].user
    BY <2>1, <2>2 DEF TxInv
  <2>4. v # tx[r].user
    BY <2>3 DEF Known
  <2>5. assigned' = assigned \cup tx[r].rows
    BY <1>7 DEF Commit
  <2>6. PICK super \in BOOLEAN :
            user' = [user EXCEPT ![tx[r].user] = [state |-> "present", email |-> req[r].email,
                                                  super |-> super]]
    BY <1>7 DEF Commit
  <2>7. user'[v] = user[v]
    BY <2>4, <2>6 DEF AccountsInv, AccountsTypeOK
  <2> QED
    BY <2>3, <2>4, <2>5, <2>7
<1> QED
  BY <1>1, <1>2, <1>3, <1>4, <1>5, <1>6, <1>7

\* The users there are entries about are known, and no sign-up changes their rows.
LEMMA SignUpAgrees ==
    ASSUME Settled, SignUp, UNCHANGED <<tenantRows, cache, task, history, changes>>
    PROVE  CacheAgrees'
<1>1. UNCHANGED <<owned, trace, excuse>>
  BY DEF tenantRows, history
<1>2. ASSUME NEW k \in Key, Stale(k)' PROVE Good(k)'
  <2>1. Known(k.user) /\ k.user \in User
    BY <1>2, SettledFacts DEF Stale, Base, Key
  <2>2. user'[k.user] = user[k.user]
        /\ \A x : x.user = k.user => (x \in assigned' <=> x \in assigned)
    BY <2>1, SettledFacts, BaseFacts, KnownStays
  <2>3. Good(k)
    BY <2>2, <1>1, <1>2, CurrentSame, StaleSame, SettledFacts
  <2> QED
    BY <2>3, <1>1, StillGood
<1> QED
  BY <1>2 DEF CacheAgrees, Good

LEMMA StartSettled == Init => Settled
<1> SUFFICES ASSUME Init PROVE Settled
  OBVIOUS
<1>1. \A k \in Key : ~Stale(k)
  BY DEF Init, Stale
<1> QED
  BY <1>1, StartFits DEF Settled, CacheAgrees

LEMMA NextSettled == Settled /\ [Next]_vars => Settled'
<1> SUFFICES ASSUME Settled, [Next]_vars PROVE CacheAgrees'
  BY NextFits DEF Settled
<1>1. ASSUME NEW t \in Task, NEW u \in User, NEW s \in Scope,
             \/ \E role \in Role : Assign(t, u, role, s) \/ Remove(t, u, role, s)
                                   \/ Change(t, u, role, s)
             \/ \E kind \in {"list", "answer"} : Check(t, kind, u, s)
      PROVE  CacheAgrees'
  BY <1>1, BeginAgrees
<1>2. ASSUME NEW t \in Task,
             \/ Find(t) \/ ChangeFind(t) \/ Drop(t) \/ ChangeInsert(t) \/ TimeOut(t)
             \/ ReadRoles(t) \/ ReadOwner(t)
      PROVE  CacheAgrees'
  BY <1>2, QuietSteps
<1>3. ASSUME NEW t \in Task,
             \/ AssignWrite(t) \/ RemoveWrite(t) \/ ChangeCommit(t) \/ AuditRole(t)
             \/ TaskFault(t) \/ ReadMembers(t) \/ Clear(t) \/ Set(t)
      PROVE  CacheAgrees'
  BY <1>3, WritesAgree, ChangeCommitAgrees, AuditRoleAgrees, TaskFaultAgrees,
     ReadMembersAgrees, ClearAgrees, SetAgrees
<1>4. ASSUME NEW k \in Key, Expire(k) PROVE CacheAgrees'
  BY <1>4, ExpireAgrees
<1>5. ASSUME \/ \E u \in User, e \in Email, super \in BOOLEAN : WriteUser(u, e, super)
             \/ \E u \in User : DeleteUser(u)
             \/ \E u \in User, w \in Workspace : WriteMember(u, w)
             \/ \E w \in Workspace : DeleteWorkspace(w)
      PROVE  CacheAgrees'
  <2>1. Directly
    BY <1>5 DEF WriteUser, DeleteUser, WriteMember, DeleteWorkspace
  <2> QED
    BY <2>1, DirectAgrees
<1>6. ASSUME SignUp, UNCHANGED <<tenantRows, cache, task, history, changes>>
      PROVE  CacheAgrees'
  BY <1>6, SignUpAgrees
<1>7. ASSUME UNCHANGED vars PROVE CacheAgrees'
  <2>1. UNCHANGED <<user, owned, assigned, cache, excuse, task, trace>>
    BY <1>7 DEF vars, accountVars, rowVars, tenantRows, history
  <2>2. ASSUME NEW k \in Key, Stale(k)' PROVE Good(k)'
    <3>1. Good(k)
      BY <2>1, <2>2, CurrentSame, StaleSame, SettledFacts
    <3> QED
      BY <3>1, <2>1, StillGood
  <2> QED
    BY <2>2 DEF CacheAgrees, Good
<1> QED
  BY <1>1, <1>2, <1>3, <1>4, <1>5, <1>6, <1>7 DEF Next

-----------------------------------------------------------------------------

\* Requests, rows, cache entries and history keep their types, and no row has an id that is
\* still to be given out.
THEOREM TypeCorrect == Spec => []TypeOK
<1>1. Base => TypeOK
  BY DEF Base
<1> QED
  BY <1>1, StartBase, NextBase, PTL DEF Spec

\* However sign-ups, role changes and deletes interleave, an identity whose first login was
\* answered stays linked to an account that stays (findOrCreateOAuthUser).
THEOREM LoginStaysLinked == Spec => []OAuthLoginStaysLinked
<1>1. Base => OAuthLoginStaysLinked
  BY StaysLinked DEF Base
<1> QED
  BY <1>1, StartBase, NextBase, PTL DEF Spec

\* A registration is never answered but with a refusal (AuthService.register), for whatever
\* emails, users and slots: what TLC finds of RegistrationSucceeds is not of one instance.
THEOREM RegistrationRefused ==
    Spec => [](\A r \in Request : req[r].op = "register" => req[r].answer \in {0, 400})
<1>1. Base => \A r \in Request : req[r].op = "register" => req[r].answer \in {0, 400}
  BY NoRegistration DEF Base
<1> QED
  BY <1>1, StartBase, NextBase, PTL DEF Spec

\* However it interleaves with other requests, sign-ups and deletes, a changeRole that is
\* answered has replaced the roles its user had in that scope: what the user has there now
\* was inserted after the request read the old ones (roles.service.ts changeRole).
THEOREM RoleReplaced == Spec => []ChangeReplaces
BY FitReplaces, StartFits, NextFits, PTL DEF Spec

\* What assignRole, removeRole and changeRole answer agrees with what they have written,
\* unless an await failed after the write; a changeRole that is refused, for whatever
\* reason, has left no row and removed none.
THEOREM OutcomeTold == Spec => []OutcomeMatchesRows
BY FitTells, StartFits, NextFits, PTL DEF Spec

\* A cached list disagrees with the rows only while the request that changed them is about
\* to clear it, or for one of the causes CacheAgrees names: a check that overlapped the
\* change, a clear before the commit or short of a workspace or that failed, or a write that
\* clears nothing (PermissionsService and its callers).
THEOREM CacheAgreement == Spec => []CacheAgrees
<1>1. Settled => CacheAgrees
  BY DEF Settled
<1> QED
  BY <1>1, StartSettled, NextSettled, PTL DEF Spec

================================================================================
