---------------------------- MODULE AccountsProofs -----------------------------
(***************************************************************************)
(* What the requests of module Accounts preserve, whatever else changes    *)
(* the rows.  Module RolesProofs, where there is a specification, has the  *)
(* theorems.                                                               *)
(*                                                                         *)
(* The core of the argument: the user that an open transaction has         *)
(* inserted is absent for everybody else, so its audit row fails, and a    *)
(* login that is answered comes from an account that was there before, and *)
(* that cannot be deleted once the login is audited.                       *)
(***************************************************************************)
EXTENDS Accounts, FiniteSetTheorems, TLAPS

\* The steps of a request, and what it knows there.
ReqInv(r) ==
    LET k == req[r]  x == tx[r] IN
    /\ k.op = "none" <=> k.step = "idle"
    /\ k.step # "done" => k.answer = 0
    /\ k.step \in {"email", "user", "link", "assign"} => k.email \in Email
    /\ k.op = "register" => k.step \in {"email", "user", "assign", "audit", "done"}
    /\ k.op = "oauth" => k.step \in {"email", "user", "link", "assign", "linkExisting",
                                     "audit", "session", "done"}
                         /\ k.identity \in Identity
    /\ k.op = "create" => k.step \in {"email", "user", "assign", "commit", "done"}
    /\ k.step = "link" => k.op = "oauth"
    /\ x.identity # None => k.op = "oauth"
    /\ k.step \in {"link", "assign", "commit"} => x.user # None
    /\ k.op = "register" /\ k.step = "audit" => x.user # None
    /\ k.step \in {"linkExisting", "audit", "session"} => k.user \in User

\* The open transaction: its user is absent for everybody else.
TxInv(r) ==
    LET k == req[r]  x == tx[r] IN
    /\ x.user = None => x = NoTx
    /\ x.user # None =>
        /\ x.user = k.user /\ x.user \in User /\ user[x.user].state = "absent"
        /\ k.step \in {"link", "assign", "audit", "commit"}
        /\ k.email \in Email
        /\ \A row \in x.rows : row.user = x.user /\ row.id < nextRow
        /\ \A o \in Request \ {r} : tx[o].user # x.user

\* A login: the account was there before, and is linked to the identity.
LoginInv(r) ==
    LET k == req[r] IN
    /\ k.step = "linkExisting" => k.op = "oauth" /\ user[k.user].state # "absent"
    /\ k.step = "audit" /\ tx[r].user = None =>
        /\ k.op = "oauth" /\ user[k.user].state # "absent"
        /\ IsThere(k.user) => link[k.identity] = k.user
    /\ k.step = "session" =>
        k.op = "oauth" /\ link[k.identity] = k.user /\ k.user \in audited
    /\ k.op = "oauth" /\ k.answer \notin {0, 400} =>
        k.answer = 200 /\ link[k.identity] = k.user /\ k.user \in audited
    /\ k.op = "register" => k.answer \in {0, 400}

RowsInv ==
    /\ \A row \in assigned : row.id < nextRow
    /\ IsFiniteSet(assigned)
    /\ \A r \in Request : IsFiniteSet(tx[r].rows)
    /\ \A u \in audited : user[u].state = "present"

AccountsInv ==
    /\ AccountsTypeOK
    /\ RowsInv
    /\ \A r \in Request : ReqInv(r) /\ TxInv(r) /\ LoginInv(r)

LEMMA NoTxType == NoTx \in TxState /\ NoTx.user = None /\ NoTx.identity = None /\ NoTx.rows = {}
<1>1. None \in User \cup {None} /\ None \in Identity \cup {None} /\ {} \in SUBSET Row
  OBVIOUS
<1> QED
  BY <1>1 DEF NoTx, TxState

LEMMA IdleType == Idle \in RequestState
BY DEF Idle, RequestState, Op, Step

LEMMA AccountsStart == AccountsInit => AccountsInv
<1> SUFFICES ASSUME AccountsInit PROVE AccountsInv
  OBVIOUS
<1>1. AccountsTypeOK
  <2>1. user \in [User -> [state : {"absent", "present", "gone"}, email : Email \cup {None},
                           super : BOOLEAN]]
    BY AccountsAssumption DEF AccountsInit
  <2>2. assigned \subseteq Row /\ nextRow \in Nat
    BY AccountsAssumption DEF AccountsInit, Row, Scope
  <2>3. requests \in 0..MaxRequests /\ faults \in 0..MaxFaults
    BY AccountsAssumption DEF AccountsInit
  <2> QED
    BY <2>1, <2>2, <2>3, NoTxType, IdleType DEF AccountsInit, AccountsTypeOK
<1>2. RowsInv
  <2>1. \A row \in assigned : row.id < nextRow
    BY AccountsAssumption DEF AccountsInit
  <2>2. IsFiniteSet(assigned)
    BY AccountsAssumption DEF AccountsInit
  <2>3. \A r \in Request : IsFiniteSet(tx[r].rows)
    BY NoTxType, FS_EmptySet DEF AccountsInit
  <2> QED
    BY <2>1, <2>2, <2>3 DEF AccountsInit, RowsInv
<1>3. ASSUME NEW r \in Request PROVE ReqInv(r) /\ TxInv(r) /\ LoginInv(r)
  <2>1. req[r] = Idle /\ tx[r] = NoTx
    BY DEF AccountsInit
  <2> QED
    BY <2>1, NoTxType DEF ReqInv, TxInv, LoginInv, Idle
<1> QED
  BY <1>1, <1>2, <1>3 DEF AccountsInv

-----------------------------------------------------------------------------
(* Frames *)

\* Other writes to the rows preserve the invariant when they keep accounts, links of
\* audited accounts, and ids.
LEMMA AccountsFrame ==
    ASSUME AccountsInv, AccountsTypeOK', UNCHANGED <<req, tx, link, audited>>,
           assigned' \subseteq Row, IsFiniteSet(assigned'),
           \A row \in assigned' : row.id < nextRow',
           nextRow' \in Nat, nextRow' >= nextRow,
           \A u \in User : user'[u].state = user[u].state
    PROVE  AccountsInv'
<1>1. RowsInv'
  BY DEF AccountsInv, AccountsTypeOK, RowsInv
<1>2. ASSUME NEW r \in Request PROVE ReqInv(r)'
  BY DEF AccountsInv, ReqInv
<1>3. ASSUME NEW r \in Request PROVE TxInv(r)'
  <2>1. TxInv(r) /\ tx[r].rows \subseteq Row /\ nextRow \in Nat
    BY DEF AccountsInv, AccountsTypeOK, TxState
  <2>2. \A row \in tx[r].rows : row.id < nextRow => row.id < nextRow'
    BY <2>1 DEF Row
  <2> QED
    BY <2>1, <2>2 DEF TxInv
<1>4. ASSUME NEW r \in Request PROVE LoginInv(r)'
  BY DEF AccountsInv, LoginInv, IsThere, ReqInv
<1> QED
  BY <1>1, <1>2, <1>3, <1>4 DEF AccountsInv

\* A step of one request preserves what is known of the others when links and audit rows
\* stay, and no account appears but its own.
LEMMA OneSlot ==
    ASSUME AccountsInv, AccountsTypeOK', RowsInv', NEW r \in Request,
           \A o \in Request \ {r} : req'[o] = req[o] /\ tx'[o] = tx[o],
           \A u \in User : user'[u].state = user[u].state
                          \/ (user[u].state = "absent" /\ u = tx[r].user),
           \A i \in Identity : link[i] # None => link'[i] = link[i],
           audited \subseteq audited', nextRow' >= nextRow,
           \A o \in Request \ {r} : tx'[r].user # None => tx'[r].user # tx[o].user,
           ReqInv(r)', TxInv(r)', LoginInv(r)'
    PROVE  AccountsInv'
<1>1. ASSUME NEW o \in Request \ {r} PROVE ReqInv(o)'
  BY <1>1 DEF AccountsInv, ReqInv
<1>2. ASSUME NEW o \in Request \ {r} PROVE TxInv(o)'
  <2>1. TxInv(o) /\ req'[o] = req[o] /\ tx'[o] = tx[o]
    BY <1>2 DEF AccountsInv
  <2>2. \A row \in tx[o].rows : row.id < nextRow => row.id < nextRow'
    <3>1. tx[o].rows \subseteq Row /\ nextRow \in Nat /\ nextRow' \in Nat
      BY <1>2 DEF AccountsInv, AccountsTypeOK, TxState
    <3> QED
      BY <3>1 DEF Row
  <2>3. ASSUME tx[o].user # None
        PROVE  /\ user'[tx[o].user].state = "absent"
               /\ \A p \in Request \ {o} : tx'[p].user # tx[o].user
    <3>1. tx[o].user \in User /\ user[tx[o].user].state = "absent"
          /\ \A p \in Request \ {o} : tx[p].user # tx[o].user
      BY <2>1, <2>3 DEF TxInv
    <3>2. tx[r].user # tx[o].user /\ tx'[r].user # tx[o].user
      BY <3>1, <2>3, <1>2
    <3> QED
      BY <3>1, <3>2
  <2> QED
    BY <2>1, <2>2, <2>3 DEF TxInv
<1>3. ASSUME NEW o \in Request \ {r} PROVE LoginInv(o)'
  <2>1. LoginInv(o) /\ ReqInv(o) /\ req[o] \in RequestState /\ None \notin User
    BY <1>3, AccountsAssumption DEF AccountsInv, AccountsTypeOK
  <2>2. req'[o] = req[o] /\ tx'[o] = tx[o]
    BY <1>3
  <2>3. \A u \in User : user[u].state # "absent" =>
            user'[u].state # "absent" /\ (IsThere(u)' => IsThere(u))
    <3>1. \A u \in User : user[u].state # "absent" => user'[u].state = user[u].state
      OBVIOUS
    <3> QED
      BY <3>1 DEF IsThere
  <2>4. req[o].op = "oauth" => req[o].identity \in Identity
    BY <2>1 DEF ReqInv
  <2>5. req[o].step \in {"linkExisting", "audit", "session"} => req[o].user \in User
    BY <2>1 DEF ReqInv
  <2>6. \A u \in audited : u \in User /\ u # None
    BY <2>1 DEF AccountsInv, AccountsTypeOK
  <2> QED
    BY <2>1, <2>2, <2>3, <2>4, <2>5, <2>6 DEF LoginInv
<1> QED
  BY <1>1, <1>2, <1>3 DEF AccountsInv

\* The same when the rows are as they were and the transaction is as before or gone.
LEMMA OnlySlot ==
    ASSUME AccountsInv, NEW r \in Request,
           req' \in [Request -> RequestState], tx' \in [Request -> TxState],
           \A o \in Request \ {r} : req'[o] = req[o] /\ tx'[o] = tx[o],
           tx'[r] = tx[r] \/ tx'[r] = NoTx,
           UNCHANGED rowVars,
           requests' \in 0..MaxRequests, faults' \in 0..MaxFaults,
           ReqInv(r)', TxInv(r)', LoginInv(r)'
    PROVE  AccountsInv'
<1>1. AccountsTypeOK'
  BY DEF AccountsInv, AccountsTypeOK, rowVars
<1>2. RowsInv'
  <2>1. \A o \in Request : IsFiniteSet(tx'[o].rows)
    BY NoTxType, FS_EmptySet DEF AccountsInv, RowsInv
  <2> QED
    BY <2>1 DEF AccountsInv, RowsInv, rowVars
<1>3. \A o \in Request \ {r} : tx'[r].user # None => tx'[r].user # tx[o].user
  BY NoTxType DEF AccountsInv, TxInv
<1>4. nextRow \in Nat
  BY DEF AccountsInv, AccountsTypeOK
<1>5. \A o \in Request \ {r} : req'[o] = req[o] /\ tx'[o] = tx[o]
  OBVIOUS
<1>6. user' = user /\ link' = link /\ audited' = audited /\ nextRow' = nextRow
  BY DEF rowVars
<1>7. /\ \A u \in User : user'[u].state = user[u].state
                          \/ (user[u].state = "absent" /\ u = tx[r].user)
      /\ \A i \in Identity : link[i] # None => link'[i] = link[i]
      /\ audited \subseteq audited' /\ nextRow' >= nextRow
  BY <1>4, <1>6
<1> QED
  BY <1>1, <1>2, <1>3, <1>5, <1>7, OneSlot

-----------------------------------------------------------------------------
(* What the helpers leave in a slot *)

LEMMA GotoFacts ==
    ASSUME req \in [Request -> RequestState], NEW r \in Request, NEW step \in Step, Goto(r, step)
    PROVE  /\ req' \in [Request -> RequestState]
           /\ \A o \in Request \ {r} : req'[o] = req[o]
           /\ req'[r] = [req[r] EXCEPT !.step = step]
           /\ req'[r].op = req[r].op /\ req'[r].step = step /\ req'[r].user = req[r].user
           /\ req'[r].email = req[r].email /\ req'[r].identity = req[r].identity
           /\ req'[r].answer = req[r].answer
<1>1. [req[r] EXCEPT !.step = step] \in RequestState
  BY DEF RequestState
<1>2. req'[r] = [req[r] EXCEPT !.step = step]
  BY DEF Goto
<1>3. \A k \in RequestState : LET n == [k EXCEPT !.step = step] IN
        n.op = k.op /\ n.step = step /\ n.user = k.user /\ n.email = k.email
        /\ n.identity = k.identity /\ n.answer = k.answer
  BY DEF RequestState
<1> QED
  BY <1>1, <1>2, <1>3 DEF Goto

LEMMA AnswerFacts ==
    ASSUME req \in [Request -> RequestState], NEW r \in Request, NEW code \in {200, 201, 400},
           Answer(r, code)
    PROVE  /\ req' \in [Request -> RequestState]
           /\ \A o \in Request \ {r} : req'[o] = req[o]
           /\ req'[r].op = req[r].op /\ req'[r].step = "done" /\ req'[r].user = req[r].user
           /\ req'[r].email = req[r].email /\ req'[r].identity = req[r].identity
           /\ req'[r].answer = code
<1> DEFINE k == [req[r] EXCEPT !.step = "done", !.answer = code]
<1>1. req[r] \in RequestState
  OBVIOUS
<1>2. /\ k.op = req[r].op /\ k.step = "done" /\ k.user = req[r].user
      /\ k.email = req[r].email /\ k.identity = req[r].identity /\ k.answer = code
  BY <1>1 DEF RequestState
<1>3. k \in RequestState
  <2>1. [req[r] EXCEPT !.step = "done"] \in RequestState
    BY <1>1 DEF RequestState, Step
  <2>2. \A j \in RequestState : [j EXCEPT !.answer = code] \in RequestState
    BY DEF RequestState
  <2> QED
    BY <2>1, <2>2
<1>4. req' = [req EXCEPT ![r] = k]
  BY DEF Answer
<1> HIDE DEF k
<1> QED
  BY <1>2, <1>3, <1>4

-----------------------------------------------------------------------------
(* Each action of a request *)

\* A request that is answered with a refusal, its transaction as before or rolled back.
LEMMA RefusedKeeps ==
    ASSUME AccountsInv, NEW r \in Request, req[r].step # "idle",
           Answer(r, 400), tx' = [tx EXCEPT ![r] = NoTx], UNCHANGED rowVars,
           requests' = requests, faults' \in 0..MaxFaults
    PROVE  AccountsInv'
<1>1. req \in [Request -> RequestState] /\ tx \in [Request -> TxState] /\ requests \in 0..MaxRequests
      /\ ReqInv(r)
  BY DEF AccountsInv, AccountsTypeOK
<1>2. /\ req' \in [Request -> RequestState] /\ \A o \in Request \ {r} : req'[o] = req[o]
      /\ req'[r].op = req[r].op /\ req'[r].step = "done" /\ req'[r].answer = 400
      /\ req'[r].identity = req[r].identity
  BY <1>1, AnswerFacts
<1>3. tx' \in [Request -> TxState] /\ tx'[r] = NoTx /\ \A o \in Request \ {r} : tx'[o] = tx[o]
  BY <1>1, NoTxType
<1>4. ReqInv(r)'
  BY <1>1, <1>2, <1>3, NoTxType DEF ReqInv
<1>5. TxInv(r)' /\ LoginInv(r)'
  BY <1>2, <1>3, NoTxType DEF TxInv, LoginInv
<1> QED
  BY <1>1, <1>2, <1>3, <1>4, <1>5, OnlySlot

\* A request that starts.
LEMMA TakesKeeps ==
    ASSUME AccountsInv, NEW r \in Request, NEW k \in RequestState, Takes(r, k), UNCHANGED rowVars,
           k.op \in {"register", "oauth", "create"}, k.step = "email", k.answer = 0,
           k.email \in Email, k.op = "oauth" => k.identity \in Identity
    PROVE  AccountsInv'
<1>1. req \in [Request -> RequestState] /\ tx \in [Request -> TxState]
      /\ requests' \in 0..MaxRequests /\ faults' \in 0..MaxFaults
  BY AccountsAssumption DEF AccountsInv, AccountsTypeOK, Takes
<1>2. /\ req' \in [Request -> RequestState] /\ \A o \in Request \ {r} : req'[o] = req[o]
      /\ req'[r] = k
  BY <1>1 DEF Takes
<1>3. tx' \in [Request -> TxState] /\ tx'[r] = NoTx /\ \A o \in Request \ {r} : tx'[o] = tx[o]
  BY <1>1, NoTxType DEF Takes
<1>4. ReqInv(r)'
  BY <1>2, <1>3, NoTxType DEF ReqInv
<1>5. TxInv(r)' /\ LoginInv(r)'
  BY <1>2, <1>3, NoTxType DEF TxInv, LoginInv
<1> QED
  BY <1>1, <1>2, <1>3, <1>4, <1>5, OnlySlot

LEMMA RegisterKeeps ==
    ASSUME AccountsInv, NEW r \in Request, NEW e \in Email, Register(r, e) \/ CreateUser(r, e)
    PROVE  AccountsInv'
<1>1. PICK op \in {"register", "create"} :
        Takes(r, [Idle EXCEPT !.op = op, !.step = "email", !.email = e]) /\ UNCHANGED rowVars
  BY DEF Register, CreateUser
<1> DEFINE k == [Idle EXCEPT !.op = op, !.step = "email", !.email = e]
<1>2. k \in RequestState /\ k.op = op /\ k.step = "email" /\ k.answer = 0 /\ k.email = e
  BY DEF Idle, RequestState, Op, Step
<1>3. Takes(r, k) /\ UNCHANGED rowVars
  BY <1>1
<1> HIDE DEF k
<1> QED
  BY <1>1, <1>2, <1>3, TakesKeeps

LEMMA OAuthKeeps ==
    ASSUME AccountsInv, NEW r \in Request, NEW i \in Identity, OAuth(r, i)
    PROVE  AccountsInv'
<1> DEFINE k == [Idle EXCEPT !.op = "oauth", !.step = "email", !.identity = i, !.email = EmailOf[i]]
<1>1. EmailOf[i] \in Email
  BY AccountsAssumption
<1>2. /\ k \in RequestState /\ k.op = "oauth" /\ k.step = "email" /\ k.answer = 0
      /\ k.email \in Email /\ k.identity = i
  BY <1>1 DEF Idle, RequestState, Op, Step
<1>3. Takes(r, k) /\ UNCHANGED rowVars
  BY DEF OAuth
<1> HIDE DEF k
<1> QED
  BY <1>2, <1>3, TakesKeeps

\* A slot whose request has opened no transaction has nothing in it.
LEMMA NoTxUnless ==
    ASSUME AccountsInv, NEW r \in Request,
           req[r].step \notin {"link", "assign", "audit", "commit"}
    PROVE  tx[r] = NoTx
BY DEF AccountsInv, TxInv

\* A request that is refused with its transaction left alone has none.
LEMMA AnsweredKeeps ==
    ASSUME AccountsInv, NEW r \in Request, req[r].step # "idle", tx[r] = NoTx,
           Answer(r, 400), UNCHANGED <<rowVars, tx, requests, faults>>
    PROVE  AccountsInv'
<1>1. tx \in [Request -> TxState] /\ faults \in 0..MaxFaults
  BY DEF AccountsInv, AccountsTypeOK
<1>2. tx' = [tx EXCEPT ![r] = NoTx]
  BY <1>1
<1> QED
  BY <1>1, <1>2, RefusedKeeps

LEMMA FindEmailKeeps ==
    ASSUME AccountsInv, NEW r \in Request, FindEmail(r)
    PROVE  AccountsInv'
<1>a. /\ req \in [Request -> RequestState] /\ tx \in [Request -> TxState]
      /\ requests \in 0..MaxRequests /\ faults \in 0..MaxFaults
      /\ ReqInv(r) /\ req[r] \in RequestState
  BY DEF AccountsInv, AccountsTypeOK
<1>b. req[r].step = "email" /\ UNCHANGED <<rowVars, tx, requests, faults>>
  BY DEF FindEmail
<1>c. tx[r] = NoTx
  BY <1>b, NoTxUnless
<1>d. req[r].op # "none" /\ req[r].answer = 0
  BY <1>a, <1>b DEF ReqInv
<1>1. ASSUME req[r].email \notin Emails, Goto(r, "user") PROVE AccountsInv'
  <2>1. /\ req' \in [Request -> RequestState] /\ \A o \in Request \ {r} : req'[o] = req[o]
        /\ req'[r].op = req[r].op /\ req'[r].step = "user" /\ req'[r].email = req[r].email
        /\ req'[r].identity = req[r].identity /\ req'[r].answer = req[r].answer
    BY <1>1, <1>a, GotoFacts DEF Step
  <2>2. ReqInv(r)' /\ TxInv(r)' /\ LoginInv(r)'
    <3>1. ReqInv(r)'
      BY <2>1, <1>a, <1>b, <1>c, <1>d, NoTxType DEF ReqInv
    <3>2. TxInv(r)'
      BY <1>b, <1>c, NoTxType DEF TxInv
    <3>3. LoginInv(r)'
      BY <2>1, <1>d DEF LoginInv
    <3> QED
      BY <3>1, <3>2, <3>3
  <2> QED
    BY <2>1, <2>2, <1>a, <1>b, OnlySlot
<1>2. ASSUME Answer(r, 400) PROVE AccountsInv'
  BY <1>2, <1>b, <1>c, AnsweredKeeps
<1>3. ASSUME NEW u \in User, IsThere(u), req[r].op = "oauth",
             req' = [req EXCEPT ![r] = [@ EXCEPT !.step = "linkExisting", !.user = u]]
      PROVE  AccountsInv'
  <2> DEFINE k == [req[r] EXCEPT !.step = "linkExisting", !.user = u]
  <2>1. /\ k.op = "oauth" /\ k.step = "linkExisting" /\ k.user = u /\ k.email = req[r].email
        /\ k.identity = req[r].identity /\ k.answer = 0
    BY <1>3, <1>a, <1>d DEF RequestState
  <2>2. k \in RequestState
    <3>1. [req[r] EXCEPT !.step = "linkExisting"] \in RequestState
      BY <1>a DEF RequestState, Step
    <3>2. \A j \in RequestState : [j EXCEPT !.user = u] \in RequestState
      BY DEF RequestState
    <3> QED
      BY <3>1, <3>2
  <2>3. req' = [req EXCEPT ![r] = k]
    BY <1>3
  <2> HIDE DEF k
  <2>4. req' \in [Request -> RequestState] /\ req'[r] = k
        /\ \A o \in Request \ {r} : req'[o] = req[o]
    BY <2>2, <2>3, <1>a
  <2>5. ReqInv(r)'
    BY <2>1, <2>4, <1>a, <1>b, <1>c, <1>3, NoTxType DEF ReqInv
  <2>6. TxInv(r)'
    BY <1>b, <1>c, NoTxType DEF TxInv
  <2>7. LoginInv(r)'
    BY <2>1, <2>4, <1>b, <1>3 DEF LoginInv, IsThere, rowVars
  <2> QED
    BY <2>4, <2>5, <2>6, <2>7, <1>a, <1>b, OnlySlot
<1> QED
  BY <1>b, <1>1, <1>2, <1>3 DEF FindEmail

LEMMA InsertUserKeeps ==
    ASSUME AccountsInv, NEW r \in Request, InsertUser(r)
    PROVE  AccountsInv'
<1>a. /\ req \in [Request -> RequestState] /\ tx \in [Request -> TxState]
      /\ requests \in 0..MaxRequests /\ faults \in 0..MaxFaults
      /\ ReqInv(r) /\ req[r] \in RequestState /\ nextRow \in Nat
  BY DEF AccountsInv, AccountsTypeOK
<1>b. req[r].step = "user" /\ UNCHANGED <<rowVars, requests, faults>>
  BY DEF InsertUser
<1>c. tx[r] = NoTx
  BY <1>b, NoTxUnless
<1>d. req[r].op # "none" /\ req[r].answer = 0 /\ req[r].email \in Email
  BY <1>a, <1>b DEF ReqInv
<1>1. ASSUME Rollback(r) PROVE AccountsInv'
  BY <1>1, <1>a, <1>b, RefusedKeeps DEF Rollback
<1>2. ASSUME NEW u \in User, user[u].state = "absent", Open(u) = {},
             tx' = [tx EXCEPT ![r].user = u],
             req' = [req EXCEPT ![r] = [@ EXCEPT
                    !.user = u, !.step = IF req[r].op = "oauth" THEN "link" ELSE "assign"]]
      PROVE  AccountsInv'
  <2> DEFINE next == IF req[r].op = "oauth" THEN "link" ELSE "assign"
             k == [req[r] EXCEPT !.user = u, !.step = next]
             x == [tx[r] EXCEPT !.user = u]
  <2>1. next \in {"link", "assign"} /\ (next = "link" <=> req[r].op = "oauth")
    OBVIOUS
  <2> HIDE DEF next
  <2>2. /\ k.op = req[r].op /\ k.step = next /\ k.user = u /\ k.email = req[r].email
        /\ k.identity = req[r].identity /\ k.answer = 0
    BY <1>a, <1>d DEF RequestState
  <2>3. k \in RequestState
    <3>1. [req[r] EXCEPT !.user = u] \in RequestState
      BY <1>a DEF RequestState
    <3>2. \A j \in RequestState : [j EXCEPT !.step = next] \in RequestState
      BY <2>1 DEF RequestState, Step
    <3> QED
      BY <3>1, <3>2
  <2>4. req' = [req EXCEPT ![r] = k]
    BY <1>2 DEF next
  <2>5. x \in TxState /\ x.user = u /\ x.identity = None /\ x.rows = {}
    BY <1>c DEF NoTx, TxState
  <2>6. tx' = [tx EXCEPT ![r] = x]
    BY <1>2
  <2> HIDE DEF k, x
  <2>7. /\ req' \in [Request -> RequestState] /\ req'[r] = k
        /\ tx' \in [Request -> TxState] /\ tx'[r] = x
        /\ \A o \in Request \ {r} : req'[o] = req[o] /\ tx'[o] = tx[o]
    BY <2>3, <2>4, <2>5, <2>6, <1>a
  <2>8. \A o \in Request \ {r} : tx[o].user # u
    BY <1>2 DEF Open
  <2>9. u # None
    BY AccountsAssumption
  <2>10. ReqInv(r)'
    BY <2>1, <2>2, <2>5, <2>7, <2>9, <1>a, <1>b, <1>d DEF ReqInv
  <2>11. TxInv(r)'
    BY <2>1, <2>2, <2>5, <2>7, <2>8, <2>9, <1>b, <1>d, <1>2 DEF TxInv, rowVars
  <2>12. LoginInv(r)'
    BY <2>1, <2>2, <2>7 DEF LoginInv
  <2>13. RowsInv'
    <3>1. \A o \in Request : IsFiniteSet(tx'[o].rows)
      BY <2>5, <2>7, FS_EmptySet DEF AccountsInv, RowsInv
    <3> QED
      BY <3>1, <1>b DEF AccountsInv, RowsInv, rowVars
  <2>14. AccountsTypeOK'
    BY <2>7, <1>b DEF AccountsInv, AccountsTypeOK, rowVars
  <2>15. /\ \A v \in User : user'[v].state = user[v].state
                           \/ (user[v].state = "absent" /\ v = tx[r].user)
         /\ \A i \in Identity : link[i] # None => link'[i] = link[i]
         /\ audited \subseteq audited' /\ nextRow' >= nextRow
    BY <1>a, <1>b DEF rowVars
  <2>16. \A o \in Request \ {r} : tx'[r].user # None => tx'[r].user # tx[o].user
    BY <2>5, <2>7, <2>8
  <2>17. \A o \in Request \ {r} : req'[o] = req[o] /\ tx'[o] = tx[o]
    BY <2>7
  <2> QED
    BY <2>10, <2>11, <2>12, <2>13, <2>14, <2>15, <2>16, <2>17, OneSlot
<1> QED
  BY <1>1, <1>2 DEF InsertUser

\* A request whose transaction is open goes on to the next await.
LEMMA GoesOn ==
    ASSUME AccountsInv, NEW r \in Request, NEW step \in {"assign", "audit", "commit"},
           Goto(r, step), req[r].op # "none", req[r].answer = 0, req[r].step # "done",
           tx' \in [Request -> TxState], \A o \in Request \ {r} : tx'[o] = tx[o],
           tx[r].user # None, tx'[r].user = tx[r].user,
           tx'[r].identity # None => req[r].op = "oauth",
           IsFiniteSet(tx'[r].rows),
           \A row \in tx'[r].rows : row.user = tx[r].user /\ row.id < nextRow',
           nextRow' \in Nat, nextRow' >= nextRow,
           UNCHANGED <<user, link, assigned, audited, requests, faults>>,
           step = "assign" => req[r].op # "none",
           step = "audit" => req[r].op # "create", step = "commit" => req[r].op = "create"
    PROVE  AccountsInv'
<1>1. /\ req \in [Request -> RequestState] /\ ReqInv(r) /\ TxInv(r) /\ LoginInv(r)
      /\ tx[r] \in TxState /\ nextRow \in Nat /\ assigned \subseteq Row
  BY DEF AccountsInv, AccountsTypeOK
<1>2. /\ req' \in [Request -> RequestState] /\ \A o \in Request \ {r} : req'[o] = req[o]
      /\ req'[r].op = req[r].op /\ req'[r].step = step /\ req'[r].user = req[r].user
      /\ req'[r].email = req[r].email /\ req'[r].identity = req[r].identity
      /\ req'[r].answer = 0
  BY <1>1, GotoFacts DEF Step
<1>3. /\ tx[r].user = req[r].user /\ tx[r].user \in User /\ user[tx[r].user].state = "absent"
      /\ req[r].step \in {"link", "assign", "audit", "commit"} /\ req[r].email \in Email
      /\ \A o \in Request \ {r} : tx[o].user # tx[r].user
  BY <1>1 DEF TxInv
<1>4. req[r].op \in Op
  BY <1>1 DEF RequestState
<1>5. ReqInv(r)'
  BY <1>1, <1>2, <1>3, <1>4 DEF ReqInv, Op
<1>6. TxInv(r)'
  BY <1>2, <1>3 DEF TxInv
<1>7. LoginInv(r)'
  BY <1>1, <1>2 DEF LoginInv
<1>8. AccountsTypeOK'
  BY <1>2 DEF AccountsInv, AccountsTypeOK
<1>9. RowsInv'
  <2>1. \A row \in assigned : row.id < nextRow => row.id < nextRow'
    BY <1>1 DEF Row
  <2>2. \A o \in Request : IsFiniteSet(tx'[o].rows)
    BY DEF AccountsInv, RowsInv
  <2> QED
    BY <2>1, <2>2 DEF AccountsInv, RowsInv
<1>10. \A o \in Request \ {r} : tx'[r].user # None => tx'[r].user # tx[o].user
  BY <1>3
<1>11. \A o \in Request \ {r} : req'[o] = req[o] /\ tx'[o] = tx[o]
  BY <1>2
<1>12. /\ \A v \in User : user'[v].state = user[v].state
                           \/ (user[v].state = "absent" /\ v = tx[r].user)
       /\ \A i \in Identity : link[i] # None => link'[i] = link[i]
       /\ audited \subseteq audited'
  OBVIOUS
<1> QED
  BY <1>5, <1>6, <1>7, <1>8, <1>9, <1>10, <1>11, <1>12, OneSlot

LEMMA InsertLinkKeeps ==
    ASSUME AccountsInv, NEW r \in Request, InsertLink(r)
    PROVE  AccountsInv'
<1>a. /\ req \in [Request -> RequestState] /\ tx \in [Request -> TxState]
      /\ requests \in 0..MaxRequests /\ faults \in 0..MaxFaults
      /\ ReqInv(r) /\ TxInv(r) /\ nextRow \in Nat /\ tx[r] \in TxState
  BY DEF AccountsInv, AccountsTypeOK
<1>b. req[r].step = "link" /\ UNCHANGED <<rowVars, requests, faults>>
  BY DEF InsertLink
<1>c. req[r].op = "oauth" /\ req[r].answer = 0 /\ tx[r].user # None
      /\ req[r].identity \in Identity
  BY <1>a, <1>b DEF ReqInv
<1>1. ASSUME Rollback(r) PROVE AccountsInv'
  BY <1>1, <1>a, <1>b, RefusedKeeps DEF Rollback
<1>2. ASSUME tx' = [tx EXCEPT ![r].identity = req[r].identity], Goto(r, "assign")
      PROVE  AccountsInv'
  <2> DEFINE x == [tx[r] EXCEPT !.identity = req[r].identity]
  <2>1. x \in TxState /\ x.user = tx[r].user /\ x.rows = tx[r].rows
    BY <1>a, <1>c DEF TxState
  <2>2. tx' = [tx EXCEPT ![r] = x]
    BY <1>2
  <2> HIDE DEF x
  <2>3. /\ tx' \in [Request -> TxState] /\ tx'[r] = x
        /\ \A o \in Request \ {r} : tx'[o] = tx[o]
    BY <2>1, <2>2, <1>a
  <2>4. IsFiniteSet(tx[r].rows) /\ \A row \in tx[r].rows : row.user = tx[r].user /\ row.id < nextRow
    BY <1>a, <1>c DEF AccountsInv, RowsInv, TxInv
  <2>5. nextRow' \in Nat /\ nextRow' >= nextRow /\ nextRow' = nextRow
    BY <1>a, <1>b DEF rowVars
  <2>6. UNCHANGED <<user, link, assigned, audited, requests, faults>>
    BY <1>b DEF rowVars
  <2> QED
    BY <2>1, <2>3, <2>4, <2>5, <2>6, <1>2, <1>b, <1>c, GoesOn
<1> QED
  BY <1>1, <1>2 DEF InsertLink

LEMMA AssignDefaultKeeps ==
    ASSUME AccountsInv, NEW r \in Request, AssignDefault(r)
    PROVE  AccountsInv'
<1>a. /\ req \in [Request -> RequestState] /\ tx \in [Request -> TxState]
      /\ ReqInv(r) /\ TxInv(r) /\ nextRow \in Nat /\ tx[r] \in TxState
  BY DEF AccountsInv, AccountsTypeOK
<1>b. /\ req[r].step = "assign" /\ UNCHANGED <<user, link, assigned, audited, requests, faults>>
      /\ Goto(r, IF req[r].op = "create" THEN "commit" ELSE "audit")
  BY DEF AssignDefault
<1>c. req[r].op # "none" /\ req[r].answer = 0 /\ tx[r].user # None
      /\ (tx[r].identity # None => req[r].op = "oauth")
  BY <1>a, <1>b DEF ReqInv
<1>d. /\ tx[r].user = req[r].user /\ tx[r].user \in User
      /\ \A row \in tx[r].rows : row.user = tx[r].user /\ row.id < nextRow
  BY <1>a, <1>c DEF TxInv
<1>e. IsFiniteSet(tx[r].rows)
  BY DEF AccountsInv, RowsInv
<1>1. ASSUME NEW rows, tx' \in [Request -> TxState], \A o \in Request \ {r} : tx'[o] = tx[o],
             tx'[r].user = tx[r].user, tx'[r].identity = tx[r].identity, tx'[r].rows = rows,
             IsFiniteSet(rows), \A row \in rows : row.user = tx[r].user /\ row.id < nextRow',
             nextRow' \in Nat, nextRow' >= nextRow
      PROVE  AccountsInv'
  <2>1. CASE req[r].op = "create"
    BY <2>1, <1>1, <1>b, <1>c, GoesOn
  <2>2. CASE req[r].op # "create"
    BY <2>2, <1>1, <1>b, <1>c, GoesOn
  <2> QED
    BY <2>1, <2>2
<1>2. ASSUME UNCHANGED <<tx, nextRow>> PROVE AccountsInv'
  BY <1>2, <1>1, <1>a, <1>d, <1>e
<1>3. ASSUME NEW role \in Role, nextRow' = nextRow + 1,
             tx' = [tx EXCEPT ![r].rows = {[id |-> nextRow, user |-> req[r].user, role |-> role,
                                            scope |-> Global]}]
      PROVE  AccountsInv'
  <2> DEFINE row == [id |-> nextRow, user |-> req[r].user, role |-> role, scope |-> Global]
             x   == [tx[r] EXCEPT !.rows = {row}]
  <2>1. row \in Row /\ row.user = tx[r].user /\ row.id = nextRow
    BY <1>a, <1>d DEF Row, Scope
  <2>2. tx' = [tx EXCEPT ![r] = x]
    BY <1>3
  <2> HIDE DEF row
  <2>3. x \in TxState /\ x.user = tx[r].user /\ x.identity = tx[r].identity /\ x.rows = {row}
    BY <2>1, <1>a DEF TxState
  <2> HIDE DEF x
  <2>4. /\ tx' \in [Request -> TxState] /\ tx'[r] = x
        /\ \A o \in Request \ {r} : tx'[o] = tx[o]
    BY <2>2, <2>3, <1>a
  <2>5. IsFiniteSet({row})
    BY FS_Singleton
  <2>6. nextRow' \in Nat /\ nextRow' >= nextRow /\ nextRow < nextRow'
    BY <1>3, <1>a
  <2> QED
    BY <2>1, <2>3, <2>4, <2>5, <2>6, <1>1
<1> QED
  BY <1>2, <1>3 DEF AssignDefault

\* Only UsersService.create comes to the commit.
LEMMA CommitKeeps ==
    ASSUME AccountsInv, NEW r \in Request, Commit(r)
    PROVE  AccountsInv'
<1>a. /\ req \in [Request -> RequestState] /\ tx \in [Request -> TxState] /\ link \in [Identity -> User \cup {None}]
      /\ ReqInv(r) /\ TxInv(r) /\ nextRow \in Nat /\ tx[r] \in TxState /\ req[r] \in RequestState
      /\ assigned \subseteq Row
  BY DEF AccountsInv, AccountsTypeOK
<1>b. /\ req[r].step = "commit" /\ UNCHANGED <<nextRow, audited, requests, faults>> /\ Answer(r, 201)
      /\ assigned' = assigned \cup tx[r].rows /\ tx' = [tx EXCEPT ![r] = NoTx]
  BY DEF Commit
<1>c. req[r].op = "create" /\ tx[r].user # None /\ tx[r].identity = None
  BY <1>a, <1>b DEF ReqInv, RequestState, Op
<1>d. /\ tx[r].user \in User /\ user[tx[r].user].state = "absent" /\ req[r].email \in Email
      /\ \A row \in tx[r].rows : row.id < nextRow
  BY <1>a, <1>c DEF TxInv
<1>1. link' = link
  <2>1. \A j \in Identity : j # None
    BY AccountsAssumption
  <2>2. link' = [j \in Identity |-> IF j = None THEN tx[r].user ELSE link[j]]
    BY <1>c DEF Commit
  <2>3. link' = [j \in Identity |-> link[j]]
    BY <2>1, <2>2
  <2> QED
    BY <2>3, <1>a
<1>2. /\ user' \in [User -> [state : {"absent", "present", "gone"}, email : Email \cup {None},
                             super : BOOLEAN]]
      /\ \A v \in User : user'[v].state = user[v].state
                       \/ (user[v].state = "absent" /\ v = tx[r].user)
  <2>1. PICK super \in BOOLEAN :
            user' = [user EXCEPT ![tx[r].user] = [state |-> "present", email |-> req[r].email,
                                                  super |-> super]]
    BY DEF Commit
  <2>2. user \in [User -> [state : {"absent", "present", "gone"}, email : Email \cup {None},
                           super : BOOLEAN]]
    BY DEF AccountsInv, AccountsTypeOK
  <2>3. [state |-> "present", email |-> req[r].email, super |-> super]
            \in [state : {"absent", "present", "gone"}, email : Email \cup {None}, super : BOOLEAN]
    BY <1>d
  <2> QED
    BY <2>1, <2>2, <2>3, <1>d
<1>3. /\ req' \in [Request -> RequestState] /\ \A o \in Request \ {r} : req'[o] = req[o]
      /\ req'[r].op = "create" /\ req'[r].step = "done"
  BY <1>a, <1>b, <1>c, AnswerFacts
<1>4. tx' \in [Request -> TxState] /\ tx'[r] = NoTx /\ \A o \in Request \ {r} : tx'[o] = tx[o]
  BY <1>a, <1>b, NoTxType
<1>5. assigned' \subseteq Row
  BY <1>a, <1>b DEF TxState
<1>6. AccountsTypeOK'
  BY <1>1, <1>2, <1>3, <1>4, <1>5, <1>b DEF AccountsInv, AccountsTypeOK
<1>7. RowsInv'
  <2>1. \A row \in assigned' : row.id < nextRow'
    BY <1>b, <1>d DEF AccountsInv, RowsInv
  <2>2. IsFiniteSet(assigned')
    BY <1>b, FS_Union DEF AccountsInv, RowsInv
  <2>3. \A o \in Request : IsFiniteSet(tx'[o].rows)
    BY <1>4, NoTxType, FS_EmptySet DEF AccountsInv, RowsInv
  <2>4. \A u \in audited' : user'[u].state = "present"
    <3>1. \A u \in audited : u \in User /\ user[u].state = "present"
      BY DEF AccountsInv, AccountsTypeOK, RowsInv
    <3> QED
      BY <3>1, <1>2, <1>b
  <2> QED
    BY <2>1, <2>2, <2>3, <2>4 DEF RowsInv
<1>8. ReqInv(r)' /\ TxInv(r)' /\ LoginInv(r)'
  BY <1>3, <1>4, NoTxType DEF ReqInv, TxInv, LoginInv
<1>9. \A o \in Request \ {r} : tx'[r].user # None => tx'[r].user # tx[o].user
  BY <1>4, NoTxType
<1>10. \A o \in Request \ {r} : req'[o] = req[o] /\ tx'[o] = tx[o]
  BY <1>3, <1>4
<1>11. /\ \A i \in Identity : link[i] # None => link'[i] = link[i]
       /\ audited \subseteq audited' /\ nextRow' >= nextRow
  BY <1>1, <1>a, <1>b
<1> QED
  BY <1>2, <1>6, <1>7, <1>8, <1>9, <1>10, <1>11, OneSlot

\* A login without transaction goes on or is answered: links and audit rows may be added.
LEMMA LoginGoesOn ==
    ASSUME AccountsInv, NEW r \in Request, tx[r] = NoTx, req[r].op = "oauth",
           UNCHANGED <<user, assigned, nextRow, tx, requests, faults>>,
           req' \in [Request -> RequestState], \A o \in Request \ {r} : req'[o] = req[o],
           link' \in [Identity -> User \cup {None}],
           \A i \in Identity : link[i] # None => link'[i] = link[i],
           audited' \subseteq User, audited \subseteq audited',
           \A u \in audited' : user[u].state = "present",
           ReqInv(r)', LoginInv(r)'
    PROVE  AccountsInv'
<1>1. AccountsTypeOK'
  BY DEF AccountsInv, AccountsTypeOK
<1>2. RowsInv'
  BY DEF AccountsInv, RowsInv
<1>3. TxInv(r)'
  BY NoTxType DEF TxInv
<1>4. \A o \in Request \ {r} : tx'[r].user # None => tx'[r].user # tx[o].user
  BY NoTxType
<1>5. \A o \in Request \ {r} : req'[o] = req[o] /\ tx'[o] = tx[o]
  OBVIOUS
<1>6. nextRow \in Nat
  BY DEF AccountsInv, AccountsTypeOK
<1>7. nextRow' >= nextRow
  BY <1>6
<1>8. \A v \in User : user'[v].state = user[v].state
                       \/ (user[v].state = "absent" /\ v = tx[r].user)
  OBVIOUS
<1> QED
  BY <1>1, <1>2, <1>3, <1>4, <1>5, <1>7, <1>8, OneSlot

LEMMA LinkExistingKeeps ==
    ASSUME AccountsInv, NEW r \in Request, LinkExisting(r)
    PROVE  AccountsInv'
<1>a. /\ req \in [Request -> RequestState] /\ ReqInv(r) /\ LoginInv(r)
      /\ link \in [Identity -> User \cup {None}] /\ audited \subseteq User
      /\ \A u \in audited : user[u].state = "present"
  BY DEF AccountsInv, AccountsTypeOK, RowsInv
<1>b. /\ req[r].step = "linkExisting"
      /\ UNCHANGED <<user, assigned, nextRow, audited, tx, requests, faults>>
  BY DEF LinkExisting
<1>c. /\ req[r].op = "oauth" /\ req[r].user \in User /\ req[r].identity \in Identity
      /\ req[r].answer = 0 /\ user[req[r].user].state # "absent" /\ tx[r] = NoTx
  BY <1>a, <1>b, NoTxUnless DEF ReqInv, LoginInv
<1>1. ASSUME link[req[r].identity] = None, link' = [link EXCEPT ![req[r].identity] = req[r].user],
             Goto(r, "audit")
      PROVE  AccountsInv'
  <2>1. /\ req' \in [Request -> RequestState] /\ \A o \in Request \ {r} : req'[o] = req[o]
        /\ req'[r].op = "oauth" /\ req'[r].step = "audit" /\ req'[r].user = req[r].user
        /\ req'[r].identity = req[r].identity /\ req'[r].answer = 0
    BY <1>1, <1>a, <1>c, GotoFacts DEF Step
  <2>2. /\ link' \in [Identity -> User \cup {None}] /\ link'[req[r].identity] = req[r].user
        /\ \A i \in Identity : link[i] # None => link'[i] = link[i]
    BY <1>1, <1>a, <1>c
  <2>3. ReqInv(r)'
    BY <2>1, <1>b, <1>c, NoTxType DEF ReqInv
  <2>4. LoginInv(r)'
    BY <2>1, <2>2, <1>b, <1>c DEF LoginInv
  <2> QED
    BY <2>1, <2>2, <2>3, <2>4, <1>a, <1>b, <1>c, LoginGoesOn
<1>2. ASSUME Answer(r, 400), UNCHANGED link PROVE AccountsInv'
  BY <1>2, <1>b, <1>c, AnsweredKeeps DEF rowVars
<1> QED
  BY <1>1, <1>2 DEF LinkExisting

\* The audit row finds no user that its own transaction has inserted.
LEMMA AuditKeeps ==
    ASSUME AccountsInv, NEW r \in Request, Audit(r)
    PROVE  AccountsInv'
<1>a. /\ req \in [Request -> RequestState] /\ ReqInv(r) /\ TxInv(r) /\ LoginInv(r)
      /\ link \in [Identity -> User \cup {None}] /\ audited \subseteq User
      /\ requests \in 0..MaxRequests /\ faults \in 0..MaxFaults
      /\ \A u \in audited : user[u].state = "present"
  BY DEF AccountsInv, AccountsTypeOK, RowsInv
<1>b. /\ req[r].step = "audit" /\ UNCHANGED <<user, link, assigned, nextRow, requests, faults>>
      /\ req[r].user \in User /\ req[r].answer = 0
  BY <1>a DEF Audit, ReqInv
<1>1. ASSUME Visible(r), audited' = audited \cup {req[r].user}, Goto(r, "session"), UNCHANGED tx
      PROVE  AccountsInv'
  <2>1. user[req[r].user].state = "present"
    BY <1>1 DEF Visible, IsThere
  <2>2. tx[r].user = None /\ tx[r] = NoTx
    BY <2>1, <1>a DEF TxInv
  <2>3. req[r].op = "oauth" /\ link[req[r].identity] = req[r].user /\ req[r].identity \in Identity
    BY <2>1, <2>2, <1>a, <1>b DEF LoginInv, IsThere, ReqInv
  <2>4. /\ req' \in [Request -> RequestState] /\ \A o \in Request \ {r} : req'[o] = req[o]
        /\ req'[r].op = "oauth" /\ req'[r].step = "session" /\ req'[r].user = req[r].user
        /\ req'[r].identity = req[r].identity /\ req'[r].answer = 0
    BY <1>1, <1>a, <1>b, <2>3, GotoFacts DEF Step
  <2>5. ReqInv(r)'
    BY <2>2, <2>3, <2>4, <1>1, <1>b, NoTxType DEF ReqInv
  <2>6. LoginInv(r)'
    BY <2>3, <2>4, <1>1, <1>b DEF LoginInv
  <2>7. /\ audited' \subseteq User /\ audited \subseteq audited'
        /\ \A u \in audited' : user[u].state = "present"
    BY <2>1, <1>1, <1>a, <1>b
  <2>8. link' \in [Identity -> User \cup {None}] /\ \A i \in Identity : link[i] # None => link'[i] = link[i]
    BY <1>a, <1>b
  <2>9. UNCHANGED <<user, assigned, nextRow, tx, requests, faults>>
    BY <1>1, <1>b
  <2> QED
    BY <2>2, <2>3, <2>4, <2>5, <2>6, <2>7, <2>8, <2>9, LoginGoesOn
<1>2. ASSUME Rollback(r), UNCHANGED audited PROVE AccountsInv'
  BY <1>2, <1>a, <1>b, RefusedKeeps DEF Rollback, rowVars
<1> QED
  BY <1>1, <1>2 DEF Audit

LEMMA CreateSessionKeeps ==
    ASSUME AccountsInv, NEW r \in Request, CreateSession(r)
    PROVE  AccountsInv'
<1>a. /\ req \in [Request -> RequestState] /\ ReqInv(r) /\ LoginInv(r)
      /\ link \in [Identity -> User \cup {None}] /\ audited \subseteq User
      /\ requests \in 0..MaxRequests /\ faults \in 0..MaxFaults
      /\ \A u \in audited : user[u].state = "present"
  BY DEF AccountsInv, AccountsTypeOK, RowsInv
<1>b. req[r].step = "session" /\ UNCHANGED <<rowVars, requests, faults>>
  BY DEF CreateSession
<1>c. /\ tx[r] = NoTx /\ tx[r].user = None /\ req[r].op = "oauth"
      /\ link[req[r].identity] = req[r].user /\ req[r].user \in audited
      /\ req[r].identity \in Identity
  BY <1>a, <1>b, NoTxUnless, NoTxType DEF LoginInv, ReqInv
<1>1. ASSUME Answer(r, 200), UNCHANGED tx PROVE AccountsInv'
  <2>1. /\ req' \in [Request -> RequestState] /\ \A o \in Request \ {r} : req'[o] = req[o]
        /\ req'[r].op = "oauth" /\ req'[r].step = "done" /\ req'[r].user = req[r].user
        /\ req'[r].identity = req[r].identity /\ req'[r].answer = 200
    BY <1>1, <1>a, <1>c, AnswerFacts
  <2>2. ReqInv(r)'
    BY <2>1, <1>c, <1>1, NoTxType DEF ReqInv
  <2>3. LoginInv(r)'
    BY <2>1, <1>b, <1>c DEF LoginInv, rowVars
  <2>4. /\ UNCHANGED <<user, assigned, nextRow, tx, requests, faults>>
        /\ link' = link /\ audited' = audited
    BY <1>1, <1>b DEF rowVars
  <2> QED
    BY <2>1, <2>2, <2>3, <2>4, <1>a, <1>c, LoginGoesOn
<1>2. ASSUME Rollback(r) PROVE AccountsInv'
  BY <1>2, <1>a, <1>b, RefusedKeeps DEF Rollback
<1> QED
  BY <1>1, <1>2, <1>c DEF CreateSession

LEMMA FaultKeeps ==
    ASSUME AccountsInv, NEW r \in Request, Fault(r)
    PROVE  AccountsInv'
<1>1. faults \in 0..MaxFaults /\ faults < MaxFaults /\ faults' = faults + 1
  BY DEF AccountsInv, AccountsTypeOK, Fault
<1>2. faults' \in 0..MaxFaults
  BY <1>1, AccountsAssumption
<1> QED
  BY <1>2, RefusedKeeps DEF Fault, Rollback

LEMMA SignUpKeeps == AccountsInv /\ SignUp => AccountsInv'
<1> SUFFICES ASSUME AccountsInv, NEW r \in Request,
        \/ \E e \in Email : Register(r, e) \/ CreateUser(r, e)
        \/ \E i \in Identity : OAuth(r, i)
        \/ FindEmail(r) \/ InsertUser(r) \/ InsertLink(r) \/ AssignDefault(r) \/ Commit(r)
        \/ LinkExisting(r) \/ Audit(r) \/ CreateSession(r) \/ Fault(r)
    PROVE  AccountsInv'
  BY DEF SignUp
<1> QED
  BY RegisterKeeps, OAuthKeeps, FindEmailKeeps, InsertUserKeeps, InsertLinkKeeps,
     AssignDefaultKeeps, CommitKeeps, LinkExistingKeeps, AuditKeeps, CreateSessionKeeps, FaultKeeps

-----------------------------------------------------------------------------
(* UsersService.update and remove *)

LEMMA UpdateUserKeeps ==
    ASSUME AccountsInv, NEW u \in User, NEW e \in Email, NEW super \in BOOLEAN,
           UpdateUser(u, e, super)
    PROVE  AccountsInv'
<1>1. /\ user \in [User -> [state : {"absent", "present", "gone"}, email : Email \cup {None},
                            super : BOOLEAN]]
      /\ user' = [user EXCEPT ![u].email = e, ![u].super = super]
      /\ UNCHANGED <<link, assigned, nextRow, audited, req, tx, requests, faults>>
      /\ nextRow \in Nat
  BY DEF AccountsInv, AccountsTypeOK, UpdateUser
<1>2. /\ user' \in [User -> [state : {"absent", "present", "gone"}, email : Email \cup {None},
                             super : BOOLEAN]]
      /\ \A v \in User : user'[v].state = user[v].state
  <2> DEFINE UserRec == [state : {"absent", "present", "gone"}, email : Email \cup {None},
                         super : BOOLEAN]
             mid == [user EXCEPT ![u].email = e]
  <2>1. mid \in [User -> UserRec] /\ \A v \in User : mid[v].state = user[v].state
    BY <1>1
  <2>2. \A m \in [User -> UserRec] :
            /\ [m EXCEPT ![u].super = super] \in [User -> UserRec]
            /\ \A v \in User : [m EXCEPT ![u].super = super][v].state = m[v].state
    OBVIOUS
  <2>3. user' = [mid EXCEPT ![u].super = super]
    BY <1>1
  <2> HIDE DEF mid, UserRec
  <2>4. user' \in [User -> UserRec] /\ \A v \in User : user'[v].state = user[v].state
    BY <2>1, <2>2, <2>3
  <2> QED
    BY <2>4 DEF UserRec
<1>3. AccountsTypeOK'
  BY <1>1, <1>2 DEF AccountsInv, AccountsTypeOK
<1>4. /\ assigned' \subseteq Row /\ IsFiniteSet(assigned')
      /\ \A row \in assigned' : row.id < nextRow'
      /\ nextRow' \in Nat /\ nextRow' >= nextRow
  BY <1>1 DEF AccountsInv, AccountsTypeOK, RowsInv
<1> QED
  BY <1>1, <1>2, <1>3, <1>4, AccountsFrame

LEMMA RemoveUserKeeps ==
    ASSUME AccountsInv, NEW u \in User, RemoveUser(u)
    PROVE  AccountsInv'
<1>1. /\ user \in [User -> [state : {"absent", "present", "gone"}, email : Email \cup {None},
                            super : BOOLEAN]]
      /\ user' = [user EXCEPT ![u] = [state |-> "gone", email |-> None, super |-> FALSE]]
      /\ UNCHANGED <<nextRow, audited, req, tx, requests, faults>>
      /\ link' = [i \in Identity |-> IF link[i] = u THEN None ELSE link[i]]
      /\ link \in [Identity -> User \cup {None}]
      /\ assigned' \subseteq assigned
      /\ user[u].state = "present" /\ u \notin audited
  BY DEF AccountsInv, AccountsTypeOK, RemoveUser, IsThere
<1>2. /\ user' \in [User -> [state : {"absent", "present", "gone"}, email : Email \cup {None},
                             super : BOOLEAN]]
      /\ \A v \in User \ {u} : user'[v] = user[v]
      /\ user'[u].state = "gone"
  BY <1>1
<1>3. /\ link' \in [Identity -> User \cup {None}]
      /\ \A i \in Identity, v \in User \ {u} : link[i] = v => link'[i] = v
  BY <1>1
<1>4. AccountsTypeOK'
  BY <1>1, <1>2, <1>3 DEF AccountsInv, AccountsTypeOK
<1>5. RowsInv'
  <2>1. IsFiniteSet(assigned')
    BY <1>1, FS_Subset DEF AccountsInv, RowsInv
  <2>2. \A v \in audited : v \in User \ {u} /\ user[v].state = "present"
    BY <1>1 DEF AccountsInv, AccountsTypeOK, RowsInv
  <2> QED
    BY <1>1, <1>2, <2>1, <2>2 DEF AccountsInv, RowsInv
<1>6. ASSUME NEW r \in Request PROVE ReqInv(r)'
  BY <1>1 DEF AccountsInv, ReqInv
<1>7. ASSUME NEW r \in Request PROVE TxInv(r)'
  <2>1. TxInv(r)
    BY DEF AccountsInv
  <2>2. tx[r].user # None => tx[r].user # u
    BY <2>1, <1>1 DEF TxInv
  <2> QED
    BY <1>1, <1>2, <2>1, <2>2 DEF TxInv
<1>8. ASSUME NEW r \in Request PROVE LoginInv(r)'
  <2>1. LoginInv(r) /\ ReqInv(r) /\ audited \subseteq User
    BY DEF AccountsInv, AccountsTypeOK
  <2>2. \A v \in User : user[v].state # "absent" => user'[v].state # "absent"
    BY <1>2
  <2>3. \A v \in User : IsThere(v)' => IsThere(v) /\ v # u
    BY <1>2 DEF IsThere
  <2>4. req[r].op = "oauth" => req[r].identity \in Identity
    BY <2>1 DEF ReqInv
  <2>5. req[r].step \in {"linkExisting", "audit", "session"} => req[r].user \in User
    BY <2>1 DEF ReqInv
  <2>6. \A v \in audited : v \in User /\ v # u
    BY <2>1, <1>1
  <2> QED
    BY <1>1, <1>3, <2>1, <2>2, <2>3, <2>4, <2>5, <2>6 DEF LoginInv
<1> QED
  BY <1>4, <1>5, <1>6, <1>7, <1>8 DEF AccountsInv

-----------------------------------------------------------------------------

LEMMA StaysLinked == AccountsInv => OAuthLoginStaysLinked
<1> SUFFICES ASSUME AccountsInv, NEW r \in Request, req[r].op = "oauth",
                    req[r].answer \notin {0, 400}
             PROVE  IsThere(req[r].user) /\ link[req[r].identity] = req[r].user
  BY DEF OAuthLoginStaysLinked
<1> QED
  BY DEF AccountsInv, LoginInv, RowsInv, IsThere

LEMMA NoRegistration == AccountsInv => \A r \in Request :
    req[r].op = "register" => req[r].answer \in {0, 400}
BY DEF AccountsInv, LoginInv

================================================================================
