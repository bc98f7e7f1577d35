------------------------------ MODULE Accounts -------------------------------
(***************************************************************************)
(* How accounts come and go: AuthService.register, findOrCreateOAuthUser   *)
(* for an identity no account is linked to, and UsersService.create,       *)
(* update and remove.  Three of them use an interactive transaction; what  *)
(* they call on other services runs on another connection of the pool,     *)
(* which does not see what the transaction has written.                    *)
(*                                                                         *)
(* PostgreSQL runs the transactions READ COMMITTED: a statement sees what  *)
(* is committed and what its own transaction wrote; an insert that meets a *)
(* key another open transaction has inserted waits for its end.            *)
(*                                                                         *)
(* Passwords, names, and the first workspace of an account (module Tenancy *)
(* has it) are left out; the login of a linked identity is in Sessions.    *)
(***************************************************************************)
EXTENDS Integers, FiniteSets

CONSTANTS
    User, Email,
    Founder, EmailAt,      \* the accounts there from the start, and their emails
    Initial, FirstRow,     \* the role assignments there may be at the start; their ids are lower
    Identity, EmailOf,     \* accounts at an OAuth provider, and the email it tells
    Role, Workspace,
    None, Global,          \* null, and the scope of an assignment without workspace
    Request,               \* slots for concurrent requests
    MaxRequests, MaxFaults \* bounds on clients and on failures

ASSUME AccountsAssumption ==
    /\ Founder \subseteq User
    /\ EmailAt \in [Founder -> Email]
    /\ \A u, v \in Founder : EmailAt[u] = EmailAt[v] => u = v
    /\ EmailOf \in [Identity -> Email]
    /\ FirstRow \in Nat
    /\ Initial \subseteq SUBSET [id : 0..(FirstRow - 1), user : Founder, role : Role,
                                 scope : Workspace \cup {Global}]
    /\ \A rows \in Initial : IsFiniteSet(rows)
    /\ None \notin User \cup Email \cup Identity \cup Role \cup Workspace
    /\ Global \notin Workspace
    /\ MaxRequests \in Nat
    /\ MaxFaults \in Nat

VARIABLES
    user,      \* the rows of users: state, email, and whether the role is SUPER
    link,      \* oauth_providers: the user an identity is linked to
    assigned,  \* the rows of user_roles
    nextRow,   \* ids of user_roles are not used again
    audited,   \* the users an audit row refers to
    req,       \* what each request slot is doing
    tx,        \* what the open transaction of a slot has written
    requests, faults  \* the budgets already used

rowVars     == <<user, link, assigned, nextRow, audited>>
accountVars == <<rowVars, req, tx, requests, faults>>

Scope == Workspace \cup {Global}
Row   == [id : Nat, user : User, role : Role, scope : Scope]
Op    == {"none", "register", "oauth", "create"}
Step  == {"idle", "email", "user", "link", "assign", "linkExisting", "audit", "session",
          "commit", "done"}

\* A request slot: its operation and next await, the account it is about or about to
\* make, and the answer, once it has one: 400 stands for every refusal.
RequestState ==
    [op : Op, step : Step, user : User \cup {None}, email : Email \cup {None},
     identity : Identity \cup {None}, answer : {0, 200, 201, 400}]

Idle == [op |-> "none", step |-> "idle", user |-> None, email |-> None,
         identity |-> None, answer |-> 0]

TxState == [user : User \cup {None}, identity : Identity \cup {None}, rows : SUBSET Row]
NoTx    == [user |-> None, identity |-> None, rows |-> {}]

AccountsTypeOK ==
    /\ user \in [User -> [state : {"absent", "present", "gone"}, email : Email \cup {None},
                          super : BOOLEAN]]
    /\ link \in [Identity -> User \cup {None}]
    /\ assigned \subseteq Row
    /\ nextRow \in Nat
    /\ audited \subseteq User
    /\ req \in [Request -> RequestState]
    /\ tx \in [Request -> TxState]
    /\ requests \in 0..MaxRequests /\ faults \in 0..MaxFaults

AccountsInit ==
    /\ user = [u \in User |->
                IF u \in Founder
                THEN [state |-> "present", email |-> EmailAt[u], super |-> FALSE]
                ELSE [state |-> "absent", email |-> None, super |-> FALSE]]
    /\ link = [i \in Identity |-> None]
    /\ assigned \in Initial
    /\ nextRow = FirstRow
    /\ audited = {}
    /\ req = [r \in Request |-> Idle]
    /\ tx = [r \in Request |-> NoTx]
    /\ requests = 0 /\ faults = 0

IsThere(u)   == user[u].state = "present"
Emails       == {user[u].email : u \in {v \in User : IsThere(v)}}
At(r, op, step) == req[r].op = op /\ req[r].step = step
Goto(r, step)   == req' = [req EXCEPT ![r].step = step]

Answer(r, code) == req' = [req EXCEPT ![r] = [@ EXCEPT !.step = "done", !.answer = code]]

\* Slot r takes a request; an answered one is over.
Takes(r, rec) ==
    /\ req[r].step \in {"idle", "done"}
    /\ requests < MaxRequests
    /\ requests' = requests + 1
    /\ req' = [req EXCEPT ![r] = rec]
    /\ tx' = [tx EXCEPT ![r] = NoTx]
    /\ UNCHANGED faults

\* The transaction of slot r is rolled back, and the request answered with 400.
Rollback(r) ==
    /\ tx' = [tx EXCEPT ![r] = NoTx]
    /\ Answer(r, 400)

-----------------------------------------------------------------------------
(* The first reads *)

Register(r, e) ==
    /\ Takes(r, [Idle EXCEPT !.op = "register", !.step = "email", !.email = e])
    /\ UNCHANGED rowVars

CreateUser(r, e) ==
    /\ Takes(r, [Idle EXCEPT !.op = "create", !.step = "email", !.email = e])
    /\ UNCHANGED rowVars

\* An identity that is linked logs in, which is module Sessions.
OAuth(r, i) ==
    /\ link[i] = None
    /\ Takes(r, [Idle EXCEPT !.op = "oauth", !.step = "email", !.identity = i,
                             !.email = EmailOf[i]])
    /\ UNCHANGED rowVars

\* An account with the email ends a registration; an identity is linked to it.
FindEmail(r) ==
    /\ req[r].step = "email"
    /\ \/ /\ req[r].email \notin Emails
          /\ Goto(r, "user")
       \/ /\ req[r].email \in Emails /\ req[r].op # "oauth"
          /\ Answer(r, 400)
       \/ \E u \in User :
            /\ IsThere(u) /\ user[u].email = req[r].email /\ req[r].op = "oauth"
            /\ req' = [req EXCEPT ![r] = [@ EXCEPT !.step = "linkExisting", !.user = u]]
    /\ UNCHANGED <<rowVars, tx, requests, faults>>

-----------------------------------------------------------------------------
(* The transaction: the user, the link, the default role *)

Open(u) == {r \in Request : tx[r].user = u}
OpenEmail(e) == {r \in Request : tx[r].user # None /\ req[r].email = e}

\* Waits while another open transaction has inserted the email.
InsertUser(r) ==
    /\ req[r].step = "user"
    /\ OpenEmail(req[r].email) = {}
    /\ \/ /\ req[r].email \in Emails
          /\ Rollback(r)
       \/ \E u \in User :
            /\ req[r].email \notin Emails
            /\ user[u].state = "absent" /\ Open(u) = {}
            /\ tx' = [tx EXCEPT ![r].user = u]
            /\ req' = [req EXCEPT ![r] = [@ EXCEPT
                    !.user = u, !.step = IF req[r].op = "oauth" THEN "link" ELSE "assign"]]
    /\ UNCHANGED <<rowVars, requests, faults>>

OpenIdentity(i) == {r \in Request : tx[r].identity = i}

InsertLink(r) ==
    /\ req[r].step = "link"
    /\ OpenIdentity(req[r].identity) = {}
    /\ \/ /\ link[req[r].identity] # None
          /\ Rollback(r)
       \/ /\ link[req[r].identity] = None
          /\ tx' = [tx EXCEPT ![r].identity = req[r].identity]
          /\ Goto(r, "assign")
    /\ UNCHANGED <<rowVars, requests, faults>>

\* The default role, if there is one by that name; a registration goes on to the audit
\* row, with the workspace and the membership of the new user in between.
AssignDefault(r) ==
    /\ req[r].step = "assign"
    /\ \/ UNCHANGED <<tx, nextRow>>
       \/ \E role \in Role :
            /\ tx' = [tx EXCEPT ![r].rows = {[id |-> nextRow, user |-> req[r].user,
                                              role |-> role, scope |-> Global]}]
            /\ nextRow' = nextRow + 1
    /\ Goto(r, IF req[r].op = "create" THEN "commit" ELSE "audit")
    /\ UNCHANGED <<user, link, assigned, audited, requests, faults>>

\* Only UsersService.create may make a SUPER user.
Commit(r) ==
    /\ req[r].step = "commit"
    /\ LET u == tx[r].user  i == tx[r].identity IN
        /\ \E super \in BOOLEAN :
            /\ super => req[r].op = "create"
            /\ user' = [user EXCEPT ![u] = [state |-> "present", email |-> req[r].email,
                                            super |-> super]]
        /\ link' = [j \in Identity |-> IF j = i THEN u ELSE link[j]]
    /\ assigned' = assigned \cup tx[r].rows
    /\ tx' = [tx EXCEPT ![r] = NoTx]
    /\ Answer(r, 201)
    /\ UNCHANGED <<nextRow, audited, requests, faults>>

-----------------------------------------------------------------------------
(* What sign-up does on a second connection *)

\* Refused by one of the two unique keys, or by the foreign key when the user is gone.
LinkExisting(r) ==
    LET u == req[r].user  i == req[r].identity IN
    /\ req[r].step = "linkExisting"
    /\ OpenIdentity(i) = {}
    /\ \/ /\ IsThere(u) /\ link[i] = None /\ u \notin {link[j] : j \in Identity}
          /\ link' = [link EXCEPT ![i] = u]
          /\ Goto(r, "audit")
       \/ /\ ~IsThere(u) \/ link[i] # None \/ u \in {link[j] : j \in Identity}
          /\ Answer(r, 400)
          /\ UNCHANGED link
    /\ UNCHANGED <<user, assigned, nextRow, audited, tx, requests, faults>>

\* AuditLogsService and TokensService have a client of their own: they see the user only
\* if it is committed.
Visible(r) == IsThere(req[r].user)

\* Mutant of Audit: a login goes on without its audit row.
AuditUnwritten(r) ==
    /\ req[r].step = "audit"
    /\ Goto(r, "session")
    /\ UNCHANGED <<rowVars, tx, requests, faults>>

Audit(r) ==
    /\ req[r].step = "audit"
    /\ \/ /\ Visible(r)
          /\ audited' = audited \cup {req[r].user}
          /\ Goto(r, "session")
          /\ UNCHANGED tx
       \/ /\ ~Visible(r)
          /\ Rollback(r)
          /\ UNCHANGED audited
    /\ UNCHANGED <<user, link, assigned, nextRow, requests, faults>>

\* The session; without a transaction the request is answered.
CreateSession(r) ==
    /\ req[r].step = "session"
    /\ \/ /\ Visible(r) /\ tx[r].user = None /\ Answer(r, 200) /\ UNCHANGED tx
       \/ /\ Visible(r) /\ tx[r].user # None /\ Goto(r, "commit") /\ UNCHANGED tx
       \/ /\ ~Visible(r) /\ Rollback(r)
    /\ UNCHANGED <<rowVars, requests, faults>>

\* An await that rejects; what was not in the transaction stays.
Fault(r) ==
    /\ req[r].step \notin {"idle", "done"}
    /\ faults < MaxFaults
    /\ faults' = faults + 1
    /\ Rollback(r)
    /\ UNCHANGED <<rowVars, requests>>

-----------------------------------------------------------------------------
(* UsersService.update and remove *)

\* PATCH /users/:id, which may change the role and the email.
UpdateUser(u, e, super) ==
    /\ IsThere(u)
    /\ e \notin {user[v].email : v \in {w \in User : IsThere(w)} \ {u}}
    /\ OpenEmail(e) = {}
    /\ <<e, super>> # <<user[u].email, user[u].super>>
    /\ user' = [user EXCEPT ![u].email = e, ![u].super = super]
    /\ UNCHANGED <<link, assigned, nextRow, audited, req, tx, requests, faults>>

\* audit_logs restrict the delete; links and role assignments go with the user.
RemoveUser(u) ==
    /\ IsThere(u) /\ u \notin audited
    /\ user' = [user EXCEPT ![u] = [state |-> "gone", email |-> None, super |-> FALSE]]
    /\ link' = [i \in Identity |-> IF link[i] = u THEN None ELSE link[i]]
    /\ assigned' = {row \in assigned : row.user # u}
    /\ UNCHANGED <<nextRow, audited, req, tx, requests, faults>>

SignUp ==
    \E r \in Request :
        \/ \E e \in Email : Register(r, e) \/ CreateUser(r, e)
        \/ \E i \in Identity : OAuth(r, i)
        \/ FindEmail(r) \/ InsertUser(r) \/ InsertLink(r) \/ AssignDefault(r) \/ Commit(r)
        \/ LinkExisting(r) \/ Audit(r) \/ CreateSession(r) \/ Fault(r)

-----------------------------------------------------------------------------
(* Properties *)

\* An identity that has logged in for the first time, and been answered, stays linked, and to
\* an account that stays: the delete of the account would take the link along, and the audit
\* row of the login refuses it.  This is so whatever other first logins, links and deletes
\* come between the awaits of findOrCreateOAuthUser.
OAuthLoginStaysLinked ==
    \A r \in Request :
        req[r].op = "oauth" /\ req[r].answer \notin {0, 400} =>
            IsThere(req[r].user) /\ link[req[r].identity] = req[r].user

\* What auth.controller.ts documents for POST /auth/register: 201, "Registration
\* successful"; a 400 only if there is an account with the email, or an await failed.
\* The audit row that register writes inside its transaction goes over another connection,
\* where its foreign key finds no user.
RegistrationSucceeds ==
    \A r \in Request :
        req[r].op = "register" /\ req[r].answer = 400 => req[r].email \in Emails \/ faults > 0

=============================================================================
