------------------------------ MODULE Sessions -------------------------------
(***************************************************************************)
(* TokensService, PasswordlessService and the parts of AuthService built   *)
(* on them: the rows of the tables sessions and passwordless_tokens, the   *)
(* JWTs that name them, and the requests that log in, refresh, log out and *)
(* follow a magic link.  Every await is a boundary between two actions;    *)
(* nothing here runs in a transaction.                                     *)
(*                                                                         *)
(* A refresh token is the JWT of a session row, and each has an expiry of  *)
(* its own.  A failing call and a process that dies leave the same state   *)
(* behind: Fault stands for both.  A request that is refused before it has *)
(* changed anything is not an action.                                      *)
(***************************************************************************)
EXTENDS Naturals

CONSTANTS
    User, Session, Link,
    Request,        \* slots for concurrent requests
    NoUser, NoSession, NoLink,
    Lifetimes,      \* values REFRESH_TOKEN_EXPIRATION may have, in units of the clock
    DefaultLife,    \* the seven days every session row gets
    LinkLife,       \* the quarter of an hour a magic link is good for
    MaxTime, MaxRequests, MaxFaults  \* bounds on the clock, on clients and on failures

ASSUME SessionsAssumption ==
    /\ NoUser \notin User
    /\ NoSession \notin Session
    /\ NoLink \notin Link
    /\ Lifetimes \subseteq Nat
    /\ DefaultLife \in Nat \ {0}
    /\ LinkLife \in Nat \ {0}
    /\ MaxTime \in Nat
    /\ MaxRequests \in Nat
    /\ MaxFaults \in Nat

VARIABLES
    config,   \* REFRESH_TOKEN_EXPIRATION: its value, and whether its unit is d or h
    now,      \* the clock
    users,    \* the users whose row is there
    audited,  \* the users an audit row refers to
    sess,     \* the session rows, with the expiry of the JWT that names each
    revoked,  \* the sessions whose is_revoked is set
    link,     \* the magic links, with the expiry of the JWT in the mail
    used,     \* the links whose is_used is set
    req,      \* what each request slot is doing
    held,      \* history: the sessions whose refresh token reached a client
    loggedOut, \* history: the sessions a logout answered with success covers
    raced,     \* history: the links two requests found unused
    broken,    \* history: the sessions and links a request failed on half-way
    requests, faults  \* the budgets already used

tokenVars   == <<sess, revoked, link, used>>
userVars    == <<users, audited>>
historyVars == <<held, loggedOut, raced, broken>>
budgetVars  == <<requests, faults>>
vars == <<config, now, userVars, tokenVars, req, historyVars, budgetVars>>

RowState == {"absent", "present", "deleted"}
Op   == {"none", "login", "oauth", "refresh", "logout", "logoutAll", "createLink", "verify"}
Step == {"idle", "find", "expire", "touch", "revoke", "insert", "mark", "session", "audit", "reply"}

\* A request slot: whose rows it works on, the sessions a logout is for, whether a
\* refresh began after a logout of its session was answered, and when it began.
RequestState ==
    [op : Op, step : Step, user : User \cup {NoUser}, sess : Session \cup {NoSession},
     link : Link \cup {NoLink}, covers : SUBSET Session, late : BOOLEAN, began : 0..MaxTime]

Idle == [op |-> "none", step |-> "idle", user |-> NoUser, sess |-> NoSession,
         link |-> NoLink, covers |-> {}, late |-> FALSE, began |-> 0]

\* The foreign keys are part of the types: a session or link row has its user's row.
TypeOK ==
    /\ config \in [life : Lifetimes, parsed : BOOLEAN]
    /\ now \in 0..MaxTime
    /\ users \subseteq User
    /\ audited \subseteq users
    /\ sess \in [Session -> [state : RowState, user : User \cup {NoUser},
                             link : Link \cup {NoLink}, rowExp : Nat, jwtExp : Nat]]
    /\ link \in [Link -> [state : RowState, user : User \cup {NoUser},
                          rowExp : Nat, jwtExp : Nat]]
    /\ \A s \in Session : sess[s].state = "present" => sess[s].user \in users
    /\ \A l \in Link : link[l].state = "present" => link[l].user \in users
    /\ revoked \subseteq Session
    /\ used \subseteq Link
    /\ req \in [Request -> RequestState]
    /\ held \subseteq Session
    /\ loggedOut \subseteq Session
    /\ raced \subseteq Link
    /\ broken \subseteq Session \cup Link
    /\ requests \in 0..MaxRequests
    /\ faults \in 0..MaxFaults

\* The users are there: UsersService.create made them, which writes no audit row.
Init ==
    /\ config \in [life : Lifetimes, parsed : BOOLEAN]
    /\ now = 0
    /\ users = User
    /\ audited = {}
    /\ sess = [s \in Session |-> [state |-> "absent", user |-> NoUser, link |-> NoLink,
                                  rowExp |-> 0, jwtExp |-> 0]]
    /\ revoked = {}
    /\ link = [l \in Link |-> [state |-> "absent", user |-> NoUser, rowExp |-> 0, jwtExp |-> 0]]
    /\ used = {}
    /\ req = [r \in Request |-> Idle]
    /\ held = {}
    /\ loggedOut = {}
    /\ raced = {}
    /\ broken = {}
    /\ requests = 0
    /\ faults = 0

\* Slot r starts a request that goes on at `step`.
Begin(r, op, step, u, s, l, covers, late) ==
    /\ req[r].step = "idle"
    /\ requests < MaxRequests
    /\ requests' = requests + 1
    /\ req' = [req EXCEPT ![r] = [op |-> op, step |-> step, user |-> u, sess |-> s,
                                  link |-> l, covers |-> covers, late |-> late, began |-> now]]
    /\ UNCHANGED <<config, now, userVars, tokenVars, historyVars, faults>>

Goto(r, step) == req' = [req EXCEPT ![r].step = step]
End(r)        == req' = [req EXCEPT ![r] = Idle]

\* jwtService.verify, of the token whose JWT expires at e.
Verifies(e) == now < e

-----------------------------------------------------------------------------
(* What the requests read first *)

\* login: validateUser finds the row and the password fits.
Login(r, u) ==
    /\ u \in users
    /\ Begin(r, "login", "session", u, NoSession, NoLink, {}, FALSE)

\* findOrCreateOAuthUser, for a provider already linked to u.
LoginOAuth(r, u) ==
    /\ u \in users
    /\ Begin(r, "oauth", "audit", u, NoSession, NoLink, {}, FALSE)

\* The access token of u, who has logged in, lets a request through the guard.
Authenticated(u) == \E s \in held : sess[s].user = u

\* refreshTokens and logout, with a refresh token whose JWT still verifies; the caller
\* who logs out need not be the user the token is of.  A refresh with any other JWT is
\* refused, and a logout with an access token, whose jti no row has, changes no row.
Refresh(r, s) ==
    /\ s \in held
    /\ Verifies(sess[s].jwtExp)
    /\ Begin(r, "refresh", "find", sess[s].user, s, NoLink, {}, s \in loggedOut)

Logout(r, s, u) ==
    /\ s \in held
    /\ Verifies(sess[s].jwtExp)
    /\ Authenticated(u)
    /\ Begin(r, "logout", "revoke", u, s, NoLink, {s}, FALSE)

\* logout with the JWT of a magic link, which has no jti.
LogoutByLink(r, l, u) ==
    /\ Verifies(link[l].jwtExp)
    /\ Authenticated(u)
    /\ Begin(r, "logout", "revoke", u, NoSession, NoLink, {}, FALSE)

\* logoutFromAllDevices.
LogoutAll(r, u) ==
    /\ Authenticated(u)
    /\ Begin(r, "logoutAll", "revoke", u, NoSession, NoLink,
             {s \in Session : sess[s].state = "present" /\ sess[s].user = u}, FALSE)

\* createMagicLink finds the user; verifyMagicLink is given a link that was mailed.
CreateLink(r, u) ==
    /\ u \in users
    /\ Begin(r, "createLink", "insert", u, NoSession, NoLink, {}, FALSE)

Verify(r, l) ==
    /\ Verifies(link[l].jwtExp)
    /\ Begin(r, "verify", "find", link[l].user, NoSession, l, {}, FALSE)

\* verifyMagicLink with an access or refresh token of u, which names no link.
VerifyByToken(r, u) ==
    /\ Authenticated(u)
    /\ Begin(r, "verify", "find", u, NoSession, NoLink, {}, FALSE)

-----------------------------------------------------------------------------
(* TokensService *)

Row(s) == sess[s].state = "present"

\* Mutant of RowLife: the unit is not parsed, every row gets the default alone.
RowLifeDefault == DefaultLife

\* How long a session row is good for: the default, plus the value the JWT gets if its
\* unit is one the code parses.
RowLife == DefaultLife + (IF config.parsed THEN config.life ELSE 0)

\* Mutant of AfterSession: the audit of a login is left out.
AfterSessionNoAudit(op) == "reply"

\* The step after generateRefreshToken.
AfterSession(op) == IF op = "login" THEN "audit" ELSE "reply"

\* Mutant of CreateSession: no foreign key, the insert does not look at the user.
CreateSessionNoKey(r, s) ==
    /\ req[r].step = "session"
    /\ sess[s].state = "absent"
    /\ sess' = [sess EXCEPT ![s] = [state |-> "present", user |-> req[r].user,
                                    link |-> req[r].link, rowExp |-> now + RowLife,
                                    jwtExp |-> now + config.life]]
    /\ req' = [req EXCEPT ![r].step = AfterSession(req[r].op), ![r].sess = s]
    /\ UNCHANGED <<config, now, userVars, revoked, link, used, historyVars, budgetVars>>

\* generateRefreshToken: the row, under a fresh id, then the JWT; the foreign key
\* refuses the row of a user who is gone.
CreateSession(r, s) ==
    /\ req[r].step = "session"
    /\ sess[s].state = "absent"
    /\ IF req[r].user \in users
       THEN /\ sess' = [sess EXCEPT ![s] =
                          [state |-> "present", user |-> req[r].user, link |-> req[r].link,
                           rowExp |-> now + RowLife, jwtExp |-> now + config.life]]
            /\ req' = [req EXCEPT ![r].step = AfterSession(req[r].op), ![r].sess = s]
       ELSE End(r) /\ UNCHANGED sess
    /\ UNCHANGED <<config, now, userVars, revoked, link, used, historyVars, budgetVars>>

\* Mutant of Live: is_revoked is not looked at.
LiveIfPresent(s) == Row(s)

\* What validateRefreshToken asks of the row it has found, apart from its expiry.
Live(s) == Row(s) /\ s \notin revoked

\* validateRefreshToken, session.findUnique.
RefreshFind(r) ==
    LET s == req[r].sess IN
    /\ req[r].op = "refresh" /\ req[r].step = "find"
    /\ \/ ~Live(s) /\ End(r)
       \/ Live(s) /\ now > sess[s].rowExp /\ Goto(r, "expire")
       \/ Live(s) /\ now <= sess[s].rowExp /\ Goto(r, "touch")
    /\ UNCHANGED <<config, now, userVars, tokenVars, historyVars, budgetVars>>

\* An expired row is marked revoked, and the request refused.
RefreshExpire(r) ==
    /\ req[r].step = "expire"
    /\ revoked' = IF Row(req[r].sess) THEN revoked \cup {req[r].sess} ELSE revoked
    /\ End(r)
    /\ UNCHANGED <<config, now, userVars, sess, link, used, historyVars, budgetVars>>

\* Mutant of RefreshTouch: the whole row read before is written back.
RefreshTouchWritesBack(r) ==
    /\ req[r].step = "touch"
    /\ IF Row(req[r].sess)
       THEN /\ revoked' = revoked \ {req[r].sess}
            /\ Goto(r, "audit")
       ELSE End(r) /\ UNCHANGED revoked
    /\ UNCHANGED <<config, now, userVars, sess, link, used, historyVars, budgetVars>>

\* lastActive is written; the update fails if the row has gone.
RefreshTouch(r) ==
    /\ req[r].step = "touch"
    /\ IF Row(req[r].sess) THEN Goto(r, "audit") ELSE End(r)
    /\ UNCHANGED <<config, now, userVars, tokenVars, historyVars, budgetVars>>

\* The rows the updateMany of revokeRefreshToken or revokeAllUserRefreshTokens selects:
\* a condition on a jti that is undefined is none.
Selected(r) ==
    {s \in Session : /\ Row(s)
                     /\ IF req[r].op = "logout" THEN req[r].sess \in {s, NoSession}
                                                ELSE sess[s].user = req[r].user}

Revoke(r) ==
    /\ req[r].step = "revoke"
    /\ revoked' = revoked \cup Selected(r)
    /\ Goto(r, "audit")
    /\ UNCHANGED <<config, now, userVars, sess, link, used, historyVars, budgetVars>>

-----------------------------------------------------------------------------
(* PasswordlessService *)

\* createMagicLink, the row; the foreign key refuses it if the user is gone.
InsertLink(r, l) ==
    /\ req[r].step = "insert"
    /\ link[l].state = "absent"
    /\ IF req[r].user \in users
       THEN /\ link' = [link EXCEPT ![l] = [state |-> "present", user |-> req[r].user,
                                            rowExp |-> now + LinkLife, jwtExp |-> 0]]
            /\ req' = [req EXCEPT ![r].step = "audit", ![r].link = l]
       ELSE End(r) /\ UNCHANGED link
    /\ UNCHANGED <<config, now, userVars, sess, revoked, used, historyVars, budgetVars>>

\* Mutant of Unspent: is_used is not looked at.
UnspentIfFresh(l) == link[l].state = "present" /\ link[l].rowExp > now

\* What verifyMagicLink asks of the row.
Unspent(l) == link[l].state = "present" /\ l \notin used /\ link[l].rowExp > now

\* Whether another request has found l unused and has not marked it yet.
Contested(r, l) == \E q \in Request \ {r} : req[q].step = "mark" /\ req[q].link = l

\* What the findFirst of verifyMagicLink selects by: the link its JWT names, or any of the
\* user if it names none.
Named(r, l) ==
    \/ req[r].link = l
    \/ req[r].link = NoLink /\ link[l].user = req[r].user

\* verifyMagicLink, passwordlessToken.findFirst.
VerifyFind(r) ==
    /\ req[r].op = "verify" /\ req[r].step = "find"
    /\ \/ \E l \in Link :
            /\ Named(r, l) /\ Unspent(l)
            /\ req' = [req EXCEPT ![r].step = "mark", ![r].link = l]
            /\ raced' = IF Contested(r, l) THEN raced \cup {l} ELSE raced
       \/ /\ \A l \in Link : Named(r, l) => ~Unspent(l)
          /\ End(r)
          /\ UNCHANGED raced
    /\ UNCHANGED <<config, now, userVars, tokenVars, held, loggedOut, broken, budgetVars>>

\* Mutant of MarkUsed: the expiry is looked at once more, after the link is spent.
MarkUsedThenExpire(r) ==
    /\ req[r].step = "mark"
    /\ used' = used \cup {req[r].link}
    /\ IF link[req[r].link].rowExp > now THEN Goto(r, "audit") ELSE End(r)
    /\ UNCHANGED <<config, now, userVars, sess, revoked, link, historyVars, budgetVars>>

\* The link is marked by its id, whatever has happened to it since it was found.
MarkUsed(r) ==
    /\ req[r].step = "mark"
    /\ IF link[req[r].link].state = "present"
       THEN used' = used \cup {req[r].link} /\ Goto(r, "audit")
       ELSE End(r) /\ UNCHANGED used
    /\ UNCHANGED <<config, now, userVars, sess, revoked, link, historyVars, budgetVars>>

-----------------------------------------------------------------------------
(* Shared ends *)

\* The step after the audit row: two ways to log in write it before the session.
AfterAudit(op) == IF op \in {"verify", "oauth"} THEN "session" ELSE "reply"

\* auditLogsService.create; its foreign key fails the request of a user who is gone.
Audit(r) ==
    /\ req[r].step = "audit"
    /\ IF req[r].user \in users
       THEN /\ audited' = audited \cup {req[r].user}
            /\ Goto(r, AfterAudit(req[r].op))
       ELSE End(r) /\ UNCHANGED audited
    /\ UNCHANGED <<config, now, users, tokenVars, historyVars, budgetVars>>

\* The answer reaches the client: a refresh token, a logout confirmed, or, by mail, a
\* link, whose JWT is signed last.
Answer(r) ==
    LET op == req[r].op IN
    /\ req[r].step = "reply"
    /\ held' = IF op \in {"login", "oauth", "verify"} THEN held \cup {req[r].sess} ELSE held
    /\ loggedOut' = loggedOut \cup req[r].covers
    /\ link' = IF op = "createLink"
               THEN [link EXCEPT ![req[r].link].jwtExp = now + LinkLife]
               ELSE link
    /\ End(r)
    /\ UNCHANGED <<config, now, userVars, sess, revoked, used, raced, broken, budgetVars>>

Fault(r) ==
    /\ req[r].step # "idle"
    /\ faults < MaxFaults
    /\ faults' = faults + 1
    /\ broken' = broken \cup ({req[r].sess, req[r].link} \cap (Session \cup Link))
    /\ End(r)
    /\ UNCHANGED <<config, now, userVars, tokenVars, held, loggedOut, raced, requests>>

Proceed(r) ==
    \/ (\E s \in Session : CreateSession(r, s)) \/ (\E l \in Link : InsertLink(r, l))
    \/ RefreshFind(r) \/ RefreshExpire(r) \/ RefreshTouch(r) \/ Revoke(r)
    \/ VerifyFind(r) \/ MarkUsed(r) \/ Audit(r) \/ Answer(r)

-----------------------------------------------------------------------------
(* Users and time *)

\* Mutant of Cascade: the rows outlive the user they refer to.
CascadeNot(table, u) == table

\* ON DELETE CASCADE, for the rows of a table that refer to u.
Cascade(table, u) ==
    [x \in DOMAIN table |-> IF table[x].state = "present" /\ table[x].user = u
                            THEN [table[x] EXCEPT !.state = "deleted"] ELSE table[x]]

\* UsersService.remove: the audit rows restrict the delete, sessions and links go with
\* the user.
RemoveUser(u) ==
    /\ u \in users \ audited
    /\ users' = users \ {u}
    /\ sess' = Cascade(sess, u)
    /\ link' = Cascade(link, u)
    /\ UNCHANGED <<config, now, audited, revoked, used, req, historyVars, budgetVars>>

\* Time passes; a request sees at most one unit of it go by.
Tick ==
    /\ now < MaxTime
    /\ \A r \in Request : req[r].step # "idle" => req[r].began = now
    /\ now' = now + 1
    /\ UNCHANGED <<config, userVars, tokenVars, req, historyVars, budgetVars>>

-----------------------------------------------------------------------------

Next ==
    \/ \E r \in Request :
        \/ \E u \in User : Login(r, u) \/ LoginOAuth(r, u) \/ LogoutAll(r, u) \/ CreateLink(r, u)
                         \/ VerifyByToken(r, u)
        \/ \E s \in Session : Refresh(r, s) \/ \E u \in User : Logout(r, s, u)
        \/ \E l \in Link : Verify(r, l) \/ \E u \in User : LogoutByLink(r, l, u)
        \/ Proceed(r)
        \/ Fault(r)
    \/ \E u \in User : RemoveUser(u)
    \/ Tick

Spec == Init /\ [][Next]_vars

-----------------------------------------------------------------------------
(* Properties *)

\* Once a logout, of one device or of all, has been answered with success, no refresh
\* that begins later is granted, although the JWT still verifies and whatever other
\* requests are in flight.
NoRefreshAfterLogout ==
    \A r \in Request : req[r].op = "refresh" /\ req[r].step = "reply" => ~req[r].late

\* A session whose token reached a client keeps its row: each login leaves an audit row
\* before it answers, and audit rows restrict the delete that would cascade to it.
HeldSessionPersists == \A s \in held : Row(s) /\ sess[s].user \in users

\* A magic link logs in twice only if two requests both found it unused before either
\* had marked it.
TwoLoginsOnlyByRace ==
    \A s, t \in Session :
        s # t /\ sess[s].link = sess[t].link /\ sess[s].link # NoLink => sess[s].link \in raced

\* A link is spent without a login only by a failure half-way: in particular, neither its
\* expiry nor the removal of its user can come between.
SpentLinkLogsIn ==
    \A l \in used \ broken :
        \/ \E s \in Session : sess[s].link = l
        \/ \E r \in Request : /\ req[r].op = "verify" /\ req[r].link = l
                              /\ req[r].step \in {"audit", "session"}

\* A session row whose token never reached anybody is the leftover of a failure: a login
\* that will not be answered otherwise leaves none.
OrphanSessionOnlyByFault ==
    \A s \in Session \ (held \cup broken) :
        Row(s) => \E r \in Request : req[r].sess = s /\ req[r].step \in {"audit", "reply"}

\* "Mark token as revoked if expired" happens only when REFRESH_TOKEN_EXPIRATION has a
\* unit the code does not parse; with d or h the JWT has expired long before the row.
RowExpiresFirstOnlyIfUnparsed ==
    (\E r \in Request : req[r].step = "expire") => ~config.parsed

GateOf(s) ==
    CASE sess[s].state = "absent"          -> "unborn"
      [] Live(s) /\ now <= sess[s].rowExp -> "open"
      [] OTHER                             -> "closed"

AskOf(r) ==
    IF req[r].op # "refresh" THEN "none"
    ELSE CASE req[r].step \in {"find", "expire"} -> "asked"
           [] req[r].step \in {"touch", "audit"} -> "allowed"
           [] OTHER                              -> "granted"

TargetOf(r) == IF req[r].op = "refresh" THEN req[r].sess ELSE NoSession

Gate == INSTANCE SessionGate WITH
    gate   <- [s \in Session |-> GateOf(s)],
    ask    <- [r \in Request |-> AskOf(r)],
    target <- [r \in Request |-> TargetOf(r)]

\* Sessions are gates that close for good, and a refresh is granted only if it found its
\* gate open.
ImplementsGate == Gate!Spec

\* A magic link logs in at most once ("can only be used once").  The code does not
\* ensure it: the link is found unused and marked used in two awaits.
LinkLogsInOnce ==
    \A s, t \in Session : sess[s].link # NoLink /\ sess[s].link = sess[t].link => s = t

=============================================================================
