---------------------------- MODULE SessionsProofs ---------------------------
(***************************************************************************)
(* Proofs about Sessions, for any sets of users, sessions, links and       *)
(* requests and any bounds.                                                *)
(*                                                                         *)
(* The inductive invariant IInv says of each request slot what it has      *)
(* already done to the tables (ReqInv), of each session and link row how   *)
(* it agrees with users, audits and logouts (SessInv, LinkInv), and who    *)
(* answers for an unheld session and a spent link (OrphanInv, UseInv).     *)
(* The tables only grow (Grows): ids are fresh, rows are never rewritten   *)
(* except to be revoked, spent or deleted.  So a step of one request       *)
(* disturbs nothing ReqInv says of the others (Others).                    *)
(***************************************************************************)
EXTENDS Sessions, TLAPS

Logins  == {"login", "oauth", "verify"}
Logouts == {"logout", "logoutAll"}

Born(s)   == sess[s].state # "absent"
Closed(s) == Born(s) /\ ~Live(s)

\* The session request r created.
Made(r) ==
    /\ req[r].sess \in Session
    /\ Born(req[r].sess)
    /\ sess[req[r].sess].user = req[r].user
    /\ sess[req[r].sess].link = req[r].link

\* The link request r created or follows.
OfLink(r) ==
    /\ req[r].link \in Link
    /\ link[req[r].link].state # "absent"
    /\ link[req[r].link].user = req[r].user

LoginInv(r) ==
    req[r].op = "login" =>
        /\ req[r].step \in {"session", "audit", "reply"}
        /\ req[r].link = NoLink
        /\ req[r].step = "session" => req[r].sess = NoSession
        /\ req[r].step # "session" => Made(r)
        /\ req[r].step = "reply" => req[r].user \in audited

OAuthInv(r) ==
    req[r].op = "oauth" =>
        /\ req[r].step \in {"audit", "session", "reply"}
        /\ req[r].link = NoLink
        /\ req[r].step # "reply" => req[r].sess = NoSession
        /\ req[r].step = "reply" => Made(r)
        /\ req[r].step # "audit" => req[r].user \in audited

VerifyInv(r) ==
    req[r].op = "verify" =>
        /\ req[r].step \in {"find", "mark", "audit", "session", "reply"}
        /\ req[r].step = "find" => req[r].link = NoLink \/ OfLink(r)
        /\ req[r].step # "find" => OfLink(r)
        /\ req[r].step # "reply" => req[r].sess = NoSession
        /\ req[r].step = "reply" => Made(r)
        /\ req[r].user \in audited

CreateLinkInv(r) ==
    req[r].op = "createLink" =>
        /\ req[r].step \in {"insert", "audit", "reply"}
        /\ req[r].sess = NoSession
        /\ req[r].step = "insert" => req[r].link = NoLink
        /\ req[r].step # "insert" => OfLink(r)
        /\ req[r].step = "reply" => req[r].user \in audited

RefreshInv(r) ==
    req[r].op = "refresh" =>
        /\ req[r].step \in {"find", "expire", "touch", "audit", "reply"}
        /\ req[r].link = NoLink
        /\ req[r].sess \in held
        /\ req[r].step = "find" => req[r].began < sess[req[r].sess].jwtExp
        /\ req[r].step = "expire" => /\ now > sess[req[r].sess].rowExp
                                     /\ ~config.parsed

LogoutInv(r) ==
    req[r].op \in Logouts =>
        /\ req[r].step \in {"revoke", "audit", "reply"}
        /\ req[r].link = NoLink
        /\ req[r].op = "logout" =>
             \/ req[r].sess \in held /\ req[r].covers = {req[r].sess}
             \/ req[r].covers = {}
        /\ req[r].op = "logoutAll" => req[r].sess = NoSession
        /\ \A s \in req[r].covers : Born(s)
        /\ req[r].op = "logoutAll" => \A s \in req[r].covers : sess[s].user = req[r].user
        /\ req[r].step # "revoke" => \A s \in req[r].covers : Closed(s)

ReqInv(r) ==
    /\ req[r].op = "none" => req[r] = Idle
    /\ req[r].step = "idle" => req[r].op = "none"
    /\ req[r].op # "none" => req[r].user \in User /\ req[r].began <= now /\ now <= req[r].began + 1
    /\ req[r].op \notin Logouts => req[r].covers = {}
    /\ req[r].late => req[r].op = "refresh" /\ req[r].step = "find" /\ req[r].sess \in loggedOut
    /\ LoginInv(r) /\ OAuthInv(r) /\ VerifyInv(r) /\ CreateLinkInv(r)
    /\ RefreshInv(r) /\ LogoutInv(r)

SessInv(s) ==
    /\ ~Born(s) => s \notin revoked /\ s \notin held /\ s \notin loggedOut /\ sess[s].link = NoLink
    /\ sess[s].state = "deleted" => sess[s].user \notin users
    /\ Born(s) /\ config.parsed => sess[s].jwtExp < sess[s].rowExp
    /\ s \in held => sess[s].user \in audited
    /\ s \in loggedOut => ~Live(s)

LinkInv(l) ==
    /\ link[l].state = "deleted" => link[l].user \notin users
    /\ link[l].jwtExp > 0 => link[l].state # "absent" /\ link[l].user \in audited

\* Request r has created session s and not answered yet.
Makes(r, s) == req[r].op \in Logins /\ req[r].sess = s /\ req[r].step \in {"audit", "reply"}

OrphanInv(s) == Row(s) /\ s \notin held \cup broken => \E r \in Request : Makes(r, s)

\* Request r has found link l unused; it has marked it.
AtMark(r, l) == req[r].op = "verify" /\ req[r].link = l /\ req[r].step = "mark"
Past(r, l)   == req[r].op = "verify" /\ req[r].link = l /\ req[r].step \in {"audit", "session", "reply"}
Owed(r, l)   == Past(r, l) /\ req[r].step # "reply"
FromLink(s, l) == sess[s].link = l

FreshUse(l) ==
    l \notin used =>
        /\ \A s \in Session : ~FromLink(s, l)
        /\ \A r \in Request : ~Past(r, l)

SoleFinder(l) ==
    l \notin used \cup raced => \A q, r \in Request : AtMark(q, l) /\ AtMark(r, l) => q = r

SoleUse(l) ==
    l \in used \ raced =>
        /\ \A r \in Request : ~AtMark(r, l)
        /\ \A q, r \in Request : Past(q, l) /\ Past(r, l) => q = r
        /\ \A r \in Request, s \in Session : Owed(r, l) => ~FromLink(s, l)
        /\ \A s, t \in Session : FromLink(s, l) /\ FromLink(t, l) => s = t

SpentUse(l) ==
    l \in used \ broken =>
        \/ \E s \in Session : FromLink(s, l)
        \/ \E r \in Request : Owed(r, l)

UseInv(l) == FreshUse(l) /\ SoleFinder(l) /\ SoleUse(l) /\ SpentUse(l)

IInv ==
    /\ TypeOK
    /\ \A r \in Request : ReqInv(r)
    /\ \A s \in Session : SessInv(s) /\ OrphanInv(s)
    /\ \A l \in Link : LinkInv(l) /\ UseInv(l)

-----------------------------------------------------------------------------
(* Lemmas about one step *)

\* What a step never takes back.
Grows ==
    /\ config' = config
    /\ users' \subseteq users
    /\ audited \subseteq audited'
    /\ revoked \subseteq revoked'
    /\ held \subseteq held'
    /\ loggedOut \subseteq loggedOut'
    /\ \A s \in Session : Born(s) =>
          /\ sess'[s].state \in {sess[s].state, "deleted"}
          /\ sess'[s].user = sess[s].user
          /\ sess'[s].link = sess[s].link
          /\ sess'[s].rowExp = sess[s].rowExp
          /\ sess'[s].jwtExp = sess[s].jwtExp
    /\ \A l \in Link : link[l].state # "absent" =>
          /\ link'[l].state # "absent"
          /\ link'[l].user = link[l].user
          /\ link[l].jwtExp > 0 => link'[l].jwtExp > 0

\* A session that is closed stays closed.
LEMMA ClosedStays ==
    ASSUME Grows, NEW s \in Session, Closed(s)
    PROVE  Closed(s)'
BY DEF Grows, Closed, Born, Live, Row

\* A step that grows the tables disturbs nothing of a request it does not move.
LEMMA Others ==
    ASSUME TypeOK, Grows, now' = now, NEW r \in Request, ReqInv(r), req'[r] = req[r],
           \A s \in held : Born(s)
    PROVE  ReqInv(r)'
<1>1. req[r].sess \in held => req[r].sess \in Session /\ Born(req[r].sess)
  BY DEF TypeOK
<1>2. Made(r) => Made(r)'
  BY DEF Made, Grows, Born
<1>3. OfLink(r) => OfLink(r)'
  BY DEF OfLink, Grows
<1>4. LoginInv(r)'
  BY <1>2 DEF ReqInv, LoginInv, Grows
<1>5. OAuthInv(r)'
  BY <1>2 DEF ReqInv, OAuthInv, Grows
<1>6. VerifyInv(r)'
  BY <1>2, <1>3 DEF ReqInv, VerifyInv, Grows, OfLink
<1>7. CreateLinkInv(r)'
  BY <1>3 DEF ReqInv, CreateLinkInv, Grows
<1>8. RefreshInv(r)'
  BY <1>1 DEF ReqInv, RefreshInv, Grows
<1>9. LogoutInv(r)'
  <2> SUFFICES ASSUME req[r].op \in Logouts
               PROVE  LogoutInv(r)'
    BY DEF LogoutInv
  <2>1. req[r].covers \subseteq Session
    BY DEF TypeOK, RequestState
  <2>2. \A s \in req[r].covers : Closed(s) => Closed(s)'
    BY <2>1, ClosedStays
  <2>3. \A s \in req[r].covers : Born(s) /\ Born(s)' /\ sess'[s].user = sess[s].user
    BY <2>1 DEF ReqInv, LogoutInv, Grows, Born
  <2> QED
    BY <2>2, <2>3 DEF ReqInv, LogoutInv, Grows
<1> QED
  BY <1>4, <1>5, <1>6, <1>7, <1>8, <1>9 DEF ReqInv, Grows

\* Step of r that keeps the rows: the sessions somebody answers for still have one.
LEMMA OrphanStays ==
    ASSUME NEW r \in Request,
           \A q \in Request \ {r} : req'[q] = req[q],
           \A s \in Session : Row(s)' => Row(s),
           held \subseteq held', broken \subseteq broken',
           \A s \in Session : OrphanInv(s),
           \A s \in Session : Makes(r, s) /\ Row(s)' => Makes(r, s)' \/ s \in held' \cup broken'
    PROVE  \A s \in Session : OrphanInv(s)'
<1> SUFFICES ASSUME NEW s \in Session, Row(s)', s \notin held' \cup broken'
             PROVE  \E q \in Request : Makes(q, s)'
  BY DEF OrphanInv
<1>1. PICK q \in Request : Makes(q, s)
  BY DEF OrphanInv
<1>2. Makes(q, s)'
  BY <1>1 DEF Makes
<1> QED
  BY <1>2

\* A step of r that spends no link and brings r no nearer to a login.
LEMMA UseStays ==
    ASSUME NEW r \in Request,
           \A q \in Request \ {r} : req'[q] = req[q],
           \A s \in Session : sess'[s].link = sess[s].link,
           used' = used, raced \subseteq raced', broken \subseteq broken',
           \A l \in Link : UseInv(l),
           \A l \in Link : AtMark(r, l)' => AtMark(r, l),
           \A l \in Link : Past(r, l)' => Past(r, l),
           \A l \in Link : Owed(r, l)' => Owed(r, l),
           \A l \in Link : Owed(r, l) => Owed(r, l)' \/ l \in broken'
    PROVE  \A l \in Link : UseInv(l)'
<1> SUFFICES ASSUME NEW l \in Link
             PROVE  UseInv(l)'
  OBVIOUS
<1>1. UseInv(l)
  OBVIOUS
<1>2. \A s \in Session : FromLink(s, l)' = FromLink(s, l)
  BY DEF FromLink
<1>3. \A q \in Request : /\ AtMark(q, l)' => AtMark(q, l)
                         /\ Past(q, l)' => Past(q, l)
                         /\ Owed(q, l)' => Owed(q, l)
                         /\ Owed(q, l) => Owed(q, l)' \/ l \in broken'
  <2> TAKE q \in Request
  <2>1. CASE q = r
    BY <2>1
  <2>2. CASE q # r
    BY <2>2 DEF AtMark, Past, Owed
  <2> QED
    BY <2>1, <2>2
<1>4. FreshUse(l)'
  BY <1>1, <1>2, <1>3 DEF UseInv, FreshUse
<1>5. SoleFinder(l)'
  BY <1>1, <1>3 DEF UseInv, SoleFinder
<1>6. SoleUse(l)'
  <2> SUFFICES ASSUME l \in used \ raced
               PROVE  SoleUse(l)'
    BY DEF SoleUse
  <2>1. SoleUse(l)
    BY <1>1 DEF UseInv
  <2>2. \A q \in Request : ~AtMark(q, l)'
    BY <2>1, <1>3 DEF SoleUse
  <2>3. \A p, q \in Request : Past(p, l)' /\ Past(q, l)' => p = q
    BY <2>1, <1>3 DEF SoleUse
  <2>4. \A q \in Request, s \in Session : Owed(q, l)' => ~FromLink(s, l)'
    BY <2>1, <1>2, <1>3 DEF SoleUse
  <2>5. \A s, t \in Session : FromLink(s, l)' /\ FromLink(t, l)' => s = t
    BY <2>1, <1>2 DEF SoleUse
  <2> QED
    BY <2>2, <2>3, <2>4, <2>5 DEF SoleUse
<1>7. SpentUse(l)'
  BY <1>1, <1>2, <1>3 DEF UseInv, SpentUse
<1> QED
  BY <1>4, <1>5, <1>6, <1>7 DEF UseInv

-----------------------------------------------------------------------------
(* The request slots *)

LEMMA GotoFacts ==
    ASSUME NEW r \in Request, NEW step \in Step, req \in [Request -> RequestState], Goto(r, step)
    PROVE  /\ req' \in [Request -> RequestState]
           /\ \A q \in Request \ {r} : req'[q] = req[q]
           /\ req'[r].step = step
           /\ req'[r].op = req[r].op
           /\ req'[r].user = req[r].user
           /\ req'[r].sess = req[r].sess
           /\ req'[r].link = req[r].link
           /\ req'[r].covers = req[r].covers
           /\ req'[r].late = req[r].late
           /\ req'[r].began = req[r].began
BY DEF Goto, RequestState

LEMMA EndFacts ==
    ASSUME NEW r \in Request, TypeOK, End(r)
    PROVE  /\ req' \in [Request -> RequestState]
           /\ \A q \in Request \ {r} : req'[q] = req[q]
           /\ req'[r] = Idle
           /\ ReqInv(r)'
           /\ \A l \in Link : ~AtMark(r, l)' /\ ~Past(r, l)' /\ ~Owed(r, l)'
<1>1. Idle \in RequestState
  <2>1. now \in 0..MaxTime /\ MaxTime \in Nat
    BY SessionsAssumption DEF TypeOK
  <2> QED
    BY <2>1 DEF Idle, RequestState, Op, Step
<1>2. req'[r] = Idle
  BY DEF End, TypeOK
<1>3. req' \in [Request -> RequestState]
  BY <1>1 DEF End, TypeOK
<1>4. ReqInv(r)'
  BY <1>2 DEF ReqInv, Idle, Logouts, LoginInv, OAuthInv, VerifyInv, CreateLinkInv,
              RefreshInv, LogoutInv
<1>5. \A l \in Link : ~AtMark(r, l)' /\ ~Past(r, l)' /\ ~Owed(r, l)'
  BY <1>2 DEF Idle, AtMark, Past, Owed
<1> QED
  BY <1>2, <1>3, <1>4, <1>5 DEF End, TypeOK

\* Rows and history untouched, only rows revoked: what SessInv and LinkInv say stays.
LEMMA TablesStay ==
    ASSUME \A s \in Session : SessInv(s), \A l \in Link : LinkInv(l),
           UNCHANGED <<config, users, sess, link, held, loggedOut>>,
           audited \subseteq audited', revoked \subseteq revoked',
           \A s \in Session : s \in revoked' => s \in revoked \/ Row(s)
    PROVE  (\A s \in Session : SessInv(s)') /\ (\A l \in Link : LinkInv(l)')
<1>1. ASSUME NEW s \in Session
      PROVE  SessInv(s)'
  BY DEF SessInv, Born, Live, Row
<1>2. ASSUME NEW l \in Link
      PROVE  LinkInv(l)'
  BY DEF LinkInv
<1> QED
  BY <1>1, <1>2

LEMMA GrowsStill ==
    ASSUME UNCHANGED <<config, users, sess, link>>, audited \subseteq audited',
           revoked \subseteq revoked', held \subseteq held', loggedOut \subseteq loggedOut'
    PROVE  Grows
BY DEF Grows

LEMMA Compose ==
    ASSUME IInv, NEW r \in Request, TypeOK', Grows, now' = now,
           \A q \in Request \ {r} : req'[q] = req[q],
           ReqInv(r)',
           \A s \in Session : SessInv(s)', \A s \in Session : OrphanInv(s)',
           \A l \in Link : LinkInv(l)', \A l \in Link : UseInv(l)'
    PROVE  IInv'
<1>1. \A s \in held : Born(s)
  BY DEF IInv, TypeOK, SessInv
<1>2. \A q \in Request : ReqInv(q)'
  <2> TAKE q \in Request
  <2>1. CASE q = r
    BY <2>1
  <2>2. CASE q # r
    BY <1>1, <2>2, Others DEF IInv
  <2> QED
    BY <2>1, <2>2
<1> QED
  BY <1>2 DEF IInv

-----------------------------------------------------------------------------
(* The first step of a request *)

\* Slot r is taken by request rec.
Takes(r, rec) ==
    /\ req[r].step = "idle"
    /\ requests < MaxRequests /\ requests' = requests + 1
    /\ req' = [req EXCEPT ![r] = rec]
    /\ UNCHANGED <<config, now, users, audited, sess, revoked, link, used,
                   held, loggedOut, raced, broken, faults>>

LEMMA BeginStep ==
    ASSUME IInv, NEW r \in Request, NEW rec \in RequestState, Takes(r, rec),
           rec.op = "verify" => rec.step = "find",
           ReqInv(r)'
    PROVE  IInv'
<1>1. /\ req[r].step = "idle"
      /\ req'[r] = rec
      /\ \A q \in Request \ {r} : req'[q] = req[q]
      /\ req' \in [Request -> RequestState]
      /\ UNCHANGED <<config, now, users, audited, sess, revoked, link, used,
                     held, loggedOut, raced, broken>>
  BY DEF IInv, TypeOK, Takes
<1>2. TypeOK'
  <2>1. requests' \in 0..MaxRequests
    BY SessionsAssumption DEF IInv, TypeOK, Takes
  <2> QED
    BY <1>1, <2>1 DEF IInv, TypeOK, Takes
<1>3. Grows
  BY <1>1, GrowsStill
<1>4. \A x \in Session : SessInv(x) /\ OrphanInv(x)
  BY DEF IInv
<1>5. (\A x \in Session : SessInv(x)') /\ (\A x \in Link : LinkInv(x)')
  <2>1. UNCHANGED <<config, users, sess, revoked, link, held, loggedOut>>
    BY <1>1
  <2>2. \A x \in Link : LinkInv(x)
    BY DEF IInv
  <2> QED
    BY <1>1, <1>4, <2>1, <2>2, TablesStay
<1>6. \A x \in Session : OrphanInv(x)'
  <2>1. \A x \in Session : ~Makes(r, x)
    BY <1>1 DEF Makes
  <2>2. \A x \in Session : Row(x)' => Row(x)
    BY <1>1 DEF Row
  <2> QED
    BY <1>1, <1>4, <2>1, <2>2, OrphanStays
<1>7. \A x \in Link : UseInv(x)'
  <2>1. \A x \in Link : UseInv(x)
    BY DEF IInv
  <2>2. \A x \in Link : ~AtMark(r, x)' /\ ~Past(r, x)' /\ ~Owed(r, x)' /\ ~Owed(r, x)
    BY <1>1 DEF AtMark, Past, Owed
  <2> QED
    BY <1>1, <2>1, <2>2, UseStays
<1> QED
  BY <1>1, <1>2, <1>3, <1>5, <1>6, <1>7, Compose

\* A session that reached a client is there, under its user, who is audited.
LEMMA HeldFacts ==
    ASSUME IInv, NEW s \in Session, s \in held
    PROVE  Born(s) /\ Row(s) /\ sess[s].user \in audited /\ sess[s].user \in User
<1>1. Born(s) /\ sess[s].user \in audited /\ (sess[s].state = "deleted" => sess[s].user \notin users)
  BY DEF IInv, SessInv
<1>2. audited \subseteq users /\ users \subseteq User /\ sess[s].state \in RowState
  BY DEF IInv, TypeOK
<1> QED
  BY <1>1, <1>2 DEF Born, Row, RowState

LEMMA Clock == IInv => now \in Nat /\ now \in 0..MaxTime
BY SessionsAssumption DEF IInv, TypeOK

LEMMA LoginNext ==
    ASSUME IInv, NEW r \in Request, NEW u \in User, Login(r, u) \/ LoginOAuth(r, u)
    PROVE  IInv'
<1>1. CASE Login(r, u)
  <2>1. PICK rec \in RequestState :
          rec = [op |-> "login", step |-> "session", user |-> u, sess |-> NoSession,
                 link |-> NoLink, covers |-> {}, late |-> FALSE, began |-> now]
    BY Clock DEF RequestState, Op, Step
  <2>2. Takes(r, rec)
    BY <1>1, <2>1 DEF Login, Begin, Takes, userVars, tokenVars, historyVars
  <2>3. req'[r] = rec /\ now' = now
    BY <2>2 DEF Takes, IInv, TypeOK
  <2>4. ReqInv(r)'
    BY <2>1, <2>3, Clock DEF ReqInv, Logouts, LoginInv, OAuthInv, VerifyInv, CreateLinkInv,
                             RefreshInv, LogoutInv
  <2> QED
    BY <2>1, <2>2, <2>4, BeginStep
<1>2. CASE LoginOAuth(r, u)
  <2>1. PICK rec \in RequestState :
          rec = [op |-> "oauth", step |-> "audit", user |-> u, sess |-> NoSession,
                 link |-> NoLink, covers |-> {}, late |-> FALSE, began |-> now]
    BY Clock DEF RequestState, Op, Step
  <2>2. Takes(r, rec)
    BY <1>2, <2>1 DEF LoginOAuth, Begin, Takes, userVars, tokenVars, historyVars
  <2>3. req'[r] = rec /\ now' = now
    BY <2>2 DEF Takes, IInv, TypeOK
  <2>4. ReqInv(r)'
    BY <2>1, <2>3, Clock DEF ReqInv, Logouts, LoginInv, OAuthInv, VerifyInv, CreateLinkInv,
                             RefreshInv, LogoutInv
  <2> QED
    BY <2>1, <2>2, <2>4, BeginStep
<1> QED
  BY <1>1, <1>2

LEMMA RefreshNext ==
    ASSUME IInv, NEW r \in Request, NEW s \in Session, Refresh(r, s)
    PROVE  IInv'
<1>1. s \in held /\ now < sess[s].jwtExp /\ sess[s].user \in User
  BY HeldFacts DEF Refresh, Verifies
<1>2. PICK late \in BOOLEAN : late = (s \in loggedOut)
  <2> DEFINE answered == s \in loggedOut
  <2>1. answered \in BOOLEAN
    OBVIOUS
  <2> HIDE DEF answered
  <2>2. \E late \in BOOLEAN : late = answered
    BY <2>1
  <2> QED
    BY <2>2 DEF answered
<1>3. PICK rec \in RequestState :
        rec = [op |-> "refresh", step |-> "find", user |-> sess[s].user, sess |-> s,
               link |-> NoLink, covers |-> {}, late |-> late, began |-> now]
  BY <1>1, Clock DEF RequestState, Op, Step
<1>4. Begin(r, "refresh", "find", sess[s].user, s, NoLink, {}, late)
  BY <1>2 DEF Refresh
<1>5. Takes(r, rec)
  BY <1>3, <1>4 DEF Begin, Takes, userVars, tokenVars, historyVars
<1>6. req'[r] = rec /\ UNCHANGED <<now, sess, held, loggedOut>>
  BY <1>5 DEF Takes, IInv, TypeOK
<1>7. late => s \in loggedOut
  BY <1>2
<1>8. ReqInv(r)'
  BY <1>1, <1>3, <1>6, <1>7, Clock
     DEF ReqInv, Logouts, LoginInv, OAuthInv, VerifyInv, CreateLinkInv, RefreshInv, LogoutInv
<1> QED
  BY <1>3, <1>5, <1>8, BeginStep

LEMMA LogoutNext ==
    ASSUME IInv, NEW r \in Request, NEW s \in Session, NEW u \in User, Logout(r, s, u)
    PROVE  IInv'
<1>1. s \in held /\ Born(s)
  BY HeldFacts DEF Logout
<1>2. PICK rec \in RequestState :
        rec = [op |-> "logout", step |-> "revoke", user |-> u, sess |-> s,
               link |-> NoLink, covers |-> {s}, late |-> FALSE, began |-> now]
  BY <1>1, Clock DEF RequestState, Op, Step
<1>3. Takes(r, rec)
  BY <1>2 DEF Logout, Begin, Takes, userVars, tokenVars, historyVars
<1>4. req'[r] = rec /\ UNCHANGED <<now, sess, held>>
  BY <1>3 DEF Takes, IInv, TypeOK
<1>5. ReqInv(r)'
  BY <1>1, <1>2, <1>4, Clock DEF ReqInv, Logouts, LoginInv, OAuthInv, VerifyInv, CreateLinkInv,
                                 RefreshInv, LogoutInv, Born
<1> QED
  BY <1>2, <1>3, <1>5, BeginStep

LEMMA LogoutByLinkNext ==
    ASSUME IInv, NEW r \in Request, NEW l \in Link, NEW u \in User, LogoutByLink(r, l, u)
    PROVE  IInv'
<1>1. PICK rec \in RequestState :
        rec = [op |-> "logout", step |-> "revoke", user |-> u, sess |-> NoSession,
               link |-> NoLink, covers |-> {}, late |-> FALSE, began |-> now]
  BY Clock DEF RequestState, Op, Step
<1>2. Takes(r, rec)
  BY <1>1 DEF LogoutByLink, Begin, Takes, userVars, tokenVars, historyVars
<1>3. req'[r] = rec /\ now' = now
  BY <1>2 DEF Takes, IInv, TypeOK
<1>4. ReqInv(r)'
  BY <1>1, <1>3, Clock DEF ReqInv, Logouts, LoginInv, OAuthInv, VerifyInv, CreateLinkInv,
                           RefreshInv, LogoutInv
<1> QED
  BY <1>1, <1>2, <1>4, BeginStep

LEMMA LogoutAllNext ==
    ASSUME IInv, NEW r \in Request, NEW u \in User, LogoutAll(r, u)
    PROVE  IInv'
<1> DEFINE all == {s \in Session : sess[s].state = "present" /\ sess[s].user = u}
<1>1. PICK rec \in RequestState :
        rec = [op |-> "logoutAll", step |-> "revoke", user |-> u, sess |-> NoSession,
               link |-> NoLink, covers |-> all, late |-> FALSE, began |-> now]
  BY Clock DEF RequestState, Op, Step
<1>2. Takes(r, rec)
  BY <1>1 DEF LogoutAll, Begin, Takes, userVars, tokenVars, historyVars
<1>3. req'[r] = rec /\ UNCHANGED <<now, sess, held>>
  BY <1>2 DEF Takes, IInv, TypeOK
<1>4. ReqInv(r)'
  BY <1>1, <1>3, Clock DEF ReqInv, Logouts, LoginInv, OAuthInv, VerifyInv, CreateLinkInv,
                           RefreshInv, LogoutInv, Born
<1> QED
  BY <1>1, <1>2, <1>4, BeginStep

LEMMA CreateLinkNext ==
    ASSUME IInv, NEW r \in Request, NEW u \in User, CreateLink(r, u)
    PROVE  IInv'
<1>1. PICK rec \in RequestState :
        rec = [op |-> "createLink", step |-> "insert", user |-> u, sess |-> NoSession,
               link |-> NoLink, covers |-> {}, late |-> FALSE, began |-> now]
  BY Clock DEF RequestState, Op, Step
<1>2. Takes(r, rec)
  BY <1>1 DEF CreateLink, Begin, Takes, userVars, tokenVars, historyVars
<1>3. req'[r] = rec /\ now' = now
  BY <1>2 DEF Takes, IInv, TypeOK
<1>4. ReqInv(r)'
  BY <1>1, <1>3, Clock DEF ReqInv, Logouts, LoginInv, OAuthInv, VerifyInv, CreateLinkInv,
                           RefreshInv, LogoutInv
<1> QED
  BY <1>1, <1>2, <1>4, BeginStep

LEMMA VerifyByTokenNext ==
    ASSUME IInv, NEW r \in Request, NEW u \in User, VerifyByToken(r, u)
    PROVE  IInv'
<1>1. u \in audited
  BY HeldFacts DEF VerifyByToken, Authenticated, IInv, TypeOK
<1>2. PICK rec \in RequestState :
        rec = [op |-> "verify", step |-> "find", user |-> u, sess |-> NoSession,
               link |-> NoLink, covers |-> {}, late |-> FALSE, began |-> now]
  BY Clock DEF RequestState, Op, Step
<1>3. Takes(r, rec)
  BY <1>2 DEF VerifyByToken, Begin, Takes, userVars, tokenVars, historyVars
<1>4. req'[r] = rec /\ UNCHANGED <<now, audited>>
  BY <1>3 DEF Takes, IInv, TypeOK
<1>5. ReqInv(r)'
  BY <1>1, <1>2, <1>4, Clock
     DEF ReqInv, Logouts, LoginInv, OAuthInv, VerifyInv, CreateLinkInv, RefreshInv, LogoutInv
<1> QED
  BY <1>2, <1>3, <1>5, BeginStep

LEMMA VerifyNext ==
    ASSUME IInv, NEW r \in Request, NEW l \in Link, Verify(r, l)
    PROVE  IInv'
<1>1. link[l].jwtExp > 0
  BY Clock DEF Verify, Verifies, IInv, TypeOK
<1>2. link[l].state # "absent" /\ link[l].user \in audited /\ link[l].user \in User
  BY <1>1 DEF IInv, LinkInv, TypeOK
<1>3. PICK rec \in RequestState :
        rec = [op |-> "verify", step |-> "find", user |-> link[l].user, sess |-> NoSession,
               link |-> l, covers |-> {}, late |-> FALSE, began |-> now]
  BY <1>2, Clock DEF RequestState, Op, Step
<1>4. Takes(r, rec)
  BY <1>3 DEF Verify, Begin, Takes, userVars, tokenVars, historyVars
<1>5. req'[r] = rec /\ UNCHANGED <<now, link, audited>>
  BY <1>4 DEF Takes, IInv, TypeOK
<1>6. ReqInv(r)'
  BY <1>1, <1>2, <1>3, <1>5, Clock
     DEF ReqInv, Logouts, LoginInv, OAuthInv, VerifyInv, CreateLinkInv, RefreshInv, LogoutInv,
         OfLink
<1> QED
  BY <1>3, <1>4, <1>6, BeginStep

-----------------------------------------------------------------------------
(* Steps that leave rows and marks alone *)

\* A step of r that moves its slot, and at most writes an audit row, revokes rows or fails.
LEMMA Still ==
    ASSUME IInv, NEW r \in Request,
           req' \in [Request -> RequestState], \A q \in Request \ {r} : req'[q] = req[q],
           UNCHANGED <<config, now, users, sess, link, used, held, loggedOut, raced, requests>>,
           revoked \subseteq revoked', revoked' \subseteq revoked \cup {s \in Session : Row(s)},
           audited \subseteq audited', audited' \subseteq users,
           broken \subseteq broken', broken' \subseteq Session \cup Link,
           faults' \in 0..MaxFaults,
           ReqInv(r)',
           \A s \in Session : Makes(r, s) /\ Row(s) => Makes(r, s)' \/ s \in held \cup broken',
           \A l \in Link : AtMark(r, l)' => AtMark(r, l),
           \A l \in Link : Past(r, l)' => Past(r, l),
           \A l \in Link : Owed(r, l)' => Owed(r, l),
           \A l \in Link : Owed(r, l) => Owed(r, l)' \/ l \in broken'
    PROVE  IInv'
<1>1. TypeOK'
  BY DEF IInv, TypeOK
<1>2. Grows
  BY GrowsStill
<1>3. (\A x \in Session : SessInv(x)') /\ (\A x \in Link : LinkInv(x)')
  <2>1. (\A x \in Session : SessInv(x)) /\ (\A x \in Link : LinkInv(x))
    BY DEF IInv
  <2>2. UNCHANGED <<config, users, sess, link, held, loggedOut>>
    OBVIOUS
  <2> QED
    BY <2>1, <2>2, TablesStay
<1>4. \A x \in Session : OrphanInv(x)'
  <2>1. \A x \in Session : OrphanInv(x)
    BY DEF IInv
  <2>2. \A x \in Session : Row(x)' = Row(x)
    BY DEF Row
  <2>3. \A s \in Session : Makes(r, s) /\ Row(s)' => Makes(r, s)' \/ s \in held' \cup broken'
    BY <2>2
  <2> QED
    BY <2>1, <2>2, <2>3, OrphanStays
<1>5. \A x \in Link : UseInv(x)'
  <2>1. \A x \in Link : UseInv(x)
    BY DEF IInv
  <2> QED
    BY <2>1, UseStays
<1> QED
  BY <1>1, <1>2, <1>3, <1>4, <1>5, Compose

\* A request that is refused with nothing half done.
LEMMA EndStill ==
    ASSUME IInv, NEW r \in Request, End(r),
           UNCHANGED <<config, now, users, audited, sess, revoked, link, used, held, loggedOut,
                       raced, broken, requests, faults>>,
           \A s \in Session : Makes(r, s) => ~Row(s),
           \A l \in Link : ~Owed(r, l)
    PROVE  IInv'
<1>1. TypeOK
  BY DEF IInv
<1>2. /\ req' \in [Request -> RequestState]
      /\ \A q \in Request \ {r} : req'[q] = req[q]
      /\ ReqInv(r)'
      /\ \A l \in Link : ~AtMark(r, l)' /\ ~Past(r, l)' /\ ~Owed(r, l)'
  BY <1>1, EndFacts
<1>3. audited' \subseteq users /\ broken' \subseteq Session \cup Link /\ faults' \in 0..MaxFaults
  BY <1>1 DEF TypeOK
<1> QED
  BY <1>2, <1>3, Still

LEMMA RefreshFindNext ==
    ASSUME IInv, NEW r \in Request, RefreshFind(r)
    PROVE  IInv'
<1>1. /\ req[r].op = "refresh" /\ req[r].step = "find"
      /\ UNCHANGED <<config, now, users, audited, sess, revoked, link, used, held, loggedOut,
                     raced, broken, requests, faults>>
  BY DEF RefreshFind, userVars, tokenVars, historyVars, budgetVars
<1>2. /\ \A s \in Session : ~Makes(r, s)
      /\ \A l \in Link : ~Owed(r, l)
  BY <1>1 DEF Makes, Logins, Owed, Past
<1>3. /\ TypeOK /\ ReqInv(r)
      /\ req[r].sess \in held /\ req[r].sess \in Session
  BY <1>1 DEF IInv, ReqInv, RefreshInv, TypeOK
<1>4. CASE End(r)
  BY <1>1, <1>2, <1>4, EndStill
<1>5. ASSUME NEW step \in {"expire", "touch"}, Goto(r, step), Live(req[r].sess),
             step = "expire" => now > sess[req[r].sess].rowExp
      PROVE  IInv'
  <2>1. step \in Step /\ req \in [Request -> RequestState]
    BY <1>3 DEF Step, TypeOK
  <2>2. /\ req' \in [Request -> RequestState]
        /\ \A q \in Request \ {r} : req'[q] = req[q]
        /\ req'[r].step = step
        /\ req'[r].op = req[r].op /\ req'[r].user = req[r].user
        /\ req'[r].sess = req[r].sess /\ req'[r].link = req[r].link
        /\ req'[r].covers = req[r].covers /\ req'[r].late = req[r].late
        /\ req'[r].began = req[r].began
    BY <1>5, <2>1, GotoFacts
  <2>3. ~req[r].late
    BY <1>3, <1>5 DEF ReqInv, IInv, SessInv
  <2>4. step = "expire" => ~config.parsed
    <3> DEFINE s == req[r].sess
    <3>1. now <= req[r].began + 1 /\ req[r].began < sess[s].jwtExp
      BY <1>1, <1>3 DEF ReqInv, RefreshInv
    <3>2. config.parsed => sess[s].jwtExp < sess[s].rowExp
      BY <1>3 DEF IInv, SessInv, TypeOK
    <3>3. now \in Nat /\ req[r].began \in Nat /\ sess[s].jwtExp \in Nat /\ sess[s].rowExp \in Nat
      BY <1>3, Clock, SessionsAssumption DEF TypeOK, RequestState
    <3> QED
      BY <1>5, <3>1, <3>2, <3>3
  <2>5. RefreshInv(r)'
    BY <1>1, <1>3, <1>5, <2>2, <2>4 DEF ReqInv, RefreshInv
  <2>6. ReqInv(r)'
    BY <1>1, <1>3, <1>5, <2>2, <2>3, <2>5 DEF ReqInv, Logouts, LoginInv, OAuthInv, VerifyInv,
                                  CreateLinkInv, LogoutInv
  <2>7. \A l \in Link : ~AtMark(r, l)' /\ ~Past(r, l)' /\ ~Owed(r, l)'
    BY <1>1, <2>2 DEF AtMark, Past, Owed
  <2>8. audited' \subseteq users /\ broken' \subseteq Session \cup Link /\ faults' \in 0..MaxFaults
    BY <1>1, <1>3 DEF TypeOK
  <2> QED
    BY <1>1, <1>2, <2>2, <2>6, <2>7, <2>8, Still
<1> QED
  BY <1>4, <1>5 DEF RefreshFind

LEMMA RefreshTouchNext ==
    ASSUME IInv, NEW r \in Request, RefreshTouch(r)
    PROVE  IInv'
<1>1. /\ req[r].step = "touch"
      /\ UNCHANGED <<config, now, users, audited, sess, revoked, link, used, held, loggedOut,
                     raced, broken, requests, faults>>
  BY DEF RefreshTouch, userVars, tokenVars, historyVars, budgetVars
<1>2. /\ TypeOK /\ ReqInv(r)
      /\ req[r].op = "refresh"
  <2>1. TypeOK /\ ReqInv(r)
    BY DEF IInv
  <2>2. req[r].op \in Op
    BY <2>1 DEF TypeOK, RequestState
  <2> QED
    BY <1>1, <2>1, <2>2 DEF ReqInv, Op, Logouts, LoginInv, OAuthInv, VerifyInv, CreateLinkInv,
                            LogoutInv, Idle
<1>3. /\ \A s \in Session : ~Makes(r, s)
      /\ \A l \in Link : ~Owed(r, l)
  BY <1>2 DEF Makes, Logins, Owed, Past
<1>4. CASE End(r)
  BY <1>1, <1>3, <1>4, EndStill
<1>5. CASE Goto(r, "audit")
  <2>1. "audit" \in Step /\ req \in [Request -> RequestState]
    BY <1>2 DEF Step, TypeOK
  <2>2. /\ req' \in [Request -> RequestState]
        /\ \A q \in Request \ {r} : req'[q] = req[q]
        /\ req'[r].step = "audit"
        /\ req'[r].op = req[r].op /\ req'[r].user = req[r].user
        /\ req'[r].sess = req[r].sess /\ req'[r].link = req[r].link
        /\ req'[r].covers = req[r].covers /\ req'[r].late = req[r].late
        /\ req'[r].began = req[r].began
    BY <1>5, <2>1, GotoFacts
  <2>3. ReqInv(r)'
    BY <1>1, <1>2, <2>2 DEF ReqInv, Logouts, LoginInv, OAuthInv, VerifyInv, CreateLinkInv,
                            RefreshInv, LogoutInv
  <2>4. \A l \in Link : ~AtMark(r, l)' /\ ~Past(r, l)' /\ ~Owed(r, l)'
    BY <1>2, <2>2 DEF AtMark, Past, Owed
  <2>5. audited' \subseteq users /\ broken' \subseteq Session \cup Link /\ faults' \in 0..MaxFaults
    BY <1>1, <1>2 DEF TypeOK
  <2> QED
    BY <1>1, <1>3, <2>2, <2>3, <2>4, <2>5, Still
<1> QED
  BY <1>4, <1>5 DEF RefreshTouch


\* The operations that have a step of this name.
LEMMA OpOfStep ==
    ASSUME IInv, NEW r \in Request
    PROVE  /\ TypeOK /\ ReqInv(r) /\ req[r].op \in Op /\ req[r].step \in Step
           /\ req[r].step = "session" => req[r].op \in Logins
           /\ req[r].step = "mark" => req[r].op = "verify"
           /\ req[r].step = "insert" => req[r].op = "createLink"
           /\ req[r].step = "revoke" => req[r].op \in Logouts
           /\ req[r].step \in {"expire", "touch"} => req[r].op = "refresh"
           /\ req[r].step # "idle" => req[r].op # "none"
<1>1. TypeOK /\ ReqInv(r)
  BY DEF IInv
<1>2. req[r].op \in Op /\ req[r].step \in Step
  BY <1>1 DEF TypeOK, RequestState
<1> QED
  BY <1>1, <1>2 DEF ReqInv, Op, Logins, Logouts, LoginInv, OAuthInv, VerifyInv, CreateLinkInv,
                    RefreshInv, LogoutInv, Idle

LEMMA RefreshExpireNext ==
    ASSUME IInv, NEW r \in Request, RefreshExpire(r)
    PROVE  IInv'
<1>1. /\ req[r].step = "expire" /\ End(r)
      /\ UNCHANGED <<config, now, users, audited, sess, link, used, held, loggedOut, raced,
                     broken, requests, faults>>
      /\ revoked \subseteq revoked'
  BY DEF RefreshExpire, userVars, historyVars, budgetVars
<1>2. TypeOK /\ ReqInv(r) /\ req[r].op = "refresh"
  BY <1>1, OpOfStep
<1>3. revoked' \subseteq revoked \cup {s \in Session : Row(s)}
  <2>1. req[r].sess \in Session
    BY <1>2 DEF ReqInv, RefreshInv, TypeOK
  <2> QED
    BY <2>1 DEF RefreshExpire
<1>4. /\ req' \in [Request -> RequestState]
      /\ \A q \in Request \ {r} : req'[q] = req[q]
      /\ ReqInv(r)'
      /\ \A l \in Link : ~AtMark(r, l)' /\ ~Past(r, l)' /\ ~Owed(r, l)'
  BY <1>1, <1>2, EndFacts
<1>5. (\A s \in Session : ~Makes(r, s)) /\ (\A l \in Link : ~Owed(r, l))
  BY <1>2 DEF Makes, Logins, Owed, Past
<1>6. audited' \subseteq users /\ broken' \subseteq Session \cup Link /\ faults' \in 0..MaxFaults
  BY <1>1, <1>2 DEF TypeOK
<1> QED
  BY <1>1, <1>3, <1>4, <1>5, <1>6, Still

LEMMA RevokeNext ==
    ASSUME IInv, NEW r \in Request, Revoke(r)
    PROVE  IInv'
<1>1. /\ req[r].step = "revoke" /\ Goto(r, "audit")
      /\ revoked' = revoked \cup Selected(r)
      /\ UNCHANGED <<config, now, users, audited, sess, link, used, held, loggedOut, raced,
                     broken, requests, faults>>
  BY DEF Revoke, userVars, historyVars, budgetVars
<1>2. TypeOK /\ ReqInv(r) /\ req[r].op \in Logouts
  BY <1>1, OpOfStep
<1>3. revoked' \subseteq revoked \cup {s \in Session : Row(s)}
  BY <1>1 DEF Selected
<1>4. "audit" \in Step /\ req \in [Request -> RequestState]
  BY <1>2 DEF Step, TypeOK
<1>5. /\ req' \in [Request -> RequestState]
      /\ \A q \in Request \ {r} : req'[q] = req[q]
      /\ req'[r].step = "audit"
      /\ req'[r].op = req[r].op /\ req'[r].user = req[r].user
      /\ req'[r].sess = req[r].sess /\ req'[r].link = req[r].link
      /\ req'[r].covers = req[r].covers /\ req'[r].late = req[r].late
      /\ req'[r].began = req[r].began
  BY <1>1, <1>4, GotoFacts
<1>6. \A s \in req[r].covers : Closed(s)'
  <2> SUFFICES ASSUME NEW s \in req[r].covers
               PROVE  Closed(s)'
    OBVIOUS
  <2>1. s \in Session /\ Born(s)
    BY <1>2 DEF TypeOK, RequestState, ReqInv, LogoutInv
  <2>2. Row(s) => s \in Selected(r)
    BY <1>2, <2>1 DEF ReqInv, LogoutInv, Selected, Logouts
  <2> QED
    BY <1>1, <2>1, <2>2 DEF Closed, Born, Live, Row
<1>7. \A s \in req[r].covers : Born(s)'
  BY <1>6 DEF Closed
<1>8. LogoutInv(r)'
  BY <1>1, <1>2, <1>5, <1>6, <1>7 DEF ReqInv, LogoutInv, Logouts
<1>9. ReqInv(r)'
  BY <1>1, <1>2, <1>5, <1>8 DEF ReqInv, Logouts, LoginInv, OAuthInv, VerifyInv, CreateLinkInv,
                                RefreshInv
<1>10. (\A s \in Session : ~Makes(r, s)) /\ (\A l \in Link : ~Owed(r, l))
  BY <1>2 DEF Makes, Logins, Logouts, Owed, Past
<1>11. \A l \in Link : ~AtMark(r, l)' /\ ~Past(r, l)' /\ ~Owed(r, l)'
  BY <1>2, <1>5 DEF AtMark, Past, Owed, Logouts
<1>12. audited' \subseteq users /\ broken' \subseteq Session \cup Link /\ faults' \in 0..MaxFaults
  BY <1>1, <1>2 DEF TypeOK
<1> QED
  BY <1>1, <1>3, <1>5, <1>9, <1>10, <1>11, <1>12, Still

LEMMA AuditNext ==
    ASSUME IInv, NEW r \in Request, Audit(r)
    PROVE  IInv'
<1>1. /\ req[r].step = "audit"
      /\ UNCHANGED <<config, now, users, sess, revoked, link, used, held, loggedOut, raced,
                     broken, requests, faults>>
  BY DEF Audit, tokenVars, historyVars, budgetVars
<1>2. TypeOK /\ ReqInv(r) /\ req[r].op \in Op \ {"none"}
  BY <1>1, OpOfStep
<1>3. broken' \subseteq Session \cup Link /\ faults' \in 0..MaxFaults
  BY <1>1, <1>2 DEF TypeOK
<1>4. CASE req[r].user \in users
  <2>1. audited' = audited \cup {req[r].user} /\ Goto(r, AfterAudit(req[r].op))
    BY <1>4 DEF Audit
  <2>2. AfterAudit(req[r].op) \in Step /\ req \in [Request -> RequestState]
    BY <1>2 DEF AfterAudit, Step, TypeOK
  <2>3. /\ req' \in [Request -> RequestState]
        /\ \A q \in Request \ {r} : req'[q] = req[q]
        /\ req'[r].step = AfterAudit(req[r].op)
        /\ req'[r].op = req[r].op /\ req'[r].user = req[r].user
        /\ req'[r].sess = req[r].sess /\ req'[r].link = req[r].link
        /\ req'[r].covers = req[r].covers /\ req'[r].late = req[r].late
        /\ req'[r].began = req[r].began
    <3> DEFINE next == AfterAudit(req[r].op)
    <3>1. next \in Step /\ Goto(r, next)
      BY <2>1, <2>2
    <3> HIDE DEF next
    <3>2. PICK step \in Step : step = next
      BY <3>1
    <3>3. Goto(r, step)
      BY <3>1, <3>2
    <3> QED
      BY <2>2, <3>2, <3>3, GotoFacts DEF next
  <2>4. audited' \subseteq users /\ audited \subseteq audited'
    BY <1>2, <1>4, <2>1 DEF TypeOK
  <2>5. ReqInv(r)'
    <3>1. (Made(r)' = Made(r)) /\ (OfLink(r)' = OfLink(r))
      BY <1>1, <2>3 DEF Made, OfLink, Born
    <3>2. LoginInv(r)'
      BY <1>1, <1>2, <2>1, <2>3, <3>1 DEF ReqInv, LoginInv, AfterAudit
    <3>3. OAuthInv(r)'
      BY <1>1, <1>2, <2>1, <2>3, <3>1 DEF ReqInv, OAuthInv, AfterAudit
    <3>4. VerifyInv(r)'
      BY <1>1, <1>2, <2>1, <2>3, <3>1 DEF ReqInv, VerifyInv, AfterAudit
    <3>5. CreateLinkInv(r)'
      BY <1>1, <1>2, <2>1, <2>3, <3>1 DEF ReqInv, CreateLinkInv, AfterAudit
    <3>6. RefreshInv(r)'
      BY <1>1, <1>2, <2>1, <2>3 DEF ReqInv, RefreshInv, AfterAudit
    <3>7. LogoutInv(r)'
      BY <1>1, <1>2, <2>1, <2>3 DEF ReqInv, LogoutInv, AfterAudit, Closed, Born, Live, Row, Logouts
    <3> QED
      BY <1>1, <1>2, <2>3, <3>2, <3>3, <3>4, <3>5, <3>6, <3>7 DEF ReqInv, AfterAudit
  <2>6. \A s \in Session : Makes(r, s) => Makes(r, s)'
    BY <1>1, <1>2, <2>3, SessionsAssumption
       DEF Makes, Logins, AfterAudit, ReqInv, OAuthInv, VerifyInv
  <2>7. \A l \in Link : /\ AtMark(r, l)' => AtMark(r, l)
                        /\ Past(r, l)' => Past(r, l)
                        /\ Owed(r, l)' => Owed(r, l)
                        /\ Owed(r, l) => Owed(r, l)'
    BY <1>1, <2>3 DEF AtMark, Past, Owed, AfterAudit
  <2> QED
    BY <1>1, <1>3, <2>3, <2>4, <2>5, <2>6, <2>7, Still
<1>5. CASE req[r].user \notin users
  <2>1. End(r) /\ audited' = audited
    BY <1>5 DEF Audit
  <2>2. req[r].user \notin audited
    BY <1>2, <1>5 DEF TypeOK
  <2>3. \A l \in Link : ~Owed(r, l)
    BY <1>2, <2>2 DEF Owed, Past, ReqInv, VerifyInv
  <2>4. \A s \in Session : Makes(r, s) => ~Row(s)
    BY <1>1, <1>2, <1>5, <2>2, SessionsAssumption
       DEF Makes, Logins, ReqInv, LoginInv, OAuthInv, VerifyInv, Made, Row, TypeOK
  <2> QED
    BY <1>1, <2>1, <2>3, <2>4, EndStill
<1> QED
  BY <1>4, <1>5

LEMMA FaultNext ==
    ASSUME IInv, NEW r \in Request, Fault(r)
    PROVE  IInv'
<1>1. /\ End(r) /\ faults < MaxFaults /\ faults' = faults + 1
      /\ broken' = broken \cup ({req[r].sess, req[r].link} \cap (Session \cup Link))
      /\ UNCHANGED <<config, now, users, audited, sess, revoked, link, used, held, loggedOut,
                     raced, requests>>
  BY DEF Fault, userVars, tokenVars
<1>2. TypeOK
  BY DEF IInv
<1>3. /\ req' \in [Request -> RequestState]
      /\ \A q \in Request \ {r} : req'[q] = req[q]
      /\ ReqInv(r)'
      /\ \A l \in Link : ~AtMark(r, l)' /\ ~Past(r, l)' /\ ~Owed(r, l)'
  BY <1>1, <1>2, EndFacts
<1>4. \A s \in Session : Makes(r, s) => s \in broken'
  BY <1>1 DEF Makes
<1>5. \A l \in Link : Owed(r, l) => l \in broken'
  BY <1>1 DEF Owed, Past
<1>6. audited' \subseteq users /\ broken' \subseteq Session \cup Link /\ faults' \in 0..MaxFaults
  BY <1>1, <1>2, SessionsAssumption DEF TypeOK
<1> QED
  BY <1>1, <1>3, <1>4, <1>5, <1>6, Still

-----------------------------------------------------------------------------
(* A session is created *)

LEMMA CreateSessionNext ==
    ASSUME IInv, NEW r \in Request, NEW s \in Session, CreateSession(r, s)
    PROVE  IInv'
<1>1. /\ req[r].step = "session" /\ sess[s].state = "absent"
      /\ UNCHANGED <<config, now, users, audited, revoked, link, used, held, loggedOut, raced,
                     broken, requests, faults>>
  BY DEF CreateSession, userVars, historyVars, budgetVars
<1>2. TypeOK /\ ReqInv(r) /\ req[r].op \in Logins
  BY <1>1, OpOfStep
<1>3. req[r].op # "login" => req[r].user \in users
  BY <1>1, <1>2 DEF Logins, ReqInv, OAuthInv, VerifyInv, TypeOK
<1>4. CASE req[r].user \notin users
  <2>1. End(r) /\ sess' = sess
    BY <1>4 DEF CreateSession
  <2>2. (\A x \in Session : ~Makes(r, x)) /\ (\A l \in Link : ~Owed(r, l))
    BY <1>1, <1>3, <1>4 DEF Makes, Owed, Past
  <2> QED
    BY <1>1, <2>1, <2>2, EndStill
<1>5. CASE req[r].user \in users
  <2>1. /\ sess' = [sess EXCEPT ![s] =
                      [state |-> "present", user |-> req[r].user, link |-> req[r].link,
                       rowExp |-> now + RowLife, jwtExp |-> now + config.life]]
        /\ req' = [req EXCEPT ![r].step = AfterSession(req[r].op), ![r].sess = s]
    BY <1>5 DEF CreateSession
  <2>2. /\ now + RowLife \in Nat /\ now + config.life \in Nat
        /\ config.parsed => now + config.life < now + RowLife
    <3>1. config.life \in Nat /\ DefaultLife \in Nat \ {0} /\ now \in Nat
      BY <1>2, Clock, SessionsAssumption DEF TypeOK
    <3>2. CASE config.parsed
      <4>1. RowLife = DefaultLife + config.life
        BY <3>2 DEF RowLife
      <4> QED
        BY <3>1, <4>1
    <3>3. CASE ~config.parsed
      <4>1. RowLife = DefaultLife + 0
        BY <3>3 DEF RowLife
      <4> QED
        BY <3>1, <3>3, <4>1
    <3> QED
      BY <3>2, <3>3
  <2>3. /\ sess'[s] = [state |-> "present", user |-> req[r].user, link |-> req[r].link,
                       rowExp |-> now + RowLife, jwtExp |-> now + config.life]
        /\ \A x \in Session \ {s} : sess'[x] = sess[x]
        /\ req[r].user \in User /\ req[r].link \in Link \cup {NoLink}
    BY <1>2, <1>5, <2>1 DEF TypeOK, RequestState
  <2>4. sess' \in [Session -> [state : RowState, user : User \cup {NoUser},
                               link : Link \cup {NoLink}, rowExp : Nat, jwtExp : Nat]]
    BY <1>2, <2>1, <2>2, <2>3 DEF TypeOK, RowState
  <2>5. AfterSession(req[r].op) \in {"audit", "reply"}
    BY DEF AfterSession
  <2>6. /\ req'[r].step = AfterSession(req[r].op) /\ req'[r].sess = s
        /\ req'[r].op = req[r].op /\ req'[r].user = req[r].user
        /\ req'[r].link = req[r].link
        /\ req'[r].covers = req[r].covers /\ req'[r].late = req[r].late
        /\ req'[r].began = req[r].began
        /\ \A q \in Request \ {r} : req'[q] = req[q]
    BY <1>2, <2>1 DEF TypeOK, RequestState
  <2>7. req' \in [Request -> RequestState]
    <3>1. PICK step \in Step : step = AfterSession(req[r].op)
      BY <2>5 DEF Step
    <3>2. req' = [req EXCEPT ![r] = req'[r]]
      BY <1>2, <2>1 DEF TypeOK
    <3>3. req'[r] = [op |-> req[r].op, step |-> step, user |-> req[r].user, sess |-> s,
                        link |-> req[r].link, covers |-> req[r].covers,
                        late |-> req[r].late, began |-> req[r].began]
      BY <1>2, <2>1, <3>1, ZenonT(60) DEF TypeOK, RequestState
    <3>4. req'[r] \in RequestState
      BY <1>2, <3>3 DEF TypeOK, RequestState
    <3> QED
      BY <1>2, <3>2, <3>4 DEF TypeOK
  <2>8. TypeOK'
    <3>1. \A x \in Session : sess'[x].state = "present" => sess'[x].user \in users
      BY <1>2, <1>5, <2>3 DEF TypeOK
    <3> QED
      BY <1>1, <1>2, <2>4, <2>7, <3>1 DEF TypeOK
  <2>9. Grows
    BY <1>1, <2>3 DEF Grows, Born
  <2>10. ReqInv(r)'
    <3>1. Made(r)'
      BY <2>3, <2>6 DEF Made, Born
    <3>2. OfLink(r)' = OfLink(r)
      BY <1>1, <2>6 DEF OfLink
    <3> QED
      BY <1>1, <1>2, <2>5, <2>6, <3>1, <3>2
         DEF ReqInv, Logins, Logouts, LoginInv, OAuthInv, VerifyInv, CreateLinkInv, RefreshInv,
             LogoutInv, AfterSession
  <2>11. \A x \in Session : SessInv(x)'
    <3> SUFFICES ASSUME NEW x \in Session
                 PROVE  SessInv(x)'
      OBVIOUS
    <3>1. SessInv(x)
      BY DEF IInv
    <3>2. CASE x = s
      BY <1>1, <2>2, <2>3, <3>1, <3>2 DEF SessInv, Born, Live, Row
    <3>3. CASE x # s
      BY <1>1, <2>3, <3>1, <3>3 DEF SessInv, Born, Live, Row
    <3> QED
      BY <3>2, <3>3
  <2>12. \A x \in Session : OrphanInv(x)'
    <3> SUFFICES ASSUME NEW x \in Session, Row(x)', x \notin held' \cup broken'
                 PROVE  \E q \in Request : Makes(q, x)'
      BY DEF OrphanInv
    <3>1. CASE x = s
      BY <1>2, <2>5, <2>6, <3>1 DEF Makes
    <3>2. CASE x # s
      <4>1. Row(x) /\ x \notin held \cup broken
        BY <1>1, <2>3, <3>2 DEF Row
      <4>2. PICK q \in Request : Makes(q, x)
        BY <4>1 DEF IInv, OrphanInv
      <4>3. q # r
        BY <1>1, <4>2 DEF Makes
      <4> QED
        BY <2>6, <4>2, <4>3 DEF Makes
    <3> QED
      BY <3>1, <3>2
  <2>13. \A l \in Link : LinkInv(l)'
    BY <1>1 DEF IInv, LinkInv
  <2>14. \A l \in Link : UseInv(l)'
    <3> SUFFICES ASSUME NEW l \in Link
                 PROVE  UseInv(l)'
      OBVIOUS
    <3>1. UseInv(l)
      BY DEF IInv
    <3>2. sess[s].link = NoLink /\ ~FromLink(s, l)
      BY <1>1, SessionsAssumption DEF IInv, SessInv, Born, FromLink
    <3>3. \A x \in Session \ {s} : FromLink(x, l)' = FromLink(x, l)
      BY <2>3 DEF FromLink
    <3>4. FromLink(s, l)' <=> req[r].link = l
      BY <2>3 DEF FromLink
    <3>5. \A q \in Request : /\ AtMark(q, l)' <=> AtMark(q, l)
                             /\ Past(q, l)' <=> Past(q, l)
                             /\ Owed(q, l)' <=> Owed(q, l) /\ q # r
      <4> TAKE q \in Request
      <4>1. CASE q = r
        BY <1>1, <2>6, <4>1 DEF AtMark, Past, Owed, AfterSession
      <4>2. CASE q # r
        BY <2>6, <4>2 DEF AtMark, Past, Owed
      <4> QED
        BY <4>1, <4>2
    <3>6. CASE req[r].link = l
      <4>1. Past(r, l) /\ Owed(r, l)
        BY <1>1, <1>2, <3>6, SessionsAssumption
           DEF Past, Owed, Logins, ReqInv, LoginInv, OAuthInv
      <4>2. l \in used
        BY <3>1, <4>1 DEF UseInv, FreshUse
      <4>3. SoleUse(l)'
        <5> SUFFICES ASSUME l \notin raced
                     PROVE  SoleUse(l)'
          BY <1>1 DEF SoleUse
        <5>1. SoleUse(l)
          BY <3>1 DEF UseInv
        <5>2. \A q \in Request : ~Owed(q, l)'
          BY <3>5, <4>1, <4>2, <5>1 DEF SoleUse, Owed
        <5>3. \A x \in Session : FromLink(x, l)' => x = s
          BY <3>3, <4>1, <4>2, <5>1 DEF SoleUse
        <5> QED
          BY <1>1, <3>5, <4>2, <5>1, <5>2, <5>3 DEF SoleUse
      <4>4. SpentUse(l)'
        BY <3>4, <3>6 DEF SpentUse
      <4> QED
        BY <1>1, <4>2, <4>3, <4>4 DEF UseInv, FreshUse, SoleFinder
    <3>7. CASE req[r].link # l
      <4>1. \A x \in Session : FromLink(x, l)' <=> FromLink(x, l)
        BY <3>2, <3>3, <3>4, <3>7
      <4>2. ~Owed(r, l)
        BY <3>7 DEF Owed, Past
      <4>3. \A q \in Request : Owed(q, l)' <=> Owed(q, l)
        BY <3>5, <4>2
      <4>4. FreshUse(l)'
        BY <1>1, <3>1, <3>5, <4>1 DEF UseInv, FreshUse
      <4>5. SoleFinder(l)'
        BY <1>1, <3>1, <3>5 DEF UseInv, SoleFinder
      <4>6. SoleUse(l)'
        BY <1>1, <3>1, <3>5, <4>1, <4>3 DEF UseInv, SoleUse
      <4>7. SpentUse(l)'
        BY <1>1, <3>1, <4>1, <4>3 DEF UseInv, SpentUse
      <4> QED
        BY <4>4, <4>5, <4>6, <4>7 DEF UseInv
    <3> QED
      BY <3>6, <3>7
  <2> QED
    BY <1>1, <2>6, <2>8, <2>9, <2>10, <2>11, <2>12, <2>13, <2>14, Compose
<1> QED
  BY <1>4, <1>5

-----------------------------------------------------------------------------
(* Magic links *)

LEMMA InsertLinkNext ==
    ASSUME IInv, NEW r \in Request, NEW l \in Link, InsertLink(r, l)
    PROVE  IInv'
<1>1. /\ req[r].step = "insert" /\ link[l].state = "absent"
      /\ UNCHANGED <<config, now, users, audited, sess, revoked, used, held, loggedOut, raced,
                     broken, requests, faults>>
  BY DEF InsertLink, userVars, historyVars, budgetVars
<1>2. TypeOK /\ ReqInv(r) /\ req[r].op = "createLink"
  BY <1>1, OpOfStep
<1>3. (\A x \in Session : ~Makes(r, x)) /\ (\A x \in Link : ~Owed(r, x))
  BY <1>2 DEF Makes, Logins, Owed, Past
<1>4. CASE req[r].user \notin users
  <2>1. End(r) /\ link' = link
    BY <1>4 DEF InsertLink
  <2> QED
    BY <1>1, <1>3, <2>1, EndStill
<1>5. CASE req[r].user \in users
  <2>1. /\ link' = [link EXCEPT ![l] = [state |-> "present", user |-> req[r].user,
                                        rowExp |-> now + LinkLife, jwtExp |-> 0]]
        /\ req' = [req EXCEPT ![r].step = "audit", ![r].link = l]
    BY <1>5 DEF InsertLink
  <2>2. now + LinkLife \in Nat
    BY Clock, SessionsAssumption
  <2>3. /\ link'[l] = [state |-> "present", user |-> req[r].user,
                       rowExp |-> now + LinkLife, jwtExp |-> 0]
        /\ \A x \in Link \ {l} : link'[x] = link[x]
        /\ req[r].user \in User
    BY <1>2, <1>5, <2>1 DEF TypeOK
  <2>4. link' \in [Link -> [state : RowState, user : User \cup {NoUser},
                            rowExp : Nat, jwtExp : Nat]]
    BY <1>2, <2>1, <2>2, <2>3 DEF TypeOK, RowState
  <2>5. /\ req'[r] = [op |-> req[r].op, step |-> "audit", user |-> req[r].user,
                      sess |-> req[r].sess, link |-> l, covers |-> req[r].covers,
                      late |-> req[r].late, began |-> req[r].began]
        /\ \A q \in Request \ {r} : req'[q] = req[q]
    <3>1. PICK step \in Step : step = "audit"
      BY DEF Step
    <3>2. req'[r] = [op |-> req[r].op, step |-> step, user |-> req[r].user,
                     sess |-> req[r].sess, link |-> l, covers |-> req[r].covers,
                     late |-> req[r].late, began |-> req[r].began]
      <4>1. req \in [Request -> RequestState] /\ req[r] \in RequestState
        BY <1>2 DEF TypeOK
      <4>2. req' = [req EXCEPT ![r].step = step, ![r].link = l]
        BY <2>1, <3>1
      <4> QED
        BY <4>1, <4>2 DEF RequestState
    <3>3. \A q \in Request \ {r} : req'[q] = req[q]
      BY <1>2, <2>1 DEF TypeOK
    <3> QED
      BY <3>1, <3>2, <3>3
  <2>6. req' \in [Request -> RequestState]
    <3>1. req'[r] \in RequestState
      BY <1>2, <2>5 DEF TypeOK, RequestState, Step
    <3>2. req' = [req EXCEPT ![r] = req'[r]]
      BY <1>2, <2>1 DEF TypeOK
    <3> QED
      BY <1>2, <3>1, <3>2 DEF TypeOK
  <2>7. TypeOK'
    <3>1. \A x \in Link : link'[x].state = "present" => link'[x].user \in users
      BY <1>2, <1>5, <2>3 DEF TypeOK
    <3> QED
      BY <1>1, <1>2, <2>4, <2>6, <3>1 DEF TypeOK
  <2>8. Grows
    BY <1>1, <2>3 DEF Grows
  <2>9. ReqInv(r)'
    <3>1. OfLink(r)'
      BY <2>3, <2>5 DEF OfLink
    <3> QED
      BY <1>1, <1>2, <2>5, <3>1
         DEF ReqInv, Logouts, LoginInv, OAuthInv, VerifyInv, CreateLinkInv, RefreshInv, LogoutInv
  <2>10. \A x \in Session : SessInv(x)'
    BY <1>1 DEF IInv, SessInv, Born, Live, Row
  <2>11. \A x \in Session : OrphanInv(x)'
    <3>1. \A x \in Session : OrphanInv(x) /\ (Row(x)' => Row(x))
      BY <1>1 DEF IInv, Row
    <3> QED
      BY <1>1, <1>3, <2>5, <3>1, OrphanStays
  <2>12. \A x \in Link : LinkInv(x)'
    BY <1>1, <2>3 DEF IInv, LinkInv
  <2>13. \A x \in Link : UseInv(x)'
    <3>1. \A x \in Link : UseInv(x)
      BY DEF IInv
    <3>2. \A x \in Link : ~AtMark(r, x)' /\ ~Past(r, x)' /\ ~Owed(r, x)'
      BY <1>2, <2>5 DEF AtMark, Past, Owed
    <3> QED
      BY <1>1, <1>3, <2>5, <3>1, <3>2, UseStays
  <2> QED
    BY <1>1, <2>5, <2>7, <2>8, <2>9, <2>10, <2>11, <2>12, <2>13, Compose
<1> QED
  BY <1>4, <1>5

LEMMA VerifyFindNext ==
    ASSUME IInv, NEW r \in Request, VerifyFind(r)
    PROVE  IInv'
<1>1. /\ req[r].op = "verify" /\ req[r].step = "find"
      /\ UNCHANGED <<config, now, users, audited, sess, revoked, link, used, held, loggedOut,
                     broken, requests, faults>>
  BY DEF VerifyFind, userVars, tokenVars, budgetVars
<1>2. TypeOK /\ ReqInv(r)
  BY OpOfStep
<1>3. (\A x \in Session : ~Makes(r, x)) /\ (\A x \in Link : ~Owed(r, x))
  BY <1>1 DEF Makes, Owed, Past
<1>4. ASSUME End(r), raced' = raced PROVE IInv'
  BY <1>1, <1>3, <1>4, EndStill
<1>5. ASSUME NEW l \in Link, Named(r, l), Unspent(l),
             req' = [req EXCEPT ![r].step = "mark", ![r].link = l],
             raced' = IF Contested(r, l) THEN raced \cup {l} ELSE raced
      PROVE  IInv'
  <2>1. /\ raced \subseteq raced' /\ raced' \subseteq raced \cup {l}
        /\ Contested(r, l) => l \in raced'
    BY <1>5
  <2>2. /\ req[r] \in RequestState /\ l \notin used
        /\ link[l].state # "absent" /\ link[l].user = req[r].user
    BY <1>1, <1>2, <1>5, SessionsAssumption DEF TypeOK, Named, Unspent, ReqInv, VerifyInv, OfLink
  <2>3. /\ req' \in [Request -> RequestState]
        /\ \A q \in Request \ {r} : req'[q] = req[q]
        /\ req'[r].step = "mark"
        /\ req'[r].op = req[r].op /\ req'[r].user = req[r].user
        /\ req'[r].sess = req[r].sess /\ req'[r].link = l
        /\ req'[r].covers = req[r].covers /\ req'[r].late = req[r].late
        /\ req'[r].began = req[r].began
    <3> DEFINE k == [req[r] EXCEPT !.step = "mark", !.link = l]
    <3>1. /\ k \in RequestState /\ k.step = "mark" /\ k.link = l
          /\ k.op = req[r].op /\ k.user = req[r].user /\ k.sess = req[r].sess
          /\ k.covers = req[r].covers /\ k.late = req[r].late /\ k.began = req[r].began
      BY <2>2 DEF RequestState, Step
    <3>2. req \in [Request -> RequestState] /\ req' = [req EXCEPT ![r] = k]
      BY <1>2, <1>5 DEF TypeOK
    <3> HIDE DEF k
    <3> QED
      BY <3>1, <3>2
  <2>4. TypeOK'
    BY <1>1, <1>2, <2>1, <2>2, <2>3 DEF TypeOK
  <2>5. Grows
    BY <1>1, GrowsStill
  <2>6. ReqInv(r)'
    BY <1>1, <1>2, <2>2, <2>3 DEF ReqInv, Logouts, LoginInv, OAuthInv, VerifyInv, CreateLinkInv,
                                  RefreshInv, LogoutInv, OfLink
  <2>7. (\A x \in Session : SessInv(x)') /\ (\A x \in Link : LinkInv(x)')
    BY <1>1 DEF IInv, SessInv, LinkInv, Born, Live, Row
  <2>8. \A x \in Session : OrphanInv(x)'
    <3>1. \A x \in Session : OrphanInv(x) /\ (Row(x)' => Row(x))
      BY <1>1 DEF IInv, Row
    <3> QED
      BY <1>1, <1>3, <2>3, <3>1, OrphanStays
  <2>9. \A x \in Link : UseInv(x)'
    <3> SUFFICES ASSUME NEW x \in Link
                 PROVE  UseInv(x)'
      OBVIOUS
    <3>1. UseInv(x)
      BY DEF IInv
    <3>2. \A y \in Session : FromLink(y, x)' <=> FromLink(y, x)
      BY <1>1 DEF FromLink
    <3>3. \A q \in Request : /\ Past(q, x)' <=> Past(q, x)
                             /\ Owed(q, x)' <=> Owed(q, x)
                             /\ AtMark(q, x)' <=> AtMark(q, x) \/ (q = r /\ x = l)
      <4> TAKE q \in Request
      <4>1. CASE q = r
        BY <1>1, <2>3, <4>1 DEF AtMark, Past, Owed
      <4>2. CASE q # r
        BY <2>3, <4>2 DEF AtMark, Past, Owed
      <4> QED
        BY <4>1, <4>2
    <3>4. FreshUse(x)' /\ SpentUse(x)'
      BY <1>1, <3>1, <3>2, <3>3 DEF UseInv, FreshUse, SpentUse
    <3>5. CASE x = l
      <4>1. x \notin raced' => \A q \in Request : AtMark(q, x)' => q = r
        <5> SUFFICES ASSUME x \notin raced', NEW q \in Request, AtMark(q, x)', q # r
                     PROVE  FALSE
          OBVIOUS
        <5>1. AtMark(q, x)
          BY <3>3
        <5>2. Contested(r, l)
          BY <3>5, <5>1 DEF Contested, AtMark
        <5> QED
          BY <2>1, <3>5, <5>2
      <4>2. SoleFinder(x)'
        BY <4>1 DEF SoleFinder
      <4>3. SoleUse(x)'
        BY <1>1, <2>2, <3>5 DEF SoleUse
      <4> QED
        BY <3>4, <4>2, <4>3 DEF UseInv
    <3>6. CASE x # l
      <4>1. (x \in raced') <=> (x \in raced)
        BY <2>1, <3>6
      <4>2. \A q \in Request : AtMark(q, x)' <=> AtMark(q, x)
        BY <3>3, <3>6
      <4>3. SoleFinder(x)'
        BY <1>1, <3>1, <4>1, <4>2 DEF UseInv, SoleFinder
      <4>4. SoleUse(x)'
        BY <1>1, <3>1, <3>2, <3>3, <4>1, <4>2 DEF UseInv, SoleUse
      <4> QED
        BY <3>4, <4>3, <4>4 DEF UseInv
    <3> QED
      BY <3>5, <3>6
  <2> QED
    BY <1>1, <2>3, <2>4, <2>5, <2>6, <2>7, <2>8, <2>9, Compose
<1> QED
  BY <1>4, <1>5 DEF VerifyFind

LEMMA MarkUsedNext ==
    ASSUME IInv, NEW r \in Request, MarkUsed(r)
    PROVE  IInv'
<1>1. /\ req[r].step = "mark"
      /\ UNCHANGED <<config, now, users, audited, sess, revoked, link, held, loggedOut, raced,
                     broken, requests, faults>>
  BY DEF MarkUsed, userVars, historyVars, budgetVars
<1>2. TypeOK /\ ReqInv(r) /\ req[r].op = "verify"
  BY <1>1, OpOfStep
<1>3. (\A x \in Session : ~Makes(r, x)) /\ (\A x \in Link : ~Owed(r, x))
  BY <1>1 DEF Makes, Owed, Past
<1>4. CASE End(r) /\ used' = used
  BY <1>1, <1>3, <1>4, EndStill
<1>5. CASE used' = used \cup {req[r].link} /\ Goto(r, "audit")
  <2> DEFINE l == req[r].link
  <2>1. "audit" \in Step /\ req \in [Request -> RequestState] /\ l \in Link
    BY <1>1, <1>2 DEF Step, TypeOK, ReqInv, VerifyInv, OfLink
  <2>2. /\ req' \in [Request -> RequestState]
        /\ \A q \in Request \ {r} : req'[q] = req[q]
        /\ req'[r].step = "audit"
        /\ req'[r].op = req[r].op /\ req'[r].user = req[r].user
        /\ req'[r].sess = req[r].sess /\ req'[r].link = req[r].link
        /\ req'[r].covers = req[r].covers /\ req'[r].late = req[r].late
        /\ req'[r].began = req[r].began
    BY <1>5, <2>1, GotoFacts
  <2>3. TypeOK'
    BY <1>1, <1>2, <1>5, <2>1, <2>2 DEF TypeOK
  <2>4. Grows
    BY <1>1, GrowsStill
  <2>5. ReqInv(r)'
    BY <1>1, <1>2, <2>2 DEF ReqInv, Logouts, LoginInv, OAuthInv, VerifyInv, CreateLinkInv,
                            RefreshInv, LogoutInv, OfLink
  <2>6. (\A x \in Session : SessInv(x)') /\ (\A x \in Link : LinkInv(x)')
    BY <1>1 DEF IInv, SessInv, LinkInv, Born, Live, Row
  <2>7. \A x \in Session : OrphanInv(x)'
    <3>1. \A x \in Session : OrphanInv(x) /\ (Row(x)' => Row(x))
      BY <1>1 DEF IInv, Row
    <3> QED
      BY <1>1, <1>3, <2>2, <3>1, OrphanStays
  <2>8. \A x \in Link : UseInv(x)'
    <3> SUFFICES ASSUME NEW x \in Link
                 PROVE  UseInv(x)'
      OBVIOUS
    <3>1. UseInv(x)
      BY DEF IInv
    <3>2. \A y \in Session : FromLink(y, x)' <=> FromLink(y, x)
      BY <1>1 DEF FromLink
    <3>3. \A q \in Request : /\ Past(q, x)' <=> Past(q, x) \/ (q = r /\ x = l)
                             /\ Owed(q, x)' <=> Owed(q, x) \/ (q = r /\ x = l)
                             /\ AtMark(q, x)' <=> AtMark(q, x) /\ q # r
      <4> TAKE q \in Request
      <4>1. CASE q = r
        BY <1>1, <1>2, <2>2, <4>1 DEF AtMark, Past, Owed
      <4>2. CASE q # r
        BY <2>2, <4>2 DEF AtMark, Past, Owed
      <4> QED
        BY <4>1, <4>2
    <3>4. CASE x = l
      <4>1. AtMark(r, x) /\ x \in used'
        BY <1>1, <1>2, <1>5, <3>4 DEF AtMark
      <4>2. SpentUse(x)'
        BY <3>3, <3>4 DEF SpentUse
      <4>3. SoleUse(x)'
        <5> SUFFICES ASSUME x \notin raced
                     PROVE  SoleUse(x)'
          BY <1>1 DEF SoleUse
        <5>1. x \notin used
          BY <3>1, <4>1 DEF UseInv, SoleUse
        <5>2. /\ \A y \in Session : ~FromLink(y, x)
              /\ \A q \in Request : ~Past(q, x)
          BY <3>1, <5>1 DEF UseInv, FreshUse
        <5>3. \A q \in Request : AtMark(q, x) => q = r
          BY <3>1, <4>1, <5>1 DEF UseInv, SoleFinder
        <5> QED
          BY <3>2, <3>3, <5>2, <5>3 DEF SoleUse
      <4> QED
        BY <4>1, <4>2, <4>3 DEF UseInv, FreshUse, SoleFinder
    <3>5. CASE x # l
      <4>1. (x \in used') <=> (x \in used)
        BY <1>5, <3>5
      <4>2. \A q \in Request : /\ Past(q, x)' <=> Past(q, x)
                               /\ Owed(q, x)' <=> Owed(q, x)
                               /\ AtMark(q, x)' => AtMark(q, x)
        BY <3>3, <3>5
      <4>3. FreshUse(x)' /\ SoleFinder(x)' /\ SpentUse(x)'
        BY <1>1, <3>1, <3>2, <4>1, <4>2 DEF UseInv, FreshUse, SoleFinder, SpentUse
      <4>4. SoleUse(x)'
        BY <1>1, <3>1, <3>2, <4>1, <4>2 DEF UseInv, SoleUse
      <4> QED
        BY <4>3, <4>4 DEF UseInv
    <3> QED
      BY <3>4, <3>5
  <2> QED
    BY <1>1, <2>2, <2>3, <2>4, <2>5, <2>6, <2>7, <2>8, Compose
<1> QED
  BY <1>4, <1>5 DEF MarkUsed

-----------------------------------------------------------------------------
(* The answer, users and time *)

LEMMA AnswerNext ==
    ASSUME IInv, NEW r \in Request, Answer(r)
    PROVE  IInv'
<1>1. /\ req[r].step = "reply" /\ End(r)
      /\ UNCHANGED <<config, now, users, audited, sess, revoked, used, raced, broken,
                     requests, faults>>
      /\ held' = IF req[r].op \in Logins THEN held \cup {req[r].sess} ELSE held
      /\ loggedOut' = loggedOut \cup req[r].covers
      /\ link' = IF req[r].op = "createLink"
                 THEN [link EXCEPT ![req[r].link].jwtExp = now + LinkLife] ELSE link
  BY DEF Answer, userVars, budgetVars, Logins
<1>2. TypeOK /\ ReqInv(r) /\ req[r].op \in Op
  BY OpOfStep
<1>3. /\ req' \in [Request -> RequestState]
      /\ \A q \in Request \ {r} : req'[q] = req[q]
      /\ ReqInv(r)'
      /\ \A l \in Link : ~AtMark(r, l)' /\ ~Past(r, l)' /\ ~Owed(r, l)'
  BY <1>1, <1>2, EndFacts
<1>4. req[r].op \in Logins =>
        /\ req[r].sess \in Session /\ Born(req[r].sess)
        /\ sess[req[r].sess].user \in audited
  BY <1>1, <1>2 DEF Logins, ReqInv, LoginInv, OAuthInv, VerifyInv, Made
<1>5. /\ req[r].covers \subseteq Session
      /\ \A s \in req[r].covers : Born(s) /\ ~Live(s)
  BY <1>1, <1>2 DEF TypeOK, RequestState, ReqInv, LogoutInv, Logouts, Closed
<1>6. now + LinkLife \in Nat /\ now + LinkLife > 0
  BY Clock, SessionsAssumption
<1>7. req[r].op = "createLink" => OfLink(r) /\ req[r].user \in audited
  BY <1>1, <1>2 DEF ReqInv, CreateLinkInv
<1>8. /\ link' \in [Link -> [state : RowState, user : User \cup {NoUser}, rowExp : Nat, jwtExp : Nat]]
      /\ \A l \in Link : /\ link'[l].state = link[l].state
                         /\ link'[l].user = link[l].user
                         /\ link'[l].jwtExp > 0 =>
                              \/ link[l].jwtExp > 0
                              \/ req[r].op = "createLink" /\ l = req[r].link
                         /\ link[l].jwtExp > 0 => link'[l].jwtExp > 0
  <2>1. CASE req[r].op = "createLink"
    <3>1. req[r].link \in Link
      BY <1>7, <2>1 DEF OfLink
    <3>2. link' = [link EXCEPT ![req[r].link].jwtExp = now + LinkLife]
      BY <1>1, <2>1
    <3>3. link \in [Link -> [state : RowState, user : User \cup {NoUser}, rowExp : Nat, jwtExp : Nat]]
      BY <1>2 DEF TypeOK
    <3> QED
      BY <1>6, <2>1, <3>1, <3>2, <3>3
  <2>2. CASE req[r].op # "createLink"
    <3>1. link' = link
      BY <1>1, <2>2
    <3> QED
      BY <1>2, <3>1 DEF TypeOK
  <2> QED
    BY <2>1, <2>2
<1>9. held \subseteq held' /\ held' \subseteq Session
      /\ \A s \in held' : s \in held \/ (req[r].op \in Logins /\ s = req[r].sess)
  BY <1>1, <1>2, <1>4 DEF TypeOK
<1>10. TypeOK'
  <2>1. loggedOut' \subseteq Session
    BY <1>1, <1>2, <1>5 DEF TypeOK
  <2>2. \A l \in Link : link'[l].state = "present" => link'[l].user \in users
    BY <1>2, <1>8 DEF TypeOK
  <2> QED
    BY <1>1, <1>2, <1>3, <1>8, <1>9, <2>1, <2>2 DEF TypeOK
<1>11. Grows
  BY <1>1, <1>8, <1>9 DEF Grows
<1>12. \A s \in Session : SessInv(s)'
  <2> SUFFICES ASSUME NEW s \in Session
               PROVE  SessInv(s)'
    OBVIOUS
  <2>1. SessInv(s)
    BY DEF IInv
  <2>2. s \in held' => Born(s) /\ sess[s].user \in audited
    BY <1>4, <1>9, <2>1 DEF SessInv
  <2>3. s \in loggedOut' => Born(s) /\ ~Live(s)
    BY <1>1, <1>5, <2>1 DEF SessInv
  <2> QED
    BY <1>1, <2>1, <2>2, <2>3 DEF SessInv, Born, Live, Row
<1>13. \A l \in Link : LinkInv(l)'
  <2> SUFFICES ASSUME NEW l \in Link
               PROVE  LinkInv(l)'
    OBVIOUS
  <2>1. LinkInv(l)
    BY DEF IInv
  <2> QED
    BY <1>1, <1>7, <1>8, <2>1 DEF LinkInv, OfLink
<1>14. \A s \in Session : OrphanInv(s)'
  <2>1. \A s \in Session : OrphanInv(s) /\ (Row(s)' => Row(s))
    BY <1>1 DEF IInv, Row
  <2>2. \A s \in Session : Makes(r, s) => s \in held'
    BY <1>1 DEF Makes
  <2> QED
    BY <1>1, <1>3, <1>9, <2>1, <2>2, OrphanStays
<1>15. \A l \in Link : UseInv(l)'
  <2>1. \A l \in Link : UseInv(l) /\ ~Owed(r, l)
    BY <1>1 DEF IInv, Owed
  <2> QED
    BY <1>1, <1>3, <2>1, UseStays
<1> QED
  BY <1>1, <1>3, <1>10, <1>11, <1>12, <1>13, <1>14, <1>15, Compose

LEMMA RemoveUserNext ==
    ASSUME IInv, NEW u \in User, RemoveUser(u)
    PROVE  IInv'
<1>1. /\ u \in users /\ u \notin audited /\ users' = users \ {u}
      /\ sess' = Cascade(sess, u) /\ link' = Cascade(link, u)
      /\ UNCHANGED <<config, now, audited, revoked, used, req, held, loggedOut, raced, broken,
                     requests, faults>>
  BY DEF RemoveUser, historyVars, budgetVars
<1>2. TypeOK
  BY DEF IInv
<1>3. /\ sess' \in [Session -> [state : RowState, user : User \cup {NoUser},
                                link : Link \cup {NoLink}, rowExp : Nat, jwtExp : Nat]]
      /\ \A s \in Session :
            /\ sess'[s].state = (IF Row(s) /\ sess[s].user = u THEN "deleted" ELSE sess[s].state)
            /\ sess'[s].user = sess[s].user /\ sess'[s].link = sess[s].link
            /\ sess'[s].rowExp = sess[s].rowExp /\ sess'[s].jwtExp = sess[s].jwtExp
  <2>1. sess \in [Session -> [state : RowState, user : User \cup {NoUser},
                              link : Link \cup {NoLink}, rowExp : Nat, jwtExp : Nat]]
    BY <1>2 DEF TypeOK
  <2>2. sess' = [s \in Session |-> IF sess[s].state = "present" /\ sess[s].user = u
                                   THEN [sess[s] EXCEPT !.state = "deleted"] ELSE sess[s]]
    BY <1>1, <2>1 DEF Cascade
  <2> QED
    BY <2>1, <2>2 DEF Row, RowState
<1>4. /\ link' \in [Link -> [state : RowState, user : User \cup {NoUser}, rowExp : Nat, jwtExp : Nat]]
      /\ \A l \in Link :
            /\ link'[l].state = (IF link[l].state = "present" /\ link[l].user = u
                                 THEN "deleted" ELSE link[l].state)
            /\ link'[l].user = link[l].user /\ link'[l].jwtExp = link[l].jwtExp
  <2>1. link \in [Link -> [state : RowState, user : User \cup {NoUser}, rowExp : Nat, jwtExp : Nat]]
    BY <1>2 DEF TypeOK
  <2>2. link' = [l \in Link |-> IF link[l].state = "present" /\ link[l].user = u
                                THEN [link[l] EXCEPT !.state = "deleted"] ELSE link[l]]
    BY <1>1, <2>1 DEF Cascade
  <2> QED
    BY <2>1, <2>2 DEF RowState
<1>5. TypeOK'
  <2>1. users' \subseteq User /\ audited' \subseteq users'
    BY <1>1, <1>2 DEF TypeOK
  <2>2. \A s \in Session : sess'[s].state = "present" => sess'[s].user \in users'
    BY <1>1, <1>2, <1>3 DEF TypeOK, Row
  <2>3. \A l \in Link : link'[l].state = "present" => link'[l].user \in users'
    BY <1>1, <1>2, <1>4 DEF TypeOK
  <2> QED
    BY <1>1, <1>2, <1>3, <1>4, <2>1, <2>2, <2>3 DEF TypeOK
<1>6. Grows
  BY <1>1, <1>3, <1>4 DEF Grows, Born
<1>7. \A q \in Request : ReqInv(q)'
  <2>1. \A s \in held : Born(s)
    BY <1>2 DEF IInv, SessInv, TypeOK
  <2> QED
    BY <1>1, <1>2, <1>6, <2>1, Others DEF IInv
<1>8. \A s \in Session : SessInv(s)'
  <2> SUFFICES ASSUME NEW s \in Session
               PROVE  SessInv(s)'
    OBVIOUS
  <2>1. SessInv(s)
    BY DEF IInv
  <2>2. /\ Born(s)' <=> Born(s)
        /\ Live(s)' => Live(s)
        /\ sess'[s].state = "deleted" => sess[s].state = "deleted" \/ sess[s].user = u
    BY <1>1, <1>3 DEF Born, Live, Row
  <2> QED
    BY <1>1, <1>3, <2>1, <2>2 DEF SessInv
<1>9. \A l \in Link : LinkInv(l)'
  BY <1>1, <1>4 DEF IInv, LinkInv
<1>10. \A s \in Session : OrphanInv(s)'
  <2> SUFFICES ASSUME NEW s \in Session, Row(s)', s \notin held \cup broken
               PROVE  \E q \in Request : Makes(q, s)'
    BY <1>1 DEF OrphanInv
  <2>1. Row(s)
    BY <1>3 DEF Row
  <2>2. PICK q \in Request : Makes(q, s)
    BY <2>1 DEF IInv, OrphanInv
  <2> QED
    BY <1>1, <2>2 DEF Makes
<1>11. \A l \in Link : UseInv(l)'
  <2>1. \A l \in Link : \A s \in Session : FromLink(s, l)' <=> FromLink(s, l)
    BY <1>3 DEF FromLink
  <2>2. \A l \in Link : \A q \in Request : /\ AtMark(q, l)' <=> AtMark(q, l)
                                           /\ Past(q, l)' <=> Past(q, l)
                                           /\ Owed(q, l)' <=> Owed(q, l)
    BY <1>1 DEF AtMark, Past, Owed
  <2> SUFFICES ASSUME NEW l \in Link
               PROVE  UseInv(l)'
    OBVIOUS
  <2>3. UseInv(l)
    BY DEF IInv
  <2>4. FreshUse(l)' /\ SoleFinder(l)' /\ SpentUse(l)'
    BY <1>1, <2>1, <2>2, <2>3 DEF UseInv, FreshUse, SoleFinder, SpentUse
  <2>5. SoleUse(l)'
    BY <1>1, <2>1, <2>2, <2>3 DEF UseInv, SoleUse
  <2> QED
    BY <2>4, <2>5 DEF UseInv
<1> QED
  BY <1>5, <1>7, <1>8, <1>9, <1>10, <1>11 DEF IInv

\* Only the clock of a request and the expiry it found refer to the time.
LEMMA TickNext ==
    ASSUME IInv, Tick
    PROVE  IInv'
<1>1. /\ now' = now + 1 /\ now < MaxTime
      /\ \A r \in Request : req[r].step # "idle" => req[r].began = now
      /\ UNCHANGED <<config, users, audited, sess, revoked, link, used, req, held, loggedOut,
                     raced, broken, requests, faults>>
  BY DEF Tick, userVars, tokenVars, historyVars, budgetVars
<1>2. TypeOK /\ now \in Nat
  BY Clock DEF IInv
<1>3. TypeOK'
  <2>1. now' \in 0..MaxTime
    BY <1>1, <1>2, SessionsAssumption DEF TypeOK
  <2> QED
    BY <1>1, <1>2, <2>1 DEF TypeOK
<1>4. \A r \in Request : ReqInv(r)'
  <2> SUFFICES ASSUME NEW r \in Request
               PROVE  ReqInv(r)'
    OBVIOUS
  <2>1. ReqInv(r) /\ (req[r].op # "none" => req[r].step # "idle")
    BY DEF IInv, ReqInv
  <2>2. (Made(r)' <=> Made(r)) /\ (OfLink(r)' <=> OfLink(r))
    BY <1>1 DEF Made, OfLink, Born
  <2>3. LoginInv(r)' /\ OAuthInv(r)' /\ VerifyInv(r)' /\ CreateLinkInv(r)'
    BY <1>1, <2>1, <2>2 DEF ReqInv, LoginInv, OAuthInv, VerifyInv, CreateLinkInv
  <2>4. RefreshInv(r)'
    <3> SUFFICES ASSUME req[r].op = "refresh"
                 PROVE  RefreshInv(r)'
      BY <1>1 DEF RefreshInv
    <3>1. sess[req[r].sess].rowExp \in Nat
      BY <1>2, <2>1 DEF ReqInv, RefreshInv, TypeOK
    <3> QED
      BY <1>1, <1>2, <2>1, <3>1 DEF ReqInv, RefreshInv
  <2>5. LogoutInv(r)'
    BY <1>1, <2>1 DEF ReqInv, LogoutInv, Closed, Born, Live, Row
  <2>6. req[r].op # "none" => req[r].began <= now + 1 /\ now + 1 <= req[r].began + 1
    BY <1>1, <1>2, <2>1
  <2> QED
    BY <1>1, <2>1, <2>3, <2>4, <2>5, <2>6 DEF ReqInv
<1>5. \A s \in Session : SessInv(s)' /\ OrphanInv(s)'
  BY <1>1 DEF IInv, SessInv, OrphanInv, Makes, Born, Live, Row
<1>6. \A l \in Link : LinkInv(l)' /\ UseInv(l)'
  <2> SUFFICES ASSUME NEW l \in Link
               PROVE  LinkInv(l)' /\ UseInv(l)'
    OBVIOUS
  <2>1. LinkInv(l) /\ UseInv(l)
    BY DEF IInv
  <2>2. LinkInv(l)'
    BY <1>1, <2>1 DEF LinkInv
  <2>3. UseInv(l)' = UseInv(l)
    BY <1>1 DEF UseInv, FreshUse, SoleFinder, SoleUse, SpentUse, AtMark, Past, Owed, FromLink
  <2> QED
    BY <2>1, <2>2, <2>3
<1> QED
  BY <1>3, <1>4, <1>5, <1>6 DEF IInv

-----------------------------------------------------------------------------
(* The inductive invariant *)

LEMMA InitIInv == Init => IInv
<1> SUFFICES ASSUME Init
             PROVE  IInv
  OBVIOUS
<1>1. TypeOK
  BY SessionsAssumption DEF Init, TypeOK, RowState, RequestState, Idle, Op, Step
<1>2. \A r \in Request : req[r] = Idle
  BY DEF Init
<1>3. \A r \in Request : ReqInv(r)
  <2> SUFFICES ASSUME NEW r \in Request
               PROVE  ReqInv(r)
    OBVIOUS
  <2>1. req[r] = Idle
    BY <1>2
  <2>2. req[r].op = "none" /\ req[r].covers = {} /\ req[r].late = FALSE
    BY <2>1 DEF Idle
  <2>3. LoginInv(r) /\ OAuthInv(r) /\ VerifyInv(r) /\ CreateLinkInv(r) /\ RefreshInv(r) /\ LogoutInv(r)
    BY <2>2 DEF Logouts, LoginInv, OAuthInv, VerifyInv, CreateLinkInv, RefreshInv, LogoutInv
  <2> QED
    BY <2>1, <2>2, <2>3 DEF ReqInv
<1>4. \A s \in Session : SessInv(s) /\ OrphanInv(s)
  BY DEF Init, SessInv, OrphanInv, Born, Live, Row
<1>5. \A l \in Link : LinkInv(l) /\ UseInv(l)
  BY <1>2, SessionsAssumption
     DEF Init, Idle, LinkInv, UseInv, FreshUse, SoleFinder, SoleUse, SpentUse, FromLink, Past, AtMark
<1> QED
  BY <1>1, <1>3, <1>4, <1>5 DEF IInv

LEMMA StutterIInv == IInv /\ UNCHANGED vars => IInv'
<1> SUFFICES ASSUME IInv, UNCHANGED vars
             PROVE  IInv'
  OBVIOUS
<1>1. UNCHANGED <<config, now, users, audited, sess, revoked, link, used, req, held, loggedOut,
                  raced, broken, requests, faults>>
  BY DEF vars, userVars, tokenVars, historyVars, budgetVars
<1>2. TypeOK'
  BY <1>1 DEF IInv, TypeOK
<1>3. \A r \in Request : ReqInv(r)'
  <2>1. \A s \in held : Born(s)
    BY DEF IInv, TypeOK, SessInv
  <2>2. Grows
    BY <1>1, GrowsStill
  <2> QED
    BY <1>1, <2>1, <2>2, Others DEF IInv
<1>4. \A s \in Session : SessInv(s)' /\ OrphanInv(s)'
  BY <1>1 DEF IInv, SessInv, OrphanInv, Makes, Born, Live, Row
<1>5. \A l \in Link : LinkInv(l)' /\ UseInv(l)'
  <2> SUFFICES ASSUME NEW l \in Link
               PROVE  LinkInv(l)' /\ UseInv(l)'
    OBVIOUS
  <2>1. UseInv(l)' = UseInv(l)
    BY <1>1 DEF UseInv, FreshUse, SoleFinder, SoleUse, SpentUse, AtMark, Past, Owed, FromLink
  <2> QED
    BY <1>1, <2>1 DEF IInv, LinkInv
<1> QED
  BY <1>2, <1>3, <1>4, <1>5 DEF IInv

LEMMA ProceedNext ==
    ASSUME IInv, NEW r \in Request, Proceed(r)
    PROVE  IInv'
BY CreateSessionNext, InsertLinkNext, RefreshFindNext, RefreshExpireNext, RefreshTouchNext,
   RevokeNext, VerifyFindNext, MarkUsedNext, AuditNext, AnswerNext DEF Proceed

LEMMA NextIInv == IInv /\ [Next]_vars => IInv'
<1> SUFFICES ASSUME IInv, [Next]_vars
             PROVE  IInv'
  OBVIOUS
<1>1. ASSUME NEW r \in Request, NEW u \in User,
             Login(r, u) \/ LoginOAuth(r, u) \/ LogoutAll(r, u) \/ CreateLink(r, u)
             \/ VerifyByToken(r, u)
      PROVE  IInv'
  BY <1>1, LoginNext, LogoutAllNext, CreateLinkNext, VerifyByTokenNext
<1>2. ASSUME NEW r \in Request, NEW s \in Session,
             Refresh(r, s) \/ \E u \in User : Logout(r, s, u)
      PROVE  IInv'
  BY <1>2, RefreshNext, LogoutNext
<1>3. ASSUME NEW r \in Request, NEW l \in Link,
             Verify(r, l) \/ \E u \in User : LogoutByLink(r, l, u)
      PROVE  IInv'
  BY <1>3, VerifyNext, LogoutByLinkNext
<1>4. ASSUME NEW r \in Request, Proceed(r) \/ Fault(r)
      PROVE  IInv'
  BY <1>4, ProceedNext, FaultNext
<1>5. ASSUME NEW u \in User, RemoveUser(u)
      PROVE  IInv'
  BY <1>5, RemoveUserNext
<1>6. ASSUME Tick
      PROVE  IInv'
  BY <1>6, TickNext
<1>7. ASSUME UNCHANGED vars
      PROVE  IInv'
  BY <1>7, StutterIInv
<1> QED
  BY <1>1, <1>2, <1>3, <1>4, <1>5, <1>6, <1>7 DEF Next

LEMMA IInvHolds == Spec => []IInv
BY InitIInv, NextIInv, PTL DEF Spec

-----------------------------------------------------------------------------
(* The properties *)

\* Types, with the foreign keys of sessions and links.
THEOREM SessionsTypeOK == Spec => []TypeOK
<1>1. IInv => TypeOK
  BY DEF IInv
<1> QED
  BY <1>1, IInvHolds, PTL

\* No refresh that begins after a confirmed logout of its session is granted.
THEOREM SessionsNoRefreshAfterLogout == Spec => []NoRefreshAfterLogout
<1>1. IInv => NoRefreshAfterLogout
  BY DEF IInv, ReqInv, NoRefreshAfterLogout
<1> QED
  BY <1>1, IInvHolds, PTL

\* A session whose token reached a client keeps its row and its user.
THEOREM SessionsHeldSessionPersists == Spec => []HeldSessionPersists
<1>1. IInv => HeldSessionPersists
  <2> SUFFICES ASSUME IInv, NEW s \in held
               PROVE  Row(s) /\ sess[s].user \in users
    BY DEF HeldSessionPersists
  <2>1. s \in Session /\ audited \subseteq users
    BY DEF IInv, TypeOK
  <2> QED
    BY <2>1, HeldFacts
<1> QED
  BY <1>1, IInvHolds, PTL

\* A link logs in twice only if two requests found it unused before it was marked.
THEOREM SessionsTwoLoginsOnlyByRace == Spec => []TwoLoginsOnlyByRace
<1>1. IInv => TwoLoginsOnlyByRace
  <2> SUFFICES ASSUME IInv, NEW s \in Session, NEW t \in Session, s # t,
                      sess[s].link = sess[t].link, sess[s].link # NoLink,
                      sess[s].link \notin raced
               PROVE  FALSE
    BY DEF TwoLoginsOnlyByRace
  <2>1. sess[s].link \in Link
    BY DEF IInv, TypeOK
  <2>2. PICK l \in Link : l = sess[s].link
    BY <2>1
  <2>3. FromLink(s, l) /\ FromLink(t, l) /\ UseInv(l)
    BY <2>2 DEF FromLink, IInv
  <2>4. l \in used
    BY <2>3 DEF UseInv, FreshUse
  <2> QED
    BY <2>2, <2>3, <2>4 DEF UseInv, SoleUse
<1> QED
  BY <1>1, IInvHolds, PTL

\* A link is spent without a login only by a failure half-way.
THEOREM SessionsSpentLinkLogsIn == Spec => []SpentLinkLogsIn
<1>1. IInv => SpentLinkLogsIn
  <2> SUFFICES ASSUME IInv, NEW l \in used \ broken
               PROVE  \/ \E s \in Session : sess[s].link = l
                      \/ \E r \in Request : /\ req[r].op = "verify" /\ req[r].link = l
                                            /\ req[r].step \in {"audit", "session"}
    BY DEF SpentLinkLogsIn
  <2>1. l \in Link
    BY DEF IInv, TypeOK
  <2>2. SpentUse(l)
    BY <2>1 DEF IInv, UseInv
  <2> QED
    BY <2>1, <2>2 DEF SpentUse, FromLink, Owed, Past
<1> QED
  BY <1>1, IInvHolds, PTL

\* A session whose token reached nobody is the leftover of a failure.
THEOREM SessionsOrphanOnlyByFault == Spec => []OrphanSessionOnlyByFault
<1>1. IInv => OrphanSessionOnlyByFault
  BY DEF IInv, OrphanInv, Makes, OrphanSessionOnlyByFault
<1> QED
  BY <1>1, IInvHolds, PTL

\* The row of a session expires before its JWT only if the unit was not parsed.
THEOREM SessionsRowExpiresFirstOnlyIfUnparsed == Spec => []RowExpiresFirstOnlyIfUnparsed
<1>1. IInv => RowExpiresFirstOnlyIfUnparsed
  <2> SUFFICES ASSUME IInv, NEW r \in Request, req[r].step = "expire"
               PROVE  ~config.parsed
    BY DEF RowExpiresFirstOnlyIfUnparsed
  <2>1. ReqInv(r) /\ req[r].op = "refresh"
    BY OpOfStep
  <2> QED
    BY <2>1 DEF ReqInv, RefreshInv
<1> QED
  BY <1>1, IInvHolds, PTL
-----------------------------------------------------------------------------
(* The sessions implement SessionGate *)

SameGates == \A s \in Session : GateOf(s)' = GateOf(s)
SameAsks  == \A r \in Request : AskOf(r)' = AskOf(r) /\ TargetOf(r)' = TargetOf(r)

\* What every step must be.
GateStep == Gate!Next \/ UNCHANGED Gate!vars

LEMMA SameGatesIf ==
    ASSUME UNCHANGED <<sess, revoked, now>>
    PROVE  SameGates
BY DEF SameGates, GateOf, Live, Row

\* A step of r moves the question of r alone.
LEMMA AskMoves ==
    ASSUME TypeOK, NEW r \in Request, \A q \in Request \ {r} : req'[q] = req[q]
    PROVE  /\ [q \in Request |-> AskOf(q)]' = [[q \in Request |-> AskOf(q)] EXCEPT ![r] = AskOf(r)']
           /\ [q \in Request |-> TargetOf(q)]'
                = [[q \in Request |-> TargetOf(q)] EXCEPT ![r] = TargetOf(r)']
<1>1. \A q \in Request \ {r} : AskOf(q)' = AskOf(q) /\ TargetOf(q)' = TargetOf(q)
  BY DEF AskOf, TargetOf
<1> QED
  BY <1>1

LEMMA SameAsksIf ==
    ASSUME NEW r \in Request, \A q \in Request \ {r} : req'[q] = req[q],
           AskOf(r)' = AskOf(r), TargetOf(r)' = TargetOf(r)
    PROVE  SameAsks
<1>1. \A q \in Request \ {r} : AskOf(q)' = AskOf(q) /\ TargetOf(q)' = TargetOf(q)
  BY DEF AskOf, TargetOf
<1> QED
  BY <1>1 DEF SameAsks

LEMMA GateStutters ==
    ASSUME SameGates, SameAsks
    PROVE  GateStep
BY DEF SameGates, SameAsks, GateStep, Gate!vars

\* Nothing happens to the gates and the questions: a step of a request that is no refresh.
LEMMA NoRefreshMoves ==
    ASSUME UNCHANGED <<sess, revoked, now>>, NEW r \in Request,
           \A q \in Request \ {r} : req'[q] = req[q],
           req[r].op # "refresh", req'[r].op # "refresh"
    PROVE  GateStep
<1>1. SameGates
  BY SameGatesIf
<1>2. AskOf(r)' = AskOf(r) /\ TargetOf(r)' = TargetOf(r)
  BY DEF AskOf, TargetOf
<1>3. SameAsks
  BY <1>2, SameAsksIf
<1> QED
  BY <1>1, <1>3, GateStutters

LEMMA GateFinishes ==
    ASSUME TypeOK, SameGates, NEW r \in Request, End(r)
    PROVE  GateStep
<1>1. req'[r] = Idle /\ \A q \in Request \ {r} : req'[q] = req[q]
  BY DEF TypeOK, End
<1>2. AskOf(r)' = "none" /\ TargetOf(r)' = NoSession
  BY <1>1 DEF Idle, AskOf, TargetOf
<1>3. CASE req[r].op = "refresh"
  <2>1. AskOf(r) # "none"
    BY <1>3 DEF AskOf
  <2>2. Gate!Finish(r)
    BY <1>1, <1>2, <2>1, AskMoves DEF SameGates, Gate!Finish
  <2> QED
    BY <2>2 DEF GateStep, Gate!Next
<1>4. CASE req[r].op # "refresh"
  <2>1. AskOf(r) = "none" /\ TargetOf(r) = NoSession
    BY <1>4 DEF AskOf, TargetOf
  <2>2. SameAsks
    BY <1>1, <1>2, <2>1, SameAsksIf
  <2> QED
    BY <2>2, GateStutters
<1> QED
  BY <1>3, <1>4

\* Gates close, and no question moves.
LEMMA GatesClose ==
    ASSUME SameAsks,
           \A s \in Session : GateOf(s)' = GateOf(s) \/ (GateOf(s) = "open" /\ GateOf(s)' = "closed")
    PROVE  GateStep
<1> DEFINE S == {s \in Session : GateOf(s)' # GateOf(s)}
<1>1. S \in SUBSET Session
  OBVIOUS
<1>2. Gate!Close(S)
  BY DEF SameAsks, Gate!Close
<1> HIDE DEF S
<1> QED
  BY <1>1, <1>2 DEF GateStep, Gate!Next

LEMMA GateInit == Init => Gate!Init
<1> SUFFICES ASSUME Init
             PROVE  Gate!Init
  OBVIOUS
<1>1. ASSUME NEW s \in Session
      PROVE  GateOf(s) = "unborn"
  <2>1. sess[s].state = "absent"
    BY DEF Init
  <2> QED
    BY <2>1 DEF GateOf, Live, Row
<1>2. ASSUME NEW r \in Request
      PROVE  AskOf(r) = "none" /\ TargetOf(r) = NoSession
  <2>1. req[r].op = "none"
    BY DEF Init, Idle
  <2> QED
    BY <2>1 DEF AskOf, TargetOf
<1> QED
  BY <1>1, <1>2 DEF Gate!Init

LEMMA BeginGate ==
    ASSUME IInv, NEW r \in Request, NEW rec, Takes(r, rec), rec.op # "refresh"
    PROVE  GateStep
<1>1. /\ req'[r] = rec /\ \A q \in Request \ {r} : req'[q] = req[q]
      /\ UNCHANGED <<sess, revoked, now>>
      /\ req[r].step = "idle"
  BY DEF IInv, TypeOK, Takes
<1>2. req[r].op # "refresh"
  BY <1>1 DEF IInv, ReqInv
<1> QED
  BY <1>1, <1>2, NoRefreshMoves

LEMMA BeginTakes ==
    ASSUME NEW r, NEW op, NEW step, NEW u, NEW s, NEW l, NEW covers, NEW late,
           Begin(r, op, step, u, s, l, covers, late)
    PROVE  Takes(r, [op |-> op, step |-> step, user |-> u, sess |-> s, link |-> l,
                     covers |-> covers, late |-> late, began |-> now])
BY DEF Begin, Takes, userVars, tokenVars, historyVars

LEMMA RefreshGate ==
    ASSUME IInv, NEW r \in Request, NEW s \in Session, Refresh(r, s)
    PROVE  GateStep
<1>1. Begin(r, "refresh", "find", sess[s].user, s, NoLink, {}, s \in loggedOut)
  BY DEF Refresh
<1>2. /\ req'[r].op = "refresh" /\ req'[r].step = "find" /\ req'[r].sess = s
      /\ \A q \in Request \ {r} : req'[q] = req[q]
      /\ UNCHANGED <<sess, revoked, now>>
      /\ req[r].step = "idle"
  BY <1>1 DEF IInv, TypeOK, Begin, tokenVars
<1>3. req[r].op = "none"
  BY <1>2 DEF IInv, ReqInv
<1>4. AskOf(r) = "none" /\ AskOf(r)' = "asked" /\ TargetOf(r)' = s
  BY <1>2, <1>3 DEF AskOf, TargetOf
<1>5. TypeOK /\ SameGates
  BY <1>2, SameGatesIf DEF IInv
<1>6. Gate!Ask(r, s)
  BY <1>2, <1>4, <1>5, AskMoves DEF SameGates, Gate!Ask
<1> QED
  BY <1>6 DEF GateStep, Gate!Next

LEMMA RefreshFindGate ==
    ASSUME IInv, NEW r \in Request, RefreshFind(r)
    PROVE  GateStep
<1>1. /\ req[r].op = "refresh" /\ req[r].step = "find"
      /\ UNCHANGED <<sess, revoked, now>>
      /\ TypeOK
  BY DEF RefreshFind, tokenVars, IInv
<1>2. SameGates
  BY <1>1, SameGatesIf
<1>3. CASE End(r)
  BY <1>1, <1>2, <1>3, GateFinishes
<1>4. CASE Goto(r, "expire")
  <2>1. /\ req'[r].op = "refresh" /\ req'[r].step = "expire" /\ req'[r].sess = req[r].sess
        /\ \A q \in Request \ {r} : req'[q] = req[q]
    BY <1>1, <1>4, GotoFacts DEF TypeOK, Step
  <2>2. SameAsks
    BY <1>1, <2>1, SameAsksIf DEF AskOf, TargetOf
  <2> QED
    BY <1>2, <2>2, GateStutters
<1>5. CASE Live(req[r].sess) /\ now <= sess[req[r].sess].rowExp /\ Goto(r, "touch")
  <2>1. /\ req'[r].op = "refresh" /\ req'[r].step = "touch" /\ req'[r].sess = req[r].sess
        /\ \A q \in Request \ {r} : req'[q] = req[q]
    BY <1>1, <1>5, GotoFacts DEF TypeOK, Step
  <2>2. AskOf(r) = "asked" /\ AskOf(r)' = "allowed" /\ TargetOf(r)' = TargetOf(r)
    BY <1>1, <2>1 DEF AskOf, TargetOf
  <2>3. req[r].sess \in Session
    BY <1>1 DEF IInv, ReqInv, RefreshInv, TypeOK
  <2>4. TargetOf(r) \in Session /\ GateOf(TargetOf(r)) = "open"
    BY <1>1, <1>5, <2>3 DEF TargetOf, GateOf, Live, Row
  <2>5. Gate!Allow(r)
    <3>1. [q \in Request |-> TargetOf(q)]' = [q \in Request |-> TargetOf(q)]
      BY <1>1, <2>1, <2>2, AskMoves
    <3> QED
      BY <1>1, <1>2, <2>1, <2>2, <2>4, <3>1, AskMoves DEF SameGates, Gate!Allow
  <2> QED
    BY <2>5 DEF GateStep, Gate!Next
<1> QED
  BY <1>3, <1>4, <1>5 DEF RefreshFind

LEMMA RefreshExpireGate ==
    ASSUME IInv, NEW r \in Request, RefreshExpire(r)
    PROVE  GateStep
<1>1. /\ req[r].step = "expire" /\ End(r) /\ UNCHANGED <<sess, now>>
      /\ revoked' = IF Row(req[r].sess) THEN revoked \cup {req[r].sess} ELSE revoked
  BY DEF RefreshExpire
<1>2. TypeOK /\ ReqInv(r) /\ req[r].op = "refresh"
  BY <1>1, OpOfStep
<1>3. now > sess[req[r].sess].rowExp /\ req[r].sess \in Session
  BY <1>1, <1>2 DEF ReqInv, RefreshInv, TypeOK
<1>4. ~(now <= sess[req[r].sess].rowExp)
  BY <1>2, <1>3, Clock DEF TypeOK
<1>5. SameGates
  BY <1>1, <1>3, <1>4 DEF SameGates, GateOf, Live, Row
<1> QED
  BY <1>1, <1>2, <1>5, GateFinishes

LEMMA RefreshTouchGate ==
    ASSUME IInv, NEW r \in Request, RefreshTouch(r)
    PROVE  GateStep
<1>1. req[r].step = "touch" /\ UNCHANGED <<sess, revoked, now>>
  BY DEF RefreshTouch, tokenVars
<1>2. TypeOK /\ req[r].op = "refresh"
  BY <1>1, OpOfStep
<1>3. SameGates
  BY <1>1, SameGatesIf
<1>4. CASE End(r)
  BY <1>2, <1>3, <1>4, GateFinishes
<1>5. CASE Goto(r, "audit")
  <2>1. /\ req'[r].op = "refresh" /\ req'[r].step = "audit" /\ req'[r].sess = req[r].sess
        /\ \A q \in Request \ {r} : req'[q] = req[q]
    BY <1>2, <1>5, GotoFacts DEF TypeOK, Step
  <2>2. SameAsks
    BY <1>1, <1>2, <2>1, SameAsksIf DEF AskOf, TargetOf
  <2> QED
    BY <1>3, <2>2, GateStutters
<1> QED
  BY <1>4, <1>5 DEF RefreshTouch
LEMMA RevokeGate ==
    ASSUME IInv, NEW r \in Request, Revoke(r)
    PROVE  GateStep
<1>1. /\ req[r].step = "revoke" /\ Goto(r, "audit")
      /\ revoked' = revoked \cup Selected(r)
      /\ UNCHANGED <<sess, now>>
  BY DEF Revoke
<1>2. TypeOK /\ req[r].op # "refresh"
  BY <1>1, OpOfStep DEF Logouts
<1>3. /\ req'[r].op = req[r].op
      /\ \A q \in Request \ {r} : req'[q] = req[q]
  BY <1>1, <1>2, GotoFacts DEF TypeOK, Step
<1>4. SameAsks
  BY <1>2, <1>3, SameAsksIf DEF AskOf, TargetOf
<1>5. \A s \in Session : GateOf(s)' = GateOf(s) \/ (GateOf(s) = "open" /\ GateOf(s)' = "closed")
  BY <1>1 DEF GateOf, Live, Row, Selected
<1> QED
  BY <1>4, <1>5, GatesClose

LEMMA RemoveUserGate ==
    ASSUME IInv, NEW u \in User, RemoveUser(u)
    PROVE  GateStep
<1>1. sess' = Cascade(sess, u) /\ UNCHANGED <<now, revoked, req>>
  BY DEF RemoveUser
<1>2. SameAsks
  BY <1>1 DEF SameAsks, AskOf, TargetOf
<1>3. \A s \in Session : GateOf(s)' = GateOf(s) \/ (GateOf(s) = "open" /\ GateOf(s)' = "closed")
  <2> TAKE s \in Session
  <2>1. \/ sess'[s] = sess[s]
        \/ sess[s].state = "present" /\ sess'[s].state = "deleted"
    BY <1>1 DEF Cascade, IInv, TypeOK
  <2>2. CASE sess'[s] = sess[s]
    BY <1>1, <2>2 DEF GateOf, Live, Row
  <2>3. CASE sess[s].state = "present" /\ sess'[s].state = "deleted"
    BY <1>1, <2>3 DEF GateOf, Live, Row
  <2> QED
    BY <2>1, <2>2, <2>3
<1> QED
  BY <1>2, <1>3, GatesClose

LEMMA TickGate ==
    ASSUME IInv, Tick
    PROVE  GateStep
<1>1. now' = now + 1 /\ UNCHANGED <<sess, revoked, req>> /\ now \in Nat
  BY Clock DEF Tick, tokenVars
<1>2. SameAsks
  BY <1>1 DEF SameAsks, AskOf, TargetOf
<1>3. \A s \in Session : GateOf(s)' = GateOf(s) \/ (GateOf(s) = "open" /\ GateOf(s)' = "closed")
  <2> TAKE s \in Session
  <2>1. sess[s].rowExp \in Nat
    BY DEF IInv, TypeOK
  <2> QED
    BY <1>1, <2>1 DEF GateOf, Live, Row
<1> QED
  BY <1>2, <1>3, GatesClose

LEMMA CreateSessionGate ==
    ASSUME IInv, NEW r \in Request, NEW s \in Session, CreateSession(r, s)
    PROVE  GateStep
<1>1. /\ req[r].step = "session" /\ sess[s].state = "absent"
      /\ UNCHANGED <<now, revoked>>
  BY DEF CreateSession
<1>2. TypeOK /\ ReqInv(r) /\ req[r].op \in Logins
  BY <1>1, OpOfStep
<1>3. CASE req[r].user \notin users
  <2>1. End(r) /\ UNCHANGED <<sess, revoked, now>>
    BY <1>1, <1>3 DEF CreateSession
  <2> QED
    BY <1>2, <2>1, SameGatesIf, GateFinishes
<1>4. CASE req[r].user \in users
  <2>1. /\ sess' = [sess EXCEPT ![s] =
                      [state |-> "present", user |-> req[r].user, link |-> req[r].link,
                       rowExp |-> now + RowLife, jwtExp |-> now + config.life]]
        /\ req' = [req EXCEPT ![r].step = AfterSession(req[r].op), ![r].sess = s]
    BY <1>4 DEF CreateSession
  <2>2. /\ req'[r].op = req[r].op
        /\ \A q \in Request \ {r} : req'[q] = req[q]
    BY <1>2, <2>1 DEF TypeOK, RequestState
  <2>3. SameAsks
    BY <1>2, <2>2, SameAsksIf DEF AskOf, TargetOf, Logins
  <2>4. /\ sess'[s].state = "present" /\ sess'[s].rowExp = now + RowLife
        /\ \A x \in Session \ {s} : sess'[x] = sess[x]
    BY <1>2, <2>1 DEF TypeOK
  <2>5. now <= now + RowLife
    <3>1. config.life \in Nat /\ DefaultLife \in Nat /\ now \in Nat
      BY <1>2, Clock, SessionsAssumption DEF TypeOK
    <3>2. RowLife \in {DefaultLife, DefaultLife + 0, DefaultLife + config.life}
      BY DEF RowLife
    <3>3. RowLife \in Nat
      BY <3>1, <3>2
    <3> QED
      BY <3>1, <3>3
  <2>6. s \notin revoked
    BY <1>1 DEF IInv, SessInv, Born
  <2>7. GateOf(s) = "unborn" /\ GateOf(s)' = "open"
    BY <1>1, <2>4, <2>5, <2>6 DEF GateOf, Live, Row
  <2>8. \A x \in Session \ {s} : GateOf(x)' = GateOf(x)
    BY <1>1, <2>4 DEF GateOf, Live, Row
  <2>9. Gate!Open(s)
    BY <2>3, <2>7, <2>8 DEF SameAsks, Gate!Open
  <2> QED
    BY <2>9 DEF GateStep, Gate!Next
<1> QED
  BY <1>3, <1>4

LEMMA LinkGate ==
    ASSUME IInv, NEW r \in Request,
           (\E l \in Link : InsertLink(r, l)) \/ VerifyFind(r) \/ MarkUsed(r)
    PROVE  GateStep
<1>1. TypeOK /\ req[r].op # "refresh" /\ UNCHANGED <<sess, revoked, now>>
  BY OpOfStep DEF InsertLink, VerifyFind, MarkUsed, tokenVars
<1>2. SameGates
  BY <1>1, SameGatesIf
<1>3. CASE End(r)
  BY <1>1, <1>2, <1>3, GateFinishes
<1>4. CASE ~End(r)
  <2>1. req'[r].op = req[r].op /\ \A q \in Request \ {r} : req'[q] = req[q]
    <3>1. ASSUME NEW l \in Link, req' = [req EXCEPT ![r].step = "mark", ![r].link = l]
          PROVE  req'[r].op = req[r].op /\ \A q \in Request \ {r} : req'[q] = req[q]
      BY <1>1, <3>1 DEF TypeOK, RequestState
    <3>2. ASSUME VerifyFind(r)
          PROVE  req'[r].op = req[r].op /\ \A q \in Request \ {r} : req'[q] = req[q]
      BY <1>4, <3>1, <3>2 DEF VerifyFind
    <3> QED
      BY <1>1, <1>4, <3>2 DEF InsertLink, MarkUsed, Goto, TypeOK, RequestState
  <2> QED
    BY <1>1, <2>1, NoRefreshMoves
<1> QED
  BY <1>3, <1>4

LEMMA AuditGate ==
    ASSUME IInv, NEW r \in Request, Audit(r)
    PROVE  GateStep
<1>1. TypeOK /\ req[r].step = "audit" /\ UNCHANGED <<sess, revoked, now>>
  BY OpOfStep DEF Audit, tokenVars
<1>2. SameGates
  BY <1>1, SameGatesIf
<1>3. CASE End(r)
  BY <1>1, <1>2, <1>3, GateFinishes
<1>4. CASE Goto(r, AfterAudit(req[r].op))
  <2>1. /\ req'[r].op = req[r].op /\ req'[r].sess = req[r].sess
        /\ req'[r].step = AfterAudit(req[r].op)
        /\ \A q \in Request \ {r} : req'[q] = req[q]
    BY <1>1, <1>4 DEF Goto, TypeOK, RequestState
  <2>2. CASE req[r].op = "refresh"
    <3>1. AskOf(r) = "allowed" /\ AskOf(r)' = "granted" /\ TargetOf(r)' = TargetOf(r)
      BY <1>1, <2>1, <2>2 DEF AskOf, TargetOf, AfterAudit
    <3>2. [q \in Request |-> TargetOf(q)]' = [q \in Request |-> TargetOf(q)]
      BY <1>1, <2>1, <3>1, AskMoves
    <3>3. Gate!Grant(r)
      BY <1>1, <1>2, <2>1, <3>1, <3>2, AskMoves DEF SameGates, Gate!Grant
    <3> QED
      BY <3>3 DEF GateStep, Gate!Next
  <2>3. CASE req[r].op # "refresh"
    BY <1>1, <2>1, <2>3, NoRefreshMoves
  <2> QED
    BY <2>2, <2>3
<1> QED
  BY <1>3, <1>4 DEF Audit

LEMMA EndGate ==
    ASSUME IInv, NEW r \in Request, Answer(r) \/ Fault(r)
    PROVE  GateStep
<1>1. TypeOK /\ End(r) /\ UNCHANGED <<sess, revoked, now>>
  BY DEF Answer, Fault, tokenVars, IInv
<1> QED
  BY <1>1, SameGatesIf, GateFinishes

LEMMA BeginsGate ==
    ASSUME IInv, NEW r \in Request,
           \/ \E u \in User : Login(r, u) \/ LoginOAuth(r, u) \/ LogoutAll(r, u) \/ CreateLink(r, u)
                            \/ VerifyByToken(r, u)
           \/ \E s \in Session, u \in User : Logout(r, s, u)
           \/ \E l \in Link : Verify(r, l) \/ \E u \in User : LogoutByLink(r, l, u)
    PROVE  GateStep
<1>1. PICK op, step, u, s, l, covers, late :
        op # "refresh" /\ Begin(r, op, step, u, s, l, covers, late)
  BY DEF Login, LoginOAuth, LogoutAll, CreateLink, VerifyByToken, Logout, LogoutByLink, Verify
<1>2. Takes(r, [op |-> op, step |-> step, user |-> u, sess |-> s, link |-> l,
                covers |-> covers, late |-> late, began |-> now])
  BY <1>1, BeginTakes
<1> QED
  BY <1>1, <1>2, BeginGate

LEMMA GateNext == IInv /\ [Next]_vars => [Gate!Next]_(Gate!vars)
<1> SUFFICES ASSUME IInv, [Next]_vars
             PROVE  GateStep
  BY DEF GateStep
<1>1. CASE UNCHANGED vars
  <2>1. UNCHANGED <<sess, revoked, now, req>>
    BY <1>1 DEF vars, tokenVars
  <2>2. SameAsks
    BY <2>1 DEF SameAsks, AskOf, TargetOf
  <2> QED
    BY <2>1, <2>2, SameGatesIf, GateStutters
<1>2. ASSUME NEW r \in Request, Proceed(r)
      PROVE  GateStep
  BY <1>2, CreateSessionGate, LinkGate, RefreshFindGate, RefreshExpireGate, RefreshTouchGate,
     RevokeGate, AuditGate, EndGate DEF Proceed
<1> QED
  BY <1>1, <1>2, BeginsGate, RefreshGate, EndGate, RemoveUserGate, TickGate DEF Next

\* Sessions are gates that close for good, and a refresh is granted only if it found
\* its gate open: for any number of users, sessions and requests in any interleaving.
THEOREM SessionsImplementGate == Spec => ImplementsGate
<1>1. Spec => Gate!Init /\ [][Gate!Next]_(Gate!vars)
  BY GateInit, GateNext, IInvHolds, PTL DEF Spec
<1> QED
  BY <1>1 DEF ImplementsGate, Gate!Spec

=============================================================================
