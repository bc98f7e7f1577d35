----------------------------- MODULE PlansProofs -----------------------------
(***************************************************************************)
(* Theorems about Plans, for any sets of users, plans and requests, any    *)
(* limits and any bounds.                                                  *)
(***************************************************************************)
EXTENDS Plans, FiniteSetTheorems, TLAPS

\* Which operations a step belongs to, and what a request at that step knows.
TaskInv(k) ==
    /\ k.step = "idle" <=> k.op = "none"
    /\ k.step # "idle" => k.user \in User
    /\ k.step \in {"get", "read", "set"} => k.op \in {"look", "advanced"}
    /\ k.step = "count" => k.op = "advanced"
    /\ k.step \in {"create", "track"} => k.op \in {"scan", "advanced"}
    /\ k.step \in {"find", "write", "clear", "audit"} => k.op = "update" /\ k.plan # None
    /\ k.op \in {"scan", "advanced"} /\ k.step # "done" => k.owner \in Owners
    /\ k.phase = "limit" => k.op = "advanced"
    /\ k.op = "advanced" /\ k.step \in {"count", "create", "track"} => k.phase = "limit"

BaseInv == TypeOK /\ \A t \in Task : TaskInv(task[t])

LEMMA BaseInit == Init => BaseInv
<1> SUFFICES ASSUME Init PROVE BaseInv
  OBVIOUS
<1>1. scans \in [User -> Nat]
  BY PlansAssumption DEF Init
<1>2. QED
  BY <1>1, PlansAssumption DEF Init, BaseInv, TypeOK, TaskInv, TaskState, Free

LEMMA OverType ==
    ASSUME NEW k \in TaskState, TaskInv(k), k.step # "idle", NEW code \in {200, 201, 400, 403, 404, 500}
    PROVE  Over(k, code) \in TaskState /\ TaskInv(Over(k, code)) /\ Over(k, code).step = "done"
<1>1. Over(k, code) = [op |-> k.op, step |-> "done", phase |-> "feature", user |-> k.user,
                       owner |-> None, plan |-> None, checked |-> FALSE, answer |-> code]
  BY DEF Over
<1>2. k.op \in {"look", "scan", "advanced", "update"} /\ k.user \in User
  BY DEF TaskState, TaskInv
<1>3. QED
  BY <1>1, <1>2 DEF TaskState, TaskInv

\* What a plan decides is a legal next state of the request that asked for it.
LEMMA DecideType ==
    ASSUME NEW k \in TaskState, TaskInv(k), k.step \in {"get", "set"}, NEW p \in Plan
    PROVE  Decide(k, p) \in TaskState /\ TaskInv(Decide(k, p))
             /\ (Decide(k, p).step \in {"set", "count", "write"} => Decide(k, p).plan # None)
<1>1. k.step # "idle" /\ k.op \in {"look", "advanced"} /\ k.user \in User
  BY DEF TaskInv
<1>2. CASE Decide(k, p) = Over(k, 200) \/ Decide(k, p) = Over(k, 403)
  BY <1>1, <1>2, OverType
<1>3. CASE Decide(k, p) = [k EXCEPT !.step = "count", !.plan = p] /\ k.op = "advanced"
           /\ k.phase = "limit"
  <2> DEFINE r == [k EXCEPT !.step = "count", !.plan = p]
  <2>1. /\ r.op = "advanced" /\ r.step = "count" /\ r.phase = "limit" /\ r.plan = p
        /\ r.user = k.user /\ r.owner = k.owner
    BY <1>3 DEF TaskState
  <2>2. r \in TaskState
    <3>1. [k EXCEPT !.step = "count"] \in TaskState
      BY DEF TaskState
    <3>2. \A j \in TaskState : [j EXCEPT !.plan = p] \in TaskState
      BY DEF TaskState
    <3>3. QED
      BY <3>1, <3>2
  <2>3. p # None
    BY PlansAssumption
  <2>4. TaskInv(r)
    BY <2>1, <1>1, <1>3 DEF TaskInv
  <2>5. QED
    BY <2>1, <2>2, <2>3, <2>4, <1>3
<1>4. CASE Decide(k, p) = [k EXCEPT !.step = "get", !.phase = "limit"] /\ k.op = "advanced"
  <2> DEFINE r == [k EXCEPT !.step = "get", !.phase = "limit"]
  <2>1. /\ r.op = "advanced" /\ r.step = "get" /\ r.phase = "limit"
        /\ r.user = k.user /\ r.owner = k.owner
    BY <1>4 DEF TaskState
  <2>2. r \in TaskState
    <3>1. [k EXCEPT !.step = "get"] \in TaskState
      BY DEF TaskState
    <3>2. \A j \in TaskState : [j EXCEPT !.phase = "limit"] \in TaskState
      BY DEF TaskState
    <3>3. QED
      BY <3>1, <3>2
  <2>3. TaskInv(r)
    BY <2>1, <1>1, <1>4 DEF TaskInv
  <2>4. QED
    BY <2>1, <2>2, <2>3, <1>4
<1>5. QED
  BY <1>1, <1>2, <1>3, <1>4 DEF Decide

\* One request changes state: the others keep theirs.
LEMMA TaskStep ==
    ASSUME BaseInv, NEW t \in Task, NEW k \in TaskState, TaskInv(k),
           k.step \in {"set", "count", "write"} => k.plan # None,
           task' = [task EXCEPT ![t] = k]
    PROVE  /\ task' \in [Task -> TaskState]
           /\ \A s \in Task : task'[s].step \in {"set", "count", "write"} => task'[s].plan # None
           /\ \A s \in Task : TaskInv(task'[s])
  BY DEF BaseInv, TypeOK

LEMMA BaseNext == BaseInv /\ [Next]_vars => BaseInv'
<1> SUFFICES ASSUME BaseInv, [Next]_vars PROVE BaseInv'
  OBVIOUS
<1> DEFINE Tasks == /\ task' \in [Task -> TaskState]
                    /\ \A s \in Task : task'[s].step \in {"set", "count", "write"}
                                            => task'[s].plan # None
                    /\ \A s \in Task : TaskInv(task'[s])
           Others == /\ plan' \in [User -> Plan \cup {None}]
                     /\ cache' \in [User -> Plan \cup {None}]
                     /\ scans' \in [User -> Nat]
                     /\ trace' \in [Task -> SUBSET {"written", "cleared", "audited", "made",
                                                    "logged", "failed"}]
                     /\ excuse' \in [User -> SUBSET {"overlap", "failed", "direct"}]
                     /\ had' \in [User -> SUBSET Plan]
                     /\ granted' \in [User -> Nat] /\ free' \in [User -> Nat]
                     /\ requests' \in 0..MaxRequests /\ faults' \in 0..MaxFaults
                     /\ changes' \in 0..MaxChanges
<1> SUFFICES Tasks /\ Others
  BY DEF BaseInv, TypeOK
<1>a. /\ task \in [Task -> TaskState] /\ \A s \in Task : TaskInv(task[s])
      /\ \A s \in Task : task[s] \in TaskState
      /\ \A s \in Task : task[s].step \in {"set", "count", "write"} => task[s].plan # None
  BY DEF BaseInv, TypeOK
<1>b. task' = task => Tasks
  BY <1>a
<1>1. ASSUME NEW t \in Task, NEW k \in TaskState, TaskInv(k), k.step \in {"get", "find", "create"},
             Starts(t, k)
      PROVE  Tasks /\ Others
  <2>1. Tasks
    BY <1>1, TaskStep DEF Starts
  <2>2. Others
    BY <1>1, PlansAssumption DEF Starts, BaseInv, TypeOK
  <2>3. QED
    BY <2>1, <2>2
<1>2. ASSUME NEW t \in Task, NEW u \in User, Look(t, u) PROVE Tasks /\ Others
  <2> DEFINE k == [Free EXCEPT !.op = "look", !.step = "get", !.user = u]
  <2>1. k \in TaskState /\ TaskInv(k) /\ k.step = "get"
    BY ZenonT(60) DEF Free, TaskState, TaskInv
  <2>2. Starts(t, k)
    BY <1>2 DEF Look
  <2> HIDE DEF k
  <2>3. QED
    BY <1>1, <2>1, <2>2
<1>3. ASSUME NEW t \in Task, NEW u \in User, NEW o \in Owners, CreateScan(t, u, o)
      PROVE  Tasks /\ Others
  <2> DEFINE k == [Free EXCEPT !.op = "scan", !.step = "create", !.user = u, !.owner = o]
  <2>1. k \in TaskState /\ TaskInv(k) /\ k.step = "create"
    BY PlansAssumption, ZenonT(60) DEF Free, TaskState, TaskInv
  <2>2. Starts(t, k)
    BY <1>3 DEF CreateScan
  <2> HIDE DEF k
  <2>3. QED
    BY <1>1, <2>1, <2>2
<1>4. ASSUME NEW t \in Task, NEW u \in User, NEW o \in Owners, CreateAdvancedScan(t, u, o)
      PROVE  Tasks /\ Others
  <2> DEFINE k == [Free EXCEPT !.op = "advanced", !.step = "get", !.user = u, !.owner = o]
  <2>1. k \in TaskState /\ TaskInv(k) /\ k.step = "get"
    BY PlansAssumption, ZenonT(60) DEF Free, TaskState, TaskInv
  <2>2. Starts(t, k)
    BY <1>4 DEF CreateAdvancedScan
  <2> HIDE DEF k
  <2>3. QED
    BY <1>1, <2>1, <2>2
<1>5. ASSUME NEW t \in Task, NEW u \in User, NEW p \in Plan, Update(t, u, p)
      PROVE  Tasks /\ Others
  <2> DEFINE k == [Free EXCEPT !.op = "update", !.step = "find", !.user = u, !.plan = p]
  <2>1. k \in TaskState /\ TaskInv(k) /\ k.step = "find"
    BY PlansAssumption, ZenonT(60) DEF Free, TaskState, TaskInv
  <2>2. Starts(t, k)
    BY <1>5 DEF Update
  <2> HIDE DEF k
  <2>3. QED
    BY <1>1, <2>1, <2>2
<1>c. ASSUME NEW t \in Task, NEW step, task[t].step # "idle",
             [task[t] EXCEPT !.step = step] \in TaskState,
             TaskInv([task[t] EXCEPT !.step = step]),
             step \in {"set", "count", "write"} => task[t].plan # None, On(t, step)
      PROVE  Tasks
  <2> DEFINE k == [task[t] EXCEPT !.step = step]
  <2>1. task' = [task EXCEPT ![t] = k]
    BY <1>c, <1>a DEF On
  <2>2. k.step = step /\ k.plan = task[t].plan
    BY <1>a DEF TaskState
  <2>3. k \in TaskState /\ TaskInv(k)
    BY <1>c
  <2> HIDE DEF k
  <2>4. QED
    BY <2>1, <2>2, <2>3, <1>c, TaskStep
<1>d. ASSUME NEW t \in Task, NEW code \in {200, 201, 400, 403, 404, 500}, task[t].step # "idle",
             Reply(t, code)
      PROVE  Tasks
  <2>1. task' = [task EXCEPT ![t] = Over(task[t], code)]
    BY <1>d, <1>a DEF Reply
  <2>2. QED
    BY <2>1, <1>a, <1>d, OverType, TaskStep
<1>6. ASSUME NEW t \in Task, GetPlan(t) PROVE Tasks /\ Others
  <2>1. Others
    BY <1>6 DEF GetPlan, BaseInv, TypeOK, history, budgets
  <2>2. task[t].user \in User /\ task[t].step = "get"
    BY <1>6, <1>a DEF GetPlan, TaskInv
  <2>3. CASE cache[task[t].user] = None
    <3>1. On(t, "read")
      BY <1>6, <2>3, <1>a DEF GetPlan, On
    <3>2. [task[t] EXCEPT !.step = "read"] \in TaskState /\ TaskInv([task[t] EXCEPT !.step = "read"])
      BY <1>a, <2>2 DEF TaskState, TaskInv
    <3>3. QED
      BY <3>1, <3>2, <2>1, <2>2, <1>c
  <2>4. CASE cache[task[t].user] # None
    <3>1. cache[task[t].user] \in Plan
      BY <2>4, <2>2 DEF BaseInv, TypeOK
    <3>2. task' = [task EXCEPT ![t] = Decide(task[t], cache[task[t].user])]
      BY <1>6, <2>4, <1>a DEF GetPlan
    <3>3. QED
      BY <3>1, <3>2, <2>1, <2>2, <1>a, DecideType, TaskStep
  <2>5. QED
    BY <2>3, <2>4
<1>7. ASSUME NEW t \in Task, ReadPlan(t) PROVE Tasks /\ Others
  <2>1. Others
    BY <1>7 DEF ReadPlan, BaseInv, TypeOK, history, budgets
  <2>2. task[t].user \in User /\ task[t].step = "read"
    BY <1>7, <1>a DEF ReadPlan, TaskInv
  <2>3. Found(task[t].user) \in Plan
    BY <2>2, PlansAssumption DEF Found, BaseInv, TypeOK
  <2> DEFINE k == [task[t] EXCEPT !.step = "set", !.plan = Found(task[t].user)]
  <2>4. k \in TaskState /\ TaskInv(k) /\ k.plan # None
    <3>1. /\ k.op = task[t].op /\ k.step = "set" /\ k.phase = task[t].phase
          /\ k.user = task[t].user /\ k.owner = task[t].owner /\ k.plan = Found(task[t].user)
      BY <1>a DEF TaskState
    <3>2. k \in TaskState
      <4>1. [task[t] EXCEPT !.step = "set"] \in TaskState
        BY <1>a DEF TaskState
      <4>2. \A j \in TaskState : [j EXCEPT !.plan = Found(task[t].user)] \in TaskState
        BY <2>3 DEF TaskState
      <4>3. QED
        BY <4>1, <4>2
    <3>3. TaskInv(k)
      BY <3>1, <2>2, <1>a DEF TaskInv
    <3>4. QED
      BY <3>1, <3>2, <3>3, <2>3, PlansAssumption
  <2>5. task' = [task EXCEPT ![t] = k]
    BY <1>7, <1>a DEF ReadPlan
  <2> HIDE DEF k
  <2>6. QED
    BY <2>1, <2>4, <2>5, TaskStep
<1>8. ASSUME NEW t \in Task, SetPlan(t) PROVE Tasks /\ Others
  <2>1. task[t].user \in User /\ task[t].step = "set" /\ task[t].plan \in Plan
    BY <1>8, <1>a DEF SetPlan, TaskInv, TaskState
  <2>2. Others
    BY <1>8, <2>1 DEF SetPlan, BaseInv, TypeOK, budgets
  <2>3. task' = [task EXCEPT ![t] = Decide(task[t], task[t].plan)]
    BY <1>8, <1>a DEF SetPlan
  <2>4. QED
    BY <2>1, <2>2, <2>3, <1>a, DecideType, TaskStep
<1>9. ASSUME NEW t \in Task, Count(t) PROVE Tasks /\ Others
  <2>1. task[t].user \in User /\ task[t].step = "count" /\ task[t].plan \in Plan
    BY <1>9, <1>a DEF Count, TaskInv, TaskState
  <2>2. LimitOf[task[t].plan] \in Nat
    BY <2>1, PlansAssumption
  <2>3. Others
    BY <1>9, <2>1, <2>2 DEF Count, BaseInv, TypeOK, budgets
  <2>4. CASE Reply(t, 403)
    BY <2>3, <2>4, <2>1, <1>d
  <2>5. CASE task' = [task EXCEPT ![t].step = "create", ![t].checked = TRUE]
    <3> DEFINE k == [task[t] EXCEPT !.step = "create", !.checked = TRUE]
    <3>1. k \in TaskState /\ TaskInv(k) /\ k.step = "create"
      <4>1. /\ k.op = task[t].op /\ k.step = "create" /\ k.phase = task[t].phase
            /\ k.user = task[t].user /\ k.owner = task[t].owner
        BY <1>a DEF TaskState
      <4>2. k \in TaskState
        <5>1. [task[t] EXCEPT !.step = "create"] \in TaskState
          BY <1>a DEF TaskState
        <5>2. \A j \in TaskState, v \in BOOLEAN : [j EXCEPT !.checked = v] \in TaskState
          BY DEF TaskState
        <5>3. TRUE \in BOOLEAN
          OBVIOUS
        <5>4. QED
          BY ONLY <5>1, <5>2, <5>3
      <4>3. QED
        BY <4>1, <4>2, <2>1, <1>a DEF TaskInv
    <3>2. task' = [task EXCEPT ![t] = k]
      BY <2>5, <1>a
    <3> HIDE DEF k
    <3>3. QED
      BY <3>1, <3>2, <2>3, TaskStep
  <2>6. QED
    BY <1>9, <2>4, <2>5 DEF Count
<1>10. ASSUME NEW t \in Task, Create(t) PROVE Tasks /\ Others
  <2>1. task[t].owner \in User /\ task[t].step = "create"
    BY <1>10, <1>a, PlansAssumption DEF Create, TaskInv
  <2>2. Others
    BY <1>10, <2>1 DEF Create, Did, BaseInv, TypeOK, budgets
  <2>3. [task[t] EXCEPT !.step = "track"] \in TaskState /\ TaskInv([task[t] EXCEPT !.step = "track"])
    BY <1>a, <2>1 DEF TaskState, TaskInv
  <2>4. QED
    BY <1>10, <2>1, <2>2, <2>3, <1>c DEF Create
<1>11. ASSUME NEW t \in Task, Track(t) PROVE Tasks /\ Others
  <2>1. Others
    BY <1>11 DEF Track, Did, BaseInv, TypeOK, budgets
  <2>2. QED
    BY <1>11, <2>1, <1>d DEF Track
<1>12. ASSUME NEW t \in Task, FindUser(t) PROVE Tasks /\ Others
  <2>1. Others
    BY <1>12 DEF FindUser, BaseInv, TypeOK, history, budgets
  <2>2. task[t].step = "find"
    BY <1>12 DEF FindUser
  <2>3. CASE On(t, "write")
    <3>1. /\ [task[t] EXCEPT !.step = "write"] \in TaskState
          /\ TaskInv([task[t] EXCEPT !.step = "write"]) /\ task[t].plan # None
      BY <1>a, <2>2 DEF TaskState, TaskInv
    <3>2. QED
      BY <2>1, <2>2, <2>3, <3>1, <1>c
  <2>4. QED
    BY <1>12, <2>1, <2>2, <2>3, <1>d DEF FindUser
<1>13. ASSUME NEW t \in Task, WritePlan(t) PROVE Tasks /\ Others
  <2>1. task[t].step = "write" /\ task[t].user \in User /\ task[t].plan \in Plan
    BY <1>13, <1>a DEF WritePlan, TaskInv, TaskState
  <2>2. Others
    BY <1>13, <2>1 DEF WritePlan, Did, BaseInv, TypeOK, budgets
  <2>3. CASE On(t, "clear")
    <3>1. [task[t] EXCEPT !.step = "clear"] \in TaskState /\ TaskInv([task[t] EXCEPT !.step = "clear"])
      BY <1>a, <2>1 DEF TaskState, TaskInv
    <3>2. QED
      BY <2>1, <2>2, <2>3, <3>1, <1>c
  <2>4. QED
    BY <1>13, <2>1, <2>2, <2>3, <1>d DEF WritePlan
<1>14. ASSUME NEW t \in Task, ClearPlan(t) PROVE Tasks /\ Others
  <2>1. task[t].step = "clear" /\ On(t, "audit")
    BY <1>14 DEF ClearPlan
  <2>2. Others
    BY <1>14 DEF ClearPlan, Did, BaseInv, TypeOK, budgets
  <2>3. [task[t] EXCEPT !.step = "audit"] \in TaskState /\ TaskInv([task[t] EXCEPT !.step = "audit"])
    BY <1>a, <2>1 DEF TaskState, TaskInv
  <2>4. QED
    BY <2>1, <2>2, <2>3, <1>c
<1>15. ASSUME NEW t \in Task, AuditPlan(t) PROVE Tasks /\ Others
  <2>1. Others
    BY <1>15 DEF AuditPlan, Did, BaseInv, TypeOK, budgets
  <2>2. QED
    BY <1>15, <2>1, <1>d DEF AuditPlan
<1>16. ASSUME NEW t \in Task, Fault(t) PROVE Tasks /\ Others
  <2>1. Others
    BY <1>16, PlansAssumption DEF Fault, Did, BaseInv, TypeOK
  <2>2. task[t].step # "idle"
    BY <1>16 DEF Fault
  <2>3. CASE On(t, "create") /\ task[t].phase = "limit" /\ task[t].step # "done"
    <3>1. [task[t] EXCEPT !.step = "create"] \in TaskState /\ TaskInv([task[t] EXCEPT !.step = "create"])
      BY <1>a, <2>2, <2>3 DEF TaskState, TaskInv
    <3>2. QED
      BY <2>1, <2>2, <2>3, <3>1, <1>c
  <2>4. CASE \E code \in {201, 400, 500} : Reply(t, code)
    BY <2>1, <2>2, <2>4, <1>d
  <2>5. QED
    BY <1>16, <2>3, <2>4 DEF Fault
<1>17. ASSUME NEW u \in User, Expire(u) PROVE Tasks /\ Others
  BY <1>17, <1>b DEF Expire, BaseInv, TypeOK, budgets
<1>18. ASSUME NEW u \in User, NEW p \in Plan \cup {None}, WriteUser(u, p) PROVE Tasks /\ Others
  BY <1>18, <1>b, PlansAssumption DEF WriteUser, BaseInv, TypeOK
<1>19. ASSUME NEW o \in Owners, ScanUnchecked(o) PROVE Tasks /\ Others
  BY <1>19, <1>b, PlansAssumption DEF ScanUnchecked, BaseInv, TypeOK
<1>23. ASSUME NEW o \in Owners, DeleteScan(o) PROVE Tasks /\ Others
  <2>1. /\ \A n \in Nat : n > 0 => n - 1 \in Nat
        /\ o \in User /\ scans[o] \in Nat /\ free[o] \in Nat
    BY <1>b, PlansAssumption DEF BaseInv, TypeOK
  <2>2. QED
    BY <1>23, <1>b, <2>1, PlansAssumption DEF DeleteScan, BaseInv, TypeOK
<1>20. CASE Midnight
  BY <1>20, <1>b, PlansAssumption DEF Midnight, BaseInv, TypeOK
<1>21. CASE UNCHANGED vars
  BY <1>21, <1>b DEF vars, history, budgets, BaseInv, TypeOK
<1>22. QED
  <2> HIDE DEF Tasks, Others
  <2>1. QED
    BY <1>2, <1>3, <1>4, <1>5, <1>6, <1>7, <1>8, <1>9, <1>10, <1>11, <1>12, <1>13, <1>14,
       <1>15, <1>16, <1>17, <1>18, <1>19, <1>20, <1>21, <1>23 DEF Next

\* Type correctness: a plan is cached, counted against and written only once it is known.
THEOREM TypeCorrect == Spec => []TypeOK
<1>1. BaseInv => TypeOK
  BY DEF BaseInv
<1>2. QED
  BY <1>1, BaseInit, BaseNext, PTL DEF Spec

-----------------------------------------------------------------------------
(* How an action moves one request *)

LEMMA OnEffect ==
    ASSUME BaseInv, NEW t \in Task, NEW step, On(t, step)
    PROVE  /\ task'[t].step = step /\ task'[t].op = task[t].op
           /\ task'[t].user = task[t].user /\ task'[t].owner = task[t].owner
           /\ task'[t].plan = task[t].plan /\ task'[t].phase = task[t].phase
           /\ task'[t].checked = task[t].checked
           /\ \A s \in Task : s # t => task'[s] = task[s]
  BY DEF BaseInv, TypeOK, TaskState, On

LEMMA ReplyEffect ==
    ASSUME BaseInv, NEW t \in Task, NEW code, Reply(t, code)
    PROVE  /\ task'[t] = Over(task[t], code)
           /\ task'[t].step = "done" /\ task'[t].op = task[t].op /\ task'[t].answer = code
           /\ task'[t].user = task[t].user /\ task'[t].phase = "feature"
           /\ \A s \in Task : s # t => task'[s] = task[s]
  BY DEF BaseInv, TypeOK, Reply, Over

\* The request an action moves
Moves(t) == \A s \in Task : s # t => task'[s] = task[s]

LEMMA StepsMove ==
    ASSUME BaseInv, NEW t \in Task,
           \/ \E k : Starts(t, k)
           \/ GetPlan(t) \/ ReadPlan(t) \/ SetPlan(t) \/ Count(t) \/ Create(t) \/ Track(t)
           \/ FindUser(t) \/ WritePlan(t) \/ ClearPlan(t) \/ AuditPlan(t) \/ Fault(t)
    PROVE  Moves(t)
<1>1. task \in [Task -> TaskState]
  BY DEF BaseInv, TypeOK
<1>2. SUFFICES \E r : task' = [task EXCEPT ![t] = r]
  BY <1>1 DEF Moves
<1>3. ASSUME NEW code, Reply(t, code) PROVE \E r : task' = [task EXCEPT ![t] = r]
  BY <1>3, <1>1 DEF Reply
<1>4. ASSUME NEW step, On(t, step) PROVE \E r : task' = [task EXCEPT ![t] = r]
  BY <1>4, <1>1 DEF On
<1>5. CASE \E k : Starts(t, k)
  BY <1>5 DEF Starts
<1>6. CASE GetPlan(t) \/ ReadPlan(t) \/ SetPlan(t)
  BY <1>6, <1>1 DEF GetPlan, ReadPlan, SetPlan
<1>7. CASE Count(t)
  <2>1. CASE task' = [task EXCEPT ![t].step = "create", ![t].checked = TRUE]
    BY <2>1, <1>1
  <2>2. QED
    BY <1>7, <2>1, <1>3 DEF Count
<1>8. CASE Create(t) \/ Track(t) \/ FindUser(t) \/ WritePlan(t) \/ ClearPlan(t) \/ AuditPlan(t)
  BY <1>8, <1>3, <1>4 DEF Create, Track, FindUser, WritePlan, ClearPlan, AuditPlan
<1>9. CASE Fault(t)
  BY <1>9, <1>3, <1>4 DEF Fault
<1>10. QED
  BY <1>5, <1>6, <1>7, <1>8, <1>9

\* A request starts as the client asks, and changes nothing else.
Requested(t) ==
    /\ task[t].step \in {"idle", "done"} /\ Moves(t)
    /\ task'[t].step \in {"get", "create", "find"}
    /\ task'[t].step = "get" => task'[t].op \in {"look", "advanced"}
    /\ task'[t].step = "create" => task'[t].op = "scan"
    /\ task'[t].step = "find" => task'[t].op = "update"
    /\ task'[t].checked = FALSE /\ task'[t].phase = "feature"
    /\ trace'[t] = {} /\ \A s \in Task : s # t => trace'[s] = trace[s]
    /\ UNCHANGED <<plan, cache, scans, excuse, had, granted, free>>

Asks(t) ==
    \E u \in User :
        \/ Look(t, u)
        \/ \E o \in Owners : CreateScan(t, u, o) \/ CreateAdvancedScan(t, u, o)
        \/ \E p \in Plan : Update(t, u, p)

LEMMA AsksEffect ==
    ASSUME BaseInv, NEW t \in Task, Asks(t)
    PROVE  Requested(t)
<1> USE DEF Requested, Starts, Free, Moves
<1>a. task \in [Task -> TaskState] /\ trace \in [Task -> SUBSET {"written", "cleared",
                                                    "audited", "made", "logged", "failed"}]
  BY DEF BaseInv, TypeOK
<1>1. ASSUME NEW u \in User, Look(t, u) PROVE Requested(t)
  BY <1>1, <1>a DEF Look
<1>2. ASSUME NEW u \in User, NEW o \in Owners, CreateScan(t, u, o) PROVE Requested(t)
  BY <1>2, <1>a DEF CreateScan
<1>3. ASSUME NEW u \in User, NEW o \in Owners, CreateAdvancedScan(t, u, o) PROVE Requested(t)
  BY <1>3, <1>a DEF CreateAdvancedScan
<1>4. ASSUME NEW u \in User, NEW p \in Plan, Update(t, u, p) PROVE Requested(t)
  BY <1>4, <1>a DEF Update
<1>5. QED
  BY <1>1, <1>2, <1>3, <1>4 DEF Asks

-----------------------------------------------------------------------------
(* The cached plan *)

LEMMA CacheInit == Init => PlanCacheAgrees
  BY DEF Init, PlanCacheAgrees, Stale

\* A request that is not about to clear, and writes neither the plan nor the cache
LEMMA CacheKept ==
    ASSUME BaseInv, PlanCacheAgrees, NEW t \in Task, Moves(t), task[t].step # "clear",
           UNCHANGED <<plan, cache, excuse>>
    PROVE  PlanCacheAgrees'
  BY DEF PlanCacheAgrees, Stale, Found, Moves

LEMMA NextCases ==
    ASSUME [Next]_vars
    PROVE  \/ \E t \in Task :
              \/ Asks(t) \/ GetPlan(t) \/ ReadPlan(t) \/ SetPlan(t) \/ Count(t) \/ Create(t)
              \/ Track(t) \/ FindUser(t) \/ WritePlan(t) \/ ClearPlan(t) \/ AuditPlan(t)
              \/ Fault(t)
           \/ \E u \in User : Expire(u) \/ \E p \in Plan \cup {None} : WriteUser(u, p)
           \/ \E o \in Owners : ScanUnchecked(o) \/ DeleteScan(o)
           \/ Midnight
           \/ UNCHANGED vars
<1>1. ASSUME NEW t \in Task,
             \E u \in User :
                \/ Look(t, u)
                \/ \E o \in Owners : CreateScan(t, u, o) \/ CreateAdvancedScan(t, u, o)
                \/ \E p \in Plan : Update(t, u, p)
      PROVE  Asks(t)
  BY <1>1 DEF Asks
<1>2. QED
  BY <1>1 DEF Next

LEMMA CacheNext == BaseInv /\ PlanCacheAgrees /\ [Next]_vars => PlanCacheAgrees'
<1> SUFFICES ASSUME BaseInv, PlanCacheAgrees, [Next]_vars PROVE PlanCacheAgrees'
  OBVIOUS
<1>a. /\ task \in [Task -> TaskState] /\ \A s \in Task : TaskInv(task[s])
      /\ plan \in [User -> Plan \cup {None}] /\ cache \in [User -> Plan \cup {None}]
      /\ excuse \in [User -> SUBSET {"overlap", "failed", "direct"}]
  BY DEF BaseInv, TypeOK
<1>1. ASSUME NEW t \in Task, Asks(t) PROVE PlanCacheAgrees'
  BY <1>1, AsksEffect, CacheKept DEF Requested
<1>2. ASSUME NEW t \in Task,
             GetPlan(t) \/ ReadPlan(t) \/ Count(t) \/ Create(t) \/ Track(t) \/ FindUser(t) \/ AuditPlan(t)
      PROVE  PlanCacheAgrees'
  <2>1. task[t].step # "clear" /\ UNCHANGED <<plan, cache, excuse>>
    BY <1>2 DEF GetPlan, ReadPlan, Count, Create, Track, FindUser, AuditPlan, history
  <2>2. QED
    BY <1>2, <2>1, StepsMove, CacheKept
<1>3. ASSUME NEW t \in Task, SetPlan(t) PROVE PlanCacheAgrees'
  <2>1. Moves(t)
    BY <1>3, StepsMove
  <2>2. task[t].user \in User /\ task[t].step = "set"
    BY <1>3, <1>a DEF SetPlan, TaskInv
  <2>3. /\ cache' = [cache EXCEPT ![task[t].user] = task[t].plan] /\ plan' = plan
        /\ excuse' = [excuse EXCEPT ![task[t].user] =
                        IF task[t].plan = Found(task[t].user) THEN {} ELSE {"overlap"}]
    BY <1>3 DEF SetPlan
  <2>4. QED
    BY <2>1, <2>2, <2>3, <1>a, SMTT(60) DEF PlanCacheAgrees, Stale, Found, Moves
<1>4. ASSUME NEW t \in Task, WritePlan(t) PROVE PlanCacheAgrees'
  <2>1. Moves(t)
    BY <1>4, StepsMove
  <2>2. task[t].user \in User /\ task[t].step = "write" /\ UNCHANGED <<cache, excuse>>
    BY <1>4, <1>a DEF WritePlan, TaskInv
  <2>3. CASE plan' = [plan EXCEPT ![task[t].user] = task[t].plan] /\ On(t, "clear")
    <3>1. task'[t].step = "clear" /\ task'[t].user = task[t].user
      BY <2>3, OnEffect
    <3>2. QED
      BY <2>1, <2>2, <2>3, <3>1, <1>a DEF PlanCacheAgrees, Stale, Found, Moves
  <2>4. CASE UNCHANGED plan
    BY <2>1, <2>2, <2>4, CacheKept
  <2>5. QED
    BY <1>4, <2>3, <2>4 DEF WritePlan
<1>5. ASSUME NEW t \in Task, ClearPlan(t) PROVE PlanCacheAgrees'
  <2>1. Moves(t)
    BY <1>5, StepsMove
  <2>2. task[t].user \in User /\ task[t].step = "clear"
    BY <1>5, <1>a DEF ClearPlan, TaskInv
  <2>3. /\ cache' = [cache EXCEPT ![task[t].user] = None] /\ plan' = plan
        /\ excuse' = [excuse EXCEPT ![task[t].user] = {}]
    BY <1>5 DEF ClearPlan
  <2>4. QED
    BY <2>1, <2>2, <2>3, <1>a DEF PlanCacheAgrees, Stale, Found, Moves
<1>6. ASSUME NEW t \in Task, Fault(t) PROVE PlanCacheAgrees'
  <2>1. Moves(t)
    BY <1>6, StepsMove
  <2>2. /\ UNCHANGED <<plan, cache>>
        /\ excuse' = [u \in User |-> IF u = task[t].user /\ task[t].step = "clear" /\ Stale(u)
                                     THEN excuse[u] \cup {"failed"} ELSE excuse[u]]
    BY <1>6 DEF Fault
  <2>3. ASSUME NEW u \in User, Stale(u)'
        PROVE  excuse'[u] # {} \/ \E s \in Task : task'[s].step = "clear" /\ task'[s].user = u
    <3>1. Stale(u) /\ excuse[u] \subseteq excuse'[u]
      BY <2>2, <2>3 DEF Stale, Found
    <3>2. CASE excuse[u] # {}
      BY <3>1, <3>2
    <3>3. CASE \E s \in Task : s # t /\ task[s].step = "clear" /\ task[s].user = u
      BY <3>3, <2>1 DEF Moves
    <3>4. CASE task[t].step = "clear" /\ task[t].user = u
      BY <3>1, <3>4, <2>2
    <3>5. QED
      BY <3>1, <3>2, <3>3, <3>4 DEF PlanCacheAgrees
  <2>4. QED
    BY <2>3 DEF PlanCacheAgrees
<1>7. ASSUME NEW u \in User, Expire(u) PROVE PlanCacheAgrees'
  BY <1>7, <1>a DEF Expire, PlanCacheAgrees, Stale, Found
<1>8. ASSUME NEW u \in User, NEW p \in Plan \cup {None}, WriteUser(u, p) PROVE PlanCacheAgrees'
  BY <1>8, <1>a DEF WriteUser, PlanCacheAgrees, Stale, Found
<1>9. CASE (\E o \in Owners : ScanUnchecked(o) \/ DeleteScan(o)) \/ Midnight
  BY <1>9 DEF ScanUnchecked, DeleteScan, Midnight, PlanCacheAgrees, Stale, Found
<1>10. CASE UNCHANGED vars
  BY <1>10 DEF vars, history, PlanCacheAgrees, Stale, Found
<1>11. QED
  BY <1>1, <1>2, <1>3, <1>4, <1>5, <1>6, <1>7, <1>8, <1>9, <1>10, NextCases

\* Only the named events leave a stale plan in the cache, for any number of users, requests
\* and faults.
THEOREM CacheAgreement == Spec => []PlanCacheAgrees
<1>1. BaseInv /\ PlanCacheAgrees /\ [Next]_vars => BaseInv' /\ PlanCacheAgrees'
  BY BaseNext, CacheNext
<1>2. QED
  BY <1>1, BaseInit, CacheInit, PTL DEF Spec

-----------------------------------------------------------------------------
(* Features and answers *)

\* The plans that can be found have been the user's, and a request that is past the feature
\* check has found one with the feature.
RowInv(u) == Found(u) \in had[u] /\ (cache[u] # None => cache[u] \in had[u])

FeatureInv(t) ==
    LET k == task[t] IN
    /\ k.step = "set" => k.plan \in had[k.user]
    /\ k.phase = "limit" => had[k.user] \cap Advanced # {}
    /\ k.op = "advanced" /\ "made" \in trace[t] => had[k.user] \cap Advanced # {}

\* What a request has done when it is at a step
OutcomeInv(t) ==
    LET k == task[t] IN
    /\ k.op = "update" /\ k.step \in {"find", "write"} => trace[t] = {}
    /\ k.op = "update" /\ k.step = "clear" => trace[t] = {"written"}
    /\ k.op = "update" /\ k.step = "audit" => trace[t] = {"written", "cleared"}
    /\ k.op \in {"scan", "advanced"} /\ k.step \notin {"track", "done"} => "made" \notin trace[t]
    /\ k.step = "track" => "made" \in trace[t]
    /\ k.step = "done" /\ k.op = "update" =>
            IF k.answer = 200 THEN {"written", "cleared", "audited"} \subseteq trace[t]
            ELSE "written" \in trace[t] => k.answer = 400 /\ "failed" \in trace[t]
    /\ k.step = "done" /\ k.op \in {"scan", "advanced"} =>
            IF k.answer = 201 THEN "made" \in trace[t] /\ trace[t] \cap {"logged", "failed"} # {}
            ELSE "made" \notin trace[t]

RequestInv == (\A u \in User : RowInv(u)) /\ \A t \in Task : FeatureInv(t) /\ OutcomeInv(t)

LEMMA RequestInit == Init => RequestInv
  BY PlansAssumption DEF Init, RequestInv, RowInv, FeatureInv, OutcomeInv, Free, Found

\* The requests an action does not move keep their invariants.
LEMMA RequestKept ==
    ASSUME BaseInv, RequestInv, NEW t \in Task, Moves(t),
           \A s \in Task : s # t => trace'[s] = trace[s],
           \A u \in User : had[u] \subseteq had'[u] /\ RowInv(u)',
           FeatureInv(t)', OutcomeInv(t)'
    PROVE  RequestInv'
<1>1. ASSUME NEW s \in Task, s # t PROVE FeatureInv(s)' /\ OutcomeInv(s)'
  <2>1. task'[s] = task[s] /\ trace'[s] = trace[s] /\ FeatureInv(s) /\ OutcomeInv(s)
    BY <1>1 DEF Moves, RequestInv
  <2>2. task[s].step # "idle" => had[task[s].user] \subseteq had'[task[s].user]
    BY DEF BaseInv, TaskInv
  <2>3. task[s].step = "idle" => task[s].op = "none" /\ task[s].phase = "feature"
    BY DEF BaseInv, TaskInv, TypeOK, TaskState
  <2>4. FeatureInv(s)'
    BY <2>1, <2>2, <2>3 DEF FeatureInv
  <2>5. OutcomeInv(s)'
    BY <2>1 DEF OutcomeInv
  <2>6. QED
    BY <2>4, <2>5
<1>2. QED
  BY <1>1 DEF RequestInv

\* What is left to show of a request that is answered
LEMMA FeatureReplied ==
    ASSUME BaseInv, RequestInv, NEW t \in Task, task[t].step # "idle", NEW code, Reply(t, code),
           had[task[t].user] \subseteq had'[task[t].user],
           "made" \in trace'[t] => "made" \in trace[t]
    PROVE  FeatureInv(t)'
<1>1. /\ task'[t].step = "done" /\ task'[t].phase = "feature" /\ task'[t].op = task[t].op
      /\ task'[t].user = task[t].user
  BY ReplyEffect
<1>2. task[t].op = "advanced" /\ "made" \in trace[t] => had[task[t].user] \cap Advanced # {}
  BY DEF RequestInv, FeatureInv
<1>3. task'[t].op = "advanced" /\ "made" \in trace'[t] => had'[task'[t].user] \cap Advanced # {}
  BY <1>1, <1>2
<1>4. QED
  BY <1>1, <1>3 DEF FeatureInv

LEMMA OutcomeReplied ==
    ASSUME BaseInv, NEW t \in Task, NEW code, Reply(t, code),
           task[t].op = "update" =>
                IF code = 200 THEN {"written", "cleared", "audited"} \subseteq trace'[t]
                ELSE "written" \in trace'[t] => code = 400 /\ "failed" \in trace'[t],
           task[t].op \in {"scan", "advanced"} =>
                IF code = 201 THEN "made" \in trace'[t] /\ trace'[t] \cap {"logged", "failed"} # {}
                ELSE "made" \notin trace'[t]
    PROVE  OutcomeInv(t)'
<1>1. task'[t].step = "done" /\ task'[t].op = task[t].op /\ task'[t].answer = code
  BY ReplyEffect
<1>2. QED
  BY <1>1 DEF OutcomeInv

\* The next state of a request whose plan has been found
LEMMA DecideEffect ==
    ASSUME BaseInv, RequestInv, NEW t \in Task, task[t].step \in {"get", "set"},
           NEW p \in had[task[t].user], task' = [task EXCEPT ![t] = Decide(task[t], p)],
           UNCHANGED <<had, trace>>
    PROVE  FeatureInv(t)' /\ OutcomeInv(t)'
<1>1. /\ task'[t] = Decide(task[t], p) /\ task[t] \in TaskState /\ TaskInv(task[t])
      /\ FeatureInv(t) /\ OutcomeInv(t) /\ had' = had /\ trace' = trace
      /\ task[t].op \in {"look", "advanced"}
  BY DEF BaseInv, TypeOK, RequestInv, TaskInv
<1>2. CASE \E code \in {200, 403} : task'[t] = Over(task[t], code)
  BY <1>1, <1>2 DEF FeatureInv, OutcomeInv, Over
<1>3. CASE task'[t] = [task[t] EXCEPT !.step = "count", !.plan = p] /\ task[t].phase = "limit"
  <2>1. /\ task'[t].step = "count" /\ task'[t].op = task[t].op /\ task'[t].user = task[t].user
        /\ task'[t].phase = "limit"
    <3>1. \A k \in TaskState : LET r == [k EXCEPT !.step = "count", !.plan = p] IN
            /\ r.step = "count" /\ r.op = k.op /\ r.user = k.user /\ r.phase = k.phase
      BY DEF TaskState
    <3>2. QED
      BY <1>1, <1>3, <3>1
  <2>2. FeatureInv(t)'
    BY <2>1, <1>1, <1>3 DEF FeatureInv
  <2>3. OutcomeInv(t)'
    BY <2>1, <1>1 DEF OutcomeInv
  <2>4. QED
    BY <2>2, <2>3
<1>4. CASE task'[t] = [task[t] EXCEPT !.step = "get", !.phase = "limit"] /\ p \in Advanced
  <2>1. /\ task'[t].step = "get" /\ task'[t].op = task[t].op /\ task'[t].user = task[t].user
    <3>1. \A k \in TaskState : LET r == [k EXCEPT !.step = "get", !.phase = "limit"] IN
            /\ r.step = "get" /\ r.op = k.op /\ r.user = k.user
      BY DEF TaskState
    <3>2. QED
      BY <1>1, <1>4, <3>1
  <2>2. FeatureInv(t)'
    BY <2>1, <1>1, <1>4 DEF FeatureInv
  <2>3. OutcomeInv(t)'
    BY <2>1, <1>1 DEF OutcomeInv
  <2>4. QED
    BY <2>2, <2>3
<1>5. QED
  BY <1>1, <1>2, <1>3, <1>4 DEF Decide

LEMMA RequestNext == BaseInv /\ RequestInv /\ [Next]_vars => RequestInv'
<1> SUFFICES ASSUME BaseInv, RequestInv, [Next]_vars PROVE RequestInv'
  OBVIOUS
<1>a. /\ task \in [Task -> TaskState] /\ \A s \in Task : TaskInv(task[s])
      /\ \A s \in Task : task[s] \in TaskState
      /\ plan \in [User -> Plan \cup {None}] /\ cache \in [User -> Plan \cup {None}]
      /\ had \in [User -> SUBSET Plan]
      /\ trace \in [Task -> SUBSET {"written", "cleared", "audited", "made", "logged", "failed"}]
  BY DEF BaseInv, TypeOK
<1>b. UNCHANGED <<plan, cache, had>> =>
        \A u \in User : had[u] \subseteq had'[u] /\ RowInv(u)'
  BY DEF RequestInv, RowInv, Found
<1>c. \A t \in Task : FeatureInv(t) /\ OutcomeInv(t)
  BY DEF RequestInv
<1>d. UNCHANGED <<task, trace>> /\ (\A u \in User : had[u] \subseteq had'[u] /\ RowInv(u)')
        => RequestInv'
  <2> SUFFICES ASSUME UNCHANGED <<task, trace>>,
                      \A u \in User : had[u] \subseteq had'[u] /\ RowInv(u)'
               PROVE  RequestInv'
    OBVIOUS
  <2>1. ASSUME NEW t \in Task PROVE FeatureInv(t)' /\ OutcomeInv(t)'
    <3>1. task[t].step # "idle" => had[task[t].user] \subseteq had'[task[t].user]
      BY <1>a DEF TaskInv
    <3>2. task[t].step = "idle" => task[t].op = "none" /\ task[t].phase = "feature"
      BY <1>a DEF TaskInv, TaskState
    <3>3. QED
      BY <3>1, <3>2, <1>c DEF FeatureInv, OutcomeInv
  <2>2. QED
    BY <2>1 DEF RequestInv
<1>1. ASSUME NEW t \in Task, Asks(t) PROVE RequestInv'
  <2>1. Requested(t)
    BY <1>1, AsksEffect
  <2>2. FeatureInv(t)' /\ OutcomeInv(t)'
    BY <2>1 DEF Requested, FeatureInv, OutcomeInv
  <2>3. QED
    BY <2>1, <2>2, <1>b, RequestKept DEF Requested
<1>2. ASSUME NEW t \in Task, GetPlan(t) PROVE RequestInv'
  <2>1. /\ Moves(t) /\ task[t].step = "get" /\ task[t].user \in User
        /\ UNCHANGED <<plan, cache, had, trace>>
    BY <1>2, <1>a, StepsMove DEF GetPlan, TaskInv, history
  <2>2. CASE cache[task[t].user] = None
    <3>1. On(t, "read")
      BY <1>2, <2>2, <1>a DEF GetPlan, On
    <3>2. FeatureInv(t)' /\ OutcomeInv(t)'
      BY <3>1, <2>1, <1>a, <1>c, OnEffect DEF FeatureInv, OutcomeInv, TaskInv
    <3>3. QED
      BY <2>1, <3>2, <1>b, RequestKept
  <2>3. CASE cache[task[t].user] # None
    <3>1. cache[task[t].user] \in had[task[t].user]
      BY <2>1, <2>3 DEF RequestInv, RowInv
    <3>2. task' = [task EXCEPT ![t] = Decide(task[t], cache[task[t].user])]
      BY <1>2, <2>3, <1>a DEF GetPlan
    <3>3. FeatureInv(t)' /\ OutcomeInv(t)'
      BY <3>1, <3>2, <2>1, DecideEffect
    <3>4. QED
      BY <2>1, <3>3, <1>b, RequestKept
  <2>4. QED
    BY <2>2, <2>3
<1>3. ASSUME NEW t \in Task, ReadPlan(t) PROVE RequestInv'
  <2>1. /\ Moves(t) /\ task[t].step = "read" /\ task[t].user \in User
        /\ UNCHANGED <<plan, cache, had, trace>>
        /\ task' = [task EXCEPT ![t].step = "set", ![t].plan = Found(task[t].user)]
    BY <1>3, <1>a, StepsMove DEF ReadPlan, TaskInv, history
  <2>2. /\ task'[t].step = "set" /\ task'[t].plan = Found(task[t].user)
        /\ task'[t].user = task[t].user /\ task'[t].op = task[t].op
        /\ task'[t].phase = task[t].phase
    BY <2>1, <1>a DEF TaskState
  <2>3. Found(task[t].user) \in had[task[t].user] /\ task[t].op \in {"look", "advanced"}
    BY <2>1, <1>a DEF RequestInv, RowInv, TaskInv
  <2>4. FeatureInv(t)'
    BY <2>1, <2>2, <2>3, <1>c DEF FeatureInv
  <2>5. OutcomeInv(t)'
    BY <2>1, <2>2, <2>3, <1>c DEF OutcomeInv
  <2>6. QED
    BY <2>1, <2>4, <2>5, <1>b, RequestKept
<1>4. ASSUME NEW t \in Task, SetPlan(t) PROVE RequestInv'
  <2>1. /\ Moves(t) /\ task[t].step = "set" /\ task[t].user \in User
        /\ task[t].plan \in had[task[t].user]
        /\ UNCHANGED <<plan, had, trace>>
        /\ cache' = [cache EXCEPT ![task[t].user] = task[t].plan]
        /\ task' = [task EXCEPT ![t] = Decide(task[t], task[t].plan)]
    BY <1>4, <1>a, <1>c, StepsMove DEF SetPlan, TaskInv, FeatureInv
  <2>2. FeatureInv(t)' /\ OutcomeInv(t)'
    BY <2>1, DecideEffect
  <2>3. \A u \in User : had[u] \subseteq had'[u] /\ RowInv(u)'
    BY <2>1, <1>a DEF RequestInv, RowInv, Found
  <2>4. QED
    BY <2>1, <2>2, <2>3, RequestKept
<1>5. ASSUME NEW t \in Task, Count(t) PROVE RequestInv'
  <2>1. /\ Moves(t) /\ task[t].step = "count" /\ task[t].op = "advanced"
        /\ task[t].user \in User /\ UNCHANGED <<plan, cache, had, trace>>
    BY <1>5, <1>a, StepsMove DEF Count, TaskInv
  <2>2. CASE Reply(t, 403)
    <3>1. FeatureInv(t)' /\ OutcomeInv(t)'
      <4>1. FeatureInv(t)'
        BY <2>1, <2>2, FeatureReplied
      <4>2. OutcomeInv(t)'
        BY <2>1, <2>2, <1>c, OutcomeReplied DEF OutcomeInv
      <4>3. QED
        BY <4>1, <4>2
    <3>2. QED
      BY <2>1, <3>1, <1>b, RequestKept
  <2>3. CASE task' = [task EXCEPT ![t].step = "create", ![t].checked = TRUE]
    <3>1. /\ task'[t].step = "create" /\ task'[t].op = task[t].op
          /\ task'[t].user = task[t].user /\ task'[t].phase = task[t].phase
      BY <2>3, <1>a DEF TaskState
    <3>2. FeatureInv(t)'
      BY <2>1, <3>1, <1>c DEF FeatureInv
    <3>3. OutcomeInv(t)'
      BY <2>1, <3>1, <1>c DEF OutcomeInv
    <3>4. QED
      BY <2>1, <3>2, <3>3, <1>b, RequestKept
  <2>4. QED
    BY <1>5, <2>2, <2>3 DEF Count
<1>6. ASSUME NEW t \in Task, Create(t) PROVE RequestInv'
  <2>1. /\ Moves(t) /\ task[t].step = "create" /\ task[t].user \in User
        /\ task[t].op \in {"scan", "advanced"} /\ (task[t].op = "advanced" => task[t].phase = "limit")
        /\ UNCHANGED <<plan, cache, had>> /\ On(t, "track") /\ Did(t, "made")
    BY <1>6, <1>a, StepsMove DEF Create, TaskInv
  <2>2. trace'[t] = trace[t] \cup {"made"} /\ \A s \in Task : s # t => trace'[s] = trace[s]
    BY <2>1, <1>a DEF Did
  <2>3. FeatureInv(t)'
    BY <2>1, <2>2, <1>c, OnEffect DEF FeatureInv
  <2>4. OutcomeInv(t)'
    BY <2>1, <2>2, <1>c, OnEffect DEF OutcomeInv
  <2>5. QED
    BY <2>1, <2>2, <2>3, <2>4, <1>b, RequestKept
<1>7. ASSUME NEW t \in Task, Track(t) PROVE RequestInv'
  <2>1. /\ Moves(t) /\ task[t].step = "track" /\ task[t].user \in User
        /\ task[t].op \in {"scan", "advanced"}
        /\ UNCHANGED <<plan, cache, had>> /\ Reply(t, 201) /\ (Did(t, "logged") \/ Did(t, "failed"))
    BY <1>7, <1>a, StepsMove DEF Track, TaskInv
  <2>2. /\ trace'[t] = trace[t] \cup {"logged"} \/ trace'[t] = trace[t] \cup {"failed"}
        /\ \A s \in Task : s # t => trace'[s] = trace[s]
    BY <2>1, <1>a DEF Did
  <2>3. FeatureInv(t)'
    BY <2>1, <2>2, FeatureReplied
  <2>4. OutcomeInv(t)'
    BY <2>1, <2>2, <1>c, ReplyEffect DEF OutcomeInv
  <2>5. QED
    BY <2>1, <2>2, <2>3, <2>4, <1>b, RequestKept
<1>8. ASSUME NEW t \in Task, FindUser(t) PROVE RequestInv'
  <2>1. /\ Moves(t) /\ task[t].step = "find" /\ task[t].op = "update" /\ task[t].user \in User
        /\ UNCHANGED <<plan, cache, had, trace>>
        /\ On(t, "write") \/ \E code \in {403, 404} : Reply(t, code)
    BY <1>8, <1>a, StepsMove DEF FindUser, TaskInv, history
  <2>2. CASE On(t, "write")
    <3>1. FeatureInv(t)'
      BY <2>1, <2>2, <1>c, OnEffect DEF FeatureInv
    <3>2. OutcomeInv(t)'
      BY <2>1, <2>2, <1>c, OnEffect DEF OutcomeInv
    <3>3. QED
      BY <2>1, <3>1, <3>2, <1>b, RequestKept
  <2>3. ASSUME NEW code \in {403, 404}, Reply(t, code) PROVE RequestInv'
    <3>1. FeatureInv(t)'
      BY <2>1, <2>3, FeatureReplied
    <3>2. OutcomeInv(t)'
      BY <2>1, <2>3, <1>c, OutcomeReplied DEF OutcomeInv
    <3>3. QED
      BY <2>1, <3>1, <3>2, <1>b, RequestKept
  <2>4. QED
    BY <2>1, <2>2, <2>3
<1>9. ASSUME NEW t \in Task, WritePlan(t) PROVE RequestInv'
  <2>1. /\ Moves(t) /\ task[t].step = "write" /\ task[t].op = "update" /\ task[t].user \in User
        /\ task[t].plan \in Plan /\ UNCHANGED cache
    BY <1>9, <1>a, StepsMove DEF WritePlan, TaskInv, TaskState
  <2>2. CASE /\ plan' = [plan EXCEPT ![task[t].user] = task[t].plan]
             /\ had' = [had EXCEPT ![task[t].user] = @ \cup {task[t].plan}]
             /\ On(t, "clear") /\ Did(t, "written")
    <3>1. trace'[t] = trace[t] \cup {"written"} /\ \A s \in Task : s # t => trace'[s] = trace[s]
      BY <2>2, <1>a DEF Did
    <3>2. \A u \in User : had[u] \subseteq had'[u] /\ RowInv(u)'
      BY <2>1, <2>2, <1>a, PlansAssumption DEF RequestInv, RowInv, Found
    <3>3. FeatureInv(t)'
      BY <2>1, <2>2, <3>1, <3>2, <1>c, OnEffect DEF FeatureInv
    <3>4. OutcomeInv(t)'
      BY <2>1, <2>2, <3>1, <1>c, OnEffect DEF OutcomeInv
    <3>5. QED
      BY <2>1, <3>1, <3>2, <3>3, <3>4, RequestKept
  <2>3. CASE Reply(t, 400) /\ UNCHANGED <<plan, had, trace>>
    <3>1. FeatureInv(t)' /\ OutcomeInv(t)'
      <4>1. FeatureInv(t)'
        BY <2>1, <2>3, FeatureReplied
      <4>2. OutcomeInv(t)'
        BY <2>1, <2>3, <1>c, OutcomeReplied DEF OutcomeInv
      <4>3. QED
        BY <4>1, <4>2
    <3>2. QED
      BY <2>1, <2>3, <3>1, <1>b, RequestKept
  <2>4. QED
    BY <1>9, <2>2, <2>3 DEF WritePlan
<1>10. ASSUME NEW t \in Task, ClearPlan(t) PROVE RequestInv'
  <2>1. /\ Moves(t) /\ task[t].step = "clear" /\ task[t].op = "update" /\ task[t].user \in User
        /\ UNCHANGED <<plan, had>> /\ cache' = [cache EXCEPT ![task[t].user] = None]
        /\ On(t, "audit") /\ Did(t, "cleared")
    BY <1>10, <1>a, StepsMove DEF ClearPlan, TaskInv
  <2>2. trace'[t] = trace[t] \cup {"cleared"} /\ \A s \in Task : s # t => trace'[s] = trace[s]
    BY <2>1, <1>a DEF Did
  <2>3. \A u \in User : had[u] \subseteq had'[u] /\ RowInv(u)'
    BY <2>1, <1>a DEF RequestInv, RowInv, Found
  <2>4. FeatureInv(t)'
    BY <2>1, <2>2, <1>c, OnEffect DEF FeatureInv
  <2>5. OutcomeInv(t)'
    BY <2>1, <2>2, <1>c, OnEffect DEF OutcomeInv
  <2>6. QED
    BY <2>1, <2>2, <2>3, <2>4, <2>5, RequestKept
<1>11. ASSUME NEW t \in Task, AuditPlan(t) PROVE RequestInv'
  <2>1. /\ Moves(t) /\ task[t].step = "audit" /\ task[t].op = "update" /\ task[t].user \in User
        /\ UNCHANGED <<plan, cache, had>>
        /\ \/ Reply(t, 200) /\ Did(t, "audited")
           \/ Reply(t, 400) /\ Did(t, "failed")
    BY <1>11, <1>a, StepsMove DEF AuditPlan, TaskInv
  <2>2. \A s \in Task : s # t => trace'[s] = trace[s]
    BY <2>1, <1>a DEF Did
  <2>3. FeatureInv(t)'
    <3>1. "made" \in trace'[t] => "made" \in trace[t]
      BY <2>1, <1>a DEF Did
    <3>2. QED
      BY <2>1, <3>1, FeatureReplied
  <2>4. OutcomeInv(t)'
    <3>1. CASE Reply(t, 200) /\ Did(t, "audited")
      <4>1. trace'[t] = {"written", "cleared", "audited"}
        BY <3>1, <2>1, <1>a, <1>c DEF Did, OutcomeInv
      <4>2. QED
        BY <3>1, <4>1, <2>1, ReplyEffect DEF OutcomeInv
    <3>2. CASE Reply(t, 400) /\ Did(t, "failed")
      <4>1. trace'[t] = {"written", "cleared", "failed"}
        BY <3>2, <2>1, <1>a, <1>c DEF Did, OutcomeInv
      <4>2. QED
        BY <3>2, <4>1, <2>1, ReplyEffect DEF OutcomeInv
    <3>3. QED
      BY <2>1, <3>1, <3>2
  <2>5. QED
    BY <2>1, <2>2, <2>3, <2>4, <1>b, RequestKept
<1>12. ASSUME NEW t \in Task, Fault(t) PROVE RequestInv'
  <2>1. /\ Moves(t) /\ task[t].step \notin {"idle", "done"} /\ TaskInv(task[t])
        /\ task[t].user \in User
        /\ UNCHANGED <<plan, cache, had>> /\ Did(t, "failed")
    BY <1>12, <1>a, StepsMove DEF Fault, TaskInv
  <2>2. trace'[t] = trace[t] \cup {"failed"} /\ \A s \in Task : s # t => trace'[s] = trace[s]
    BY <2>1, <1>a DEF Did
  <2>3. CASE task[t].step = "track" /\ Reply(t, 201)
    <3>1. FeatureInv(t)' /\ OutcomeInv(t)'
      <4>1. FeatureInv(t)'
        BY <2>1, <2>2, <2>3, FeatureReplied
      <4>2. OutcomeInv(t)'
        BY <2>1, <2>2, <2>3, <1>c, OutcomeReplied DEF OutcomeInv, TaskInv
      <4>3. QED
        BY <4>1, <4>2
    <3>2. QED
      BY <2>1, <2>2, <3>1, <1>b, RequestKept
  <2>4. CASE task[t].step # "track" /\ task[t].phase = "limit" /\ On(t, "create")
    <3>1. FeatureInv(t)' /\ OutcomeInv(t)'
      BY <2>1, <2>2, <2>4, <1>c, OnEffect DEF FeatureInv, OutcomeInv, TaskInv
    <3>2. QED
      BY <2>1, <2>2, <3>1, <1>b, RequestKept
  <2>5. CASE /\ task[t].step \in {"write", "clear", "audit"} /\ Reply(t, 400)
    <3>1. FeatureInv(t)' /\ OutcomeInv(t)'
      <4>1. FeatureInv(t)'
        BY <2>1, <2>2, <2>5, FeatureReplied
      <4>2. OutcomeInv(t)'
        BY <2>1, <2>2, <2>5, <1>c, OutcomeReplied DEF OutcomeInv, TaskInv
      <4>3. QED
        BY <4>1, <4>2
    <3>2. QED
      BY <2>1, <2>2, <3>1, <1>b, RequestKept
  <2>6. CASE /\ task[t].step \notin {"track", "write", "clear", "audit"} /\ Reply(t, 500)
    <3>1. FeatureInv(t)' /\ OutcomeInv(t)'
      <4>1. FeatureInv(t)'
        BY <2>1, <2>2, <2>6, FeatureReplied
      <4>2. OutcomeInv(t)'
        <5>1. task[t].op = "update" => task[t].step = "find"
          BY <2>1, <2>6, <1>a DEF TaskInv, TaskState
        <5>2. task[t].op = "update" => trace[t] = {}
          BY <5>1, <1>c DEF OutcomeInv
        <5>3. task[t].op \in {"scan", "advanced"} => "made" \notin trace[t]
          BY <2>1, <2>6, <1>c DEF OutcomeInv
        <5>4. QED
          BY <2>1, <2>2, <2>6, <5>2, <5>3, OutcomeReplied
      <4>3. QED
        BY <4>1, <4>2
    <3>2. QED
      BY <2>1, <2>2, <3>1, <1>b, RequestKept
  <2>7. QED
    BY <1>12, <2>3, <2>4, <2>5, <2>6 DEF Fault
<1>13. ASSUME NEW u \in User, Expire(u) PROVE RequestInv'
  <2>1. \A v \in User : had[v] \subseteq had'[v] /\ RowInv(v)'
    BY <1>13, <1>a DEF Expire, RequestInv, RowInv, Found
  <2>2. QED
    BY <1>13, <2>1, <1>d DEF Expire
<1>14. ASSUME NEW u \in User, NEW p \in Plan \cup {None}, WriteUser(u, p) PROVE RequestInv'
  <2>1. \A v \in User : had[v] \subseteq had'[v] /\ RowInv(v)'
    BY <1>14, <1>a DEF WriteUser, RequestInv, RowInv, Found
  <2>2. QED
    BY <1>14, <2>1, <1>d DEF WriteUser
<1>15. CASE (\E o \in Owners : ScanUnchecked(o) \/ DeleteScan(o)) \/ Midnight
  BY <1>15, <1>b, <1>d DEF ScanUnchecked, DeleteScan, Midnight
<1>16. CASE UNCHANGED vars
  BY <1>16, <1>b, <1>d DEF vars, history
<1>17. QED
  BY <1>1, <1>2, <1>3, <1>4, <1>5, <1>6, <1>7, <1>8, <1>9, <1>10, <1>11, <1>12, <1>13, <1>14,
     <1>15, <1>16, NextCases

\* An error while the limit is checked lets a scan through, but no interleaving of errors,
\* plan changes and cached plans makes an advanced scan for a user who never had the feature.
THEOREM FeatureNeeded == Spec => []AdvancedNeedsFeature
<1>1. RequestInv => AdvancedNeedsFeature
  BY DEF RequestInv, FeatureInv, AdvancedNeedsFeature
<1>2. BaseInv /\ RequestInv /\ [Next]_vars => BaseInv' /\ RequestInv'
  BY BaseNext, RequestNext
<1>3. QED
  BY <1>1, <1>2, BaseInit, RequestInit, PTL DEF Spec

\* The answer of a plan change or of a scan tells what was written, but for the failures
\* after the write.
THEOREM OutcomeTold == Spec => []OutcomeMatchesWrites
<1>1. RequestInv => OutcomeMatchesWrites
  BY DEF RequestInv, OutcomeInv, OutcomeMatchesWrites
<1>2. BaseInv /\ RequestInv /\ [Next]_vars => BaseInv' /\ RequestInv'
  BY BaseNext, RequestNext
<1>3. QED
  BY <1>1, <1>2, BaseInit, RequestInit, PTL DEF Spec

-----------------------------------------------------------------------------
(* The limit *)

\* The requests whose scan the count of its owner has let through and that is not yet made
Pending(o) == {t \in Task : task[t].step = "create" /\ task[t].checked
                              /\ task[t].user = o /\ task[t].owner = o}

\* A pending scan is counted as made: what is left of the bound is Create's to use.
LimitInv ==
    /\ \A t \in Task : task[t].checked => task[t].step \in {"create", "track"}
    /\ \A o \in Owners : Pending(o) # {} => granted[o] >= 1
    /\ \A o \in Owners :
         scans[o] - free[o] + Cardinality(Pending(o)) <= granted[o] + Cardinality(Task) - 1

LEMMA PendingFinite ==
    ASSUME NEW o
    PROVE  /\ IsFiniteSet(Pending(o)) /\ Cardinality(Pending(o)) \in Nat
           /\ Cardinality(Pending(o)) <= Cardinality(Task)
           /\ (Pending(o) = {} => Cardinality(Pending(o)) = 0)
           /\ Cardinality(Task) \in Nat /\ Cardinality(Task) >= 1
<1>1. IsFiniteSet(Task) /\ Task # {}
  BY PlansAssumption
<1>2. Pending(o) \in SUBSET Task
  BY DEF Pending
<1>3. IsFiniteSet(Pending(o)) /\ Cardinality(Pending(o)) <= Cardinality(Task)
  BY <1>1, <1>2, FS_Subset
<1>4. Cardinality(Pending(o)) \in Nat /\ Cardinality(Task) \in Nat
  BY <1>1, <1>3, FS_CardinalityType
<1>5. Cardinality(Task) # 0 /\ (Pending(o) = {} => Cardinality(Pending(o)) = 0)
  BY <1>1, <1>3, FS_EmptySet
<1>6. QED
  BY <1>3, <1>4, <1>5

LEMMA PendingFiniteNext ==
    ASSUME NEW o
    PROVE  /\ IsFiniteSet(Pending(o)') /\ Cardinality(Pending(o)') \in Nat
           /\ Cardinality(Pending(o)') <= Cardinality(Task)
           /\ (Pending(o)' = {} => Cardinality(Pending(o)') = 0)
<1>1. IsFiniteSet(Task)
  BY PlansAssumption
<1>2. Pending(o)' \in SUBSET Task
  BY DEF Pending
<1>3. IsFiniteSet(Pending(o)') /\ Cardinality(Pending(o)') <= Cardinality(Task)
  BY <1>1, <1>2, FS_Subset
<1>4. Cardinality(Pending(o)') \in Nat
  BY <1>3, FS_CardinalityType
<1>5. Pending(o)' = {} => Cardinality(Pending(o)') = 0
  BY <1>3, FS_EmptySet
<1>6. QED
  BY <1>3, <1>4, <1>5

LEMMA LimitInit == Init => LimitInv
<1> SUFFICES ASSUME Init PROVE LimitInv
  OBVIOUS
<1>1. \A t \in Task : task[t].checked = FALSE
  BY DEF Init, Free
<1>2. ASSUME NEW o \in Owners
      PROVE  scans[o] - free[o] + Cardinality(Pending(o)) <= granted[o] + Cardinality(Task) - 1
  <2>1. o \in User
    BY PlansAssumption
  <2>2. Pending(o) = {}
    BY <1>1 DEF Pending
  <2>3. granted[o] = LimitOf[plan[o]] /\ free[o] = 0 /\ plan[o] \in Plan
    BY <2>1 DEF Init
  <2>4. scans \in [User -> UNION {0..LimitOf[p] : p \in Plan}] /\ scans[o] <= LimitOf[plan[o]]
    BY <2>1 DEF Init
  <2>5. scans[o] \in Nat /\ LimitOf[plan[o]] \in Nat
    BY <2>1, <2>3, <2>4, PlansAssumption
  <2>6. QED
    BY <2>2, <2>3, <2>4, <2>5, PendingFinite
<1>3. \A o \in Owners : Pending(o) = {}
  BY <1>1 DEF Pending
<1>4. QED
  BY <1>1, <1>2, <1>3 DEF LimitInv

\* A step that lets no scan through and makes none
LEMMA LimitKept ==
    ASSUME BaseInv, LimitInv, NEW t \in Task, Moves(t),
           task'[t].checked => task'[t].step = "track",
           UNCHANGED <<scans, free, granted>>
    PROVE  LimitInv'
<1>1. ASSUME NEW o \in Owners
      PROVE  /\ Pending(o)' # {} => granted'[o] >= 1
             /\ scans'[o] - free'[o] + Cardinality(Pending(o)')
                    <= granted'[o] + Cardinality(Task) - 1
  <2>1. Pending(o)' \subseteq Pending(o)
    BY DEF Pending, Moves
  <2>2. Cardinality(Pending(o)') <= Cardinality(Pending(o))
    BY <2>1, PendingFinite, FS_Subset
  <2>3. scans[o] \in Nat /\ free[o] \in Nat /\ granted[o] \in Nat
    BY PlansAssumption DEF BaseInv, TypeOK
  <2>4. scans[o] - free[o] + Cardinality(Pending(o)) <= granted[o] + Cardinality(Task) - 1
    BY DEF LimitInv
  <2>5. QED
    <3>1. Cardinality(Pending(o)) \in Nat /\ Cardinality(Pending(o)') \in Nat
          /\ Cardinality(Task) \in Nat
      BY PendingFinite, PendingFiniteNext
    <3>2. scans[o] - free[o] + Cardinality(Pending(o)') <= granted[o] + Cardinality(Task) - 1
      BY <3>1, <2>2, <2>3, <2>4
    <3>3. Pending(o)' # {} => granted[o] >= 1
      BY <2>1 DEF LimitInv
    <3>4. QED
      BY <3>2, <3>3
<1>2. \A s \in Task : task'[s].checked => task'[s].step \in {"create", "track"}
  BY DEF LimitInv, Moves
<1>3. QED
  BY <1>1, <1>2 DEF LimitInv

\* Once checked, a request has only its scan to make and to log.
LEMMA StaysUnchecked ==
    ASSUME BaseInv, LimitInv, NEW t \in Task,
           \/ GetPlan(t) \/ ReadPlan(t) \/ SetPlan(t) \/ Track(t) \/ FindUser(t)
           \/ WritePlan(t) \/ ClearPlan(t) \/ AuditPlan(t) \/ Fault(t)
    PROVE  task'[t].checked => task'[t].step = "track"
<1>a. /\ task \in [Task -> TaskState] /\ task[t] \in TaskState
      /\ task[t].checked => task[t].step \in {"create", "track"}
  BY DEF BaseInv, TypeOK, LimitInv
<1>1. ASSUME NEW code, Reply(t, code) PROVE task'[t].checked = FALSE
  BY <1>1, <1>a DEF Reply, Over
<1>2. ASSUME NEW step, On(t, step) PROVE task'[t].checked = task[t].checked
  BY <1>2, OnEffect
<1>3. ASSUME NEW p, task' = [task EXCEPT ![t] = Decide(task[t], p)],
             task[t].checked = FALSE
      PROVE  task'[t].checked = FALSE
  <2>1. \A k \in TaskState : k.checked = FALSE =>
            /\ [k EXCEPT !.step = "count", !.plan = p].checked = FALSE
            /\ [k EXCEPT !.step = "get", !.phase = "limit"].checked = FALSE
    BY DEF TaskState
  <2>2. \A code : Over(task[t], code).checked = FALSE
    BY DEF Over
  <2>3. Decide(task[t], p).checked = FALSE
    BY <2>1, <2>2, <1>a, <1>3 DEF Decide
  <2>4. QED
    BY <2>3, <1>3, <1>a
<1>4. CASE GetPlan(t)
  <2>1. task[t].checked = FALSE
    BY <1>4, <1>a DEF GetPlan, TaskState
  <2>2. CASE cache[task[t].user] = None
    <3>1. On(t, "read")
      BY <1>4, <2>2, <1>a DEF GetPlan, On
    <3>2. QED
      BY <3>1, <2>1, <1>2
  <2>3. CASE cache[task[t].user] # None
    <3>1. task' = [task EXCEPT ![t] = Decide(task[t], cache[task[t].user])]
      BY <1>4, <2>3, <1>a DEF GetPlan
    <3>2. QED
      BY <3>1, <2>1, <1>3
  <2>4. QED
    BY <2>2, <2>3
<1>5. CASE ReadPlan(t)
  <2>1. task[t].checked = FALSE
        /\ task' = [task EXCEPT ![t].step = "set", ![t].plan = Found(task[t].user)]
    BY <1>5, <1>a DEF ReadPlan, TaskState
  <2>2. \A k \in TaskState : \A p : [k EXCEPT !.step = "set", !.plan = p].checked = k.checked
    BY DEF TaskState
  <2>3. task'[t] = [task[t] EXCEPT !.step = "set", !.plan = Found(task[t].user)]
    BY <2>1, <1>a
  <2>4. QED
    BY <2>1, <2>2, <2>3, <1>a
<1>6. CASE SetPlan(t)
  <2>1. task[t].checked = FALSE
        /\ task' = [task EXCEPT ![t] = Decide(task[t], task[t].plan)]
    BY <1>6, <1>a DEF SetPlan, TaskState
  <2>2. QED
    BY <2>1, <1>3
<1>7. CASE Track(t)
  BY <1>7, <1>1 DEF Track
<1>8. CASE FindUser(t)
  <2>1. task[t].checked = FALSE /\ (Reply(t, 404) \/ Reply(t, 403) \/ On(t, "write"))
    BY <1>8, <1>a DEF FindUser, TaskState
  <2>2. CASE Reply(t, 404) \/ Reply(t, 403)
    BY <2>2, <1>1
  <2>3. CASE On(t, "write")
    BY <2>1, <2>3, <1>2
  <2>4. QED
    BY <2>1, <2>2, <2>3
<1>9. CASE WritePlan(t)
  BY <1>9, <1>1, <1>2, <1>a DEF WritePlan
<1>10. CASE ClearPlan(t) \/ AuditPlan(t)
  BY <1>10, <1>1, <1>2, <1>a DEF ClearPlan, AuditPlan
<1>11. CASE Fault(t)
  <2>1. \/ \E code : Reply(t, code)
        \/ task[t].step \notin {"create", "track"} /\ On(t, "create")
    BY <1>11 DEF Fault
  <2>2. QED
    BY <2>1, <1>1, <1>2, <1>a
<1>12. QED
  BY <1>4, <1>5, <1>6, <1>7, <1>8, <1>9, <1>10, <1>11

LEMMA LimitNext == BaseInv /\ LimitInv /\ [Next]_vars => LimitInv'
<1> SUFFICES ASSUME BaseInv, LimitInv, [Next]_vars PROVE LimitInv'
  OBVIOUS
<1>a. /\ task \in [Task -> TaskState] /\ \A s \in Task : TaskInv(task[s])
      /\ scans \in [User -> Nat] /\ free \in [User -> Nat] /\ granted \in [User -> Nat]
      /\ Owners \subseteq User
  BY PlansAssumption DEF BaseInv, TypeOK
<1>b. \A o \in Owners : /\ Cardinality(Pending(o)) \in Nat /\ Cardinality(Task) \in Nat
                        /\ Cardinality(Pending(o)') \in Nat /\ Cardinality(Task) >= 1
                        /\ Cardinality(Pending(o)') <= Cardinality(Task)
  BY PendingFinite, PendingFiniteNext
<1>c. ASSUME UNCHANGED <<task, granted>>,
             \A o \in Owners : scans'[o] - free'[o] = scans[o] - free[o]
      PROVE  LimitInv'
  <2>1. \A o \in Owners : Pending(o)' = Pending(o)
    BY <1>c DEF Pending
  <2>2. QED
    BY <2>1, <1>c DEF LimitInv
<1>1. ASSUME NEW t \in Task, Asks(t) PROVE LimitInv'
  BY <1>1, AsksEffect, LimitKept DEF Requested
<1>2. ASSUME NEW t \in Task,
             \/ GetPlan(t) \/ ReadPlan(t) \/ SetPlan(t) \/ Track(t) \/ FindUser(t)
             \/ WritePlan(t) \/ ClearPlan(t) \/ AuditPlan(t) \/ Fault(t)
      PROVE  LimitInv'
  <2>1. UNCHANGED <<scans, free, granted>>
    BY <1>2 DEF GetPlan, ReadPlan, SetPlan, Track, FindUser, WritePlan, ClearPlan, AuditPlan,
                Fault, history
  <2>2. Moves(t)
    BY <1>2, StepsMove
  <2>3. task'[t].checked => task'[t].step = "track"
    BY <1>2, StaysUnchecked
  <2>4. QED
    BY <2>1, <2>2, <2>3, LimitKept
<1>3. ASSUME NEW t \in Task, Count(t) PROVE LimitInv'
  <2>1. /\ Moves(t) /\ task[t].step = "count" /\ task[t].user \in User /\ task[t].plan \in Plan
        /\ UNCHANGED <<scans, free>>
    BY <1>3, <1>a, StepsMove DEF Count, TaskInv, TaskState, BaseInv, TypeOK
  <2>2. CASE Reply(t, 403) /\ UNCHANGED granted
    <3>1. task'[t].checked = FALSE
      BY <2>2, <1>a DEF Reply, Over
    <3>2. QED
      BY <2>1, <2>2, <3>1, LimitKept
  <2>3. CASE /\ scans[task[t].user] < LimitOf[task[t].plan]
             /\ task' = [task EXCEPT ![t].step = "create", ![t].checked = TRUE]
             /\ granted' = [granted EXCEPT ![task[t].user] =
                               IF LimitOf[task[t].plan] > @ THEN LimitOf[task[t].plan] ELSE @]
    <3>1. LimitOf[task[t].plan] \in Nat
      BY <2>1, PlansAssumption
    <3>2. /\ task'[t].step = "create" /\ task'[t].user = task[t].user
          /\ task'[t].owner = task[t].owner
      <4>1. \A k \in TaskState : LET r == [k EXCEPT !.step = "create", !.checked = TRUE] IN
              r.step = "create" /\ r.user = k.user /\ r.owner = k.owner
        BY DEF TaskState
      <4>2. task'[t] = [task[t] EXCEPT !.step = "create", !.checked = TRUE]
        BY <2>3, <1>a
      <4>3. QED
        BY <4>1, <4>2, <1>a
    <3>3. granted'[task[t].user] > scans[task[t].user] /\ granted'[task[t].user] \in Nat
      BY <2>1, <2>3, <3>1, <1>a
    <3>4. ASSUME NEW o \in Owners
          PROVE  /\ Pending(o)' # {} => granted'[o] >= 1
                 /\ scans'[o] - free'[o] + Cardinality(Pending(o)')
                        <= granted'[o] + Cardinality(Task) - 1
      <4>1. scans[o] \in Nat /\ free[o] \in Nat /\ granted[o] \in Nat /\ scans'[o] = scans[o]
            /\ free'[o] = free[o]
        BY <1>a, <2>1
      <4>2. CASE o = task[t].user
        <5>1. scans[o] - free[o] <= granted'[o] - 1 /\ granted'[o] >= 1
          BY <4>1, <4>2, <3>3
        <5>2. QED
          BY <5>1, <4>1, <4>2, <3>3, <1>b
      <4>3. CASE o # task[t].user
        <5>1. Pending(o)' \subseteq Pending(o)
          BY <2>1, <3>2, <4>3 DEF Pending, Moves
        <5>2. Cardinality(Pending(o)') <= Cardinality(Pending(o))
          BY <5>1, PendingFinite, FS_Subset
        <5>3. granted'[o] = granted[o]
          BY <2>3, <4>3, <1>a
        <5>4. scans[o] - free[o] + Cardinality(Pending(o)) <= granted[o] + Cardinality(Task) - 1
          BY DEF LimitInv
        <5>5. Pending(o) # {} => granted[o] >= 1
          BY DEF LimitInv
        <5>6. scans[o] - free[o] + Cardinality(Pending(o)') <= granted[o] + Cardinality(Task) - 1
          BY <5>2, <5>4, <4>1, <1>b
        <5>7. QED
          BY <5>1, <5>3, <5>5, <5>6, <4>1
      <4>4. QED
        BY <4>2, <4>3
    <3>5. \A s \in Task : task'[s].checked => task'[s].step \in {"create", "track"}
      BY <2>1, <3>2 DEF LimitInv, Moves
    <3>6. QED
      BY <3>4, <3>5 DEF LimitInv
  <2>4. QED
    BY <1>3, <2>2, <2>3 DEF Count, Below
<1>4. ASSUME NEW t \in Task, Create(t) PROVE LimitInv'
  <2>1. /\ Moves(t) /\ task[t].step = "create" /\ task[t].owner \in Owners
        /\ scans' = [scans EXCEPT ![task[t].owner] = @ + 1]
        /\ free' = [free EXCEPT ![task[t].owner] = IF IsFree(task[t]) THEN @ + 1 ELSE @]
        /\ granted' = granted /\ On(t, "track")
    BY <1>4, <1>a, StepsMove DEF Create, TaskInv
  <2>2. task'[t].step = "track"
    BY <2>1, OnEffect
  <2>3. ASSUME NEW o \in Owners
        PROVE  /\ Pending(o)' # {} => granted'[o] >= 1
               /\ scans'[o] - free'[o] + Cardinality(Pending(o)')
                      <= granted'[o] + Cardinality(Task) - 1
    <3>1. Pending(o)' = Pending(o) \ {t}
      BY <2>1, <2>2 DEF Pending, Moves
    <3>2. Pending(o)' # {} => granted'[o] >= 1
      BY <3>1, <2>1 DEF LimitInv
    <3>3. scans[o] \in Nat /\ free[o] \in Nat /\ granted[o] \in Nat
      BY <1>a
    <3>4. scans[o] - free[o] + Cardinality(Pending(o)) <= granted[o] + Cardinality(Task) - 1
      BY DEF LimitInv
    <3>5. Cardinality(Pending(o)') = IF t \in Pending(o) THEN Cardinality(Pending(o)) - 1
                                     ELSE Cardinality(Pending(o))
      BY <3>1, PendingFinite, FS_RemoveElement
    <3>6. CASE o = task[t].owner /\ ~IsFree(task[t])
      <4>1. t \in Pending(o)
        BY <2>1, <3>6 DEF Pending, IsFree
      <4>2. scans'[o] = scans[o] + 1 /\ free'[o] = free[o]
        BY <2>1, <3>6, <1>a
      <4>3. scans'[o] - free'[o] + Cardinality(Pending(o)') = scans[o] - free[o] + Cardinality(Pending(o))
        BY <4>1, <4>2, <3>3, <3>5, <1>b
      <4>4. QED
        BY <4>3, <3>2, <3>4, <2>1
    <3>7. CASE o # task[t].owner \/ IsFree(task[t])
      <4>1. t \notin Pending(o)
        BY <2>1, <3>7 DEF Pending, IsFree
      <4>2. scans'[o] - free'[o] = scans[o] - free[o]
        BY <2>1, <3>3, <3>7, <1>a
      <4>3. QED
        BY <4>1, <4>2, <3>2, <3>4, <3>5, <2>1
    <3>8. QED
      BY <3>6, <3>7
  <2>4. \A s \in Task : task'[s].checked => task'[s].step \in {"create", "track"}
    BY <2>1, <2>2 DEF LimitInv, Moves
  <2>5. QED
    BY <2>3, <2>4 DEF LimitInv
<1>5. ASSUME NEW u \in User, Expire(u) \/ \E p \in Plan \cup {None} : WriteUser(u, p)
      PROVE  LimitInv'
  <2>1. UNCHANGED <<task, granted, scans, free>>
    BY <1>5 DEF Expire, WriteUser
  <2>2. QED
    BY <2>1, <1>c
<1>6. ASSUME NEW w \in Owners, ScanUnchecked(w) PROVE LimitInv'
  <2>1. \A o \in Owners : scans'[o] - free'[o] = scans[o] - free[o]
    BY <1>6, <1>a DEF ScanUnchecked
  <2>2. UNCHANGED <<task, granted>>
    BY <1>6 DEF ScanUnchecked
  <2>3. QED
    BY <2>1, <2>2, <1>c
<1>7. CASE Midnight
  <2>1. UNCHANGED <<task, granted>>
    BY <1>7 DEF Midnight
  <2>2. ASSUME NEW o \in Owners
        PROVE  /\ Pending(o)' # {} => granted'[o] >= 1
               /\ scans'[o] - free'[o] + Cardinality(Pending(o)')
                      <= granted'[o] + Cardinality(Task) - 1
    <3>1. Pending(o)' = Pending(o)
      BY <2>1 DEF Pending
    <3>2. Pending(o) # {} => granted[o] >= 1
      BY DEF LimitInv
    <3>3. scans'[o] = 0 /\ free'[o] = 0 /\ granted'[o] = granted[o] /\ granted[o] \in Nat
      BY <1>7, <1>a, <2>1 DEF Midnight
    <3>4. Pending(o) = {} => Cardinality(Pending(o)) = 0
      BY PendingFinite
    <3>5. QED
      BY <3>1, <3>2, <3>3, <3>4, <1>b
  <2>3. \A s \in Task : task'[s].checked => task'[s].step \in {"create", "track"}
    BY <2>1 DEF LimitInv
  <2>4. QED
    BY <2>2, <2>3 DEF LimitInv
<1>10. ASSUME NEW w \in Owners, DeleteScan(w) PROVE LimitInv'
  <2>1. UNCHANGED <<task, granted>>
    BY <1>10 DEF DeleteScan
  <2>2. ASSUME NEW o \in Owners
        PROVE  /\ Pending(o)' # {} => granted'[o] >= 1
               /\ scans'[o] - free'[o] + Cardinality(Pending(o)')
                      <= granted'[o] + Cardinality(Task) - 1
    <3>1. Pending(o)' = Pending(o) /\ granted'[o] = granted[o]
      BY <2>1 DEF Pending
    <3>2. /\ Pending(o) # {} => granted[o] >= 1
          /\ scans[o] - free[o] + Cardinality(Pending(o)) <= granted[o] + Cardinality(Task) - 1
      BY DEF LimitInv
    <3>3. scans \in [User -> Nat] /\ free \in [User -> Nat] /\ w \in User /\ o \in User
      BY PlansAssumption DEF BaseInv, TypeOK
    <3>4. \/ scans'[o] = scans[o] /\ free'[o] = free[o]
          \/ scans'[o] = scans[o] - 1 /\ free'[o] \in {free[o], free[o] - 1}
      BY <1>10, <3>3 DEF DeleteScan
    <3>5. ASSUME NEW c, NEW d, NEW k, NEW g, NEW n, c \in Nat, d \in Nat, k \in Nat, g \in Nat,
                 n \in Nat, c - d + k <= g + n - 1
          PROVE  c - 1 - d + k <= g + n - 1 /\ (c - 1) - (d - 1) + k <= g + n - 1
      BY <3>5
    <3>6. scans'[o] - free'[o] + Cardinality(Pending(o)) <= granted[o] + Cardinality(Task) - 1
      BY <3>2, <3>3, <3>4, <3>5, <1>b, PendingFinite DEF BaseInv, TypeOK
    <3>7. QED
      BY <3>1, <3>2, <3>6
  <2>3. \A s \in Task : task'[s].checked => task'[s].step \in {"create", "track"}
    BY <2>1 DEF LimitInv
  <2>4. QED
    BY <2>2, <2>3 DEF LimitInv
<1>8. CASE UNCHANGED vars
  <2>1. UNCHANGED <<task, granted, scans, free>>
    BY <1>8 DEF vars, history
  <2>2. QED
    BY <2>1, <1>c
<1>9. QED
  BY <1>1, <1>2, <1>3, <1>4, <1>5, <1>6, <1>7, <1>8, <1>10, NextCases

\* The overshoot of the daily limit is bounded by the requests that can be between the check
\* and the insert, for any number of slots, users and plans.
THEOREM OvershootBounded == Spec => []OvershootIsBounded
<1>1. ASSUME BaseInv, LimitInv PROVE OvershootIsBounded
  <2>1. ASSUME NEW o \in Owners PROVE scans[o] - free[o] <= granted[o] + Cardinality(Task) - 1
    <3>1. scans[o] \in Nat /\ free[o] \in Nat /\ granted[o] \in Nat
      BY <1>1, PlansAssumption DEF BaseInv, TypeOK
    <3>2. scans[o] - free[o] + Cardinality(Pending(o)) <= granted[o] + Cardinality(Task) - 1
      BY <1>1 DEF LimitInv
    <3>3. QED
      BY <3>1, <3>2, PendingFinite
  <2>2. QED
    BY <2>1 DEF OvershootIsBounded
<1>2. BaseInv /\ LimitInv /\ [Next]_vars => BaseInv' /\ LimitInv'
  BY BaseNext, LimitNext
<1>3. QED
  BY <1>1, <1>2, BaseInit, LimitInit, PTL DEF Spec

=============================================================================
