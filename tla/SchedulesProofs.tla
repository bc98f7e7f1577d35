--------------------------- MODULE SchedulesProofs ---------------------------
(***************************************************************************)
(* Theorems about Schedules, for any sets of schedules, crons and requests *)
(* and any bounds.                                                         *)
(***************************************************************************)
EXTENDS Schedules, TLAPS

\* What the properties say of a schedule no request works on.
Mirrors(s) ==
    /\ JobsOf(s) \subseteq Wanted(s)
    /\ s \notin failed => JobsOf(s) = Wanted(s)

\* What a request that is alone with its schedule has done so far, step by step.
Progress(r) ==
    LET s == req[r].id IN
    /\ \A q \in Request : req[q].id = s => q = r
    /\ req[r].step \in {"list", "unkey", "update", "delete"} =>
           Exists(s) /\ req[r].wasActive = row[s].active
    /\ req[r].step \in {"list", "unkey"} =>
           /\ Mirrors(s)
           /\ req[r].op = "remove" \/ Unlists(req[r].wasActive, req[r].dto)
    /\ req[r].step = "unkey" => JobsOf(s) \subseteq {req[r].key}
    /\ req[r].step = "update" =>
           IF Unlists(req[r].wasActive, req[r].dto) THEN JobsOf(s) = {} ELSE Mirrors(s)
    /\ req[r].step = "delete" => JobsOf(s) = {}
    /\ req[r].step = "add" => JobsOf(s) = {} /\ Wanted(s) = {req[r].key}
    /\ req[r].step = "audit" => Mirrors(s)

\* A busy slot works on a schedule that was created.
SlotInv(r) ==
    IF req[r].step = "idle"
    THEN req[r].id = NoSchedule
    ELSE /\ req[r].id \in Schedule
         /\ row[req[r].id].state # "absent"
         /\ req[r].step \in {"unkey", "add"} => req[r].key \in Cron
         /\ req[r].id \notin overlapped => Progress(r)

ScheduleInv(s) ==
    /\ due[s] <= triggers
    /\ s \notin overlapped /\ Quiet(s) => Mirrors(s)

\* The inductive invariant.
IInv ==
    /\ TypeOK
    /\ \A r \in Request : SlotInv(r)
    /\ \A s \in Schedule : ScheduleInv(s)

LEMMA IInit == Init => IInv
  BY SchedulesAssumption DEF Init, IInv, TypeOK, SlotInv, ScheduleInv, Mirrors, Idle, NoDto,
     RequestState, Step, Dto, JobsOf, Wanted, Exists

\* A request disturbs neither the other slots nor the other schedules.
LEMMA Others ==
  ASSUME IInv, NEW r \in Request, NEW s \in Schedule, s = req[r].id,
         req[r].step # "idle",
         \A q \in Request \ {r} : req'[q] = req[q],
         req'[r].id \in {s, NoSchedule},
         \A u \in Schedule \ {s} : row'[u] = row[u] /\ JobsOf(u)' = JobsOf(u)
                                   /\ (u \in failed' <=> u \in failed),
         row'[s].state # "absent",
         UNCHANGED <<overlapped, due, triggers>>
  PROVE  /\ \A q \in Request \ {r} : SlotInv(q)'
         /\ \A u \in Schedule \ {s} : ScheduleInv(u)'
<1>1. \A u \in Schedule \ {s} : Wanted(u)' = Wanted(u) /\ Exists(u)' = Exists(u)
  BY DEF Wanted, Exists
<1>2. \A u \in Schedule \ {s} : Mirrors(u)' <=> Mirrors(u)
  BY <1>1 DEF Mirrors
<1>3. \A u \in Schedule \ {s} : Quiet(u)' <=> Quiet(u)
  BY SchedulesAssumption DEF Quiet
<1>4. \A u \in Schedule \ {s} : ScheduleInv(u)'
  BY <1>2, <1>3 DEF IInv, ScheduleInv
<1>5. ASSUME NEW q \in Request \ {r} PROVE SlotInv(q)'
  <2>1. req'[q] = req[q] /\ SlotInv(q)
    BY DEF IInv
  <2>2. CASE req[q].step = "idle"
    BY <2>1, <2>2 DEF SlotInv
  <2>3. CASE req[q].step # "idle" /\ req[q].id = s
    <3>1. s \in overlapped
      BY <2>3 DEF IInv, SlotInv, Progress
    <3>2. QED
      BY <2>1, <2>3, <3>1 DEF SlotInv
  <2>4. CASE req[q].step # "idle" /\ req[q].id # s
    <3>1. req[q].id \in Schedule \ {s}
      BY <2>1, <2>4 DEF SlotInv
    <3>2. Progress(q) => Progress(q)'
      <4>1. req'[r].id # req[q].id
        BY <3>1, SchedulesAssumption
      <4>2. QED
        BY <1>1, <1>2, <2>1, <3>1, <4>1 DEF Progress
    <3>3. QED
      BY <2>1, <2>4, <3>1, <3>2 DEF SlotInv
  <2>5. QED
    BY <2>2, <2>3, <2>4
<1>6. QED
  BY <1>4, <1>5

\* So a step of a request keeps the invariant if it leaves its own slot and schedule right.
LEMMA Compose ==
  ASSUME IInv, NEW r \in Request, NEW s \in Schedule, s = req[r].id,
         req[r].step # "idle",
         TypeOK',
         \A q \in Request \ {r} : req'[q] = req[q],
         req'[r].id \in {s, NoSchedule},
         \A u \in Schedule \ {s} :
             /\ row'[u] = row[u]
             /\ \A c \in Cron : <<u, c>> \in repeatable' <=> <<u, c>> \in repeatable
             /\ u \in failed' <=> u \in failed,
         row'[s].state # "absent",
         UNCHANGED <<overlapped, due, triggers>>,
         SlotInv(r)',
         s \notin overlapped /\ req'[r].id = NoSchedule => Mirrors(s)'
  PROVE  IInv'
<1>1. \A u \in Schedule \ {s} : JobsOf(u)' = JobsOf(u)
  BY DEF JobsOf
<1>2. /\ \A q \in Request \ {r} : SlotInv(q)'
      /\ \A u \in Schedule \ {s} : ScheduleInv(u)'
  BY <1>1, Others
<1>3. ScheduleInv(s)'
  <2>1. due'[s] <= triggers'
    BY DEF IInv, ScheduleInv
  <2>2. Quiet(s)' => req'[r].id = NoSchedule
    BY DEF Quiet
  <2>3. QED
    BY <2>1, <2>2 DEF ScheduleInv
<1>4. QED
  BY <1>2, <1>3 DEF IInv

LEMMA AuditNext ==
  ASSUME IInv, NEW r \in Request, NEW s \in Schedule, s = req[r].id, Audit(r)
  PROVE  IInv'
<1> USE SchedulesAssumption
<1>1. /\ req' = [req EXCEPT ![r] = Idle] /\ req[r].step = "audit"
      /\ UNCHANGED <<row, repeatable, due, overlapped, failed, requests, triggers, faults>>
  BY DEF Audit, End, historyVars, budgetVars
<1>2. row[s].state # "absent" /\ TypeOK /\ (s \notin overlapped => Progress(r))
  BY <1>1 DEF IInv, SlotInv
<1>3. req'[r] = Idle /\ \A q \in Request \ {r} : req'[q] = req[q]
  BY <1>1, <1>2 DEF TypeOK
<1>4. TypeOK'
  BY <1>1, <1>2 DEF TypeOK, RequestState, Idle, NoDto, Step, Dto
<1>5. s \notin overlapped => Mirrors(s)'
  BY <1>1, <1>2 DEF Progress, Mirrors, JobsOf, Wanted, Exists
<1>6. SlotInv(r)'
  BY <1>3 DEF SlotInv, Idle
<1>7. QED
  BY <1>1, <1>2, <1>3, <1>4, <1>5, <1>6, Compose DEF Idle

LEMMA FaultNext ==
  ASSUME IInv, NEW r \in Request, NEW s \in Schedule, s = req[r].id, Fault(r)
  PROVE  IInv'
<1> USE SchedulesAssumption
<1>1. /\ req' = [req EXCEPT ![r] = Idle] /\ req[r].step # "idle"
      /\ faults < MaxFaults /\ faults' = faults + 1 /\ failed' = failed \cup {s}
      /\ UNCHANGED <<row, repeatable, due, overlapped, requests, triggers>>
  BY DEF Fault, End
<1>2. row[s].state # "absent" /\ TypeOK /\ (s \notin overlapped => Progress(r))
  BY <1>1 DEF IInv, SlotInv
<1>3. req'[r] = Idle /\ \A q \in Request \ {r} : req'[q] = req[q]
  BY <1>1, <1>2 DEF TypeOK
<1>4. TypeOK'
  BY <1>1, <1>2 DEF TypeOK, RequestState, Idle, NoDto, Step, Dto
<1>5. req[r].step \in Step
  BY <1>2 DEF TypeOK, RequestState
<1>6. s \notin overlapped => JobsOf(s) \subseteq Wanted(s)
  BY <1>1, <1>2, <1>5 DEF Progress, Mirrors, Step
<1>7. s \notin overlapped => Mirrors(s)'
  BY <1>1, <1>6 DEF Mirrors, JobsOf, Wanted, Exists
<1>8. SlotInv(r)'
  BY <1>3 DEF SlotInv, Idle
<1>9. QED
  BY <1>1, <1>2, <1>3, <1>4, <1>7, <1>8, Compose DEF Idle

LEMMA ListNext ==
  ASSUME IInv, NEW r \in Request, NEW s \in Schedule, s = req[r].id, ListJobs(r)
  PROVE  IInv'
<1> USE SchedulesAssumption
<1>1. /\ req[r].step = "list"
      /\ UNCHANGED <<row, repeatable, due, overlapped, failed, requests, triggers, faults>>
  BY DEF ListJobs, historyVars, budgetVars
<1>2. row[s].state # "absent" /\ TypeOK /\ (s \notin overlapped => Progress(r))
  BY <1>1 DEF IInv, SlotInv
<1>3. \A u \in Schedule :
        /\ JobsOf(u)' = JobsOf(u) /\ Wanted(u)' = Wanted(u) /\ Exists(u)' = Exists(u)
        /\ Mirrors(u)' <=> Mirrors(u)
  BY <1>1 DEF Mirrors, JobsOf, Wanted, Exists
<1>4. CASE JobsOf(s) = {}
  <2>1. req' = [req EXCEPT ![r].step = AfterUnlisting(r)]
    BY <1>4 DEF ListJobs, Goto
  <2>2. AfterUnlisting(r) = IF req[r].op = "remove" THEN "delete" ELSE "update"
    BY DEF AfterUnlisting
  <2>3. /\ req'[r] = [req[r] EXCEPT !.step = AfterUnlisting(r)]
        /\ \A q \in Request \ {r} : req'[q] = req[q]
    BY <1>2, <2>1 DEF TypeOK
  <2>4. req[r] \in RequestState
    BY <1>2 DEF TypeOK
  <2>5. TypeOK'
    BY <1>1, <1>2, <2>1, <2>2, <2>4 DEF TypeOK, RequestState, Step
  <2>6. SlotInv(r)'
    BY <1>1, <1>2, <1>3, <1>4, <2>2, <2>3, <2>4 DEF SlotInv, Progress, RequestState, Mirrors
  <2>7. QED
    BY <1>1, <1>2, <2>3, <2>4, <2>5, <2>6, Compose DEF RequestState
<1>5. CASE JobsOf(s) # {}
  <2>1. PICK c \in JobsOf(s) : req' = [req EXCEPT ![r].step = "unkey", ![r].key = c]
    BY <1>5 DEF ListJobs
  <2>2. c \in Cron
    BY DEF JobsOf
  <2>3. /\ req'[r] = [req[r] EXCEPT !.step = "unkey", !.key = c]
        /\ \A q \in Request \ {r} : req'[q] = req[q]
    BY <1>2, <2>1 DEF TypeOK
  <2>4. req[r] \in RequestState
    BY <1>2 DEF TypeOK
  <2>5. TypeOK'
    BY <1>1, <1>2, <2>1, <2>2, <2>4 DEF TypeOK, RequestState, Step
  <2>6. s \notin overlapped => JobsOf(s) \subseteq {c}
    BY <1>1, <1>2 DEF Progress, Mirrors, Wanted
  <2>7. SlotInv(r)'
    BY <1>1, <1>2, <1>3, <2>2, <2>3, <2>4, <2>6 DEF SlotInv, Progress, RequestState
  <2>8. QED
    BY <1>1, <1>2, <2>3, <2>4, <2>5, <2>7, Compose DEF RequestState
<1>6. QED
  BY <1>4, <1>5

LEMMA UnlistNext ==
  ASSUME IInv, NEW r \in Request, NEW s \in Schedule, s = req[r].id, UnlistJob(r)
  PROVE  IInv'
<1> USE SchedulesAssumption
<1>1. /\ req[r].step = "unkey"
      /\ repeatable' = repeatable \ {<<s, req[r].key>>}
      /\ req' = [req EXCEPT ![r].step = AfterUnlisting(r)]
      /\ UNCHANGED <<row, due, overlapped, failed, requests, triggers, faults>>
  BY DEF UnlistJob, Goto, historyVars, budgetVars
<1>2. row[s].state # "absent" /\ TypeOK /\ (s \notin overlapped => Progress(r))
  BY <1>1 DEF IInv, SlotInv
<1>3. AfterUnlisting(r) = IF req[r].op = "remove" THEN "delete" ELSE "update"
  BY DEF AfterUnlisting
<1>4. /\ req'[r] = [req[r] EXCEPT !.step = AfterUnlisting(r)]
      /\ \A q \in Request \ {r} : req'[q] = req[q]
  BY <1>1, <1>2 DEF TypeOK
<1>5. req[r] \in RequestState
  BY <1>2 DEF TypeOK
<1>6. TypeOK'
  BY <1>1, <1>2, <1>3, <1>5 DEF TypeOK, RequestState, Step
<1>7. s \notin overlapped => JobsOf(s)' = {}
  BY <1>1, <1>2 DEF Progress, JobsOf
<1>8. Exists(s)' = Exists(s)
  BY <1>1 DEF Exists
<1>9. SlotInv(r)'
  BY <1>1, <1>2, <1>3, <1>4, <1>5, <1>7, <1>8 DEF SlotInv, Progress, RequestState, Mirrors
<1>10. QED
  BY <1>1, <1>2, <1>4, <1>5, <1>6, <1>9, Compose DEF RequestState

LEMMA AddNext ==
  ASSUME IInv, NEW r \in Request, NEW s \in Schedule, s = req[r].id, AddJob(r)
  PROVE  IInv'
<1> USE SchedulesAssumption
<1>1. /\ req[r].step = "add"
      /\ repeatable' = repeatable \cup {<<s, req[r].key>>}
      /\ req' = [req EXCEPT ![r].step = "audit"]
      /\ UNCHANGED <<row, due, overlapped, failed, requests, triggers, faults>>
  BY DEF AddJob, Goto, historyVars, budgetVars
<1>2. /\ row[s].state # "absent" /\ TypeOK /\ req[r].key \in Cron
      /\ s \notin overlapped => Progress(r)
  BY <1>1 DEF IInv, SlotInv
<1>3. /\ req'[r] = [req[r] EXCEPT !.step = "audit"]
      /\ \A q \in Request \ {r} : req'[q] = req[q]
  BY <1>1, <1>2 DEF TypeOK
<1>4. req[r] \in RequestState
  BY <1>2 DEF TypeOK
<1>5. TypeOK'
  BY <1>1, <1>2, <1>4 DEF TypeOK, RequestState, Step
<1>6. s \notin overlapped => JobsOf(s)' = {req[r].key} /\ Wanted(s)' = {req[r].key}
  BY <1>1, <1>2 DEF Progress, JobsOf, Wanted, Exists
<1>7. s \notin overlapped => Mirrors(s)'
  BY <1>6 DEF Mirrors
<1>8. SlotInv(r)'
  BY <1>1, <1>2, <1>3, <1>4, <1>7 DEF SlotInv, Progress, RequestState
<1>9. QED
  BY <1>1, <1>2, <1>3, <1>4, <1>5, <1>8, Compose DEF RequestState

LEMMA DeleteNext ==
  ASSUME IInv, NEW r \in Request, NEW s \in Schedule, s = req[r].id, WriteDelete(r)
  PROVE  IInv'
<1> USE SchedulesAssumption
<1>1. /\ req[r].step = "delete"
      /\ UNCHANGED <<repeatable, due, overlapped, failed, requests, triggers, faults>>
  BY DEF WriteDelete, historyVars, budgetVars
<1>2. row[s].state # "absent" /\ TypeOK /\ (s \notin overlapped => Progress(r))
  BY <1>1 DEF IInv, SlotInv
<1>3. req[r] \in RequestState /\ JobsOf(s)' = JobsOf(s)
  BY <1>1, <1>2 DEF TypeOK, JobsOf
<1>4. CASE Exists(s)
  <2>1. /\ row' = [row EXCEPT ![s].state = "deleted"]
        /\ req' = [req EXCEPT ![r].step = "audit"]
    BY <1>4 DEF WriteDelete, Goto
  <2>2. /\ req'[r] = [req[r] EXCEPT !.step = "audit"]
        /\ \A q \in Request \ {r} : req'[q] = req[q]
        /\ row'[s].state = "deleted"
        /\ \A u \in Schedule \ {s} : row'[u] = row[u]
    BY <1>2, <2>1 DEF TypeOK
  <2>3. TypeOK'
    <3>1. row' \in [Schedule -> [state : {"absent", "present", "deleted"},
                               active : BOOLEAN, cron : Cron \cup {Keep}]]
      BY <1>2, <2>1 DEF TypeOK
    <3>2. \A u \in Schedule : row'[u].state = "present" => row'[u].cron \in Cron
      BY <1>2, <2>2 DEF TypeOK
    <3>3. QED
      BY <1>1, <1>2, <1>3, <2>1, <3>1, <3>2 DEF TypeOK, RequestState, Step
  <2>4. SlotInv(r)'
    BY <1>1, <1>2, <1>3, <2>2 DEF SlotInv, Progress, RequestState, Mirrors, Wanted, Exists
  <2>5. QED
    BY <1>1, <1>2, <1>3, <2>2, <2>3, <2>4, Compose DEF RequestState
<1>5. CASE ~Exists(s)
  <2>1. req' = [req EXCEPT ![r] = Idle] /\ row' = row
    BY <1>5 DEF WriteDelete, End
  <2>2. req'[r] = Idle /\ \A q \in Request \ {r} : req'[q] = req[q]
    BY <1>2, <2>1 DEF TypeOK
  <2>3. TypeOK'
    BY <1>1, <1>2, <2>1 DEF TypeOK, RequestState, Idle, NoDto, Step, Dto
  <2>4. SlotInv(r)'
    BY <2>2 DEF SlotInv, Idle
  <2>5. s \in overlapped
    BY <1>1, <1>2, <1>5 DEF Progress
  <2>6. QED
    BY <1>1, <1>2, <2>1, <2>2, <2>3, <2>4, <2>5, Compose DEF Idle
<1>6. QED
  BY <1>4, <1>5

LEMMA UpdateNext ==
  ASSUME IInv, NEW r \in Request, NEW s \in Schedule, s = req[r].id, WriteUpdate(r)
  PROVE  IInv'
<1> DEFINE dto == req[r].dto
           new == Patched(row[s], dto)
<1> USE SchedulesAssumption
<1>1. /\ req[r].step = "update"
      /\ UNCHANGED <<repeatable, due, overlapped, failed, requests, triggers, faults>>
  BY DEF WriteUpdate, historyVars, budgetVars
<1>2. row[s].state # "absent" /\ TypeOK /\ (s \notin overlapped => Progress(r))
  BY <1>1 DEF IInv, SlotInv
<1>3. req[r] \in RequestState /\ JobsOf(s)' = JobsOf(s)
  BY <1>1, <1>2 DEF TypeOK, JobsOf
<1>4. CASE ~Exists(s)
  <2>1. req' = [req EXCEPT ![r] = Idle] /\ row' = row
    BY <1>4 DEF WriteUpdate, End
  <2>2. req'[r] = Idle /\ \A q \in Request \ {r} : req'[q] = req[q]
    BY <1>2, <2>1 DEF TypeOK
  <2>3. TypeOK'
    BY <1>1, <1>2, <2>1 DEF TypeOK, RequestState, Idle, NoDto, Step, Dto
  <2>4. SlotInv(r)'
    BY <2>2 DEF SlotInv, Idle
  <2>5. s \in overlapped
    BY <1>1, <1>2, <1>4 DEF Progress
  <2>6. QED
    BY <1>1, <1>2, <2>1, <2>2, <2>3, <2>4, <2>5, Compose DEF Idle
<1>5. CASE Exists(s)
  <2>1. row' = [row EXCEPT ![s] = new]
    BY <1>5 DEF WriteUpdate
  <2>2. /\ new.state = "present"
        /\ new.active = IF dto.active = Keep THEN row[s].active ELSE dto.active
        /\ new.cron = IF dto.cron = Keep THEN row[s].cron ELSE dto.cron
        /\ new \in [state : {"absent", "present", "deleted"}, active : BOOLEAN,
                   cron : Cron \cup {Keep}]
        /\ new.cron \in Cron
    <3>1. /\ row[s] \in [state : {"absent", "present", "deleted"}, active : BOOLEAN,
                       cron : Cron \cup {Keep}]
          /\ row[s].state = "present" /\ row[s].cron \in Cron
          /\ dto.active \in BOOLEAN \cup {Keep} /\ dto.cron \in Cron \cup {Keep}
      BY <1>2, <1>3, <1>5 DEF TypeOK, RequestState, Dto, Exists
    <3>2. new = [state  |-> row[s].state,
                 active |-> IF dto.active = Keep THEN row[s].active ELSE dto.active,
                 cron   |-> IF dto.cron = Keep THEN row[s].cron ELSE dto.cron]
      BY <3>1 DEF Patched
    <3>3. /\ (IF dto.active = Keep THEN row[s].active ELSE dto.active) \in BOOLEAN
          /\ (IF dto.cron = Keep THEN row[s].cron ELSE dto.cron) \in Cron
      BY <3>1
    <3>4. QED
      BY <3>1, <3>2, <3>3
  <2> HIDE DEF new
  <2>3. row'[s] = new /\ \A u \in Schedule \ {s} : row'[u] = row[u]
    BY <1>2, <2>1 DEF TypeOK
  <2>4. /\ row' \in [Schedule -> [state : {"absent", "present", "deleted"},
                                 active : BOOLEAN, cron : Cron \cup {Keep}]]
        /\ \A u \in Schedule : row'[u].state = "present" => row'[u].cron \in Cron
    BY <1>2, <2>1, <2>2, <2>3 DEF TypeOK
  <2>5. Wanted(s)' = IF new.active THEN {new.cron} ELSE {}
    BY <2>2, <2>3 DEF Wanted, Exists
  <2>6. CASE Relists(new, req[r].wasActive, dto)
    <3>1. req' = [req EXCEPT ![r].step = "add", ![r].key = new.cron]
      BY <1>5, <2>6 DEF WriteUpdate, new
    <3>2. /\ req'[r] = [req[r] EXCEPT !.step = "add", !.key = new.cron]
          /\ \A q \in Request \ {r} : req'[q] = req[q]
      BY <1>2, <3>1 DEF TypeOK
    <3>3. TypeOK'
      BY <1>1, <1>2, <1>3, <2>2, <2>4, <3>1 DEF TypeOK, RequestState, Step
    <3>4. s \notin overlapped => JobsOf(s) = {}
      BY <1>1, <1>2, <2>6 DEF Progress, Relists, Unlists, Mirrors, Wanted
    <3>5. SlotInv(r)'
      BY <1>1, <1>2, <1>3, <2>2, <2>3, <2>5, <2>6, <3>2, <3>4
         DEF SlotInv, Progress, RequestState, Relists
    <3>6. QED
      <4>1. req'[r].id = s /\ s # NoSchedule /\ row'[s].state # "absent"
        BY <1>3, <2>2, <2>3, <3>2 DEF RequestState
      <4>2. QED
        BY <1>1, <2>3, <3>2, <3>3, <3>5, <4>1, Compose
  <2>7. CASE ~Relists(new, req[r].wasActive, dto)
    <3>1. req' = [req EXCEPT ![r].step = "audit"]
      BY <1>5, <2>7 DEF WriteUpdate, Goto, new
    <3>2. /\ req'[r] = [req[r] EXCEPT !.step = "audit"]
          /\ \A q \in Request \ {r} : req'[q] = req[q]
      BY <1>2, <3>1 DEF TypeOK
    <3>3. TypeOK'
      BY <1>1, <1>2, <1>3, <2>2, <2>4, <3>1 DEF TypeOK, RequestState, Step
    <3>4. s \notin overlapped => Mirrors(s)'
      <4>1. SUFFICES ASSUME s \notin overlapped PROVE Mirrors(s)'
        OBVIOUS
      <4>2. req[r].wasActive = row[s].active /\ row[s].active \in BOOLEAN
        BY <1>1, <1>2, <4>1 DEF Progress, TypeOK
      <4>3. CASE Unlists(req[r].wasActive, dto)
        <5>1. JobsOf(s) = {}
          BY <1>1, <1>2, <4>1, <4>3 DEF Progress
        <5>2. ~new.active
          BY <2>2, <2>7, <4>3 DEF Unlists, Relists
        <5>3. QED
          BY <1>1, <1>3, <2>5, <5>1, <5>2 DEF Mirrors
      <4>4. CASE ~Unlists(req[r].wasActive, dto)
        <5>1. Mirrors(s)
          BY <1>1, <1>2, <4>1, <4>4 DEF Progress
        <5>2. Wanted(s)' = Wanted(s)
          BY <1>3, <1>5, <2>2, <2>5, <2>7, <4>2, <4>4
             DEF Wanted, Unlists, Relists, RequestState, Dto
        <5>3. QED
          BY <1>1, <1>3, <5>1, <5>2 DEF Mirrors
      <4>5. QED
        BY <4>3, <4>4
    <3>5. SlotInv(r)'
      BY <1>1, <1>2, <1>3, <2>2, <2>3, <3>2, <3>4 DEF SlotInv, Progress, RequestState
    <3>6. QED
      BY <1>1, <1>2, <1>3, <2>2, <2>3, <3>2, <3>3, <3>5, Compose DEF RequestState
  <2>8. QED
    BY <2>6, <2>7
<1>6. QED
  BY <1>4, <1>5

\* The first step of a request: a slot that was idle takes up a schedule, and finds it
\* mirrored by the queue unless another request is working on it.
LEMMA BeginNext ==
  ASSUME IInv, NEW r \in Request, NEW s \in Schedule, req[r].step = "idle",
         TypeOK',
         overlapped' = (IF Quiet(s) THEN overlapped ELSE overlapped \cup {s}),
         \A q \in Request \ {r} : req'[q] = req[q],
         req'[r].id = s, req'[r].step # "idle",
         \A u \in Schedule \ {s} : row'[u] = row[u],
         row'[s].state # "absent",
         UNCHANGED <<repeatable, due, failed, triggers>>,
         req'[r].step \in {"unkey", "add"} => req'[r].key \in Cron,
         ~Quiet(s) => row' = row,
         s \notin overlapped /\ Quiet(s) /\ (\A q \in Request : req'[q].id = s => q = r)
             => Progress(r)'
  PROVE  IInv'
<1> USE SchedulesAssumption
<1>1. req[r].id = NoSchedule
  BY DEF IInv, SlotInv
<1>2. \A u \in Schedule \ {s} :
        /\ JobsOf(u)' = JobsOf(u) /\ Wanted(u)' = Wanted(u) /\ Exists(u)' = Exists(u)
        /\ Quiet(u)' <=> Quiet(u)
        /\ u \in overlapped' <=> u \in overlapped
  <2> TAKE u \in Schedule \ {s}
  <2>1. JobsOf(u)' = JobsOf(u)
    BY DEF JobsOf
  <2>2. Wanted(u)' = Wanted(u) /\ Exists(u)' = Exists(u)
    BY DEF Wanted, Exists
  <2>3. Quiet(u)' <=> Quiet(u)
    BY <1>1 DEF Quiet
  <2>4. u \in overlapped' <=> u \in overlapped
    OBVIOUS
  <2> QED
    BY <2>1, <2>2, <2>3, <2>4
<1>3. \A u \in Schedule \ {s} : Mirrors(u)' <=> Mirrors(u)
  BY <1>2 DEF Mirrors
<1>4. ASSUME NEW u \in Schedule PROVE ScheduleInv(u)'
  <2>1. due'[u] <= triggers'
    BY DEF IInv, ScheduleInv
  <2>2. CASE u = s
    BY <2>1, <2>2 DEF ScheduleInv, Quiet
  <2>3. CASE u # s
    BY <1>2, <1>3, <2>1, <2>3 DEF IInv, ScheduleInv
  <2>4. QED
    BY <2>2, <2>3
<1>5. ASSUME NEW q \in Request \ {r} PROVE SlotInv(q)'
  <2>1. req'[q] = req[q] /\ SlotInv(q)
    BY DEF IInv
  <2>2. CASE req[q].step = "idle"
    BY <2>1, <2>2 DEF SlotInv
  <2>3. CASE req[q].step # "idle" /\ req[q].id = s
    <3>1. s \in overlapped' /\ row' = row
      BY <2>3 DEF Quiet
    <3>2. QED
      BY <2>1, <2>3, <3>1 DEF SlotInv
  <2>4. CASE req[q].step # "idle" /\ req[q].id # s
    <3>1. req[q].id \in Schedule \ {s}
      BY <2>1, <2>4 DEF SlotInv
    <3>2. Progress(q) => Progress(q)'
      BY <1>2, <1>3, <2>1, <3>1 DEF Progress
    <3>3. QED
      BY <1>2, <2>1, <2>4, <3>1, <3>2 DEF SlotInv
  <2>5. QED
    BY <2>2, <2>3, <2>4
<1>6. SlotInv(r)'
  <2>1. s \notin overlapped' => s \notin overlapped /\ Quiet(s)
    OBVIOUS
  <2>2. Quiet(s) => \A q \in Request : req'[q].id = s => q = r
    BY DEF Quiet
  <2>3. QED
    BY <2>1, <2>2 DEF SlotInv
<1>7. QED
  BY <1>4, <1>5, <1>6 DEF IInv

LEMMA CreateNext ==
  ASSUME IInv, NEW r \in Request, NEW s \in Schedule, NEW c \in Cron, NEW active \in BOOLEAN,
         Create(r, s, c, active)
  PROVE  IInv'
<1> USE SchedulesAssumption
<1> DEFINE new  == [state |-> "present", active |-> active, cron |-> c]
           step == IF active THEN "add" ELSE "audit"
           slot == [step |-> step, op |-> "create", id |-> s, wasActive |-> FALSE,
                    dto |-> NoDto, key |-> c]
<1>1. /\ row[s].state = "absent" /\ row' = [row EXCEPT ![s] = new]
      /\ req[r].step = "idle" /\ requests < MaxRequests /\ requests' = requests + 1
      /\ req' = [req EXCEPT ![r] = slot]
      /\ overlapped' = IF Quiet(s) THEN overlapped ELSE overlapped \cup {s}
      /\ UNCHANGED <<repeatable, due, failed, triggers, faults>>
  BY DEF Create, Begin
<1>2. TypeOK
  BY DEF IInv
<1>3. slot \in RequestState /\ slot.step # "idle" /\ slot.id = s /\ slot.key = c
  BY DEF RequestState, Step, NoDto, Dto
<1>4. Quiet(s)
  BY <1>1 DEF IInv, SlotInv, Quiet
<1>5. /\ req'[r] = slot /\ row'[s] = new
      /\ \A q \in Request \ {r} : req'[q] = req[q]
      /\ \A u \in Schedule \ {s} : row'[u] = row[u]
  BY <1>1, <1>2 DEF TypeOK
<1>6. TypeOK'
  <2>1. row' \in [Schedule -> [state : {"absent", "present", "deleted"},
                             active : BOOLEAN, cron : Cron \cup {Keep}]]
    BY <1>1, <1>2 DEF TypeOK
  <2>2. \A u \in Schedule : row'[u].state = "present" => row'[u].cron \in Cron
    BY <1>2, <1>5 DEF TypeOK
  <2>3. req' \in [Request -> RequestState]
    BY <1>1, <1>2, <1>3 DEF TypeOK
  <2>4. QED
    BY <1>1, <1>2, <2>1, <2>2, <2>3 DEF TypeOK
<1>7. s \notin overlapped => JobsOf(s) = {}
  BY <1>1, <1>4 DEF IInv, ScheduleInv, Mirrors, Wanted, Exists
<1>8. JobsOf(s)' = JobsOf(s) /\ Wanted(s)' = IF active THEN {c} ELSE {}
  <2>1. JobsOf(s)' = JobsOf(s)
    BY <1>1 DEF JobsOf
  <2>2. row'[s].state = "present" /\ row'[s].active = active /\ row'[s].cron = c
    BY <1>5
  <2> QED
    BY <2>1, <2>2 DEF Wanted, Exists
<1>9. s \notin overlapped => (active \/ Mirrors(s)')
  BY <1>7, <1>8 DEF Mirrors
<1>10. s \notin overlapped /\ (\A q \in Request : req'[q].id = s => q = r) => Progress(r)'
  BY <1>5, <1>7, <1>8, <1>9 DEF Progress
<1>11. QED
  BY <1>1, <1>3, <1>4, <1>5, <1>6, <1>10, BeginNext

LEMMA UpdateBeginNext ==
  ASSUME IInv, NEW r \in Request, NEW s \in Schedule, NEW dto \in Dto, Update(r, s, dto)
  PROVE  IInv'
<1> USE SchedulesAssumption
<1> DEFINE step == IF Unlists(row[s].active, dto) THEN "list" ELSE "update"
           slot == [step |-> step, op |-> "update", id |-> s, wasActive |-> row[s].active,
                    dto |-> dto, key |-> Keep]
<1>1. /\ Exists(s) /\ req[r].step = "idle"
      /\ requests < MaxRequests /\ requests' = requests + 1
      /\ req' = [req EXCEPT ![r] = slot]
      /\ overlapped' = IF Quiet(s) THEN overlapped ELSE overlapped \cup {s}
      /\ UNCHANGED <<row, repeatable, due, failed, triggers, faults>>
  BY DEF Update, Begin
<1>2. TypeOK
  BY DEF IInv
<1>3. slot \in RequestState /\ slot.step \in {"list", "update"} /\ slot.id = s
  BY <1>2 DEF RequestState, Step, TypeOK
<1>4. req'[r] = slot /\ \A q \in Request \ {r} : req'[q] = req[q]
  BY <1>1, <1>2 DEF TypeOK
<1>5. TypeOK'
  <2>1. req' \in [Request -> RequestState]
    BY <1>1, <1>2, <1>3 DEF TypeOK
  <2>2. QED
    BY <1>1, <1>2, <2>1 DEF TypeOK
<1>6. s \notin overlapped /\ Quiet(s) => Mirrors(s)
  BY DEF IInv, ScheduleInv
<1>7. /\ JobsOf(s)' = JobsOf(s) /\ Exists(s)'
      /\ Mirrors(s)' <=> Mirrors(s)
  BY <1>1 DEF JobsOf, Wanted, Exists, Mirrors
<1>8. s \notin overlapped /\ Quiet(s) /\ (\A q \in Request : req'[q].id = s => q = r)
        => Progress(r)'
  BY <1>1, <1>3, <1>4, <1>6, <1>7 DEF Progress
<1>9. QED
  BY <1>1, <1>3, <1>4, <1>5, <1>8, BeginNext DEF Exists

LEMMA RemoveBeginNext ==
  ASSUME IInv, NEW r \in Request, NEW s \in Schedule, Remove(r, s)
  PROVE  IInv'
<1> USE SchedulesAssumption
<1> DEFINE step == IF row[s].active THEN "list" ELSE "delete"
           slot == [step |-> step, op |-> "remove", id |-> s, wasActive |-> row[s].active,
                    dto |-> NoDto, key |-> Keep]
<1>1. /\ Exists(s) /\ req[r].step = "idle"
      /\ requests < MaxRequests /\ requests' = requests + 1
      /\ req' = [req EXCEPT ![r] = slot]
      /\ overlapped' = IF Quiet(s) THEN overlapped ELSE overlapped \cup {s}
      /\ UNCHANGED <<row, repeatable, due, failed, triggers, faults>>
  BY DEF Remove, Begin
<1>2. TypeOK
  BY DEF IInv
<1>3. slot \in RequestState /\ slot.step \in {"list", "delete"} /\ slot.id = s
  BY <1>2 DEF RequestState, Step, TypeOK, NoDto, Dto
<1>4. req'[r] = slot /\ \A q \in Request \ {r} : req'[q] = req[q]
  BY <1>1, <1>2 DEF TypeOK
<1>5. TypeOK'
  <2>1. req' \in [Request -> RequestState]
    BY <1>1, <1>2, <1>3 DEF TypeOK
  <2>2. QED
    BY <1>1, <1>2, <2>1 DEF TypeOK
<1>6. s \notin overlapped /\ Quiet(s) => Mirrors(s) /\ (~row[s].active => JobsOf(s) = {})
  BY DEF IInv, ScheduleInv, Mirrors, Wanted
<1>7. /\ JobsOf(s)' = JobsOf(s) /\ Exists(s)'
      /\ Mirrors(s)' <=> Mirrors(s)
  BY <1>1 DEF JobsOf, Wanted, Exists, Mirrors
<1>8. s \notin overlapped /\ Quiet(s) /\ (\A q \in Request : req'[q].id = s => q = r)
        => Progress(r)'
  BY <1>1, <1>3, <1>4, <1>6, <1>7 DEF Progress
<1>9. QED
  BY <1>1, <1>3, <1>4, <1>5, <1>8, BeginNext DEF Exists

\* A step that touches neither the rows, the repeatable jobs nor the requests.
LEMMA ClockNext ==
  ASSUME IInv, TypeOK', \A s \in Schedule : due'[s] <= triggers',
         UNCHANGED <<row, repeatable, req, overlapped, failed>>
  PROVE  IInv'
<1>1. \A s \in Schedule :
        /\ JobsOf(s)' = JobsOf(s) /\ Wanted(s)' = Wanted(s) /\ Exists(s)' = Exists(s)
        /\ Mirrors(s)' <=> Mirrors(s)
        /\ Quiet(s)' <=> Quiet(s)
  BY DEF JobsOf, Wanted, Exists, Mirrors, Quiet
<1>2. \A s \in Schedule : ScheduleInv(s)'
  BY <1>1 DEF IInv, ScheduleInv
<1>3. \A r \in Request : SlotInv(r)'
  BY <1>1 DEF IInv, SlotInv, Progress
<1>4. QED
  BY <1>2, <1>3 DEF IInv

LEMMA INext == IInv /\ [Next]_vars => IInv'
<1> SUFFICES ASSUME IInv, [Next]_vars PROVE IInv'
  OBVIOUS
<1> USE SchedulesAssumption
<1>1. ASSUME NEW r \in Request, Proceed(r) \/ Fault(r) PROVE IInv'
  <2>1. req[r].step # "idle"
    BY <1>1 DEF Proceed, Fault, ListJobs, UnlistJob, WriteUpdate, AddJob, WriteDelete, Audit
  <2>2. PICK s \in Schedule : s = req[r].id
    BY <2>1 DEF IInv, SlotInv
  <2>3. QED
    BY <1>1, <2>2, AuditNext, FaultNext, ListNext, UnlistNext, AddNext, DeleteNext, UpdateNext
       DEF Proceed
<1>2. ASSUME NEW s \in Schedule, NEW c \in Cron, Fire(s, c) PROVE IInv'
  <2>1. /\ triggers < MaxTriggers /\ triggers' = triggers + 1
        /\ due' = [due EXCEPT ![s] = @ + 1]
        /\ UNCHANGED <<row, repeatable, req, overlapped, failed, requests, faults>>
    BY <1>2 DEF Fire, historyVars
  <2>2. TypeOK /\ \A u \in Schedule : due[u] <= triggers
    BY DEF IInv, ScheduleInv
  <2>3. \A u \in Schedule : due'[u] \in 0..MaxTriggers /\ due'[u] <= triggers'
    BY <2>1, <2>2 DEF TypeOK
  <2>4. TypeOK'
    BY <2>1, <2>2, <2>3 DEF TypeOK
  <2>5. QED
    BY <2>1, <2>3, <2>4, ClockNext
<1>3. ASSUME NEW s \in Schedule, HandleTrigger(s) PROVE IInv'
  <2>1. /\ due[s] > 0 /\ due' = [due EXCEPT ![s] = @ - 1]
        /\ UNCHANGED <<row, repeatable, req, overlapped, failed, requests, triggers, faults>>
    BY <1>3 DEF HandleTrigger, historyVars, budgetVars
  <2>2. TypeOK /\ \A u \in Schedule : due[u] <= triggers
    BY DEF IInv, ScheduleInv
  <2>3. \A u \in Schedule : due'[u] \in 0..MaxTriggers /\ due'[u] <= triggers'
    BY <2>1, <2>2 DEF TypeOK
  <2>4. TypeOK'
    BY <2>1, <2>2, <2>3 DEF TypeOK
  <2>5. QED
    BY <2>1, <2>3, <2>4, ClockNext
<1>4. CASE UNCHANGED vars
  <2>1. UNCHANGED <<row, repeatable, due, req, overlapped, failed, requests, triggers, faults>>
    BY <1>4 DEF vars, historyVars, budgetVars
  <2>2. TypeOK' /\ \A s \in Schedule : due'[s] <= triggers'
    BY <2>1 DEF IInv, TypeOK, ScheduleInv
  <2>3. QED
    BY <2>1, <2>2, ClockNext
<1>5. QED
  BY <1>1, <1>2, <1>3, <1>4, CreateNext, UpdateBeginNext, RemoveBeginNext DEF Next

LEMMA IInvariant == Spec => []IInv
  BY IInit, INext, PTL DEF Spec

\* Type correctness: a row that is there has a cron, and no more triggers wait than fired.
THEOREM SchedulesTypeOK == Spec => []TypeOK
  BY IInvariant, PTL DEF IInv

\* A failing call or a process that dies between the queue and the database, in a request
\* that has its schedule to itself, never leaves a repeatable job the row does not call for.
THEOREM SchedulesNoStaleJob == Spec => []NoStaleJob
<1>1. IInv => NoStaleJob
  BY DEF IInv, ScheduleInv, Mirrors, NoStaleJob
<1>2. QED
  BY <1>1, IInvariant, PTL

\* Between requests that came one at a time and did not fail, queue and rows agree.
THEOREM SchedulesRowAndQueueAgree == Spec => []RowAndQueueAgree
<1>1. IInv => RowAndQueueAgree
  BY DEF IInv, ScheduleInv, Mirrors, RowAndQueueAgree
<1>2. QED
  BY <1>1, IInvariant, PTL

\* A schedule whose requests do not overlap never fires on two crons, not even while one
\* of them is being served or after it failed.
THEOREM SchedulesAtMostOneJob == Spec => []AtMostOneJob
<1>1. ASSUME IInv, NEW s \in Schedule \ overlapped, NEW c \in JobsOf(s), NEW d \in JobsOf(s)
      PROVE  c = d
  <2>1. CASE Quiet(s)
    BY <1>1, <2>1 DEF IInv, ScheduleInv, Mirrors, Wanted
  <2>2. CASE ~Quiet(s)
    <3>1. PICK r \in Request : req[r].id = s
      BY <2>2 DEF Quiet
    <3>2. /\ req[r].step \in Step /\ Progress(r)
      BY <1>1, <3>1, SchedulesAssumption DEF IInv, SlotInv, TypeOK, RequestState
    <3>3. req[r].step # "idle"
      BY <1>1, <3>1, SchedulesAssumption DEF IInv, SlotInv
    <3>4. QED
      BY <1>1, <3>1, <3>2, <3>3 DEF Progress, Mirrors, Wanted, Step
  <2>3. QED
    BY <2>1, <2>2
<1>2. IInv => AtMostOneJob
  BY <1>1 DEF AtMostOneJob
<1>3. QED
  BY <1>2, IInvariant, PTL

=============================================================================
