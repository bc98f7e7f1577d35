------------------------------ MODULE Schedules ------------------------------
(***************************************************************************)
(* SchedulesService and SchedulesProcessor: the schedule rows, the         *)
(* repeatable jobs of the Bull queue 'schedules' that are meant to mirror  *)
(* them, and the trigger-scan jobs those fire.  Database and Redis are     *)
(* written in separate awaits with no transaction over both, so every      *)
(* await is a boundary between two actions.                                *)
(*                                                                         *)
(* Bull keys a repeatable job by its name, its jobId and its cron: the job *)
(* of schedule s with cron c is the pair <<s, c>>.  Adding it twice is     *)
(* idempotent; adding it with another cron makes a second job.             *)
(*                                                                         *)
(* A request that is refused (no such row, no permission) changes nothing  *)
(* and is not an action.  A failing call and a process that dies leave the *)
(* same state behind: Fault stands for both.                               *)
(***************************************************************************)
EXTENDS Naturals

CONSTANTS
    Schedule, Cron,
    Request,        \* slots for concurrent POST, PATCH and DELETE requests
    NoSchedule,
    Keep,           \* a field the PATCH body leaves out; also "no cron"
    ProcessorWired, \* whether SchedulesProcessor is a provider of a loaded module
    MaxRequests, MaxTriggers, MaxFaults  \* bounds on clients, on the clock and on failures

ASSUME SchedulesAssumption ==
    /\ NoSchedule \notin Schedule
    /\ Keep \notin Cron \cup BOOLEAN
    /\ ProcessorWired \in BOOLEAN
    /\ MaxRequests \in Nat
    /\ MaxTriggers \in Nat
    /\ MaxFaults \in Nat

VARIABLES
    row,        \* schedules: whether the row is there, its active and cron_expression
    repeatable, \* the repeatable jobs of the queue
    due,        \* the trigger-scan jobs of a schedule that wait for a consumer
    req,        \* what each request slot is doing
    overlapped, \* history: the schedules two requests worked on at once
    failed,     \* history: the schedules a request failed on half-way
    requests, triggers, faults  \* the budgets already used

historyVars == <<overlapped, failed>>
budgetVars == <<requests, triggers, faults>>
vars == <<row, repeatable, due, req, historyVars, budgetVars>>

\* A PATCH body; POST and DELETE have none the later steps look at.
Dto  == [active : BOOLEAN \cup {Keep}, cron : Cron \cup {Keep}]
Step == {"idle", "list", "unkey", "update", "delete", "add", "audit"}

\* A request slot: the schedule and the body, the row's active flag as first read, and
\* the cron of the job it is about to remove or add.
RequestState ==
    [step : Step, op : {"create", "update", "remove"}, id : Schedule \cup {NoSchedule},
     wasActive : BOOLEAN, dto : Dto, key : Cron \cup {Keep}]

NoDto == [active |-> Keep, cron |-> Keep]
Idle  == [step |-> "idle", op |-> "create", id |-> NoSchedule, wasActive |-> FALSE,
          dto |-> NoDto, key |-> Keep]

TypeOK ==
    /\ row \in [Schedule -> [state : {"absent", "present", "deleted"},
                             active : BOOLEAN, cron : Cron \cup {Keep}]]
    /\ \A s \in Schedule : row[s].state = "present" => row[s].cron \in Cron
    /\ repeatable \subseteq Schedule \X Cron
    /\ due \in [Schedule -> 0..MaxTriggers]
    /\ req \in [Request -> RequestState]
    /\ overlapped \subseteq Schedule
    /\ failed \subseteq Schedule
    /\ requests \in 0..MaxRequests
    /\ triggers \in 0..MaxTriggers
    /\ faults \in 0..MaxFaults

Init ==
    /\ row = [s \in Schedule |-> [state |-> "absent", active |-> FALSE, cron |-> Keep]]
    /\ repeatable = {}
    /\ due = [s \in Schedule |-> 0]
    /\ req = [r \in Request |-> Idle]
    /\ overlapped = {}
    /\ failed = {}
    /\ requests = 0
    /\ triggers = 0
    /\ faults = 0

Exists(s)  == row[s].state = "present"
JobsOf(s)  == {c \in Cron : <<s, c>> \in repeatable}
Quiet(s)   == \A r \in Request : req[r].id # s
\* The jobs the row calls for.
Wanted(s)  == IF Exists(s) /\ row[s].active THEN {row[s].cron} ELSE {}

\* Slot r starts a request for s that goes on at `step`; a second request for the same
\* schedule makes the two overlap.
Begin(r, s, op, step, wasActive, dto, key) ==
    /\ req[r].step = "idle"
    /\ requests < MaxRequests
    /\ requests' = requests + 1
    /\ req' = [req EXCEPT ![r] = [step |-> step, op |-> op, id |-> s,
                                  wasActive |-> wasActive, dto |-> dto, key |-> key]]
    /\ overlapped' = IF Quiet(s) THEN overlapped ELSE overlapped \cup {s}
    /\ UNCHANGED <<due, failed, triggers, faults>>

Goto(r, step) == req' = [req EXCEPT ![r].step = step]
End(r)        == req' = [req EXCEPT ![r] = Idle]

-----------------------------------------------------------------------------
(* SchedulesService.create, update and remove *)

\* The insert; an active schedule still has to be added to the queue.
Create(r, s, c, active) ==
    /\ row[s].state = "absent"
    /\ row' = [row EXCEPT ![s] = [state |-> "present", active |-> active, cron |-> c]]
    /\ Begin(r, s, "create", IF active THEN "add" ELSE "audit", FALSE, NoDto, c)
    /\ UNCHANGED repeatable

\* Mutant of Unlists: the job is dropped only on deactivation, not for a new cron.
UnlistsOnlyInactive(wasActive, dto) == wasActive /\ dto.active = FALSE

\* Whether a PATCH removes the schedule's job before it writes the row.
Unlists(wasActive, dto) == wasActive /\ (dto.active = FALSE \/ dto.cron # Keep)

\* PATCH reads the row and decides on what it read.
Update(r, s, dto) ==
    /\ Exists(s)
    /\ Begin(r, s, "update", IF Unlists(row[s].active, dto) THEN "list" ELSE "update",
             row[s].active, dto, Keep)
    /\ UNCHANGED <<row, repeatable>>

\* Mutant of Remove: the row is deleted without a look at the queue.
RemoveWithoutUnlisting(r, s) ==
    /\ Exists(s)
    /\ Begin(r, s, "remove", "delete", row[s].active, NoDto, Keep)
    /\ UNCHANGED <<row, repeatable>>

\* DELETE reads the row and decides on what it read.
Remove(r, s) ==
    /\ Exists(s)
    /\ Begin(r, s, "remove", IF row[s].active THEN "list" ELSE "delete",
             row[s].active, NoDto, Keep)
    /\ UNCHANGED <<row, repeatable>>

\* The step after removeScheduleFromQueue.
AfterUnlisting(r) == IF req[r].op = "remove" THEN "delete" ELSE "update"

\* getRepeatableJobs and find: the first job with the schedule's jobId, if there is one.
ListJobs(r) ==
    LET s == req[r].id IN
    /\ req[r].step = "list"
    /\ IF JobsOf(s) = {}
       THEN Goto(r, AfterUnlisting(r))
       ELSE \E c \in JobsOf(s) : req' = [req EXCEPT ![r].step = "unkey", ![r].key = c]
    /\ UNCHANGED <<row, repeatable, due, historyVars, budgetVars>>

\* removeRepeatableByKey; it is no error if the job is gone by now.
UnlistJob(r) ==
    /\ req[r].step = "unkey"
    /\ repeatable' = repeatable \ {<<req[r].id, req[r].key>>}
    /\ Goto(r, AfterUnlisting(r))
    /\ UNCHANGED <<row, due, historyVars, budgetVars>>

\* Mutant of Patched: a cron the body leaves out is blanked instead of kept.
PatchedBlank(old, dto) ==
    [state  |-> old.state,
     active |-> IF dto.active = Keep THEN old.active ELSE dto.active,
     cron   |-> dto.cron]

\* The fields of the body that are there overwrite the row's.
Patched(old, dto) ==
    [state  |-> old.state,
     active |-> IF dto.active = Keep THEN old.active ELSE dto.active,
     cron   |-> IF dto.cron = Keep THEN old.cron ELSE dto.cron]

\* Mutant of Relists: a reactivated schedule is added only when its cron changes too.
RelistsOnlyCron(new, wasActive, dto) == new.active /\ dto.cron # Keep

\* Whether a PATCH adds the job of the row it has written.
Relists(new, wasActive, dto) == new.active /\ (~wasActive \/ dto.cron # Keep)

\* schedule.update; P2025 ends the request when the row went in between.
WriteUpdate(r) ==
    LET s   == req[r].id
        new == Patched(row[s], req[r].dto)
    IN
    /\ req[r].step = "update"
    /\ IF Exists(s)
       THEN /\ row' = [row EXCEPT ![s] = new]
            /\ IF Relists(new, req[r].wasActive, req[r].dto)
               THEN req' = [req EXCEPT ![r].step = "add", ![r].key = new.cron]
               ELSE Goto(r, "audit")
       ELSE End(r) /\ UNCHANGED row
    /\ UNCHANGED <<repeatable, due, historyVars, budgetVars>>

\* addScheduleToQueue, with the row as this request wrote it.
AddJob(r) ==
    /\ req[r].step = "add"
    /\ repeatable' = repeatable \cup {<<req[r].id, req[r].key>>}
    /\ Goto(r, "audit")
    /\ UNCHANGED <<row, due, historyVars, budgetVars>>

\* schedule.delete; P2025 ends the request when the row went in between.
WriteDelete(r) ==
    LET s == req[r].id IN
    /\ req[r].step = "delete"
    /\ IF Exists(s)
       THEN /\ row' = [row EXCEPT ![s].state = "deleted"]
            /\ Goto(r, "audit")
       ELSE End(r) /\ UNCHANGED row
    /\ UNCHANGED <<repeatable, due, historyVars, budgetVars>>

\* The audit row, then the answer.
Audit(r) ==
    /\ req[r].step = "audit"
    /\ End(r)
    /\ UNCHANGED <<row, repeatable, due, historyVars, budgetVars>>

Fault(r) ==
    /\ req[r].step # "idle"
    /\ faults < MaxFaults
    /\ faults' = faults + 1
    /\ End(r)
    /\ failed' = failed \cup {req[r].id}
    /\ UNCHANGED <<row, repeatable, due, overlapped, requests, triggers>>

Proceed(r) ==
    \/ ListJobs(r) \/ UnlistJob(r) \/ WriteUpdate(r) \/ AddJob(r) \/ WriteDelete(r) \/ Audit(r)

-----------------------------------------------------------------------------
(* The clock and the consumer *)

\* A repeatable job comes due: Bull puts a trigger-scan job into the queue.
Fire(s, c) ==
    /\ <<s, c>> \in repeatable
    /\ triggers < MaxTriggers
    /\ triggers' = triggers + 1
    /\ due' = [due EXCEPT ![s] = @ + 1]
    /\ UNCHANGED <<row, repeatable, req, historyVars, requests, faults>>

\* handleTriggerScan takes a job off the queue, whether triggerScan then finds the
\* schedule, is refused, or starts a scan (which is a Create of module Scans).
HandleTrigger(s) ==
    /\ ProcessorWired
    /\ due[s] > 0
    /\ due' = [due EXCEPT ![s] = @ - 1]
    /\ UNCHANGED <<row, repeatable, req, historyVars, budgetVars>>

-----------------------------------------------------------------------------

Next ==
    \/ \E r \in Request, s \in Schedule :
        \/ \E c \in Cron, active \in BOOLEAN : Create(r, s, c, active)
        \/ \E dto \in Dto : Update(r, s, dto)
        \/ Remove(r, s)
    \/ \E r \in Request : Proceed(r) \/ Fault(r)
    \/ \E s \in Schedule : (\E c \in Cron : Fire(s, c)) \/ HandleTrigger(s)

Spec == Init /\ [][Next]_vars

\* A request goes on to its answer, and a consumer, where one is registered, takes jobs.
Fairness ==
    /\ \A r \in Request : WF_vars(Proceed(r))
    /\ \A s \in Schedule : WF_vars(HandleTrigger(s))

FairSpec == Spec /\ Fairness

-----------------------------------------------------------------------------
(* Properties *)

\* After requests that came one at a time and did not fail, an active schedule has
\* exactly the job of its current cron, and an inactive or deleted one has none.
RowAndQueueAgree ==
    \A s \in Schedule \ (overlapped \cup failed) : Quiet(s) => JobsOf(s) = Wanted(s)

\* A failure half-way may lose the job of a schedule but leaves no stale one: what is
\* still in the queue is the job of the row as it stands.
NoStaleJob == \A s \in Schedule \ overlapped : Quiet(s) => JobsOf(s) \subseteq Wanted(s)

\* Not even in the middle of a request, or after one that failed, does a schedule fire
\* on two crons: the old job is gone before the new one is added.
AtMostOneJob == \A s \in Schedule \ overlapped : \A c, d \in JobsOf(s) : c = d

\* A deleted schedule leaves no repeatable job behind, whatever requests overlapped
\* ("Remove from queue if active").  The code does not ensure it.
DeletedScheduleHasNoJob ==
    \A s \in Schedule : row[s].state = "deleted" /\ Quiet(s) => JobsOf(s) = {}

\* The jobs that came due are consumed: the scans of a schedule do get started
\* ("Set up recurring scans").  The code registers no consumer.
DueTriggersRun == \A s \in Schedule : due[s] > 0 ~> due[s] = 0

=============================================================================
