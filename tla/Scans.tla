-------------------------------- MODULE Scans --------------------------------
(***************************************************************************)
(* The scan pipeline: ScansService (the HTTP side, which writes the scan   *)
(* rows and feeds the Bull queue 'scans') and ScansProcessor (the queue's  *)
(* consumer).  Every await of the code is a boundary between two actions,  *)
(* so requests and handlers interleave as they do on a Node event loop and *)
(* across processes.                                                       *)
(*                                                                         *)
(* A call that fails and a process that dies inside an HTTP request leave  *)
(* the same state behind, so one "Fault" stands for both there.  In the    *)
(* handler they differ: a failing call reaches the catch block, a crash    *)
(* does not.  A write that commits although its caller sees an error needs *)
(* no action of its own: it leaves the state of a committed write followed *)
(* by a fault of the next call.                                            *)
(***************************************************************************)
EXTENDS Naturals, FiniteSets

CONSTANTS
    Scan,             \* scan ids; each is the scan one POST request creates
    Worker,           \* handler slots of the 'scans' queue (concurrency 1 per process)
    Remover,          \* DELETE requests
    NoScan, NoWorker, \* "no scan", "no lock holder"
    MaxStalledCount,  \* Bull's maxStalledCount: how often a stalled job is requeued
    MaxCrashes,       \* bound: crashes of a process that is running the handler
    MaxFaults,        \* bound: failing database, queue and audit calls
    MaxLockLosses     \* bound: locks that expire although the handler lives

ASSUME ScansAssumption ==
    /\ NoScan \notin Scan
    /\ NoWorker \notin Worker
    /\ MaxStalledCount \in Nat
    /\ MaxCrashes \in Nat
    /\ MaxFaults \in Nat
    /\ MaxLockLosses \in Nat

VARIABLES
    status,       \* scans.status; "absent" before the insert, "deleted" after the delete
    results,      \* whether scans.completed_at and scans.results are set
    createPc,     \* where the POST request that creates the scan stands
    removePc,     \* where a DELETE request stands
    removeId,     \* the scan a DELETE request names
    job,          \* the state of the scan's job in the queue
    lock,         \* the worker that holds the job's lock
    stalls,       \* the job's stalledCounter
    hscan,        \* the scan a worker's handler is busy with
    hstep,        \* the call the handler makes next
    hgoal,        \* the status the handler is heading for
    completedLog, \* SCAN_COMPLETED audit rows of the scan
    lapses,       \* history: the failures that hit the scan's requests and handlers
    crashes, faults, lockLosses   \* the budgets already used

rowVars     == <<status, results>>
requestVars == <<createPc, removePc, removeId>>
queueVars   == <<job, lock, stalls>>
handlerVars == <<hscan, hstep, hgoal>>
budgetVars  == <<crashes, faults, lockLosses>>
vars == <<rowVars, requestVars, queueVars, handlerVars, completedLog, lapses, budgetVars>>

\* The enum ScanStatus of the schema.
ScanStatus == {"QUEUED", "RUNNING", "COMPLETED", "FAILED"}
JobState   == {"none", "waiting", "active", "completed", "failed"}
CreateStep == {"idle", "refused", "inserted", "enqueued", "created", "error"}
RemoveStep == {"idle", "refused", "found", "deleted", "removed", "error"}
HandlerStep == {"idle", "find", "write", "load", "audit", "ack"}
Lapse == {"enqueue", "audit", "markFailed", "lock"}

\* Every variable has its type; a busy handler has a scan and an idle one none.
TypeOK ==
    /\ status \in [Scan -> ScanStatus \cup {"absent", "deleted"}]
    /\ results \in [Scan -> BOOLEAN]
    /\ createPc \in [Scan -> CreateStep]
    /\ removePc \in [Remover -> RemoveStep]
    /\ removeId \in [Remover -> Scan \cup {NoScan}]
    /\ job \in [Scan -> JobState]
    /\ lock \in [Scan -> Worker \cup {NoWorker}]
    /\ stalls \in [Scan -> 0..(MaxStalledCount + 1)]
    /\ hscan \in [Worker -> Scan \cup {NoScan}]
    /\ hstep \in [Worker -> HandlerStep]
    /\ hgoal \in [Worker -> {"RUNNING", "COMPLETED", "FAILED"}]
    /\ completedLog \in [Scan -> Nat]
    /\ lapses \in [Scan -> SUBSET Lapse]
    /\ crashes \in 0..MaxCrashes
    /\ faults \in 0..MaxFaults
    /\ lockLosses \in 0..MaxLockLosses
    /\ \A w \in Worker : hstep[w] = "idle" <=> hscan[w] = NoScan

Init ==
    /\ status = [s \in Scan |-> "absent"]
    /\ results = [s \in Scan |-> FALSE]
    /\ createPc = [s \in Scan |-> "idle"]
    /\ removePc = [r \in Remover |-> "idle"]
    /\ removeId = [r \in Remover |-> NoScan]
    /\ job = [s \in Scan |-> "none"]
    /\ lock = [s \in Scan |-> NoWorker]
    /\ stalls = [s \in Scan |-> 0]
    /\ hscan = [w \in Worker |-> NoScan]
    /\ hstep = [w \in Worker |-> "idle"]
    /\ hgoal = [w \in Worker |-> "RUNNING"]
    /\ completedLog = [s \in Scan |-> 0]
    /\ lapses = [s \in Scan |-> {}]
    /\ crashes = 0
    /\ faults = 0
    /\ lockLosses = 0

Exists(s) == status[s] \in ScanStatus
Busy(w)   == hstep[w] # "idle"

UseFault ==
    /\ faults < MaxFaults
    /\ faults' = faults + 1
    /\ UNCHANGED <<crashes, lockLosses>>

NoteLapse(s, what) == lapses' = [lapses EXCEPT ![s] = @ \cup what]

-----------------------------------------------------------------------------
(* ScansService.create *)

\* The workspace is missing, the caller is not its owner or an ADMIN member, or
\* the insert violates a foreign key: no row is written.
CreateRefused(s) ==
    /\ createPc[s] = "idle"
    /\ createPc' = [createPc EXCEPT ![s] = "refused"]
    /\ UNCHANGED <<rowVars, removePc, removeId, queueVars, handlerVars,
                   completedLog, lapses, budgetVars>>

CreateInsert(s) ==
    /\ createPc[s] = "idle"
    /\ createPc' = [createPc EXCEPT ![s] = "inserted"]
    /\ status' = [status EXCEPT ![s] = "QUEUED"]
    /\ UNCHANGED <<results, removePc, removeId, queueVars, handlerVars,
                   completedLog, lapses, budgetVars>>

CreateEnqueue(s) ==
    /\ createPc[s] = "inserted"
    /\ createPc' = [createPc EXCEPT ![s] = "enqueued"]
    /\ job' = [job EXCEPT ![s] = "waiting"]
    /\ UNCHANGED <<rowVars, removePc, removeId, lock, stalls, handlerVars,
                   completedLog, lapses, budgetVars>>

\* The CREATE_SCAN audit row, then the answer 201.
CreateAudit(s) ==
    /\ createPc[s] = "enqueued"
    /\ createPc' = [createPc EXCEPT ![s] = "created"]
    /\ UNCHANGED <<rowVars, removePc, removeId, queueVars, handlerVars,
                   completedLog, lapses, budgetVars>>

\* queue.add or the audit fails, or the process dies first: nothing is undone.
CreateFault(s) ==
    /\ createPc[s] \in {"inserted", "enqueued"}
    /\ createPc' = [createPc EXCEPT ![s] = "error"]
    /\ NoteLapse(s, IF createPc[s] = "inserted" THEN {"enqueue"} ELSE {})
    /\ UseFault
    /\ UNCHANGED <<rowVars, removePc, removeId, queueVars, handlerVars, completedLog>>

Create(s) == CreateRefused(s) \/ CreateInsert(s) \/ CreateEnqueue(s) \/ CreateAudit(s)

-----------------------------------------------------------------------------
(* ScansService.remove: the job stays in the queue. *)

RemoveGoto(r, step) == removePc' = [removePc EXCEPT ![r] = step]

\* The row is missing, or the caller may not delete it.
RemoveRefused(r) ==
    /\ removePc[r] = "idle"
    /\ RemoveGoto(r, "refused")
    /\ UNCHANGED <<rowVars, createPc, removeId, queueVars, handlerVars,
                   completedLog, lapses, budgetVars>>

RemoveFind(r, s) ==
    /\ removePc[r] = "idle"
    /\ Exists(s)
    /\ RemoveGoto(r, "found")
    /\ removeId' = [removeId EXCEPT ![r] = s]
    /\ UNCHANGED <<rowVars, createPc, queueVars, handlerVars,
                   completedLog, lapses, budgetVars>>

RemoveDelete(r) ==
    LET s == removeId[r] IN
    /\ removePc[r] = "found"
    /\ IF Exists(s)
       THEN /\ RemoveGoto(r, "deleted")
            /\ status' = [status EXCEPT ![s] = "deleted"]
       ELSE \* another request deleted it in between: P2025
            /\ RemoveGoto(r, "error")
            /\ UNCHANGED status
    /\ UNCHANGED <<results, createPc, removeId, queueVars, handlerVars,
                   completedLog, lapses, budgetVars>>

\* The DELETE_SCAN audit row.
RemoveAudit(r) ==
    /\ removePc[r] = "deleted"
    /\ RemoveGoto(r, "removed")
    /\ UNCHANGED <<rowVars, createPc, removeId, queueVars, handlerVars,
                   completedLog, lapses, budgetVars>>

RemoveFault(r) ==
    /\ removePc[r] \in {"found", "deleted"}
    /\ RemoveGoto(r, "error")
    /\ UseFault
    /\ UNCHANGED <<rowVars, createPc, removeId, queueVars, handlerVars,
                   completedLog, lapses>>

Remove(r) ==
    \/ RemoveRefused(r)
    \/ \E s \in Scan : RemoveFind(r, s)
    \/ RemoveDelete(r)
    \/ RemoveAudit(r)

-----------------------------------------------------------------------------
(* The queue 'scans', as Bull runs it with its default settings *)

\* A free handler slot takes a waiting job and its lock.  Bull's order among the
\* waiting jobs is left open.
Take(w, s) ==
    /\ ~Busy(w)
    /\ job[s] = "waiting"
    /\ job' = [job EXCEPT ![s] = "active"]
    /\ lock' = [lock EXCEPT ![s] = w]
    /\ hscan' = [hscan EXCEPT ![w] = s]
    /\ hstep' = [hstep EXCEPT ![w] = "find"]
    /\ hgoal' = [hgoal EXCEPT ![w] = "RUNNING"]
    /\ UNCHANGED <<rowVars, requestVars, stalls, completedLog, lapses, budgetVars>>

\* The handler's promise has settled: the job goes to state `done` or, after an
\* error, to state `thrown`, unless the worker no longer holds its lock.
SettleJob(w, done, thrown) ==
    LET s == hscan[w] IN
    /\ hstep[w] = "ack"
    /\ IF lock[s] = w
       THEN /\ job' = [job EXCEPT ![s] = IF hgoal[w] = "COMPLETED" THEN done ELSE thrown]
            /\ lock' = [lock EXCEPT ![s] = NoWorker]
       ELSE UNCHANGED <<job, lock>>
    /\ hscan' = [hscan EXCEPT ![w] = NoScan]
    /\ hstep' = [hstep EXCEPT ![w] = "idle"]
    /\ UNCHANGED <<rowVars, requestVars, stalls, hgoal, completedLog, lapses, budgetVars>>

\* Mutants of Ack: the catch block swallows the error; the queue runs every job again;
\* a failed job waits for a retry.
AckSwallowed(w) == SettleJob(w, "completed", "completed")
AckRequeued(w)  == SettleJob(w, "waiting", "waiting")
AckDelayed(w)   == SettleJob(w, "completed", "delayed")

\* A thrown error is final: attempts is 1.
Ack(w) == SettleJob(w, "completed", "failed")

Released(w) == IF lock[hscan[w]] = w THEN [lock EXCEPT ![hscan[w]] = NoWorker] ELSE lock

\* The process dies inside the handler; the job stays active and its lock times out.
Crash(w) ==
    /\ Busy(w)
    /\ crashes < MaxCrashes
    /\ crashes' = crashes + 1
    /\ lock' = Released(w)
    /\ hscan' = [hscan EXCEPT ![w] = NoScan]
    /\ hstep' = [hstep EXCEPT ![w] = "idle"]
    /\ UNCHANGED <<rowVars, requestVars, job, stalls, hgoal, completedLog, lapses,
                   faults, lockLosses>>

\* The lock is not renewed in time although the handler is still running.
LockExpires(w) ==
    /\ Busy(w)
    /\ lock[hscan[w]] = w
    /\ lockLosses < MaxLockLosses
    /\ lockLosses' = lockLosses + 1
    /\ lock' = Released(w)
    /\ NoteLapse(hscan[w], {"lock"})
    /\ UNCHANGED <<rowVars, requestVars, job, stalls, handlerVars, completedLog,
                   crashes, faults>>

\* An active job goes back to the waiting list `limit` times and then fails without
\* reaching the handler.
Requeue(s, limit) ==
    /\ job[s] = "active"
    /\ stalls' = [stalls EXCEPT ![s] = @ + 1]
    /\ job' = [job EXCEPT ![s] = IF stalls[s] < limit THEN "waiting" ELSE "failed"]
    /\ UNCHANGED <<rowVars, requestVars, lock, handlerVars, completedLog, lapses, budgetVars>>

\* Mutants of Stalled: the lock is not looked at; a stalled job is never run again.
StalledUnderLock(s) == Requeue(s, MaxStalledCount)
StalledFails(s)     == lock[s] = NoWorker /\ Requeue(s, 0)

\* The recurring check for active jobs whose lock is gone.
Stalled(s) == lock[s] = NoWorker /\ Requeue(s, MaxStalledCount)

-----------------------------------------------------------------------------
(* ScansProcessor.handleScan and ScansService.updateScanStatus *)

Goto(w, step, goal) ==
    /\ hstep' = [hstep EXCEPT ![w] = step]
    /\ hgoal' = [hgoal EXCEPT ![w] = goal]
    /\ UNCHANGED hscan

\* Mutant of Throw: the catch block only logs and rethrows.
ThrowWithoutFailing(w) == Goto(w, "ack", "FAILED")

\* An error inside the try block enters the catch block, which writes FAILED;
\* an error inside the catch block leaves the handler.
Throw(w) == IF hgoal[w] = "FAILED" THEN Goto(w, "ack", "FAILED") ELSE Goto(w, "find", "FAILED")

\* The call that follows a status write.
AfterWrite == [RUNNING |-> "load", COMPLETED |-> "audit", FAILED |-> "ack"]

\* updateScanStatus reads the row first and throws NotFound without it.
UpdateFind(w) ==
    /\ hstep[w] = "find"
    /\ IF Exists(hscan[w]) THEN Goto(w, "write", hgoal[w]) ELSE Throw(w)
    /\ UNCHANGED <<rowVars, requestVars, queueVars, completedLog, lapses, budgetVars>>

\* The update statement, where `present` says whether it finds the row (P2025 if not)
\* and a status in `stamped` also sets completedAt and results.
WriteRow(w, present, stamped) ==
    LET s == hscan[w] IN
    /\ hstep[w] = "write"
    /\ IF present
       THEN /\ status' = [status EXCEPT ![s] = hgoal[w]]
            /\ results' = IF hgoal[w] \in stamped THEN [results EXCEPT ![s] = TRUE] ELSE results
            /\ Goto(w, AfterWrite[hgoal[w]], hgoal[w])
       ELSE /\ Throw(w)
            /\ UNCHANGED rowVars
    /\ UNCHANGED <<requestVars, queueVars, completedLog, lapses, budgetVars>>

\* Mutants of UpdateWrite: an upsert, which brings a deleted row back; completedAt set
\* whatever the status.
UpsertWrite(w) == WriteRow(w, TRUE, {"COMPLETED"})
StampAlways(w) == WriteRow(w, Exists(hscan[w]), ScanStatus)

\* ... and then updates it; no later write clears completedAt and results.
UpdateWrite(w) == WriteRow(w, Exists(hscan[w]), {"COMPLETED"})

\* The handler reloads the scan, works for five seconds, and heads for COMPLETED.
Load(w) ==
    /\ hstep[w] = "load"
    /\ IF Exists(hscan[w]) THEN Goto(w, "find", "COMPLETED") ELSE Throw(w)
    /\ UNCHANGED <<rowVars, requestVars, queueVars, completedLog, lapses, budgetVars>>

\* The SCAN_COMPLETED audit row.
Audit(w) ==
    /\ hstep[w] = "audit"
    /\ completedLog' = [completedLog EXCEPT ![hscan[w]] = @ + 1]
    /\ Goto(w, "ack", "COMPLETED")
    /\ UNCHANGED <<rowVars, requestVars, queueVars, lapses, budgetVars>>

\* The failures of a handler's call that leave the row different from what the job says.
LapseOf(w) ==
    IF hgoal[w] = "FAILED" THEN {"markFailed"}
    ELSE IF hstep[w] = "audit" THEN {"audit"} ELSE {}

\* Any call of the handler may fail.
HandlerFault(w) ==
    /\ hstep[w] \in {"find", "write", "load", "audit"}
    /\ NoteLapse(hscan[w], LapseOf(w))
    /\ Throw(w)
    /\ UseFault
    /\ UNCHANGED <<rowVars, requestVars, queueVars, completedLog>>

Handle(w) == UpdateFind(w) \/ UpdateWrite(w) \/ Load(w) \/ Audit(w) \/ Ack(w)

-----------------------------------------------------------------------------

Next ==
    \/ \E s \in Scan : Create(s) \/ CreateFault(s) \/ Stalled(s)
    \/ \E r \in Remover : Remove(r) \/ RemoveFault(r)
    \/ \E w \in Worker :
        \/ \E s \in Scan : Take(w, s)
        \/ Handle(w) \/ HandlerFault(w) \/ Crash(w) \/ LockExpires(w)

Spec == Init /\ [][Next]_vars

\* What the event loop and Bull keep running: requests go on to their answer, a free
\* slot takes waiting jobs, a handler goes on, and the stalled-job check recurs.
\* Nothing obliges a client to send a request, or anything to fail.
Fairness ==
    /\ \A s \in Scan : WF_vars(CreateEnqueue(s) \/ CreateAudit(s)) /\ WF_vars(Stalled(s))
    /\ \A w \in Worker : WF_vars(\E s \in Scan : Take(w, s)) /\ WF_vars(Handle(w))

FairSpec == Spec /\ Fairness

-----------------------------------------------------------------------------
(* Properties *)

InFlight(s)   == status[s] \in {"QUEUED", "RUNNING"}
Settled(s)    == status[s] \in {"COMPLETED", "FAILED", "deleted"}
OverStalled(s) == stalls[s] > MaxStalledCount

\* What leaves a scan QUEUED or RUNNING for good: it stalled too often, its request
\* never got through queue.add, its FAILED write failed, or a handler outlived its lock.
Stranded(s) == OverStalled(s) \/ lapses[s] \cap {"enqueue", "markFailed", "lock"} # {}

\* A scan shown as QUEUED or RUNNING has a job that will still be run, or a request
\* about to add it, unless it is stranded.
NoStrandedScan ==
    \A s \in Scan : InFlight(s) =>
        job[s] \in {"waiting", "active"} \/ createPc[s] = "inserted" \/ Stranded(s)

\* The handlers that work on a scan without its lock.
Unlocked == {w \in Worker : Busy(w) /\ lock[hscan[w]] # w}

\* Whoever works on a scan holds its lock, so that no two handlers work on one scan
\* across crashes and redeliveries, unless the lock expired under a live handler; and
\* each such expiry leaves at most one handler at work without its lock, beside the
\* one the redelivery starts.
OneHandlerPerScan ==
    /\ \A w \in Worker : Busy(w) /\ lock[hscan[w]] # w => "lock" \in lapses[hscan[w]]
    /\ Cardinality(Unlocked) <= lockLosses

\* What Bull shows for a finished job is what the row shows: a completed job means a
\* COMPLETED, logged scan with results, a failed one a FAILED scan (or the row is gone).
QueueAgreesWithRow ==
    \A s \in Scan : lapses[s] \cap {"markFailed", "lock"} = {} =>
        /\ job[s] = "completed" =>
            status[s] \in {"COMPLETED", "deleted"} /\ results[s] /\ completedLog[s] > 0
        /\ job[s] = "failed" /\ ~OverStalled(s) => status[s] \in {"FAILED", "deleted"}

\* A FAILED scan carries completedAt and results only if its SCAN_COMPLETED audit
\* failed or the job was delivered again.
FailedKeepsResultsOnlyAfterLapse ==
    \A s \in Scan :
        status[s] = "FAILED" /\ results[s] => "audit" \in lapses[s] \/ stalls[s] > 0

\* Each delivery of the job logs SCAN_COMPLETED at most once, so the audit trail
\* counts a scan twice only after a stall.
OneCompletionLogPerDelivery == \A s \in Scan : completedLog[s] <= stalls[s] + 1

\* Every scan whose row was written is eventually, and for good, COMPLETED, FAILED or
\* deleted, whatever calls fail and handlers die on the way, unless it is stranded: a
\* scan whose queue.add failed, say, may stay QUEUED.
EveryScanSettles == \A s \in Scan : status[s] = "QUEUED" ~> [](Settled(s) \/ Stranded(s))

\* The abstract specification of what a client sees; a redelivery is a stall.
Lifecycle == INSTANCE ScanLifecycle
    WITH redelivered <- stalls, MaxDeliveries <- MaxStalledCount + 1

\* The pipeline implements ScanLifecycle: a status goes back, or a result is
\* overwritten, only after the queue redelivered the job, and a deleted row never
\* comes back.
ImplementsLifecycle == Lifecycle!Spec

=============================================================================
