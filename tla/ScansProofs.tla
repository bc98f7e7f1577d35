----------------------------- MODULE ScansProofs -----------------------------
(***************************************************************************)
(* Theorems about Scans, for any sets of scans, workers and requests and   *)
(* any bounds.                                                             *)
(***************************************************************************)
EXTENDS Scans, FiniteSetTheorems, TLAPS

\* A row exists once its request inserted it, and a job once it was enqueued.
RequestInv(s) ==
    /\ createPc[s] \in {"idle", "refused"} <=> status[s] = "absent"
    /\ createPc[s] \in {"idle", "refused", "inserted"} => job[s] = "none"
    /\ job[s] = "none" => status[s] \in {"absent", "QUEUED", "deleted"} /\ stalls[s] = 0

\* Only an active job is locked, by a handler of that scan, and a job that has not
\* failed is within the stall limit.
QueueInv(s) ==
    /\ lock[s] # NoWorker => job[s] = "active" /\ hscan[lock[s]] = s
    /\ job[s] # "failed" => stalls[s] <= MaxStalledCount

\* A handler works on a job, holds its lock unless the lock expired, is alone with an
\* active job until the first stall, and pairs its next call with its goal.
HandlerInv(w) ==
    LET s == hscan[w] IN
    Busy(w) =>
        /\ job[s] # "none"
        /\ lock[s] = w \/ "lock" \in lapses[s]
        /\ stalls[s] = 0 => job[s] = "active" /\ \A v \in Worker : hscan[v] = s => v = w
        /\ hstep[w] = "load" => hgoal[w] = "RUNNING"
        /\ hstep[w] = "audit" => hgoal[w] = "COMPLETED"
        /\ hstep[w] = "ack" => hgoal[w] \in {"COMPLETED", "FAILED"}

\* The inductive strengthening of TypeOK.
BaseInv ==
    /\ TypeOK
    /\ \A s \in Scan : RequestInv(s)
    /\ \A s \in Scan : QueueInv(s)
    /\ \A w \in Worker : HandlerInv(w)

LEMMA BaseInit == Init => BaseInv
  BY ScansAssumption DEF Init, BaseInv, TypeOK, RequestInv, QueueInv, HandlerInv, Busy,
     CreateStep, RemoveStep, JobState, HandlerStep

LEMMA BaseNext == BaseInv /\ [Next]_vars => BaseInv'
<1> SUFFICES ASSUME BaseInv, [Next]_vars PROVE BaseInv'
  OBVIOUS
<1> USE ScansAssumption DEF BaseInv, TypeOK, RequestInv, QueueInv, HandlerInv, Busy,
      CreateStep, RemoveStep, JobState, HandlerStep, ScanStatus, Lapse,
      rowVars, requestVars, queueVars, handlerVars, budgetVars
<1>1. ASSUME NEW s \in Scan, Create(s) PROVE BaseInv'
  BY <1>1 DEF Create, CreateRefused, CreateInsert, CreateEnqueue, CreateAudit
<1>2. ASSUME NEW s \in Scan, CreateFault(s) PROVE BaseInv'
  BY <1>2 DEF CreateFault, UseFault, NoteLapse
<1>3. ASSUME NEW s \in Scan, Stalled(s) PROVE BaseInv'
  BY <1>3 DEF Stalled, Requeue
<1>4. ASSUME NEW r \in Remover, Remove(r) PROVE BaseInv'
  BY <1>4 DEF Remove, RemoveRefused, RemoveFind, RemoveDelete, RemoveAudit, RemoveGoto, Exists
<1>5. ASSUME NEW r \in Remover, RemoveFault(r) PROVE BaseInv'
  BY <1>5 DEF RemoveFault, RemoveGoto, UseFault
<1>6. ASSUME NEW w \in Worker, NEW s \in Scan, Take(w, s) PROVE BaseInv'
  BY <1>6 DEF Take
<1>7. ASSUME NEW w \in Worker, UpdateFind(w) PROVE BaseInv'
  BY <1>7 DEF UpdateFind, Throw, Goto, Exists
<1>8. ASSUME NEW w \in Worker, UpdateWrite(w) PROVE BaseInv'
  <2>1. hgoal[w] \in {"RUNNING", "COMPLETED", "FAILED"}
    OBVIOUS
  <2>2. /\ AfterWrite["RUNNING"] = "load"
        /\ AfterWrite["COMPLETED"] = "audit"
        /\ AfterWrite["FAILED"] = "ack"
    BY DEF AfterWrite
  <2>3. CASE ~Exists(hscan[w])
    BY <1>8, <2>3 DEF UpdateWrite, WriteRow, Throw, Goto
  <2>4. CASE Exists(hscan[w])
    <3>1. /\ hstep[w] = "write" /\ hscan[w] \in Scan
          /\ status' = [status EXCEPT ![hscan[w]] = hgoal[w]]
          /\ results' = IF hgoal[w] \in {"COMPLETED"} THEN [results EXCEPT ![hscan[w]] = TRUE]
                      ELSE results
          /\ hstep' = [hstep EXCEPT ![w] = AfterWrite[hgoal[w]]]
          /\ hgoal' = hgoal
          /\ UNCHANGED <<requestVars, queueVars, hscan, completedLog, lapses, budgetVars>>
      BY <1>8, <2>4 DEF UpdateWrite, WriteRow, Goto
    <3>2. TypeOK'
      BY <3>1, <2>1, <2>2
    <3>3. \A s \in Scan : RequestInv(s)' /\ QueueInv(s)'
      BY <3>1, <2>1, <2>4 DEF Exists
    <3>4. \A v \in Worker : HandlerInv(v)'
      BY <3>1, <2>1, <2>2
    <3>5. QED
      BY <3>2, <3>3, <3>4
  <2>5. QED
    BY <2>3, <2>4
<1>9. ASSUME NEW w \in Worker, Load(w) PROVE BaseInv'
  BY <1>9 DEF Load, Throw, Goto, Exists
<1>10. ASSUME NEW w \in Worker, Audit(w) PROVE BaseInv'
  BY <1>10 DEF Audit, Goto
<1>11. ASSUME NEW w \in Worker, Ack(w) PROVE BaseInv'
  BY <1>11 DEF Ack, SettleJob
<1>12. ASSUME NEW w \in Worker, HandlerFault(w) PROVE BaseInv'
  BY <1>12 DEF HandlerFault, LapseOf, UseFault, NoteLapse, Throw, Goto
<1>13. ASSUME NEW w \in Worker, Crash(w) PROVE BaseInv'
  BY <1>13 DEF Crash, Released
<1>14. ASSUME NEW w \in Worker, LockExpires(w) PROVE BaseInv'
  BY <1>14 DEF LockExpires, Released, NoteLapse
<1>15. CASE UNCHANGED vars
  BY <1>15 DEF vars
<1>16. QED
  BY <1>1, <1>2, <1>3, <1>4, <1>5, <1>6, <1>7, <1>8, <1>9, <1>10, <1>11, <1>12, <1>13,
     <1>14, <1>15 DEF Next, Handle

\* Type correctness of the pipeline, the stall limit included: no sequence of crashes,
\* expired locks and failing calls makes Bull requeue a job more than MaxStalledCount times.
THEOREM ScansTypeOK == Spec => []TypeOK
<1>1. BaseInv => TypeOK
  BY DEF BaseInv
<1>2. QED
  BY BaseInit, BaseNext, <1>1, PTL DEF Spec

\* The handlers that lost their lock are counted by the expiries.
LockInv ==
    /\ BaseInv
    /\ IsFiniteSet(Unlocked)
    /\ Cardinality(Unlocked) <= lockLosses

LEMMA LockInit == Init => LockInv
<1> SUFFICES ASSUME Init PROVE LockInv
  OBVIOUS
<1>1. Unlocked = {} /\ lockLosses = 0
  BY DEF Init, Unlocked, Busy
<1> QED
  BY <1>1, BaseInit, FS_EmptySet DEF LockInv

\* Only LockExpires takes the lock from under a handler at work: a job is taken when
\* nobody holds its lock, and one who settles it or dies gives up their own.
LEMMA LockNext == LockInv /\ [Next]_vars => LockInv'
<1> SUFFICES ASSUME LockInv, [Next]_vars PROVE LockInv'
  OBVIOUS
<1>a. BaseInv /\ BaseInv' /\ TypeOK
  BY BaseNext DEF LockInv, BaseInv
<1>b. IsFiniteSet(Unlocked) /\ Cardinality(Unlocked) \in Nat /\ lockLosses \in Nat
      /\ Cardinality(Unlocked) <= lockLosses
  BY <1>a, ScansAssumption, FS_CardinalityType DEF LockInv, TypeOK
<1>1. ASSUME Unlocked' \subseteq Unlocked, lockLosses' = lockLosses PROVE LockInv'
  <2>1. IsFiniteSet(Unlocked') /\ Cardinality(Unlocked') <= Cardinality(Unlocked)
    BY <1>1, <1>b, FS_Subset
  <2>2. Cardinality(Unlocked') \in Nat
    BY <2>1, FS_CardinalityType
  <2>3. Cardinality(Unlocked') <= lockLosses'
    BY <1>b, <1>1, <2>1, <2>2
  <2> QED
    BY <1>a, <2>1, <2>3 DEF LockInv
<1>2. ASSUME NEW w \in Worker, LockExpires(w) PROVE LockInv'
  <2>1. /\ hscan' = hscan /\ hstep' = hstep /\ lockLosses' = lockLosses + 1
        /\ lock[hscan[w]] = w /\ lock' = [lock EXCEPT ![hscan[w]] = NoWorker]
    BY <1>2 DEF LockExpires, Released, handlerVars
  <2>2. Unlocked' \subseteq Unlocked \cup {w} /\ w \notin Unlocked
    BY <2>1, <1>a DEF Unlocked, Busy, TypeOK
  <2>3. /\ IsFiniteSet(Unlocked \cup {w})
        /\ Cardinality(Unlocked \cup {w}) = Cardinality(Unlocked) + 1
    BY <1>b, <2>2, FS_AddElement
  <2>4. IsFiniteSet(Unlocked') /\ Cardinality(Unlocked') <= Cardinality(Unlocked) + 1
    BY <2>2, <2>3, FS_Subset
  <2>5. Cardinality(Unlocked') \in Nat
    BY <2>4, FS_CardinalityType
  <2>6. Cardinality(Unlocked') <= lockLosses'
    BY <1>b, <2>1, <2>4, <2>5
  <2> QED
    BY <1>a, <2>4, <2>6 DEF LockInv
<1>3. ASSUME UNCHANGED <<lock, handlerVars, lockLosses>> PROVE LockInv'
  BY <1>1, <1>3 DEF Unlocked, Busy, handlerVars
<1>4. ASSUME NEW s \in Scan, Create(s) \/ CreateFault(s) \/ Stalled(s) PROVE LockInv'
  BY <1>3, <1>4 DEF Create, CreateRefused, CreateInsert, CreateEnqueue, CreateAudit, CreateFault,
     UseFault, Stalled, Requeue, queueVars, budgetVars
<1>5. ASSUME NEW r \in Remover, Remove(r) \/ RemoveFault(r) PROVE LockInv'
  BY <1>3, <1>5 DEF Remove, RemoveRefused, RemoveFind, RemoveDelete, RemoveAudit, RemoveFault,
     UseFault, queueVars, budgetVars
<1>6. ASSUME NEW w \in Worker, NEW s \in Scan, Take(w, s) PROVE LockInv'
  <2>1. /\ lock[s] = NoWorker /\ lock' = [lock EXCEPT ![s] = w] /\ lockLosses' = lockLosses
        /\ hscan' = [hscan EXCEPT ![w] = s] /\ hstep' = [hstep EXCEPT ![w] = "find"]
    BY <1>6, <1>a DEF Take, BaseInv, QueueInv, budgetVars
  <2>2. Unlocked' \subseteq Unlocked
    BY <2>1, <1>a, ScansAssumption DEF Unlocked, Busy, TypeOK
  <2> QED
    BY <1>1, <2>1, <2>2
<1>7. ASSUME NEW w \in Worker, Ack(w) \/ Crash(w) PROVE LockInv'
  <2>1. /\ lock' = Released(w) /\ lockLosses' = lockLosses
        /\ hscan' = [hscan EXCEPT ![w] = NoScan] /\ hstep' = [hstep EXCEPT ![w] = "idle"]
    BY <1>7 DEF Ack, SettleJob, Crash, Released, budgetVars
  <2>2. Unlocked' \subseteq Unlocked
    BY <2>1, <1>a DEF Unlocked, Busy, Released, TypeOK
  <2> QED
    BY <1>1, <2>1, <2>2
<1>8. ASSUME NEW w \in Worker,
             UpdateFind(w) \/ UpdateWrite(w) \/ Load(w) \/ Audit(w) \/ HandlerFault(w)
      PROVE  LockInv'
  <2>1. /\ UNCHANGED <<lock, hscan, lockLosses>>
        /\ Busy(w) /\ \A v \in Worker \ {w} : hstep'[v] = hstep[v]
    BY <1>8, <1>a DEF UpdateFind, UpdateWrite, WriteRow, Load, Audit, HandlerFault, Throw, Goto,
       UseFault, queueVars, budgetVars, Busy, TypeOK
  <2>2. Unlocked' \subseteq Unlocked
    BY <2>1 DEF Unlocked, Busy
  <2> QED
    BY <1>1, <2>1, <2>2
<1>9. CASE UNCHANGED vars
  BY <1>3, <1>9 DEF vars, queueVars, budgetVars
<1> QED
  BY <1>2, <1>4, <1>5, <1>6, <1>7, <1>8, <1>9 DEF Next, Handle

\* A handler works under its scan's lock, hence alone, unless the lock expired; and the
\* handlers left without one never outnumber the expiries.
THEOREM ScansOneHandlerPerScan == Spec => []OneHandlerPerScan
<1>1. LockInv => OneHandlerPerScan
  BY DEF LockInv, BaseInv, HandlerInv, Unlocked, OneHandlerPerScan
<1>2. QED
  BY LockInit, LockNext, <1>1, PTL DEF Spec

-----------------------------------------------------------------------------
(* The first delivery of a job *)

\* Until the first stall, a row follows its only handler.
RowInv(s) ==
    stalls[s] = 0 =>
        /\ job[s] \in {"none", "waiting"} =>
              status[s] \in {"absent", "QUEUED", "deleted"} /\ ~results[s]
        /\ status[s] = "FAILED" /\ results[s] => "audit" \in lapses[s]

FirstDelivery(w) ==
    LET s == hscan[w] IN
    Busy(w) /\ stalls[s] = 0 =>
        /\ hstep[w] \in {"find", "write"} =>
              \/ hgoal[w] = "RUNNING" /\ status[s] \in {"QUEUED", "deleted"}
              \/ hgoal[w] = "COMPLETED" /\ status[s] \in {"RUNNING", "deleted"}
              \/ /\ hgoal[w] = "FAILED"
                 /\ status[s] \in {"QUEUED", "RUNNING", "COMPLETED", "deleted"}
        /\ hstep[w] = "load" => status[s] \in {"RUNNING", "deleted"}
        /\ hstep[w] = "audit" => status[s] \in {"COMPLETED", "deleted"}
        /\ results[s] =>
              \/ hgoal[w] = "COMPLETED" /\ hstep[w] \in {"audit", "ack"}
              \/ "audit" \in lapses[s]

DeliveryInv ==
    /\ BaseInv
    /\ \A s \in Scan : RowInv(s)
    /\ \A w \in Worker : FirstDelivery(w)

LEMMA DeliveryInit == Init => DeliveryInv
  BY BaseInit DEF Init, DeliveryInv, RowInv, FirstDelivery, Busy

LEMMA DeliveryNext == DeliveryInv /\ [Next]_vars => DeliveryInv'
<1> SUFFICES ASSUME DeliveryInv, [Next]_vars
             PROVE  (\A s \in Scan : RowInv(s)') /\ (\A w \in Worker : FirstDelivery(w)')
  BY BaseNext DEF DeliveryInv
<1> DEFINE Goal == (\A s \in Scan : RowInv(s)') /\ (\A w \in Worker : FirstDelivery(w)')
<1> USE ScansAssumption DEF DeliveryInv, BaseInv, TypeOK, RequestInv, QueueInv, HandlerInv,
      RowInv, FirstDelivery, Busy, HandlerStep, rowVars, requestVars, queueVars,
      handlerVars, budgetVars
<1>1. ASSUME NEW s \in Scan, Create(s) PROVE Goal
  BY <1>1 DEF Create, CreateRefused, CreateInsert, CreateEnqueue, CreateAudit
<1>2. ASSUME NEW s \in Scan, CreateFault(s) PROVE Goal
  BY <1>2 DEF CreateFault, UseFault, NoteLapse
<1>3. ASSUME NEW s \in Scan, Stalled(s) PROVE Goal
  BY <1>3 DEF Stalled, Requeue
<1>4. ASSUME NEW r \in Remover, Remove(r) PROVE Goal
  BY <1>4 DEF Remove, RemoveRefused, RemoveFind, RemoveDelete, RemoveAudit, RemoveGoto, Exists
<1>5. ASSUME NEW r \in Remover, RemoveFault(r) PROVE Goal
  BY <1>5 DEF RemoveFault, RemoveGoto, UseFault
<1>6. ASSUME NEW w \in Worker, NEW s \in Scan, Take(w, s) PROVE Goal
  BY <1>6 DEF Take
<1>7. ASSUME NEW w \in Worker, UpdateFind(w) PROVE Goal
  BY <1>7 DEF UpdateFind, Throw, Goto, Exists, ScanStatus
<1>8. ASSUME NEW w \in Worker, UpdateWrite(w) PROVE Goal
  <2>1. CASE ~Exists(hscan[w])
    BY <1>8, <2>1 DEF UpdateWrite, WriteRow, Throw, Goto, Exists, ScanStatus
  <2>2. CASE Exists(hscan[w])
    <3>1. /\ hstep[w] = "write" /\ hscan[w] \in Scan
          /\ status' = [status EXCEPT ![hscan[w]] = hgoal[w]]
          /\ results' = IF hgoal[w] \in {"COMPLETED"} THEN [results EXCEPT ![hscan[w]] = TRUE]
                      ELSE results
          /\ hstep' = [hstep EXCEPT ![w] = AfterWrite[hgoal[w]]]
          /\ hgoal' = hgoal
          /\ UNCHANGED <<requestVars, queueVars, hscan, completedLog, lapses, budgetVars>>
      BY <1>8, <2>2 DEF UpdateWrite, WriteRow, Goto
    <3>2. /\ AfterWrite["RUNNING"] = "load"
          /\ AfterWrite["COMPLETED"] = "audit"
          /\ AfterWrite["FAILED"] = "ack"
      BY DEF AfterWrite
    <3>3. \A s \in Scan : RowInv(s)'
      BY <3>1, <2>2 DEF Exists, ScanStatus
    <3>4. \A v \in Worker : FirstDelivery(v)'
      BY <3>1, <3>2, <2>2 DEF Exists, ScanStatus
    <3>5. QED
      BY <3>3, <3>4
  <2>3. QED
    BY <2>1, <2>2
<1>9. ASSUME NEW w \in Worker, Load(w) PROVE Goal
  BY <1>9 DEF Load, Throw, Goto, Exists, ScanStatus
<1>10. ASSUME NEW w \in Worker, Audit(w) PROVE Goal
  BY <1>10 DEF Audit, Goto
<1>11. ASSUME NEW w \in Worker, Ack(w) PROVE Goal
  BY <1>11 DEF Ack, SettleJob
<1>12. ASSUME NEW w \in Worker, HandlerFault(w) PROVE Goal
  BY <1>12 DEF HandlerFault, LapseOf, UseFault, NoteLapse, Throw, Goto
<1>13. ASSUME NEW w \in Worker, Crash(w) PROVE Goal
  BY <1>13 DEF Crash, Released
<1>14. ASSUME NEW w \in Worker, LockExpires(w) PROVE Goal
  BY <1>14 DEF LockExpires, Released, NoteLapse
<1>15. CASE UNCHANGED vars
  BY <1>15 DEF vars
<1>16. QED
  BY <1>1, <1>2, <1>3, <1>4, <1>5, <1>6, <1>7, <1>8, <1>9, <1>10, <1>11, <1>12, <1>13,
     <1>14, <1>15 DEF Next, Handle

\* A FAILED scan with results betrays a failed SCAN_COMPLETED audit or a redelivery.
THEOREM ScansFailedKeepsResults == Spec => []FailedKeepsResultsOnlyAfterLapse
<1>1. DeliveryInv => FailedKeepsResultsOnlyAfterLapse
  BY DEF DeliveryInv, BaseInv, TypeOK, RowInv, FailedKeepsResultsOnlyAfterLapse
<1>2. QED
  BY DeliveryInit, DeliveryNext, <1>1, PTL DEF Spec

-----------------------------------------------------------------------------
(* The pipeline implements ScanLifecycle *)

LEMMA LifecycleInit == Init => Lifecycle!Init
  BY DEF Init, Lifecycle!Init

\* A handler's write is an Advance on the first delivery and a Rewrite afterwards;
\* Stalled is Redeliver; everything else but the insert and the delete stutters.
LEMMA LifecycleNext == DeliveryInv /\ [Next]_vars => [Lifecycle!Next]_(Lifecycle!vars)
<1> SUFFICES ASSUME DeliveryInv, [Next]_vars, ~UNCHANGED Lifecycle!vars
             PROVE  Lifecycle!Next
  OBVIOUS
<1> USE ScansAssumption DEF DeliveryInv, BaseInv, TypeOK, RequestInv, QueueInv, HandlerInv,
      FirstDelivery, Busy, rowVars, requestVars, queueVars, handlerVars, budgetVars
<1>1. ASSUME NEW s \in Scan, Create(s) PROVE Lifecycle!Next
  <2>1. CreateInsert(s)
    BY <1>1 DEF Create, CreateRefused, CreateEnqueue, CreateAudit, Lifecycle!vars
  <2>2. Lifecycle!Accept(s)
    BY <2>1 DEF CreateInsert, Lifecycle!Accept
  <2>3. QED
    BY <2>2 DEF Lifecycle!Next
<1>2. ASSUME NEW s \in Scan, Stalled(s) PROVE Lifecycle!Next
  <2>1. Lifecycle!Redeliver(s)
    BY <1>2 DEF Stalled, Requeue, Lifecycle!Redeliver
  <2>2. QED
    BY <2>1 DEF Lifecycle!Next
<1>3. ASSUME NEW r \in Remover, Remove(r) PROVE Lifecycle!Next
  <2>1. RemoveDelete(r) /\ Exists(removeId[r])
    BY <1>3 DEF Remove, RemoveRefused, RemoveFind, RemoveDelete, RemoveAudit, Lifecycle!vars
  <2>2. removeId[r] \in Scan
    BY <1>3, <2>1 DEF RemoveDelete, Lifecycle!vars
  <2>3. Lifecycle!Delete(removeId[r])
    BY <2>1, <2>2 DEF RemoveDelete, Exists, ScanStatus, Lifecycle!Delete, Lifecycle!Live
  <2>4. QED
    BY <2>2, <2>3 DEF Lifecycle!Next
<1>4. ASSUME NEW w \in Worker, Handle(w) PROVE Lifecycle!Next
  <2> DEFINE s == hscan[w]
  <2>1. UpdateWrite(w) /\ Exists(s)
    BY <1>4 DEF Handle, UpdateFind, UpdateWrite, WriteRow, Load, Audit, Ack, SettleJob,
       Lifecycle!vars
  <2>2. s \in Scan /\ hstep[w] = "write"
    BY <2>1 DEF UpdateWrite, WriteRow
  <2>3. Lifecycle!SetStatus(s, hgoal[w])
    BY <2>1 DEF UpdateWrite, WriteRow, Lifecycle!SetStatus
  <2>4. CASE stalls[s] = 0
    <3>1. hgoal[w] \in Lifecycle!After(status[s])
      BY <2>1, <2>2, <2>4 DEF Exists, ScanStatus, Lifecycle!After
    <3>2. QED
      BY <2>2, <2>3, <3>1 DEF Lifecycle!Next, Lifecycle!Advance
  <2>5. CASE stalls[s] > 0
    <3>1. Lifecycle!Rewrite(s)
      BY <2>1, <2>2, <2>3, <2>5 DEF Exists, ScanStatus, Lifecycle!Rewrite, Lifecycle!Live
    <3>2. QED
      BY <2>2, <3>1 DEF Lifecycle!Next
  <2>6. QED
    BY <2>2, <2>4, <2>5
<1>5. QED
  BY <1>1, <1>2, <1>3, <1>4
     DEF Next, CreateFault, RemoveFault, Take, HandlerFault, Crash, LockExpires, vars,
         Lifecycle!vars

\* Whatever crashes, stalls and fails: a client that polls a scan sees its status move
\* forward only, unless the queue redelivered the job, and never sees a deleted scan again.
THEOREM ScansImplementLifecycle == Spec => ImplementsLifecycle
  BY DeliveryInit, DeliveryNext, LifecycleInit, LifecycleNext, PTL
     DEF Spec, ImplementsLifecycle, Lifecycle!Spec

-----------------------------------------------------------------------------
(* The queue and the row agree, and no scan is stranded *)

\* Towards the end of the handler the row already shows the outcome.
OutcomeReady(w) ==
    LET s == hscan[w] IN
    Busy(w) /\ lapses[s] \cap {"markFailed", "lock"} = {} =>
        /\ hstep[w] = "audit" => status[s] \in {"COMPLETED", "deleted"} /\ results[s]
        /\ hstep[w] = "ack" /\ hgoal[w] = "COMPLETED" =>
              status[s] \in {"COMPLETED", "deleted"} /\ results[s] /\ completedLog[s] > 0
        /\ hstep[w] = "ack" /\ hgoal[w] = "FAILED" => status[s] \in {"FAILED", "deleted"}

OutcomeInv ==
    /\ BaseInv
    /\ NoStrandedScan
    /\ QueueAgreesWithRow
    /\ \A w \in Worker : OutcomeReady(w)

LEMMA OutcomeInit == Init => OutcomeInv
  BY BaseInit DEF Init, OutcomeInv, NoStrandedScan, QueueAgreesWithRow, OutcomeReady,
     InFlight, Busy

LEMMA OutcomeNext == OutcomeInv /\ [Next]_vars => OutcomeInv'
<1> SUFFICES ASSUME OutcomeInv, [Next]_vars
             PROVE  NoStrandedScan' /\ QueueAgreesWithRow' /\ \A w \in Worker : OutcomeReady(w)'
  BY BaseNext DEF OutcomeInv
<1> DEFINE Goal == NoStrandedScan' /\ QueueAgreesWithRow' /\ \A w \in Worker : OutcomeReady(w)'
<1> USE ScansAssumption DEF OutcomeInv, BaseInv, TypeOK, RequestInv, QueueInv, HandlerInv,
      NoStrandedScan, QueueAgreesWithRow, OutcomeReady, InFlight, Stranded, OverStalled, Busy,
      HandlerStep, rowVars, requestVars, queueVars, handlerVars, budgetVars
<1>1. ASSUME NEW s \in Scan, Create(s) PROVE Goal
  BY <1>1 DEF Create, CreateRefused, CreateInsert, CreateEnqueue, CreateAudit
<1>2. ASSUME NEW s \in Scan, CreateFault(s) PROVE Goal
  <2>1. \A t \in Scan : /\ lapses[t] \subseteq lapses'[t]
                        /\ "markFailed" \in lapses'[t] => "markFailed" \in lapses[t]
                        /\ "lock" \in lapses'[t] => "lock" \in lapses[t]
                        /\ createPc[t] = "inserted" =>
                              createPc'[t] = "inserted" \/ "enqueue" \in lapses'[t]
    BY <1>2 DEF CreateFault, UseFault, NoteLapse
  <2>2. UNCHANGED <<rowVars, queueVars, handlerVars, completedLog>>
    BY <1>2 DEF CreateFault
  <2>3. QED
    BY <2>1, <2>2
<1>3. ASSUME NEW s \in Scan, Stalled(s) PROVE Goal
  BY <1>3 DEF Stalled, Requeue
<1>4. ASSUME NEW r \in Remover, Remove(r) PROVE Goal
  BY <1>4 DEF Remove, RemoveRefused, RemoveFind, RemoveDelete, RemoveAudit, RemoveGoto, Exists
<1>5. ASSUME NEW r \in Remover, RemoveFault(r) PROVE Goal
  BY <1>5 DEF RemoveFault, RemoveGoto, UseFault
<1>6. ASSUME NEW w \in Worker, NEW s \in Scan, Take(w, s) PROVE Goal
  BY <1>6 DEF Take
<1>7. ASSUME NEW w \in Worker, UpdateFind(w) PROVE Goal
  BY <1>7 DEF UpdateFind, Throw, Goto, Exists, ScanStatus
<1>8. ASSUME NEW w \in Worker, UpdateWrite(w) PROVE Goal
  <2>1. CASE ~Exists(hscan[w])
    BY <1>8, <2>1 DEF UpdateWrite, WriteRow, Throw, Goto, Exists, ScanStatus
  <2>2. CASE Exists(hscan[w])
    <3>1. /\ hstep[w] = "write" /\ hscan[w] \in Scan
          /\ status' = [status EXCEPT ![hscan[w]] = hgoal[w]]
          /\ results' = IF hgoal[w] \in {"COMPLETED"} THEN [results EXCEPT ![hscan[w]] = TRUE]
                      ELSE results
          /\ hstep' = [hstep EXCEPT ![w] = AfterWrite[hgoal[w]]]
          /\ hgoal' = hgoal
          /\ UNCHANGED <<requestVars, queueVars, hscan, completedLog, lapses, budgetVars>>
      BY <1>8, <2>2 DEF UpdateWrite, WriteRow, Goto
    <3>2. /\ AfterWrite["RUNNING"] = "load"
          /\ AfterWrite["COMPLETED"] = "audit"
          /\ AfterWrite["FAILED"] = "ack"
      BY DEF AfterWrite
    <3>3. NoStrandedScan'
      BY <3>1
    <3>4. QueueAgreesWithRow'
      BY <3>1
    <3>5. \A v \in Worker : OutcomeReady(v)'
      <4> SUFFICES ASSUME NEW v \in Worker PROVE OutcomeReady(v)'
        OBVIOUS
      <4>1. CASE v = w
        BY <3>1, <3>2, <4>1 DEF Exists, ScanStatus
      <4>2. CASE v # w /\ hscan[v] = hscan[w]
        BY <3>1, <4>2
      <4>3. CASE v # w /\ hscan[v] # hscan[w]
        BY <3>1, <4>3
      <4>4. QED
        BY <4>1, <4>2, <4>3
    <3>6. QED
      BY <3>3, <3>4, <3>5
  <2>3. QED
    BY <2>1, <2>2
<1>9. ASSUME NEW w \in Worker, Load(w) PROVE Goal
  BY <1>9 DEF Load, Throw, Goto, Exists, ScanStatus
<1>10. ASSUME NEW w \in Worker, Audit(w) PROVE Goal
  BY <1>10 DEF Audit, Goto
<1>11. ASSUME NEW w \in Worker, Ack(w) PROVE Goal
  BY <1>11 DEF Ack, SettleJob
<1>12. ASSUME NEW w \in Worker, HandlerFault(w) PROVE Goal
  <2>1. \A t \in Scan : lapses[t] \subseteq lapses'[t]
    BY <1>12 DEF HandlerFault, NoteLapse
  <2>2. /\ UNCHANGED <<rowVars, requestVars, queueVars, hscan, completedLog>>
        /\ \A v \in Worker \ {w} : hstep'[v] = hstep[v] /\ hgoal'[v] = hgoal[v]
    BY <1>12 DEF HandlerFault, Throw, Goto
  <2>3. hstep'[w] = "find" \/ "markFailed" \in lapses'[hscan[w]]
    BY <1>12 DEF HandlerFault, LapseOf, NoteLapse, Throw, Goto
  <2>4. NoStrandedScan' /\ QueueAgreesWithRow'
    BY <2>1, <2>2
  <2>5. \A v \in Worker : OutcomeReady(v)'
    BY <2>1, <2>2, <2>3
  <2>6. QED
    BY <2>4, <2>5
<1>13. ASSUME NEW w \in Worker, Crash(w) PROVE Goal
  BY <1>13 DEF Crash, Released
<1>14. ASSUME NEW w \in Worker, LockExpires(w) PROVE Goal
  BY <1>14 DEF LockExpires, Released, NoteLapse
<1>15. CASE UNCHANGED vars
  BY <1>15 DEF vars
<1>16. QED
  BY <1>1, <1>2, <1>3, <1>4, <1>5, <1>6, <1>7, <1>8, <1>9, <1>10, <1>11, <1>12, <1>13,
     <1>14, <1>15 DEF Next, Handle

\* A scan that stays QUEUED or RUNNING without a job that will run it has one of the four
\* causes NoStrandedScan names, and no other.
THEOREM ScansNoStrandedScan == Spec => []NoStrandedScan
<1>1. OutcomeInv => NoStrandedScan
  BY DEF OutcomeInv
<1>2. QED
  BY OutcomeInit, OutcomeNext, <1>1, PTL DEF Spec

\* The job's final state in the queue and the scan's row tell the same outcome.
THEOREM ScansQueueAgreesWithRow == Spec => []QueueAgreesWithRow
<1>1. OutcomeInv => QueueAgreesWithRow
  BY DEF OutcomeInv
<1>2. QED
  BY OutcomeInit, OutcomeNext, <1>1, PTL DEF Spec

-----------------------------------------------------------------------------
(* Counting the deliveries of a job *)

\* The handlers of a scan that may still log SCAN_COMPLETED: none has entered its catch
\* block or logged already.
MayLog(s) ==
    {w \in Worker : /\ hscan[w] = s
                    /\ hstep[w] \in {"find", "write", "load", "audit"}
                    /\ hgoal[w] # "FAILED"}

\* Whether the job is still to be delivered on account of its last (re)queueing
Undelivered(s) == IF job[s] \in {"none", "waiting"} THEN 1 ELSE 0

\* Every delivery has been paid for by the request or by a stall: it has logged, may still
\* log, or will not.
DeliveriesInv(s) ==
    /\ IsFiniteSet(MayLog(s))
    /\ completedLog[s] + Cardinality(MayLog(s)) + Undelivered(s) <= stalls[s] + 1

CountInv == BaseInv /\ \A s \in Scan : DeliveriesInv(s)

LEMMA CountInit == Init => CountInv
<1> SUFFICES ASSUME Init, NEW s \in Scan PROVE DeliveriesInv(s)
  BY BaseInit DEF CountInv
<1>1. MayLog(s) = {}
  BY DEF Init, MayLog
<1>2. completedLog[s] = 0 /\ stalls[s] = 0 /\ Undelivered(s) = 1
  BY DEF Init, Undelivered
<1> QED
  BY <1>1, <1>2, FS_EmptySet DEF DeliveriesInv

\* A step that lets no further handler log, and requeues nothing, keeps the count.
LEMMA NoFurther ==
    ASSUME CountInv, NEW s \in Scan, MayLog(s)' \subseteq MayLog(s),
           completedLog'[s] = completedLog[s], stalls'[s] = stalls[s],
           job[s] \notin {"none", "waiting"} => job'[s] \notin {"none", "waiting"}
    PROVE  DeliveriesInv(s)'
<1>1. IsFiniteSet(MayLog(s)')
      /\ Cardinality(MayLog(s)') <= Cardinality(MayLog(s))
  BY FS_Subset DEF CountInv, DeliveriesInv
<1>2. Cardinality(MayLog(s)) \in Nat /\ Cardinality(MayLog(s)') \in Nat
  BY <1>1, FS_CardinalityType DEF CountInv, DeliveriesInv
<1>3. completedLog[s] \in Nat /\ stalls[s] \in Nat
  BY DEF CountInv, BaseInv, TypeOK
<1>4. Undelivered(s)' <= Undelivered(s) /\ Undelivered(s) \in Nat /\ Undelivered(s)' \in Nat
  BY DEF Undelivered
<1>5. completedLog[s] + Cardinality(MayLog(s)) + Undelivered(s) <= stalls[s] + 1
  BY DEF CountInv, DeliveriesInv
<1>6. completedLog'[s] + Cardinality(MayLog(s)') + Undelivered(s)' <= stalls'[s] + 1
  BY <1>1, <1>2, <1>3, <1>4, <1>5
<1> QED
  BY <1>1, <1>6 DEF DeliveriesInv

\* A step of a handler that works on, logs nothing and touches nothing of other scans.
LEMMA HandlerGoesOn ==
    ASSUME CountInv, NEW w \in Worker, Busy(w), UNCHANGED <<completedLog, stalls>>,
           \A s \in Scan : job[s] \notin {"none", "waiting"} => job'[s] \notin {"none", "waiting"},
           \A v \in Worker \ {w} : hscan'[v] = hscan[v] /\ hstep'[v] = hstep[v] /\ hgoal'[v] = hgoal[v],
           hscan'[w] # hscan[w] => hstep'[w] = "idle",
           hstep'[w] \in {"find", "write", "load", "audit"} /\ hgoal'[w] # "FAILED" =>
                hstep[w] \in {"find", "write", "load", "audit"} /\ hgoal[w] # "FAILED"
    PROVE  \A s \in Scan : DeliveriesInv(s)'
<1> SUFFICES ASSUME NEW s \in Scan PROVE DeliveriesInv(s)'
  OBVIOUS
<1>1. MayLog(s)' \subseteq MayLog(s)
  BY DEF MayLog
<1> QED
  BY <1>1, NoFurther

\* A step that moves no handler and queues no job again
LEMMA HandlersRest ==
    ASSUME CountInv, UNCHANGED <<handlerVars, completedLog, stalls>>,
           \A s \in Scan : job[s] \notin {"none", "waiting"} => job'[s] \notin {"none", "waiting"}
    PROVE  \A s \in Scan : DeliveriesInv(s)'
<1> SUFFICES ASSUME NEW s \in Scan PROVE DeliveriesInv(s)'
  OBVIOUS
<1>1. MayLog(s)' \subseteq MayLog(s)
  BY DEF MayLog, handlerVars
<1> QED
  BY <1>1, NoFurther

LEMMA CountNext == CountInv /\ [Next]_vars => CountInv'
<1> SUFFICES ASSUME CountInv, [Next]_vars PROVE \A s \in Scan : DeliveriesInv(s)'
  BY BaseNext DEF CountInv
<1> DEFINE Goal == \A s \in Scan : DeliveriesInv(s)'
<1>a. TypeOK
  BY DEF CountInv, BaseInv
<1>1. ASSUME NEW s \in Scan, Create(s) \/ CreateFault(s) PROVE Goal
  <2>1. UNCHANGED <<handlerVars, completedLog, stalls>>
    BY <1>1 DEF Create, CreateRefused, CreateInsert, CreateEnqueue, CreateAudit, CreateFault,
       rowVars, requestVars, queueVars
  <2>2. job' = job \/ CreateEnqueue(s)
    BY <1>1 DEF Create, CreateRefused, CreateInsert, CreateEnqueue, CreateAudit, CreateFault, queueVars
  <2>3. CreateEnqueue(s) => job[s] = "none" /\ job' = [job EXCEPT ![s] = "waiting"]
    BY DEF CreateEnqueue, CountInv, BaseInv, RequestInv
  <2> QED
    BY <2>1, <2>2, <2>3, <1>a, HandlersRest DEF TypeOK
<1>2. ASSUME NEW r \in Remover, Remove(r) \/ RemoveFault(r) PROVE Goal
  <2>1. UNCHANGED <<handlerVars, completedLog, stalls, job>>
    BY <1>2 DEF Remove, RemoveRefused, RemoveFind, RemoveDelete, RemoveAudit, RemoveFault, queueVars
  <2> QED
    BY <2>1, HandlersRest
<1>3. ASSUME NEW s \in Scan, Stalled(s) PROVE Goal
  <2>1. /\ job[s] = "active" /\ stalls' = [stalls EXCEPT ![s] = @ + 1]
        /\ UNCHANGED <<handlerVars, completedLog>>
        /\ \A t \in Scan \ {s} : job'[t] = job[t]
    BY <1>3, <1>a DEF Stalled, Requeue, TypeOK
  <2> SUFFICES ASSUME NEW t \in Scan PROVE DeliveriesInv(t)'
    OBVIOUS
  <2>2. MayLog(t)' = MayLog(t)
    BY <2>1 DEF MayLog, handlerVars
  <2>3. CASE t # s
    BY <2>1, <2>2, <2>3, <1>a, NoFurther DEF TypeOK
  <2>4. CASE t = s
    <3>1. IsFiniteSet(MayLog(t)) /\ Cardinality(MayLog(t)) \in Nat
      BY FS_CardinalityType DEF CountInv, DeliveriesInv
    <3>2. completedLog[t] + Cardinality(MayLog(t)) + Undelivered(t) <= stalls[t] + 1
      BY DEF CountInv, DeliveriesInv
    <3>3. Undelivered(t) = 0 /\ Undelivered(t)' \in {0, 1}
      BY <2>1, <2>4 DEF Undelivered
    <3>4. /\ completedLog'[t] = completedLog[t] /\ completedLog[t] \in Nat
          /\ stalls'[t] = stalls[t] + 1 /\ stalls[t] \in Nat
      BY <2>1, <2>4, <1>a DEF TypeOK
    <3>5. completedLog'[t] + Cardinality(MayLog(t)) + Undelivered(t)' <= stalls'[t] + 1
      BY <3>1, <3>2, <3>3, <3>4
    <3> QED
      BY <3>1, <3>5, <2>2 DEF DeliveriesInv
  <2> QED
    BY <2>3, <2>4
<1>4. ASSUME NEW w \in Worker, NEW s \in Scan, Take(w, s) PROVE Goal
  <2>1. /\ job[s] = "waiting" /\ job'[s] = "active" /\ hstep[w] = "idle"
        /\ hscan'[w] = s /\ UNCHANGED <<completedLog, stalls>>
        /\ \A t \in Scan \ {s} : job'[t] = job[t]
        /\ \A v \in Worker \ {w} : hscan'[v] = hscan[v] /\ hstep'[v] = hstep[v] /\ hgoal'[v] = hgoal[v]
    BY <1>4, <1>a DEF Take, TypeOK, Busy
  <2> SUFFICES ASSUME NEW t \in Scan PROVE DeliveriesInv(t)'
    OBVIOUS
  <2>2. CASE t # s
    <3>1. MayLog(t)' \subseteq MayLog(t)
      BY <2>1, <2>2 DEF MayLog
    <3> QED
      BY <2>1, <2>2, <3>1, NoFurther
  <2>3. CASE t = s
    <3>1. MayLog(t)' \subseteq MayLog(t) \cup {w} /\ w \notin MayLog(t)
      BY <2>1, <2>3 DEF MayLog
    <3>2. IsFiniteSet(MayLog(t)) /\ Cardinality(MayLog(t)) \in Nat
      BY FS_CardinalityType DEF CountInv, DeliveriesInv
    <3>3. /\ IsFiniteSet(MayLog(t) \cup {w})
          /\ Cardinality(MayLog(t) \cup {w}) = Cardinality(MayLog(t)) + 1
      BY <3>1, <3>2, FS_AddElement
    <3>4. IsFiniteSet(MayLog(t)') /\ Cardinality(MayLog(t)') <= Cardinality(MayLog(t)) + 1
      BY <3>1, <3>3, FS_Subset
    <3>5. Cardinality(MayLog(t)') \in Nat
      BY <3>4, FS_CardinalityType
    <3>6. completedLog[t] + Cardinality(MayLog(t)) + Undelivered(t) <= stalls[t] + 1
      BY DEF CountInv, DeliveriesInv
    <3>7. Undelivered(t) = 1 /\ Undelivered(t)' = 0
      BY <2>1, <2>3 DEF Undelivered
    <3>8. completedLog[t] \in Nat /\ stalls[t] \in Nat
      BY <1>a DEF TypeOK
    <3>9. completedLog'[t] + Cardinality(MayLog(t)') + Undelivered(t)' <= stalls'[t] + 1
      BY <2>1, <3>2, <3>4, <3>5, <3>6, <3>7, <3>8
    <3> QED
      BY <3>4, <3>9 DEF DeliveriesInv
  <2> QED
    BY <2>2, <2>3
<1>5. ASSUME NEW w \in Worker, Audit(w) PROVE Goal
  <2>1. /\ hstep[w] = "audit" /\ hgoal[w] = "COMPLETED" /\ hscan[w] \in Scan
        /\ completedLog' = [completedLog EXCEPT ![hscan[w]] = @ + 1]
        /\ hstep'[w] = "ack" /\ UNCHANGED <<job, stalls, hscan>>
        /\ \A v \in Worker \ {w} : hstep'[v] = hstep[v] /\ hgoal'[v] = hgoal[v]
    BY <1>5, <1>a DEF Audit, Goto, queueVars, TypeOK, CountInv, BaseInv, HandlerInv, Busy
  <2> SUFFICES ASSUME NEW t \in Scan PROVE DeliveriesInv(t)'
    OBVIOUS
  <2>2. CASE t # hscan[w]
    <3>1. MayLog(t)' \subseteq MayLog(t)
      BY <2>1, <2>2 DEF MayLog
    <3>2. completedLog'[t] = completedLog[t]
      BY <2>1, <2>2, <1>a DEF TypeOK
    <3> QED
      BY <2>1, <3>1, <3>2, NoFurther
  <2>3. CASE t = hscan[w]
    <3>1. MayLog(t)' \subseteq MayLog(t) \ {w} /\ w \in MayLog(t)
      BY <2>1, <2>3 DEF MayLog
    <3>2. IsFiniteSet(MayLog(t)) /\ Cardinality(MayLog(t)) \in Nat
      BY FS_CardinalityType DEF CountInv, DeliveriesInv
    <3>3. /\ IsFiniteSet(MayLog(t) \ {w})
          /\ Cardinality(MayLog(t) \ {w}) = Cardinality(MayLog(t)) - 1
      BY <3>1, <3>2, FS_RemoveElement
    <3>4. IsFiniteSet(MayLog(t)') /\ Cardinality(MayLog(t)') <= Cardinality(MayLog(t)) - 1
      BY <3>1, <3>3, FS_Subset
    <3>5. Cardinality(MayLog(t)') \in Nat
      BY <3>4, FS_CardinalityType
    <3>6. completedLog[t] + Cardinality(MayLog(t)) + Undelivered(t) <= stalls[t] + 1
      BY DEF CountInv, DeliveriesInv
    <3>7. Undelivered(t)' = Undelivered(t) /\ Undelivered(t) \in {0, 1}
      BY <2>1 DEF Undelivered
    <3>8. completedLog[t] \in Nat /\ stalls[t] \in Nat /\ completedLog'[t] = completedLog[t] + 1
      BY <2>1, <2>3, <1>a DEF TypeOK
    <3>9. completedLog'[t] + Cardinality(MayLog(t)') + Undelivered(t)' <= stalls'[t] + 1
      BY <2>1, <3>2, <3>4, <3>5, <3>6, <3>7, <3>8
    <3> QED
      BY <3>4, <3>9 DEF DeliveriesInv
  <2> QED
    BY <2>2, <2>3
<1>6. ASSUME NEW w \in Worker,
             UpdateFind(w) \/ UpdateWrite(w) \/ Load(w) \/ HandlerFault(w)
      PROVE  Goal
  <2>1. /\ Busy(w) /\ hstep[w] \in {"find", "write", "load", "audit"}
        /\ UNCHANGED <<completedLog, queueVars, hscan>>
    BY <1>6 DEF UpdateFind, UpdateWrite, WriteRow, Load, HandlerFault, Throw, Goto, Busy
  <2>2. \A v \in Worker \ {w} : hstep'[v] = hstep[v] /\ hgoal'[v] = hgoal[v]
    BY <1>6, <1>a DEF UpdateFind, UpdateWrite, WriteRow, Load, HandlerFault, Throw, Goto, TypeOK
  <2>3. hgoal'[w] # "FAILED" => hgoal[w] # "FAILED"
    BY <1>6, <1>a DEF UpdateFind, UpdateWrite, WriteRow, Load, HandlerFault, Throw, Goto, TypeOK,
       CountInv, BaseInv, HandlerInv, Busy
  <2> QED
    BY <2>1, <2>2, <2>3, HandlerGoesOn DEF queueVars
<1>7. ASSUME NEW w \in Worker, Ack(w) \/ Crash(w) PROVE Goal
  <2>1. /\ Busy(w) /\ UNCHANGED <<completedLog, stalls>> /\ hstep'[w] = "idle"
        /\ \A v \in Worker \ {w} : hscan'[v] = hscan[v] /\ hstep'[v] = hstep[v] /\ hgoal'[v] = hgoal[v]
    BY <1>7, <1>a DEF Ack, SettleJob, Crash, Busy, TypeOK
  <2>2. \A s \in Scan : job'[s] = job[s] \/ job'[s] \in {"completed", "failed"}
    BY <1>7, <1>a DEF Ack, SettleJob, Crash, TypeOK
  <2> QED
    BY <2>1, <2>2, HandlerGoesOn
<1>8. ASSUME NEW w \in Worker, LockExpires(w) PROVE Goal
  BY <1>8, HandlersRest DEF LockExpires
<1>9. CASE UNCHANGED vars
  BY <1>9, HandlersRest DEF vars, queueVars
<1> QED
  BY <1>1, <1>2, <1>3, <1>4, <1>5, <1>6, <1>7, <1>8, <1>9 DEF Next, Handle

\* The audit trail counts a scan's completions by deliveries: with n stalls, at most n + 1
\* SCAN_COMPLETED rows, whatever crashes, expired locks and failing calls come between.
THEOREM ScansOneCompletionLogPerDelivery == Spec => []OneCompletionLogPerDelivery
<1>1. ASSUME CountInv, NEW s \in Scan PROVE completedLog[s] <= stalls[s] + 1
  <2>1. Cardinality(MayLog(s)) \in Nat
    BY <1>1, FS_CardinalityType DEF CountInv, DeliveriesInv
  <2>2. completedLog[s] \in Nat /\ stalls[s] \in Nat
    BY <1>1 DEF CountInv, BaseInv, TypeOK
  <2>3. completedLog[s] + Cardinality(MayLog(s)) + Undelivered(s) <= stalls[s] + 1
        /\ Undelivered(s) \in {0, 1}
    BY <1>1 DEF CountInv, DeliveriesInv, Undelivered
  <2> QED
    BY <2>1, <2>2, <2>3
<1>2. CountInv => OneCompletionLogPerDelivery
  BY <1>1 DEF OneCompletionLogPerDelivery
<1> QED
  BY CountInit, CountNext, <1>2, PTL DEF Spec

-----------------------------------------------------------------------------
(* Every scan comes to rest *)

\* The calls a handler still has to make, at most: three for each status it may yet write,
\* FAILED last, with the reload before and the audit row after COMPLETED.
HandlerLeft(w) ==
    LET find == [RUNNING |-> 9, COMPLETED |-> 6, FAILED |-> 3] IN
    CASE hstep[w] = "find"  -> find[hgoal[w]]
      [] hstep[w] = "write" -> find[hgoal[w]] - 1
      [] hstep[w] = "load"  -> 7
      [] hstep[w] = "audit" -> 4
      [] OTHER -> 1

\* The steps a scan's request, job and handler still have to take, at most: a delivery takes
\* eleven, from the waiting list to the stalled-job check that finds its lock gone.
StepsLeft(s) ==
    CASE job[s] = "none" /\ createPc[s] = "idle"     -> 11 * (MaxStalledCount + 1) + 2
      [] job[s] = "none" /\ createPc[s] = "inserted" -> 11 * (MaxStalledCount + 1) + 1
      [] job[s] = "waiting" -> 11 * (MaxStalledCount - stalls[s]) + 11
      [] job[s] = "active"  -> 11 * (MaxStalledCount - stalls[s])
                               + (IF lock[s] = NoWorker THEN 1 ELSE 1 + HandlerLeft(lock[s]))
      [] OTHER -> 0

\* A step of the scan's request but for its audit row, of its job or of a handler busy with it
WorksOn(s) ==
    \/ CreateRefused(s) \/ CreateInsert(s) \/ CreateEnqueue(s) \/ Stalled(s)
    \/ \E w \in Worker :
        \/ Take(w, s)
        \/ hscan[w] = s /\ (Handle(w) \/ HandlerFault(w) \/ Crash(w))

Approach ==
    \A s \in Scan : "lock" \notin lapses'[s] =>
        /\ StepsLeft(s)' <= StepsLeft(s)
        /\ WorksOn(s) => StepsLeft(s)' < StepsLeft(s)

\* Somebody has the next step for the scan: its request, a free slot, the stalled-job
\* check, or the handler that holds its lock.
Awaited(s) ==
    \/ createPc[s] = "inserted" /\ job[s] = "none"
    \/ job[s] = "waiting"
    \/ job[s] = "active" /\ lock[s] = NoWorker
    \/ job[s] = "active" /\ \E w \in Worker : lock[s] = w /\ hscan[w] = s /\ Busy(w)

\* A scan in flight is at rest only if it is stranded.
InHand ==
    \A s \in Scan :
        /\ StepsLeft(s) \in Nat
        /\ InFlight(s) /\ ~Stranded(s) => StepsLeft(s) > 0 /\ Awaited(s)

LEMMA HandlerLeftType ==
    ASSUME BaseInv, NEW w \in Worker
    PROVE  HandlerLeft(w) \in 1..9
<1>1. hstep[w] \in HandlerStep /\ hgoal[w] \in {"RUNNING", "COMPLETED", "FAILED"}
  BY DEF BaseInv, TypeOK
<1>2. CASE hgoal[w] = "RUNNING"
  BY <1>1, <1>2 DEF HandlerLeft, HandlerStep
<1>3. CASE hgoal[w] = "COMPLETED"
  BY <1>1, <1>3 DEF HandlerLeft, HandlerStep
<1>4. CASE hgoal[w] = "FAILED"
  BY <1>1, <1>4 DEF HandlerLeft, HandlerStep
<1> QED
  BY <1>1, <1>2, <1>3, <1>4

LEMMA StepsLeftType ==
    ASSUME BaseInv, NEW s \in Scan
    PROVE  /\ StepsLeft(s) \in Nat
           /\ job[s] \in {"waiting", "active"} => StepsLeft(s) > 0
           /\ job[s] = "none" /\ createPc[s] = "inserted" => StepsLeft(s) > 0
<1>1. /\ stalls[s] \in Nat /\ MaxStalledCount \in Nat
      /\ job[s] \in JobState /\ createPc[s] \in CreateStep /\ lock[s] \in Worker \cup {NoWorker}
  BY ScansAssumption DEF BaseInv, TypeOK
<1>2. job[s] # "failed" => MaxStalledCount - stalls[s] \in Nat
  BY <1>1 DEF BaseInv, QueueInv
<1>3. lock[s] # NoWorker => HandlerLeft(lock[s]) \in 1..9
  BY <1>1, HandlerLeftType
<1>4. CASE job[s] = "none"
  BY <1>1, <1>4 DEF StepsLeft
<1>5. CASE job[s] = "waiting"
  BY <1>2, <1>5 DEF StepsLeft
<1>6. CASE job[s] = "active"
  BY <1>2, <1>3, <1>6 DEF StepsLeft
<1>7. CASE job[s] \in {"completed", "failed"}
  BY <1>7 DEF StepsLeft
<1> QED
  BY <1>1, <1>4, <1>5, <1>6, <1>7 DEF JobState

\* What a step leaves alone is as far from rest as before.
LEMMA AsFar ==
    ASSUME NEW s \in Scan,
           job'[s] = job[s], stalls'[s] = stalls[s], lock'[s] = lock[s],
           job[s] = "none" => createPc'[s] = createPc[s],
           lock[s] # NoWorker => hstep'[lock[s]] = hstep[lock[s]] /\ hgoal'[lock[s]] = hgoal[lock[s]]
    PROVE  StepsLeft(s)' = StepsLeft(s)
<1>1. lock[s] # NoWorker => HandlerLeft(lock[s])' = HandlerLeft(lock[s])
  BY DEF HandlerLeft
<1> QED
  BY <1>1 DEF StepsLeft

\* A busy handler holds the lock of its scan, and no lock of another.
LEMMA Holds ==
    ASSUME BaseInv, NEW w \in Worker, Busy(w), NEW s \in Scan, "lock" \notin lapses[s]
    PROVE  /\ hscan[w] = s => lock[s] = w /\ job[s] = "active"
           /\ hscan[w] # s => lock[s] # w
  BY ScansAssumption DEF BaseInv, QueueInv, HandlerInv, TypeOK

\* Each call brings its handler nearer to its end.
LEMMA HandlerNears ==
    ASSUME BaseInv, NEW w \in Worker,
           UpdateFind(w) \/ UpdateWrite(w) \/ Load(w) \/ Audit(w) \/ HandlerFault(w)
    PROVE  HandlerLeft(w)' \in 1..8 /\ HandlerLeft(w)' < HandlerLeft(w)
<1>1. hstep[w] \in HandlerStep /\ hgoal[w] \in {"RUNNING", "COMPLETED", "FAILED"}
      /\ w \in DOMAIN hstep /\ w \in DOMAIN hgoal
  BY DEF BaseInv, TypeOK
<1>2. /\ hstep[w] = "load" => hgoal[w] = "RUNNING"
      /\ hstep[w] = "audit" => hgoal[w] = "COMPLETED"
  BY DEF BaseInv, HandlerInv, Busy
<1> DEFINE To(step, goal) == hstep'[w] = step /\ hgoal'[w] = goal
           Thrown == IF hgoal[w] = "FAILED" THEN To("ack", "FAILED") ELSE To("find", "FAILED")
<1>3. \/ hstep[w] = "find" /\ (To("write", hgoal[w]) \/ Thrown)
      \/ hstep[w] = "write" /\ (To(AfterWrite[hgoal[w]], hgoal[w]) \/ Thrown)
      \/ hstep[w] = "load" /\ (To("find", "COMPLETED") \/ Thrown)
      \/ hstep[w] = "audit" /\ (To("ack", "COMPLETED") \/ Thrown)
  BY <1>1 DEF UpdateFind, UpdateWrite, WriteRow, Load, Audit, HandlerFault, Throw, Goto
<1>4. CASE hgoal[w] = "RUNNING"
  BY <1>2, <1>3, <1>4 DEF HandlerLeft, AfterWrite
<1>5. CASE hgoal[w] = "COMPLETED"
  BY <1>2, <1>3, <1>5 DEF HandlerLeft, AfterWrite
<1>6. CASE hgoal[w] = "FAILED"
  BY <1>2, <1>3, <1>6 DEF HandlerLeft, AfterWrite
<1> QED
  BY <1>1, <1>4, <1>5, <1>6

LEMMA LapsesStay ==
    ASSUME BaseInv, [Next]_vars, NEW s \in Scan
    PROVE  lapses[s] \subseteq lapses'[s]
<1>0. s \in DOMAIN lapses
  BY DEF BaseInv, TypeOK
<1>1. ASSUME NEW t \in Scan, Create(t) \/ CreateFault(t) \/ Stalled(t) PROVE lapses[s] \subseteq lapses'[s]
  BY <1>0, <1>1 DEF Create, CreateRefused, CreateInsert, CreateEnqueue, CreateAudit, CreateFault,
     NoteLapse, Stalled, Requeue, BaseInv, TypeOK
<1>2. ASSUME NEW r \in Remover, Remove(r) \/ RemoveFault(r) PROVE lapses[s] \subseteq lapses'[s]
  BY <1>2 DEF Remove, RemoveRefused, RemoveFind, RemoveDelete, RemoveAudit, RemoveFault
<1>3. ASSUME NEW w \in Worker, (\E t \in Scan : Take(w, t)) \/ Handle(w) \/ Crash(w)
      PROVE  lapses[s] \subseteq lapses'[s]
  BY <1>3 DEF Take, Handle, UpdateFind, UpdateWrite, WriteRow, Load, Audit, Ack, SettleJob, Crash
<1>4. ASSUME NEW w \in Worker, HandlerFault(w) \/ LockExpires(w) PROVE lapses[s] \subseteq lapses'[s]
  BY <1>0, <1>4 DEF HandlerFault, LockExpires, NoteLapse, BaseInv, TypeOK
<1>5. CASE UNCHANGED vars
  BY <1>5 DEF vars
<1> QED
  BY <1>1, <1>2, <1>3, <1>4, <1>5 DEF Next

\* A step that works on a scan brings it nearer to rest.
LEMMA Nears ==
    ASSUME BaseInv, NEW s \in Scan, "lock" \notin lapses[s], WorksOn(s)
    PROVE  StepsLeft(s)' < StepsLeft(s)
<1>1. /\ stalls[s] \in Nat /\ MaxStalledCount \in Nat
      /\ s \in DOMAIN job /\ s \in DOMAIN createPc /\ s \in DOMAIN stalls /\ s \in DOMAIN lock
      /\ StepsLeft(s) \in Nat
  BY ScansAssumption, StepsLeftType DEF BaseInv, TypeOK
<1>2. job[s] # "failed" => MaxStalledCount - stalls[s] \in Nat
  BY <1>1 DEF BaseInv, QueueInv
<1>3. createPc[s] \in {"idle", "inserted"} => job[s] = "none"
  BY DEF BaseInv, RequestInv
<1>4. job[s] = "none" => stalls[s] = 0
  BY DEF BaseInv, RequestInv
<1>5. CASE CreateRefused(s)
  <2>1. createPc[s] = "idle" /\ createPc'[s] = "refused" /\ job[s] = "none" /\ job'[s] = "none"
    BY <1>1, <1>3, <1>5 DEF CreateRefused, queueVars
  <2> QED
    BY <1>1, <2>1 DEF StepsLeft
<1>6. CASE CreateInsert(s)
  <2>1. createPc[s] = "idle" /\ createPc'[s] = "inserted" /\ job[s] = "none" /\ job'[s] = "none"
    BY <1>1, <1>3, <1>6 DEF CreateInsert, queueVars
  <2> QED
    BY <1>1, <2>1 DEF StepsLeft
<1>7. CASE CreateEnqueue(s)
  <2>1. /\ createPc[s] = "inserted" /\ job[s] = "none" /\ job'[s] = "waiting"
        /\ stalls[s] = 0 /\ stalls'[s] = 0
    BY <1>1, <1>3, <1>4, <1>7 DEF CreateEnqueue
  <2> QED
    BY <1>1, <2>1 DEF StepsLeft
<1>8. CASE Stalled(s)
  <2>1. /\ job[s] = "active" /\ lock[s] = NoWorker /\ stalls'[s] = stalls[s] + 1
        /\ IF stalls[s] < MaxStalledCount THEN job'[s] = "waiting" ELSE job'[s] = "failed"
    BY <1>1, <1>8 DEF Stalled, Requeue
  <2>2. StepsLeft(s) = 11 * (MaxStalledCount - stalls[s]) + 1
    BY <2>1 DEF StepsLeft
  <2>3. CASE job'[s] = "waiting"
    <3>1. StepsLeft(s)' = 11 * (MaxStalledCount - (stalls[s] + 1)) + 11
      BY <2>1, <2>3 DEF StepsLeft
    <3> QED
      BY <1>1, <2>2, <3>1
  <2>4. CASE job'[s] = "failed"
    <3>1. StepsLeft(s)' = 0
      BY <2>4 DEF StepsLeft
    <3> QED
      BY <1>1, <1>2, <2>1, <2>2, <3>1
  <2> QED
    BY <2>1, <2>3, <2>4
<1>9. ASSUME NEW w \in Worker, Take(w, s) PROVE StepsLeft(s)' < StepsLeft(s)
  <2>1. /\ job[s] = "waiting" /\ job'[s] = "active" /\ lock'[s] = w /\ stalls'[s] = stalls[s]
        /\ hstep'[w] = "find" /\ hgoal'[w] = "RUNNING"
    BY <1>1, <1>9 DEF Take, BaseInv, TypeOK
  <2>2. StepsLeft(s) = 11 * (MaxStalledCount - stalls[s]) + 11
    BY <2>1 DEF StepsLeft
  <2>3. HandlerLeft(w)' = 9
    BY <2>1 DEF HandlerLeft
  <2>4. StepsLeft(s)' = 11 * (MaxStalledCount - stalls[s]) + (1 + HandlerLeft(w)')
    BY <2>1, ScansAssumption DEF StepsLeft, HandlerLeft
  <2> QED
    BY <1>1, <2>2, <2>3, <2>4
<1>10. ASSUME NEW w \in Worker, hscan[w] = s, Handle(w) \/ HandlerFault(w) \/ Crash(w)
       PROVE  StepsLeft(s)' < StepsLeft(s)
  <2>1. Busy(w)
    BY <1>10 DEF Handle, UpdateFind, UpdateWrite, WriteRow, Load, Audit, Ack, SettleJob,
       HandlerFault, Crash, Busy
  <2>2. lock[s] = w /\ job[s] = "active" /\ HandlerLeft(w) \in 1..9
    BY <1>10, <2>1, Holds, HandlerLeftType
  <2>3. StepsLeft(s) = 11 * (MaxStalledCount - stalls[s]) + (1 + HandlerLeft(w))
    BY <2>2, ScansAssumption DEF StepsLeft
  <2>4. CASE UpdateFind(w) \/ UpdateWrite(w) \/ Load(w) \/ Audit(w) \/ HandlerFault(w)
    <3>1. UNCHANGED queueVars
      BY <2>4 DEF UpdateFind, UpdateWrite, WriteRow, Load, Audit, HandlerFault
    <3>2. StepsLeft(s)' = 11 * (MaxStalledCount - stalls[s]) + (1 + HandlerLeft(w)')
      BY <2>2, <3>1, ScansAssumption DEF StepsLeft, queueVars, HandlerLeft
    <3>3. HandlerLeft(w)' \in 1..8 /\ HandlerLeft(w)' < HandlerLeft(w)
      BY <2>4, HandlerNears
    <3> QED
      BY <1>1, <1>2, <2>2, <2>3, <3>2, <3>3
  <2>5. CASE Ack(w)
    <3>1. job'[s] \in {"completed", "failed"}
      BY <1>1, <1>10, <2>2, <2>5 DEF Ack, SettleJob
    <3>2. StepsLeft(s)' = 0
      BY <3>1 DEF StepsLeft
    <3> QED
      BY <1>1, <2>2, <3>2, StepsLeftType
  <2>6. CASE Crash(w)
    <3>1. job'[s] = "active" /\ lock'[s] = NoWorker /\ stalls'[s] = stalls[s]
      BY <1>1, <1>10, <2>2, <2>6 DEF Crash, Released
    <3>2. StepsLeft(s)' = 11 * (MaxStalledCount - stalls[s]) + 1
      BY <3>1 DEF StepsLeft
    <3> QED
      BY <1>1, <2>2, <2>3, <3>2
  <2> QED
    BY <1>10, <2>4, <2>5, <2>6 DEF Handle
<1> QED
  BY <1>5, <1>6, <1>7, <1>8, <1>9, <1>10 DEF WorksOn

\* No other step takes it further away.
LEMMA KeepsNear ==
    ASSUME BaseInv, [Next]_vars, NEW s \in Scan, "lock" \notin lapses'[s], ~WorksOn(s)
    PROVE  StepsLeft(s)' <= StepsLeft(s)
<1>0. /\ "lock" \notin lapses[s] /\ StepsLeft(s) \in Nat
      /\ s \in DOMAIN job /\ s \in DOMAIN createPc /\ s \in DOMAIN stalls /\ s \in DOMAIN lock
  BY LapsesStay, StepsLeftType DEF BaseInv, TypeOK
<1> DEFINE Same == job'[s] = job[s] /\ stalls'[s] = stalls[s] /\ lock'[s] = lock[s]
                   /\ createPc'[s] = createPc[s]
<1>1. Same /\ UNCHANGED handlerVars => StepsLeft(s)' <= StepsLeft(s)
  BY <1>0, AsFar DEF handlerVars
<1>2. ASSUME NEW t \in Scan, Create(t) PROVE StepsLeft(s)' <= StepsLeft(s)
  <2>1. CASE t # s
    BY <1>0, <1>1, <1>2, <2>1 DEF Create, CreateRefused, CreateInsert, CreateEnqueue, CreateAudit,
       queueVars, BaseInv, TypeOK
  <2>2. CASE t = s
    <3>1. CreateAudit(s)
      BY <1>2, <2>2 DEF Create, WorksOn
    <3>2. createPc[s] = "enqueued" /\ createPc'[s] = "created" /\ UNCHANGED <<queueVars, handlerVars>>
      BY <1>0, <3>1 DEF CreateAudit
    <3>3. CASE job[s] = "none"
      BY <1>0, <3>2, <3>3 DEF StepsLeft, queueVars
    <3>4. CASE job[s] # "none"
      BY <1>0, <3>2, <3>4, AsFar DEF queueVars, handlerVars
    <3> QED
      BY <3>3, <3>4
  <2> QED
    BY <2>1, <2>2
<1>3. ASSUME NEW t \in Scan, CreateFault(t) PROVE StepsLeft(s)' <= StepsLeft(s)
  <2>1. CASE t # s
    BY <1>0, <1>1, <1>3, <2>1 DEF CreateFault, queueVars, BaseInv, TypeOK
  <2>2. CASE t = s
    <3>1. createPc'[s] = "error" /\ UNCHANGED <<queueVars, handlerVars>>
      BY <1>0, <1>3, <2>2 DEF CreateFault
    <3>2. CASE job[s] = "none"
      <4>1. StepsLeft(s)' = 0
        BY <3>1, <3>2 DEF StepsLeft, queueVars
      <4> QED
        BY <1>0, <4>1
    <3>3. CASE job[s] # "none"
      BY <1>0, <3>1, <3>3, AsFar DEF queueVars, handlerVars
    <3> QED
      BY <3>2, <3>3
  <2> QED
    BY <2>1, <2>2
<1>4. ASSUME NEW t \in Scan, Stalled(t) PROVE StepsLeft(s)' <= StepsLeft(s)
  <2>1. t # s
    BY <1>4 DEF WorksOn
  <2> QED
    BY <1>0, <1>1, <1>4, <2>1 DEF Stalled, Requeue, requestVars, BaseInv, TypeOK
<1>5. ASSUME NEW r \in Remover, Remove(r) \/ RemoveFault(r) PROVE StepsLeft(s)' <= StepsLeft(s)
  BY <1>1, <1>5 DEF Remove, RemoveRefused, RemoveFind, RemoveDelete, RemoveAudit, RemoveFault, queueVars
<1>6. ASSUME NEW w \in Worker, NEW t \in Scan, Take(w, t) PROVE StepsLeft(s)' <= StepsLeft(s)
  <2>1. t # s /\ ~Busy(w)
    BY <1>6 DEF WorksOn, Take
  <2>2. Same
    BY <1>0, <1>6, <2>1 DEF Take, requestVars, BaseInv, TypeOK
  <2>3. lock[s] # NoWorker => lock[s] # w
    <3>1. hstep[w] = "idle" <=> hscan[w] = NoScan
      BY DEF BaseInv, TypeOK
    <3>2. lock[s] # NoWorker => hscan[lock[s]] = s
      BY DEF BaseInv, QueueInv
    <3> QED
      BY <2>1, <3>1, <3>2, ScansAssumption DEF Busy
  <2>4. lock[s] # NoWorker => hstep'[lock[s]] = hstep[lock[s]] /\ hgoal'[lock[s]] = hgoal[lock[s]]
    BY <1>6, <2>3 DEF Take, BaseInv, TypeOK
  <2> QED
    BY <1>0, <2>2, <2>4, AsFar
<1>7. ASSUME NEW w \in Worker, Handle(w) \/ HandlerFault(w) \/ Crash(w)
      PROVE  StepsLeft(s)' <= StepsLeft(s)
  <2>1. Busy(w) /\ hscan[w] # s
    BY <1>7 DEF WorksOn, Handle, UpdateFind, UpdateWrite, WriteRow, Load, Audit, Ack, SettleJob,
       HandlerFault, Crash, Busy
  <2>2. lock[s] # w
    BY <1>0, <2>1, Holds
  <2>3. \A v \in Worker \ {w} : hstep'[v] = hstep[v] /\ hgoal'[v] = hgoal[v]
    BY <1>7 DEF Handle, UpdateFind, UpdateWrite, WriteRow, Load, Audit, Ack, SettleJob,
       HandlerFault, Throw, Goto, Crash, BaseInv, TypeOK
  <2>4. Same
    <3>1. CASE Ack(w) \/ Crash(w)
      BY <1>0, <2>1, <3>1 DEF Ack, SettleJob, Crash, Released, requestVars, BaseInv, TypeOK
    <3>2. CASE ~(Ack(w) \/ Crash(w))
      BY <1>7, <3>2 DEF Handle, UpdateFind, UpdateWrite, WriteRow, Load, Audit, HandlerFault,
         queueVars, requestVars
    <3> QED
      BY <3>1, <3>2
  <2>5. lock[s] \in Worker \cup {NoWorker}
    BY DEF BaseInv, TypeOK
  <2> QED
    BY <1>0, <2>2, <2>3, <2>4, <2>5, AsFar
<1>8. ASSUME NEW w \in Worker, LockExpires(w) PROVE StepsLeft(s)' <= StepsLeft(s)
  <2>1. hscan[w] # s
    <3>1. hscan[w] \in Scan
      BY <1>8, ScansAssumption DEF LockExpires, Busy, BaseInv, TypeOK
    <3>2. lapses' = [lapses EXCEPT ![hscan[w]] = @ \cup {"lock"}] /\ hscan[w] \in DOMAIN lapses
      BY <1>8, <3>1 DEF LockExpires, NoteLapse, BaseInv, TypeOK
    <3> QED
      BY <3>2
  <2>2. Same /\ UNCHANGED handlerVars
    BY <1>0, <1>8, <2>1 DEF LockExpires, Released, requestVars, BaseInv, TypeOK
  <2> QED
    BY <1>1, <2>2
<1>9. CASE UNCHANGED vars
  BY <1>1, <1>9 DEF vars, queueVars, requestVars
<1> QED
  BY <1>2, <1>3, <1>4, <1>5, <1>6, <1>7, <1>8, <1>9 DEF Next

LEMMA RestsInHand == OutcomeInv => InHand
<1> SUFFICES ASSUME OutcomeInv, NEW s \in Scan
             PROVE  /\ StepsLeft(s) \in Nat
                    /\ InFlight(s) /\ ~Stranded(s) => StepsLeft(s) > 0 /\ Awaited(s)
  BY DEF InHand
<1>1. BaseInv
  BY DEF OutcomeInv
<1> SUFFICES ASSUME InFlight(s), ~Stranded(s)
             PROVE  StepsLeft(s) > 0 /\ Awaited(s)
  BY <1>1, StepsLeftType
<1>2. job[s] \in {"waiting", "active"} \/ createPc[s] = "inserted"
  BY DEF OutcomeInv, NoStrandedScan
<1>3. createPc[s] = "inserted" => job[s] = "none"
  BY <1>1 DEF BaseInv, RequestInv
<1>4. job[s] = "active" /\ lock[s] # NoWorker =>
        \E w \in Worker : lock[s] = w /\ hscan[w] = s /\ Busy(w)
  BY <1>1, ScansAssumption DEF BaseInv, QueueInv, TypeOK, Busy
<1> QED
  BY <1>1, <1>2, <1>3, <1>4, StepsLeftType DEF Awaited

\* Why every scan settles, whatever crashes and fails on the way, as long as no lock expires
\* under a live handler: a scan in flight that is not stranded has a next step that somebody
\* owes it, each of these steps leaves fewer, and no step of another leaves more.
THEOREM ScansComeToRest == Spec => []InHand /\ [][Approach]_vars
<1>1. OutcomeInv /\ [Next]_vars => InHand'
  BY OutcomeNext, RestsInHand, PTL
<1>2. OutcomeInv /\ [Next]_vars => [Approach]_vars
  <2> SUFFICES ASSUME OutcomeInv, [Next]_vars, NEW s \in Scan, "lock" \notin lapses'[s]
               PROVE  /\ StepsLeft(s)' <= StepsLeft(s)
                      /\ WorksOn(s) => StepsLeft(s)' < StepsLeft(s)
    BY DEF Approach
  <2>0. BaseInv
    BY DEF OutcomeInv
  <2>1. "lock" \notin lapses[s]
    BY <2>0, LapsesStay
  <2>2. StepsLeft(s) \in Nat /\ StepsLeft(s)' \in Nat
    BY <1>1, RestsInHand DEF InHand
  <2>3. CASE WorksOn(s)
    BY <2>0, <2>1, <2>2, <2>3, Nears
  <2>4. CASE ~WorksOn(s)
    BY <2>0, <2>4, KeepsNear
  <2> QED
    BY <2>3, <2>4
<1> QED
  BY <1>2, OutcomeInit, OutcomeNext, RestsInHand, PTL DEF Spec

=============================================================================
