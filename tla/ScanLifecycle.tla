---------------------------- MODULE ScanLifecycle ----------------------------
(***************************************************************************)
(* What the scan pipeline promises a client that polls a scan: the status  *)
(* only moves forward (QUEUED, RUNNING, COMPLETED, FAILED, skipping none   *)
(* but into FAILED), a deleted scan stays deleted, and results are never   *)
(* withdrawn.  Only a scan whose job the queue delivered again may have    *)
(* its status rewritten.                                                   *)
(***************************************************************************)
EXTENDS Naturals

CONSTANTS Scan, MaxDeliveries

VARIABLES
    status,      \* what GET /scans/:id shows, "absent" or "deleted" when nothing
    results,     \* whether results are shown
    redelivered  \* how often the queue delivered the scan's job again

vars == <<status, results, redelivered>>

Init ==
    /\ status = [s \in Scan |-> "absent"]
    /\ results = [s \in Scan |-> FALSE]
    /\ redelivered = [s \in Scan |-> 0]

Live(s) == status[s] \in {"QUEUED", "RUNNING", "COMPLETED", "FAILED"}

\* The statuses a first delivery may write over status st.
After(st) ==
    CASE st = "QUEUED"    -> {"RUNNING", "FAILED"}
      [] st = "RUNNING"   -> {"COMPLETED", "FAILED"}
      [] st = "COMPLETED" -> {"FAILED"}
      [] OTHER            -> {}

Accept(s) ==
    /\ status[s] = "absent"
    /\ status' = [status EXCEPT ![s] = "QUEUED"]
    /\ UNCHANGED <<results, redelivered>>

SetStatus(s, st) ==
    /\ status' = [status EXCEPT ![s] = st]
    /\ results' = IF st = "COMPLETED" THEN [results EXCEPT ![s] = TRUE] ELSE results
    /\ UNCHANGED redelivered

Advance(s) == \E st \in After(status[s]) : SetStatus(s, st)

Rewrite(s) ==
    /\ Live(s)
    /\ redelivered[s] > 0
    /\ \E st \in {"RUNNING", "COMPLETED", "FAILED"} : SetStatus(s, st)

Redeliver(s) ==
    /\ redelivered[s] < MaxDeliveries
    /\ redelivered' = [redelivered EXCEPT ![s] = @ + 1]
    /\ UNCHANGED <<status, results>>

Delete(s) ==
    /\ Live(s)
    /\ status' = [status EXCEPT ![s] = "deleted"]
    /\ UNCHANGED <<results, redelivered>>

Next == \E s \in Scan :
    Accept(s) \/ Advance(s) \/ Rewrite(s) \/ Redeliver(s) \/ Delete(s)

Spec == Init /\ [][Next]_vars

=============================================================================
