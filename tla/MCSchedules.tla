----------------------------- MODULE MCSchedules -----------------------------
(***************************************************************************)
(* Instances of Schedules for TLC.                                         *)
(***************************************************************************)
EXTENDS Schedules, TLC

\* Safety runs only.
Symmetry == Permutations(Schedule) \cup Permutations(Cron) \cup Permutations(Request)

=============================================================================
