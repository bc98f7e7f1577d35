------------------------------- MODULE MCScans -------------------------------
(***************************************************************************)
(* Instance of Scans for TLC: one scan, since scans share nothing but the  *)
(* handler slots; ScansProofs has the safety properties for any set.       *)
(***************************************************************************)
EXTENDS Scans

=============================================================================
