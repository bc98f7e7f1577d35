------------------------------- MODULE MCPlans -------------------------------
(***************************************************************************)
(* An instance of Plans for TLC.                                           *)
(***************************************************************************)
EXTENDS Plans, TLC

CONSTANTS starter, pro

MCLimitOf  == starter :> 1 @@ pro :> 2
MCSymmetry == Permutations(Task)

=============================================================================
