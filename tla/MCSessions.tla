------------------------------ MODULE MCSessions -----------------------------
(***************************************************************************)
(* Instances of Sessions for TLC.                                          *)
(***************************************************************************)
EXTENDS Sessions, TLC

Symmetry ==
    Permutations(User) \cup Permutations(Session) \cup Permutations(Link) \cup Permutations(Request)

=============================================================================
