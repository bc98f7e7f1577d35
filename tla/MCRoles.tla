------------------------------- MODULE MCRoles -------------------------------
(***************************************************************************)
(* An instance of Roles, with Accounts, for TLC.                           *)
(***************************************************************************)
EXTENDS Roles, TLC

CONSTANTS u1, u2, e1, e2, i1, member1, auditor, w1

MCEmailAt == u1 :> e1
MCEmailOf == i1 :> e1
MCOwner   == w1 :> u1
AssignedTo(id, role, scope) == [id |-> id, user |-> u1, role |-> role, scope |-> scope]
MCInitial == {{}, {AssignedTo(0, member1, Global)},
              {AssignedTo(0, member1, Global), AssignedTo(1, auditor, w1)}}
MCSymmetry == Permutations(Task) \cup Permutations(Request)

=============================================================================
