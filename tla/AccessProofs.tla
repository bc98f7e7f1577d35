---------------------------- MODULE AccessProofs ----------------------------
(***************************************************************************)
(* Proofs about Access: for any routes, requests and states of the         *)
(* database.                                                               *)
(*                                                                         *)
(* The invariant behind the second theorem says where a request that       *)
(* carries only metadata stands as long as it is not refused: no guard has *)
(* set a user, and the check for one is still ahead, in the first global   *)
(* guard the metadata wakes up.                                            *)
(*                                                                         *)
(* The invariant behind the third, EntitledInv, follows every check of the *)
(* chain: it is still to do, or what it asks was true of the database at   *)
(* some moment since the request came in, or the caller is a SUPER user    *)
(* whom the guard spared it.                                               *)
(*                                                                         *)
(* CauseInv, behind the fourth, says what is known while nothing changes:  *)
(* no check is done before one it comes after, and of what a check to come *)
(* may find missing, the earlier ones have ruled out the exemptions.  With *)
(* GuardsAgree, which says that all guards of a request that names one     *)
(* workspace judge in that one, the two directions meet in Verdict.  The   *)
(* last theorem counts the checks still to make: the guards always answer. *)
(***************************************************************************)
EXTENDS Access, SequenceTheorems, FiniteSetTheorems, WellFoundedInduction, TLAPS

ChainOf == Chain(route, registered)

-----------------------------------------------------------------------------
(* Guards and checks *)

LEMMA ChainType ==
    ASSUME NEW e \in Endpoint, NEW r \in BOOLEAN
    PROVE  Chain(e, r) \in Seq(Guard)
<1>1. e.guards \in Seq(Guard)
  BY DEF Endpoint
<1>2. <<"PermissionGuard", "FeatureGuard", "LimitGuard">> \in Seq(Guard)
  BY DEF Guard
<1> QED
  BY <1>1, <1>2 DEF Chain

LEMMA DueType ==
    ASSUME NEW e \in Endpoint, NEW r \in BOOLEAN, NEW req
    PROVE  Due(Chain(e, r), e, req) \subseteq Check
<1>1. Chain(e, r) \in Seq(Guard)
  BY ChainType
<1>2. DOMAIN Chain(e, r) \subseteq Nat
  BY <1>1
<1> QED
  BY <1>2 DEF Due, Check

\* The global guards come first.
LEMMA GlobalFirst ==
    ASSUME NEW e \in Endpoint
    PROVE  /\ 1 \in DOMAIN Chain(e, TRUE) /\ Chain(e, TRUE)[1] = "PermissionGuard"
           /\ 2 \in DOMAIN Chain(e, TRUE) /\ Chain(e, TRUE)[2] = "FeatureGuard"
<1>1. e.guards \in Seq(Guard)
  BY DEF Endpoint
<1> DEFINE front == <<"PermissionGuard", "FeatureGuard", "LimitGuard">>
<1>2. front \in Seq(Guard) /\ Len(front) = 3
  BY DEF Guard
<1>3. /\ Len(front \o e.guards) = 3 + Len(e.guards)
      /\ \A i \in 1..3 : (front \o e.guards)[i] = front[i]
      /\ DOMAIN (front \o e.guards) = 1..(3 + Len(e.guards))
  BY <1>1, <1>2
<1>4. Len(e.guards) \in Nat
  BY <1>1
<1>5. front[1] = "PermissionGuard" /\ front[2] = "FeatureGuard"
  OBVIOUS
<1>6. Chain(e, TRUE) = front \o e.guards
  BY DEF Chain
<1>7. 1 \in DOMAIN (front \o e.guards) /\ 2 \in DOMAIN (front \o e.guards)
  BY <1>3, <1>4
<1>8. (front \o e.guards)[1] = front[1] /\ (front \o e.guards)[2] = front[2]
  BY <1>3
<1> HIDE DEF front
<1> QED
  BY <1>5, <1>6, <1>7, <1>8

-----------------------------------------------------------------------------
(* Type correctness *)

TypeInv ==
    /\ TypeOK
    /\ route \in Endpoint
    /\ todo \subseteq Due(ChainOf, route, request)

\* What the checks have in common: one settles the request or passes on to the others.
LEMMA TypeKept ==
    ASSUME TypeInv, NEW checks,
           Pass(checks) \/ Refuse(401) \/ Refuse(403),
           user' \in {user, "id", "sub"}, fits' \in BOOLEAN, failed' \subseteq Lookup,
           UNCHANGED <<given, facts, seen, changes>>
    PROVE  TypeInv'
<1>1. /\ todo' \subseteq todo
      /\ stage' \in {"guards", "handler", "refused"}
      /\ answer' \in {0, 200, 401, 403}
  BY DEF TypeInv, TypeOK, Pass, Refuse
<1>2. user' \in {"nobody", "id", "sub"}
  BY DEF TypeInv, TypeOK
<1> QED
  BY <1>1, <1>2 DEF TypeInv, TypeOK, ChainOf, given

LEMMA TypeInit == Init => TypeInv
<1> SUFFICES ASSUME Init PROVE TypeInv
  OBVIOUS
<1>1. route \in Endpoint /\ registered \in BOOLEAN
  BY AccessAssumption DEF Init
<1>2. todo \subseteq Check
  BY <1>1, DueType DEF Init
<1>3. seen \subseteq Cases /\ facts \in seen
  BY DEF Init
<1>4. changes \in 0..MaxChanges
  BY AccessAssumption DEF Init
<1>5. TypeOK
  BY <1>2, <1>3, <1>4 DEF Init, TypeOK
<1> QED
  BY <1>1, <1>5 DEF Init, TypeInv, ChainOf

LEMMA TypeStep == TypeInv /\ [Next]_vars => TypeInv'
<1> SUFFICES ASSUME TypeInv, [Next]_vars PROVE TypeInv'
  OBVIOUS
<1>0. user \in {"nobody", "id", "sub"} /\ fits \in BOOLEAN /\ failed \subseteq Lookup
  BY DEF TypeInv, TypeOK
<1>1. ASSUME NEW c \in todo, CheckToken(c) PROVE TypeInv'
  <2>1. Pass({c}) \/ Refuse(401)
    BY <1>1 DEF CheckToken, Settle
  <2>2. user' \in {user, "id"} /\ UNCHANGED <<given, facts, seen, fits, failed, changes>>
    BY <1>0, <1>1 DEF CheckToken
  <2> QED
    BY <1>0, <2>1, <2>2, TypeKept
<1>2. ASSUME NEW c \in todo, CheckUser(c) PROVE TypeInv'
  <2>1. Pass({c}) \/ Refuse(401)
    BY <1>2 DEF CheckUser, Settle
  <2>2. UNCHANGED <<given, facts, seen, user, fits, failed, changes>>
    BY <1>0, <1>2 DEF CheckUser
  <2> QED
    BY <1>0, <2>1, <2>2, TypeKept
<1>3. ASSUME NEW c \in todo, CheckSuper(c) PROVE TypeInv'
  <2> DEFINE spared == {c} \cup {d \in todo : facts.role = "SUPER" /\ d.at = c.at
                                                   /\ d.kind \in Spared(GuardOf(c), route)}
  <2>1. Pass(spared) /\ UNCHANGED <<given, facts, seen, user, fits, failed, changes>>
    BY <1>3 DEF CheckSuper
  <2> HIDE DEF spared
  <2> QED
    BY <1>0, <2>1, TypeKept
<1>4. ASSUME NEW c \in todo, CheckRow(c) PROVE TypeInv'
  <2>1. Pass({c}) \/ Refuse(403)
    BY <1>4 DEF CheckRow, Settle
  <2>2. user' \in {user, "sub"} /\ fits' \in BOOLEAN
        /\ UNCHANGED <<given, facts, seen, failed, changes>>
    BY <1>0, <1>4 DEF CheckRow
  <2> QED
    BY <1>0, <2>1, <2>2, TypeKept
<1>5. ASSUME NEW c \in todo, CheckMembershipRole(c) PROVE TypeInv'
  <2>1. Pass({c})
    BY <1>5 DEF CheckMembershipRole
  <2>2. fits' \in BOOLEAN /\ UNCHANGED <<given, facts, seen, user, failed, changes>>
    BY <1>0, <1>5 DEF CheckMembershipRole
  <2> QED
    BY <1>0, <2>1, <2>2, TypeKept
<1>6. ASSUME NEW c \in todo, CheckOwnership(c) PROVE TypeInv'
  <2>1. Pass({c}) \/ Refuse(403)
    BY <1>6 DEF CheckOwnership, Settle
  <2>2. UNCHANGED <<given, facts, seen, user, fits, failed, changes>>
    BY <1>0, <1>6 DEF CheckOwnership
  <2> QED
    BY <1>0, <2>1, <2>2, TypeKept
<1>7. ASSUME NEW c \in todo, CheckScope(c) PROVE TypeInv'
  <2>1. Pass({c}) \/ Refuse(403)
    BY <1>7 DEF CheckScope, Settle
  <2>2. UNCHANGED <<given, facts, seen, user, fits, failed, changes>>
    BY <1>0, <1>7 DEF CheckScope
  <2> QED
    BY <1>0, <2>1, <2>2, TypeKept
<1>8. ASSUME NEW c \in todo, CheckPermissions(c) PROVE TypeInv'
  <2>1. Pass({c}) \/ Refuse(403)
    BY <1>8 DEF CheckPermissions, Settle
  <2>2. UNCHANGED <<given, facts, seen, user, fits, failed, changes>>
    BY <1>0, <1>8 DEF CheckPermissions
  <2> QED
    BY <1>0, <2>1, <2>2, TypeKept
<1>9. ASSUME NEW c \in todo, CheckCode(c) PROVE TypeInv'
  <2>1. Pass({c}) \/ Refuse(403)
    BY <1>9 DEF CheckCode, Settle
  <2>2. UNCHANGED <<given, facts, seen, user, fits, failed, changes>>
    BY <1>0, <1>9 DEF CheckCode
  <2> QED
    BY <1>0, <2>1, <2>2, TypeKept
<1>10. ASSUME NEW c \in todo, CheckFeatures(c) PROVE TypeInv'
  <2>1. Pass({c}) \/ Refuse(403)
    BY <1>10 DEF CheckFeatures, Settle
  <2>2. UNCHANGED <<given, facts, seen, user, fits, failed, changes>>
    BY <1>0, <1>10 DEF CheckFeatures
  <2> QED
    BY <1>0, <2>1, <2>2, TypeKept
<1>11. ASSUME NEW c \in todo, CheckLimits(c) PROVE TypeInv'
  <2>1. Pass({c}) \/ Refuse(403)
    BY <1>11 DEF CheckLimits, Settle
  <2>2. UNCHANGED <<given, facts, seen, user, fits, failed, changes>>
    BY <1>0, <1>11 DEF CheckLimits
  <2> QED
    BY <1>0, <2>1, <2>2, TypeKept
<1>12. ASSUME NEW c \in todo, CheckOwner(c) PROVE TypeInv'
  <2>1. Pass({c}) \/ Refuse(403)
    BY <1>12 DEF CheckOwner, Settle
  <2>2. UNCHANGED <<given, facts, seen, user, fits, failed, changes>>
    BY <1>0, <1>12 DEF CheckOwner
  <2> QED
    BY <1>0, <2>1, <2>2, TypeKept
<1>13. ASSUME NEW c \in todo, CheckWorkspace(c) PROVE TypeInv'
  <2> DEFINE served == {c} \cup {d \in todo : ScopeOf(GuardOf(c), request) \in facts.owns
                                                   /\ d.at = c.at /\ d.kind = "member"}
  <2>1. Pass(served) \/ Refuse(403)
    BY <1>13 DEF CheckWorkspace
  <2>2. UNCHANGED <<given, facts, seen, user, fits, failed, changes>>
    BY <1>13 DEF CheckWorkspace
  <2> HIDE DEF served
  <2> QED
    BY <1>0, <2>1, <2>2, TypeKept
<1>14. ASSUME NEW c \in todo, CheckMember(c) PROVE TypeInv'
  <2>1. Pass({c}) \/ Refuse(403)
    BY <1>14 DEF CheckMember, Settle
  <2>2. UNCHANGED <<given, facts, seen, user, fits, failed, changes>>
    BY <1>0, <1>14 DEF CheckMember
  <2> QED
    BY <1>0, <2>1, <2>2, TypeKept
<1>15. ASSUME NEW c \in todo, CheckWindow(c) PROVE TypeInv'
  <2>1. Pass({c}) \/ Refuse(403)
    BY <1>15 DEF CheckWindow, Settle
  <2>2. UNCHANGED <<given, facts, seen, user, fits, failed, changes>>
    BY <1>0, <1>15 DEF CheckWindow
  <2> QED
    BY <1>0, <2>1, <2>2, TypeKept
<1>16. ASSUME NEW c \in todo, CheckAddresses(c) PROVE TypeInv'
  <2>1. Pass({c}) \/ Refuse(403)
    BY <1>16 DEF CheckAddresses, Settle
  <2>2. UNCHANGED <<given, facts, seen, user, fits, failed, changes>>
    BY <1>0, <1>16 DEF CheckAddresses
  <2> QED
    BY <1>0, <2>1, <2>2, TypeKept
<1>17. ASSUME NEW c \in todo, Fails(c) PROVE TypeInv'
  <2>1. Pass({c}) \/ Refuse(403)
    BY <1>17 DEF Fails, Settle
  <2>2. failed' \subseteq Lookup /\ UNCHANGED <<given, facts, seen, user, fits, changes>>
    BY <1>0, <1>17 DEF Fails, Turn
  <2> QED
    BY <1>0, <2>1, <2>2, TypeKept
<1>18. CASE Admit
  BY <1>18 DEF Admit, TypeInv, TypeOK, ChainOf, given
<1>19. ASSUME NEW f \in Cases, Change(f) PROVE TypeInv'
  <2>1. changes' \in 0..MaxChanges
    BY <1>19, AccessAssumption DEF Change, TypeInv, TypeOK
  <2> QED
    BY <1>19, <2>1 DEF Change, TypeInv, TypeOK, ChainOf, given
<1>20. CASE UNCHANGED vars
  BY <1>20 DEF vars, given, TypeInv, TypeOK, ChainOf
<1> QED
  BY <1>1, <1>2, <1>3, <1>4, <1>5, <1>6, <1>7, <1>8, <1>9, <1>10, <1>11, <1>12, <1>13, <1>14, <1>15, <1>16, <1>17, <1>18, <1>19, <1>20 DEF Next

\* For any routes, requests and states of the database, Access is type correct.
THEOREM TypeCorrect == Spec => []TypeOK
<1>1. TypeInv => TypeOK
  BY DEF TypeInv
<1> QED
  BY <1>1, TypeInit, TypeStep, PTL DEF Spec

-----------------------------------------------------------------------------
(* The global guards refuse every route with metadata *)

Metadata == route.permission \cup route.feature \cup route.limit # {}

\* The first global guard that the metadata wakes up
Waking == IF route.permission # {} THEN 1 ELSE 2

Stuck ==
    \/ stage = "refused" /\ answer = 401
    \/ /\ stage = "guards" /\ answer = 0
       /\ user = "nobody"
       /\ [at |-> Waking, kind |-> "user"] \in todo

MetadataInv == registered /\ Metadata => Stuck

LEMMA WakingChecks ==
    ASSUME TypeInv, registered, Metadata
    PROVE  /\ Waking \in DOMAIN ChainOf
           /\ ChainOf[Waking] \in {"PermissionGuard", "FeatureGuard"}
           /\ "user" \in Checks(ChainOf[Waking], route, request)
           /\ \A k \in Checks(ChainOf[Waking], route, request) : Rank[k] <= 5 => k = "user"
           /\ Waking = 2 => 1 \in DOMAIN ChainOf /\ Checks(ChainOf[1], route, request) = {}
<1>1. ChainOf = Chain(route, TRUE) /\ route \in Endpoint
  BY DEF ChainOf, TypeInv, TypeOK
<1>2. /\ 1 \in DOMAIN ChainOf /\ ChainOf[1] = "PermissionGuard"
      /\ 2 \in DOMAIN ChainOf /\ ChainOf[2] = "FeatureGuard"
  BY <1>1, GlobalFirst
<1>3. /\ Checks("PermissionGuard", route, request) = PermissionGuardChecks(route)
      /\ Checks("FeatureGuard", route, request) = FeatureGuardChecks(route)
  BY DEF Checks
<1>4. /\ PermissionGuardChecks(route) \subseteq {"user", "permissions", "scope", "super"}
      /\ FeatureGuardChecks(route) \subseteq {"user", "super", "features", "limit"}
  BY DEF PermissionGuardChecks, FeatureGuardChecks, Only
<1>5. \A k \in {"user", "permissions", "scope", "super", "features", "limit"} :
        Rank[k] <= 5 => k = "user"
  BY DEF Rank
<1>6. CASE route.permission # {}
  <2>1. "user" \in PermissionGuardChecks(route)
    BY <1>6 DEF PermissionGuardChecks
  <2> QED
    BY <1>2, <1>3, <1>4, <1>5, <1>6, <2>1 DEF Waking
<1>7. CASE route.permission = {}
  <2>1. "user" \in FeatureGuardChecks(route)
    BY <1>7 DEF FeatureGuardChecks, Only, Metadata
  <2>2. PermissionGuardChecks(route) = {}
    BY <1>7 DEF PermissionGuardChecks
  <2> QED
    BY <1>2, <1>3, <1>4, <1>5, <1>7, <2>1, <2>2 DEF Waking
<1> QED
  BY <1>6, <1>7

\* Whoever's turn it is while the check for the user is ahead, it is that check's.
LEMMA UserFirst ==
    ASSUME TypeInv, registered, Metadata, [at |-> Waking, kind |-> "user"] \in todo,
           NEW c \in todo, NEW kind, Turn(c, kind)
    PROVE  kind = "user" /\ GuardOf(c) \in {"PermissionGuard", "FeatureGuard"}
<1>1. c.kind = kind /\ (c.at < Waking \/ (c.at = Waking /\ Rank[c.kind] <= 5))
  <2> DEFINE d == [at |-> Waking, kind |-> "user"]
  <2>1. c.kind = kind /\ (c.at < d.at \/ (c.at = d.at /\ Rank[c.kind] <= Rank[d.kind]))
    BY DEF Turn
  <2>2. d.at = Waking /\ Rank[d.kind] = 5
    BY DEF Rank
  <2> QED
    BY <2>1, <2>2
<1>2. c.at \in DOMAIN ChainOf /\ c.kind \in Checks(ChainOf[c.at], route, request)
  BY DEF TypeInv, Due
<1>3. c.at \in Nat /\ c.at >= 1
  <2>1. ChainOf \in Seq(Guard)
    BY ChainType DEF ChainOf, TypeInv, TypeOK
  <2> QED
    BY <1>2, <2>1
<1>4. c.at = Waking
  <2>1. CASE Waking = 1
    BY <1>1, <1>3, <2>1
  <2>2. CASE Waking = 2
    <3>1. c.at # 1
      BY <1>2, <2>2, WakingChecks
    <3> QED
      BY <1>1, <1>3, <2>2, <3>1
  <2> QED
    BY <2>1, <2>2 DEF Waking
<1>5. c.kind \in Checks(ChainOf[Waking], route, request) /\ Rank[c.kind] <= 5
  <2>1. Waking \in {1, 2}
    BY DEF Waking
  <2>2. Rank[c.kind] <= 5
    BY <1>1, <1>4, <2>1
  <2>3. c.kind \in Checks(ChainOf[Waking], route, request)
    BY <1>2, <1>4
  <2> QED
    BY <2>2, <2>3
<1>6. c.kind = "user"
  BY <1>5, WakingChecks
<1>7. GuardOf(c) = ChainOf[Waking]
  BY <1>4 DEF GuardOf, ChainOf
<1> QED
  BY <1>1, <1>6, <1>7, WakingChecks

LEMMA MetadataInit == Init => MetadataInv
<1> SUFFICES ASSUME Init, registered, Metadata PROVE Stuck
  BY DEF MetadataInv
<1>1. TypeInv
  BY TypeInit
<1>2. [at |-> Waking, kind |-> "user"] \in [at : DOMAIN ChainOf, kind : Kind]
  BY <1>1, WakingChecks DEF Kind, Rank
<1>3. [at |-> Waking, kind |-> "user"] \in Due(ChainOf, route, request)
  BY <1>1, <1>2, WakingChecks DEF Due
<1> QED
  BY <1>3 DEF Init, Stuck, ChainOf

\* A step leaves what it was given alone, and moves only a request before the guards.
LEMMA StepShape ==
    ASSUME [Next]_vars
    PROVE  UNCHANGED given /\ (stage = "guards" \/ UNCHANGED vars)
<1>1. ASSUME NEW c \in todo, CheckToken(c) \/ CheckUser(c) \/ CheckSuper(c)
      PROVE  UNCHANGED given /\ stage = "guards"
  BY <1>1 DEF CheckToken, CheckUser, CheckSuper, Turn
<1>2. ASSUME NEW c \in todo, CheckRow(c) \/ CheckMembershipRole(c) \/ CheckOwnership(c)
      PROVE  UNCHANGED given /\ stage = "guards"
  BY <1>2 DEF CheckRow, CheckMembershipRole, CheckOwnership, Turn
<1>3. ASSUME NEW c \in todo, CheckScope(c) \/ CheckPermissions(c) \/ CheckCode(c)
      PROVE  UNCHANGED given /\ stage = "guards"
  BY <1>3 DEF CheckScope, CheckPermissions, CheckCode, Turn
<1>4. ASSUME NEW c \in todo, CheckFeatures(c) \/ CheckLimits(c) \/ CheckOwner(c) \/ CheckWorkspace(c)
      PROVE  UNCHANGED given /\ stage = "guards"
  BY <1>4 DEF CheckFeatures, CheckLimits, CheckOwner, CheckWorkspace, Turn
<1>5. ASSUME NEW c \in todo, CheckMember(c) \/ CheckWindow(c) \/ CheckAddresses(c) \/ Fails(c)
      PROVE  UNCHANGED given /\ stage = "guards"
  BY <1>5 DEF CheckMember, CheckWindow, CheckAddresses, Fails, Turn
<1>6. ASSUME Admit \/ \E f \in Cases : Change(f)
      PROVE  UNCHANGED given /\ stage = "guards"
  BY <1>6 DEF Admit, Change, given
<1>7. CASE UNCHANGED vars
  BY <1>7 DEF vars, given
<1> QED
  BY <1>1, <1>2, <1>3, <1>4, <1>5, <1>6, <1>7 DEF Next

LEMMA MetadataStep == TypeInv /\ MetadataInv /\ [Next]_vars => MetadataInv'
<1> SUFFICES ASSUME TypeInv, MetadataInv, [Next]_vars, registered', Metadata'
             PROVE  Stuck'
  BY DEF MetadataInv
<1>1. UNCHANGED given
  BY StepShape
<1>2. registered /\ Metadata /\ Stuck /\ Waking' = Waking
  BY <1>1 DEF given, Metadata, MetadataInv, Waking
<1>3. CASE stage = "refused"
  <2>1. stage # "guards" /\ answer = 401
    BY <1>2, <1>3 DEF Stuck
  <2>2. UNCHANGED <<stage, answer>>
    BY <2>1, StepShape DEF vars
  <2> QED
    BY <1>3, <2>1, <2>2 DEF Stuck
<1>4. CASE stage # "refused"
  <2>1. /\ stage = "guards" /\ answer = 0 /\ user = "nobody"
        /\ [at |-> Waking, kind |-> "user"] \in todo
    BY <1>2, <1>4 DEF Stuck
  <2>2. \A c \in todo : \A kind : Turn(c, kind) => kind = "user"
    BY <1>2, <2>1, UserFirst
  <2>3. ASSUME NEW c \in todo, CheckUser(c) PROVE Stuck'
    <3>1. GuardOf(c) \in {"PermissionGuard", "FeatureGuard"}
      BY <1>2, <2>1, <2>3, UserFirst DEF CheckUser
    <3>2. ~Accepts(GuardOf(c), user)
      BY <2>1 DEF Accepts
    <3> QED
      BY <2>3, <3>2 DEF CheckUser, Settle, Refuse, Stuck
  <2>4. ASSUME NEW c \in todo,
               \/ CheckToken(c) \/ CheckSuper(c)
               \/ CheckRow(c) \/ CheckMembershipRole(c) \/ CheckOwnership(c)
               \/ CheckScope(c) \/ CheckPermissions(c) \/ CheckCode(c) \/ CheckFeatures(c)
               \/ CheckLimits(c) \/ CheckOwner(c) \/ CheckWorkspace(c) \/ CheckMember(c)
               \/ CheckWindow(c) \/ CheckAddresses(c)
        PROVE  FALSE
    <3>1. /\ CheckToken(c) => Turn(c, "token")
          /\ CheckSuper(c) => Turn(c, "super")
          /\ CheckRow(c) => Turn(c, "row")
      BY DEF CheckToken, CheckSuper, CheckRow
    <3>2. /\ CheckMembershipRole(c) => Turn(c, "membership")
          /\ CheckOwnership(c) => Turn(c, "ownership")
          /\ CheckScope(c) => Turn(c, "scope")
      BY DEF CheckMembershipRole, CheckOwnership, CheckScope
    <3>3. /\ CheckPermissions(c) => Turn(c, "permissions")
          /\ CheckCode(c) => Turn(c, "code")
          /\ CheckFeatures(c) => Turn(c, "features")
      BY DEF CheckPermissions, CheckCode, CheckFeatures
    <3>4. /\ CheckLimits(c) => Turn(c, "limit")
          /\ CheckOwner(c) => Turn(c, "owner")
          /\ CheckWorkspace(c) => Turn(c, "workspace")
      BY DEF CheckLimits, CheckOwner, CheckWorkspace
    <3>5. /\ CheckMember(c) => Turn(c, "member")
          /\ CheckWindow(c) => Turn(c, "window")
          /\ CheckAddresses(c) => Turn(c, "addresses")
      BY DEF CheckMember, CheckWindow, CheckAddresses
    <3> QED
      BY <2>2, <2>4, <3>1, <3>2, <3>3, <3>4, <3>5
  <2>5. ASSUME NEW c \in todo, Fails(c) PROVE FALSE
    BY <2>2, <2>5 DEF Fails, Lookup
  <2>6. ~Admit
    BY <2>1 DEF Admit
  <2>7. ASSUME NEW f \in Cases, Change(f) PROVE Stuck'
    BY <1>2, <2>1, <2>7 DEF Change, Stuck
  <2>8. CASE UNCHANGED vars
    BY <1>2, <2>1, <2>8 DEF vars, Stuck
  <2> QED
    BY <2>3, <2>4, <2>5, <2>6, <2>7, <2>8 DEF Next
<1> QED
  BY <1>3, <1>4

\* The finding about DocumentedAnswers in general: whatever the caller, the database and the
\* other guards say, a route with permission, feature or limit metadata answers with 401.
MetadataAnswers401 ==
    registered /\ Metadata => stage # "handler" /\ answer \in {0, 401}

\* In the application a route with permission, feature or limit metadata answers every
\* request with 401, whatever the caller, the database and the other guards say.
THEOREM MetadataUnauthorized == Spec => []MetadataAnswers401
<1>1. TypeInv /\ MetadataInv => MetadataAnswers401
  BY DEF MetadataInv, MetadataAnswers401, Metadata, Stuck
<1>2. Init => TypeInv /\ MetadataInv
  BY TypeInit, MetadataInit
<1>3. TypeInv /\ MetadataInv /\ [Next]_vars => TypeInv' /\ MetadataInv'
  BY TypeStep, MetadataStep
<1> QED
  BY <1>1, <1>2, <1>3, PTL DEF Spec

-----------------------------------------------------------------------------
(* What the guards find in a request and a declaration *)

\* Of the places searched in turn, the one that is found first holds the result.
LEMMA ExtractFound ==
    ASSUME NEW req, NEW places, NEW names,
           DOMAIN places = 1..3, DOMAIN names \in {1..1, 1..2}
    PROVE  \/ Extract(req, places, names) = NoId
              /\ \A i \in DOMAIN places, j \in DOMAIN names : req.names[places[i]][names[j]] = NoId
           \/ \E i \in DOMAIN places, j \in DOMAIN names :
                Extract(req, places, names) = req.names[places[i]][names[j]]
                /\ req.names[places[i]][names[j]] # NoId
<1> DEFINE At(i, j) == req.names[places[i]][names[j]]
           Hits == {h \in (DOMAIN places) \X (DOMAIN names) : At(h[1], h[2]) # NoId}
           Before(h, o) == h[1] < o[1] \/ (h[1] = o[1] /\ h[2] <= o[2])
           First == CHOOSE h \in Hits : \A o \in Hits : Before(h, o)
<1>1. Extract(req, places, names) = IF Hits = {} THEN NoId ELSE At(First[1], First[2])
  BY DEF Extract
<1>2. CASE Hits = {}
  <2>1. ASSUME NEW i \in DOMAIN places, NEW j \in DOMAIN names PROVE At(i, j) = NoId
    <3>1. <<i, j>> \notin Hits
      BY <1>2
    <3> QED
      BY <3>1
  <2> QED
    BY <1>1, <1>2, <2>1
<1>3. CASE Hits # {}
  <2>1. \A h \in Hits : h \in (1..3) \X (1..2)
    OBVIOUS
  <2>2. \E h \in Hits : \A o \in Hits : Before(h, o)
    <3> HIDE DEF Hits
    <3>1. \A h \in Hits : h = <<h[1], h[2]>> /\ h[1] \in {1, 2, 3} /\ h[2] \in {1, 2}
      BY <2>1
    <3>2. CASE <<1, 1>> \in Hits
      BY <3>1, <3>2
    <3>3. CASE <<1, 1>> \notin Hits /\ <<1, 2>> \in Hits
      BY <3>1, <3>3
    <3>4. CASE <<1, 1>> \notin Hits /\ <<1, 2>> \notin Hits /\ <<2, 1>> \in Hits
      BY <3>1, <3>4
    <3>5. CASE <<1, 1>> \notin Hits /\ <<1, 2>> \notin Hits /\ <<2, 1>> \notin Hits /\ <<2, 2>> \in Hits
      BY <3>1, <3>5
    <3>6. CASE <<1, 1>> \notin Hits /\ <<1, 2>> \notin Hits /\ <<2, 1>> \notin Hits
               /\ <<2, 2>> \notin Hits /\ <<3, 1>> \in Hits
      BY <3>1, <3>6
    <3>7. CASE <<1, 1>> \notin Hits /\ <<1, 2>> \notin Hits /\ <<2, 1>> \notin Hits
               /\ <<2, 2>> \notin Hits /\ <<3, 1>> \notin Hits
      <4>1. \A h \in Hits : h = <<3, 2>>
        BY <3>1, <3>7
      <4> QED
        BY <1>3, <4>1
    <3> QED
      BY <3>2, <3>3, <3>4, <3>5, <3>6, <3>7
  <2>3. First \in Hits
    <3> HIDE DEF Hits, Before
    <3> QED
      BY <2>2
  <2>4. First[1] \in DOMAIN places /\ First[2] \in DOMAIN names /\ At(First[1], First[2]) # NoId
    <3> HIDE DEF First
    <3> QED
      BY <2>3
  <2> HIDE DEF First, Hits
  <2> QED
    BY <1>1, <1>3, <2>4
<1> QED
  BY <1>2, <1>3

PermissionJudge == {"PermissionGuard", "UnifiedAuthGuard"}
PolicyJudge     == {"UnifiedPolicyGuard", "UnifiedAuthGuard"}
ContextJudge    == {"ContextAwareGuard", "UnifiedAuthGuard"}

\* What is found under some names is in the request, and nothing is found only if there
\* is nothing.
LEMMA NamedFound ==
    ASSUME NEW places, NEW names, DOMAIN places = 1..3, DOMAIN names \in {1..1, 1..2},
           {places[i] : i \in DOMAIN places} = Place, NEW S, S = {names[j] : j \in DOMAIN names}
    PROVE  IF Named(S) = {} THEN Extract(request, places, names) = NoId
           ELSE Extract(request, places, names) \in Named(S)
<1> DEFINE x == Extract(request, places, names)
<1>1. Named(S) = {request.names[places[i]][names[j]] : i \in DOMAIN places, j \in DOMAIN names} \ {NoId}
  <2>1. Named(S) = {request.names[p][n] : p \in Place, n \in S} \ {NoId}
    BY DEF Named
  <2> QED
    BY <2>1
<1>2. CASE x = NoId
  <2>1. \A i \in DOMAIN places, j \in DOMAIN names : request.names[places[i]][names[j]] = NoId
    BY <1>2, ExtractFound
  <2> QED
    BY <1>1, <1>2, <2>1
<1>3. CASE x # NoId
  <2>1. \E i \in DOMAIN places, j \in DOMAIN names :
            x = request.names[places[i]][names[j]] /\ request.names[places[i]][names[j]] # NoId
    BY <1>3, ExtractFound
  <2> QED
    BY <1>1, <2>1
<1> QED
  BY <1>2, <1>3

\* A guard judges in a workspace the property allows.
LEMMA ScopeJudged ==
    ASSUME NEW guard \in Guard
    PROVE  /\ ScopeOf(guard, request) \in Judged(guard)
           /\ ScopeOf(guard, request) = NoId => Judged(guard) = {NoId}
<1> DEFINE both == <<"workspaceId", "workspace_id">>
           swapped == <<"workspace_id", "workspaceId">>
           one == <<"workspaceId">>
           pbq == <<"params", "body", "query">>
           pqb == <<"params", "query", "body">>
           S == IF guard = "UnifiedPolicyGuard" THEN {"workspaceId"}
                ELSE {"workspaceId", "workspace_id"}
<1>1. /\ DOMAIN both \in {1..1, 1..2} /\ {both[j] : j \in DOMAIN both} = {"workspaceId", "workspace_id"}
      /\ DOMAIN swapped \in {1..1, 1..2} /\ {swapped[j] : j \in DOMAIN swapped} = {"workspaceId", "workspace_id"}
      /\ DOMAIN one \in {1..1, 1..2} /\ {one[j] : j \in DOMAIN one} = {"workspaceId"}
  <2>1. DOMAIN both = {1, 2} /\ DOMAIN swapped = {1, 2} /\ DOMAIN one = {1}
    OBVIOUS
  <2>2. /\ both[1] = "workspaceId" /\ both[2] = "workspace_id"
        /\ swapped[1] = "workspace_id" /\ swapped[2] = "workspaceId"
        /\ one[1] = "workspaceId"
    OBVIOUS
  <2>3. 1..1 = {1} /\ 1..2 = {1, 2}
    OBVIOUS
  <2> HIDE DEF both, swapped, one
  <2> QED
    BY <2>1, <2>2, <2>3
<1>2. /\ DOMAIN pbq = 1..3 /\ {pbq[i] : i \in DOMAIN pbq} = Place
      /\ DOMAIN pqb = 1..3 /\ {pqb[i] : i \in DOMAIN pqb} = Place
  <2>1. DOMAIN pbq = {1, 2, 3} /\ DOMAIN pqb = {1, 2, 3} /\ 1..3 = {1, 2, 3}
    OBVIOUS
  <2>2. /\ pbq[1] = "params" /\ pbq[2] = "body" /\ pbq[3] = "query"
        /\ pqb[1] = "params" /\ pqb[2] = "query" /\ pqb[3] = "body"
    OBVIOUS
  <2> HIDE DEF pbq, pqb
  <2> QED
    BY <2>1, <2>2 DEF Place
<1>3. ScopeOf(guard, request) =
        IF guard = "PermissionGuard" THEN Extract(request, pbq, both)
        ELSE IF guard = "UnifiedPolicyGuard" THEN Extract(request, pqb, one)
        ELSE Extract(request, pbq, swapped)
  BY DEF ScopeOf, PermissionScope, PolicyScope, ContextScope
<1>4. Judged(guard) = IF Named(S) = {} THEN {NoId} ELSE Named(S)
  BY DEF Judged
<1>5. IF Named(S) = {} THEN ScopeOf(guard, request) = NoId
      ELSE ScopeOf(guard, request) \in Named(S)
  <2> HIDE DEF both, swapped, one, pbq, pqb
  <2>1. CASE guard = "PermissionGuard"
    BY <1>1, <1>2, <1>3, <2>1, NamedFound
  <2>2. CASE guard = "UnifiedPolicyGuard"
    BY <1>1, <1>2, <1>3, <2>2, NamedFound
  <2>3. CASE guard \notin {"PermissionGuard", "UnifiedPolicyGuard"}
    BY <1>1, <1>2, <1>3, <2>3, NamedFound
  <2> QED
    BY <2>1, <2>2, <2>3
<1>6. NoId \notin Named(S)
  BY DEF Named
<1> HIDE DEF S
<1> QED
  BY <1>4, <1>5, <1>6

\* The resource of an ownership check is the one its parameter names.
LEMMA ResourceFound ==
    ASSUME NEW o
    PROVE  /\ ResourceOf(request, o) # NoId => ResourceOf(request, o) \in Named({o.param})
           /\ ResourceOf(request, o) = NoId => Named({o.param}) = {}
<1> DEFINE pbq == <<"params", "body", "query">>
           one == <<o.param>>
<1>1. DOMAIN pbq = 1..3 /\ {pbq[i] : i \in DOMAIN pbq} = Place
  <2>1. DOMAIN pbq = {1, 2, 3} /\ 1..3 = {1, 2, 3}
    OBVIOUS
  <2>2. pbq[1] = "params" /\ pbq[2] = "body" /\ pbq[3] = "query"
    OBVIOUS
  <2> HIDE DEF pbq
  <2> QED
    BY <2>1, <2>2 DEF Place
<1>2. DOMAIN one \in {1..1, 1..2} /\ {one[j] : j \in DOMAIN one} = {o.param}
  <2>1. DOMAIN one = {1} /\ one[1] = o.param /\ 1..1 = {1}
    OBVIOUS
  <2> HIDE DEF one
  <2> QED
    BY <2>1
<1>3. ResourceOf(request, o) = Extract(request, pbq, one)
  BY DEF ResourceOf
<1>4. NoId \notin Named({o.param})
  BY DEF Named
<1> HIDE DEF pbq, one
<1> QED
  BY <1>1, <1>2, <1>3, <1>4, NamedFound

-----------------------------------------------------------------------------
(* Which guard makes a check *)

LEMMA CheckOf ==
    ASSUME TypeInv, NEW c \in Due(ChainOf, route, request)
    PROVE  /\ c.at \in DOMAIN ChainOf /\ c.kind \in Kind
           /\ GuardOf(c) \in Guard /\ Guarded(GuardOf(c))
           /\ c.kind \in Checks(GuardOf(c), route, request)
           /\ c = [at |-> c.at, kind |-> c.kind]
<1>1. ChainOf \in Seq(Guard)
  BY ChainType DEF ChainOf, TypeInv, TypeOK
<1>2. c.at \in DOMAIN ChainOf /\ c.kind \in Kind /\ c.kind \in Checks(ChainOf[c.at], route, request)
  BY DEF Due
<1>3. c = [at |-> c.at, kind |-> c.kind]
  BY DEF Due
<1>4. GuardOf(c) = ChainOf[c.at]
  BY DEF GuardOf, ChainOf
<1>5. Guarded(GuardOf(c))
  BY <1>2, <1>4 DEF Guarded, ChainOf
<1> QED
  BY <1>1, <1>2, <1>3, <1>4, <1>5

\* What follows three guards is found three places on.
LEMMA ThreeOn ==
    ASSUME NEW front \in Seq(Guard), Len(front) = 3,
           NEW rest \in Seq(Guard), NEW i \in 1..Len(rest)
    PROVE  /\ 3 + i \in DOMAIN (front \o rest)
           /\ (front \o rest)[3 + i] = rest[i]
<1>1. /\ front \o rest \in Seq(Guard)
      /\ Len(front \o rest) = Len(front) + Len(rest)
      /\ \A j \in 1 .. Len(front) + Len(rest) :
            (front \o rest)[j] = IF j <= Len(front) THEN front[j] ELSE rest[j - Len(front)]
  BY ConcatProperties, Zenon
<1>2. DOMAIN (front \o rest) = 1..(3 + Len(rest))
  BY <1>1
<1>3. 3 + i \in 1..(3 + Len(rest)) /\ ~(3 + i <= 3) /\ (3 + i) - 3 = i
  OBVIOUS
<1> QED
  BY <1>1, <1>2, <1>3

\* The guards of a route are in its chain, behind the global ones.
LEMMA GuardsIn ==
    ASSUME route.guards \in Seq(Guard), NEW i \in DOMAIN route.guards
    PROVE  Guarded(route.guards[i])
<1>1. CASE ~registered
  BY <1>1 DEF Guarded, Chain
<1>2. CASE registered
  <2> DEFINE front == <<"PermissionGuard", "FeatureGuard", "LimitGuard">>
             all == front \o route.guards
  <2>1. front \in Seq(Guard) /\ Len(front) = 3
    BY DEF Guard
  <2>2. i \in 1..Len(route.guards)
    OBVIOUS
  <2>3. Chain(route, registered) = all
    BY <1>2 DEF Chain
  <2> HIDE DEF front
  <2>4. 3 + i \in DOMAIN all /\ all[3 + i] = route.guards[i]
    BY <2>1, <2>2, ThreeOn
  <2> HIDE DEF all
  <2> QED
    BY <2>3, <2>4 DEF Guarded
<1> QED
  BY <1>1, <1>2

\* The kinds of checks of each guard, and what metadata they come from
LEMMA KindsOf ==
    ASSUME NEW guard \in Guard, NEW k \in Checks(guard, route, request)
    PROVE  /\ guard = "JwtAuthGuard" => k = "token"
           /\ guard = "RolesGuard" =>
                route.roles # {} /\ k \in {"row", "membership", "ownership"}
                /\ (k # "row" => Here # NoId)
           /\ guard = "PermissionGuard" =>
                route.permission # {} /\ k \in {"user", "permissions", "scope", "super"}
                /\ (k = "super" => \E o \in route.permission : o.super)
                /\ (k = "scope" => \E o \in route.permission : o.scoped)
           /\ guard = "FeatureGuard" =>
                route.feature \cup route.limit # {} /\ k \in {"user", "super", "features", "limit"}
                /\ (k = "features" => route.feature # {})
                /\ (k = "limit" => route.limit # {})
           /\ guard = "LimitGuard" =>
                route.limit # {} /\ k \in {"user", "limit", "super"}
                /\ (k = "super" => \E o \in route.limit : o.super)
           /\ guard = "UnifiedPolicyGuard" =>
                route.policy # {} /\ k \in {"user", "super", "code", "features", "limit"}
           /\ guard = "ContextAwareGuard" =>
                route.context # {}
                /\ k \in {"user", "super", "owner", "workspace", "member", "window", "addresses"}
                /\ (k = "super" => \E o \in route.context : o.super)
           /\ guard = "UnifiedAuthGuard" =>
                /\ route.permission \cup route.policy \cup route.context # {}
                /\ k \in {"user", "super", "permissions", "code", "features", "limit",
                          "owner", "workspace", "member", "window", "addresses"}
                /\ (k = "permissions" => route.permission # {})
           /\ guard \in PolicyJudge =>
                /\ (k = "code" => \E o \in route.policy : o.code # {})
                /\ (k = "features" => \E o \in route.policy : o.names # {})
                /\ (k = "limit" => \E o \in route.policy : o.limit)
           /\ guard \in ContextJudge =>
                /\ (k = "owner" => \E o \in route.context : o.owner)
                /\ (k \in {"workspace", "member"} => \E o \in route.context : o.member)
                /\ (k = "window" => \E o \in route.context : o.window # {})
                /\ (k = "addresses" => \E o \in route.context : o.addresses # {})
<1>1. ASSUME NEW cond \in BOOLEAN, NEW S, NEW x \in Only(cond, S) PROVE cond /\ x \in S
  BY <1>1 DEF Only
<1> DEFINE Policy(x) == \E o \in route.policy :
                \/ x = "code" /\ o.code # {}
                \/ x = "features" /\ o.names # {}
                \/ x = "limit" /\ o.limit
           Context(x) == \E o \in route.context :
                \/ x = "owner" /\ o.owner
                \/ x \in {"workspace", "member"} /\ o.member
                \/ x = "window" /\ o.window # {}
                \/ x = "addresses" /\ o.addresses # {}
<1>2. \A x : x \in UNION {PolicyChecks(o) : o \in route.policy} => Policy(x)
  <2> TAKE x
  <2> HAVE x \in UNION {PolicyChecks(o) : o \in route.policy}
  <2>1. PICK o \in route.policy : x \in PolicyChecks(o)
    OBVIOUS
  <2> QED
    BY <2>1 DEF PolicyChecks, Only
<1>3. \A x : x \in UNION {ContextChecks(o) : o \in route.context} => Context(x)
  <2> TAKE x
  <2> HAVE x \in UNION {ContextChecks(o) : o \in route.context}
  <2>1. PICK o \in route.context : x \in ContextChecks(o)
    OBVIOUS
  <2> QED
    BY <2>1 DEF ContextChecks, Only
<1>4. CASE guard = "JwtAuthGuard"
  BY <1>4 DEF Checks, PolicyJudge, ContextJudge
<1>5. CASE guard = "RolesGuard"
  BY <1>5 DEF Checks, RolesGuardChecks, Only, Here, PolicyJudge, ContextJudge
<1>6. CASE guard = "PermissionGuard"
  <2>1. k \in PermissionGuardChecks(route)
    BY <1>6 DEF Checks
  <2>2. PICK o \in route.permission :
            k \in {"user", "permissions"} \cup Only(o.scoped, {"scope"}) \cup Only(o.super, {"super"})
    BY <2>1 DEF PermissionGuardChecks
  <2> QED
    BY <1>6, <2>2 DEF Only, PolicyJudge, ContextJudge
<1>7. CASE guard = "FeatureGuard"
  BY <1>7 DEF Checks, FeatureGuardChecks, Only, PolicyJudge, ContextJudge
<1>8. CASE guard = "LimitGuard"
  <2>1. k \in LimitGuardChecks(route)
    BY <1>8 DEF Checks
  <2>2. PICK o \in route.limit : k \in {"user", "limit"} \cup Only(o.super, {"super"})
    BY <2>1 DEF LimitGuardChecks
  <2> QED
    BY <1>8, <2>2 DEF Only, PolicyJudge, ContextJudge
<1>9. CASE guard = "UnifiedPolicyGuard"
  <2>1. k \in UnifiedPolicyGuardChecks(route)
    BY <1>9 DEF Checks
  <2>2. PICK o \in route.policy : k \in {"user", "super"} \cup PolicyChecks(o)
    BY <2>1 DEF UnifiedPolicyGuardChecks
  <2>3. k \in {"user", "super"} \/ Policy(k)
    BY <1>2, <2>2
  <2> QED
    BY <1>9, <2>2, <2>3 DEF PolicyJudge, ContextJudge
<1>10. CASE guard = "ContextAwareGuard"
  <2>1. k \in ContextAwareGuardChecks(route)
    BY <1>10 DEF Checks
  <2>2. PICK o \in route.context : k \in {"user"} \cup Only(o.super, {"super"}) \cup ContextChecks(o)
    BY <2>1 DEF ContextAwareGuardChecks
  <2>3. k = "user" \/ (k = "super" /\ o.super) \/ Context(k)
    BY <1>3, <2>2 DEF Only
  <2> QED
    BY <1>10, <2>2, <2>3 DEF PolicyJudge, ContextJudge
<1>11. CASE guard = "UnifiedAuthGuard"
  <2>1. k \in UnifiedAuthGuardChecks(route)
    BY <1>11 DEF Checks
  <2>2. \/ k \in {"user", "super"} /\ route.permission \cup route.policy \cup route.context # {}
        \/ k = "permissions" /\ route.permission # {}
        \/ k \in UNION {PolicyChecks(o) : o \in route.policy}
        \/ k \in UNION {ContextChecks(o) : o \in route.context}
    <3>1. k \in Only(route.permission # {} \/ route.policy # {} \/ route.context # {}, {"user", "super"})
          => k \in {"user", "super"} /\ route.permission \cup route.policy \cup route.context # {}
      BY DEF Only
    <3>2. k \in Only(route.permission # {}, {"permissions"})
          => k = "permissions" /\ route.permission # {}
      BY DEF Only
    <3> QED
      BY <2>1, <3>1, <3>2 DEF UnifiedAuthGuardChecks
  <2>3. \/ k \in {"user", "super"} /\ route.permission \cup route.policy \cup route.context # {}
        \/ k = "permissions" /\ route.permission # {}
        \/ Policy(k)
        \/ Context(k)
    BY <1>2, <1>3, <2>2
  <2> QED
    BY <1>11, <2>3 DEF PolicyJudge, ContextJudge
<1> QED
  BY <1>4, <1>5, <1>6, <1>7, <1>8, <1>9, <1>10, <1>11 DEF Guard

\* A declaration has each kind of metadata at most once.
LEMMA AtMostOnce ==
    ASSUME TypeInv
    PROVE  /\ \A o, p \in route.permission : o = p
           /\ \A o, p \in route.feature : o = p
           /\ \A o, p \in route.limit : o = p
           /\ \A o, p \in route.policy : o = p
           /\ \A o, p \in route.context : o = p
           /\ \A o, p \in route.roles : o = p
           /\ \A o \in route.context : (\A x, y \in o.window : x = y)
                                       /\ (\A x, y \in o.addresses : x = y)
  BY DEF TypeInv, Endpoint, Optional, ContextOptions

-----------------------------------------------------------------------------
(* Who gets through is entitled *)

RulesMet == \A roles \in route.roles : \E f \in seen : HoldsRoles(roles, f)

Held(p, guard) == \E s \in Judged(guard), f \in told : HasPermission(f, p, s)

\* A guard that allows it has spared a SUPER user the checks that come after the one for SUPER.
Excused(c) ==
    /\ c.kind \notin {"user", "scope"}
    /\ c.kind \in Spared(GuardOf(c), route)
    /\ "super" \in Checks(GuardOf(c), route, request)
    /\ \E f \in seen : f.role = "SUPER"

\* What a check that was passed has established, by its kind
PermissionsMet(g) ==
    \A o \in route.permission :
        IF o.all THEN \A p \in o.codes : Held(p, g) ELSE \E p \in o.codes : Held(p, g)
CodeMet(g) ==
    \A o \in route.policy : \A p \in o.code :
        Held(p, g) /\ \E f \in told : p \in PlanPermissions[f.plan]
FeaturesMet(g) ==
    \A o \in FeatureRules(g) : \E f \in told : AnyOrAll(o.all, o.names, PlanFeatures[f.plan])
LimitMet == "limit" \in failed \/ \E f \in told : ~f.full
OwnerMet ==
    \A o \in route.context : \E id \in Named({o.param}), f \in seen : OwnsResource(f, o.type, id)
MemberMet == \E s \in Judged("ContextAwareGuard"), f \in seen : HoldsMember(f, s)
WindowMet ==
    \A o \in route.context : \A w \in o.window : \E f \in seen : HoldsWindow(w, f) \/ Misread(w, f)
AddressesMet == \A o \in route.context : \A list \in o.addresses : HoldsAddress(list)

Passed(k, g) ==
    /\ k = "token"       => request.bearer
    /\ k = "row"         => request.bearer /\ (Here = NoId => RulesMet)
    /\ k = "ownership"   => RulesMet
    /\ k = "scope"       => ScopeOf(g, request) # NoId
    /\ k = "permissions" => PermissionsMet(g)
    /\ k = "code"        => CodeMet(g)
    /\ k = "features"    => FeaturesMet(g)
    /\ k = "limit"       => LimitMet
    /\ k = "owner"       => OwnerMet
    /\ k = "member"      => MemberMet
    /\ k = "window"      => WindowMet
    /\ k = "addresses"   => AddressesMet

Met(c) == Excused(c) \/ Passed(c.kind, GuardOf(c))

EntitledInv ==
    /\ fits => RulesMet
    /\ stage # "refused" => \A c \in Due(ChainOf, route, request) : c \in todo \/ Met(c)
    /\ stage = "handler" => todo = {}

\* What was established stays so: it speaks of some moment since the request began.
LEMMA MetStays ==
    ASSUME UNCHANGED given, seen \subseteq seen', failed \subseteq failed', NEW c
    PROVE  /\ RulesMet => RulesMet'
           /\ Met(c) => Met(c)'
<1>0. told \subseteq told'
  BY DEF told, given
<1>1. /\ request' = request /\ route' = route
      /\ GuardOf(c)' = GuardOf(c) /\ Here' = Here
  BY DEF given, GuardOf, Here
<1>2. \A S : Named(S)' = Named(S)
  BY <1>1 DEF Named
<1>3. \A g : Judged(g)' = Judged(g)
  BY <1>2 DEF Judged
<1>4. \A roles, f : HoldsRoles(roles, f)' = HoldsRoles(roles, f)
  BY <1>1 DEF HoldsRoles
<1>5. RulesMet => RulesMet'
  BY <1>1, <1>4 DEF RulesMet
<1>6. Excused(c) => Excused(c)'
  BY <1>1 DEF Excused
<1>7. ASSUME NEW k, NEW g, Passed(k, g) PROVE Passed(k, g)'
  <2>1. \A p : Held(p, g) => Held(p, g)'
    BY <1>0, <1>3 DEF Held
  <2>2. PermissionsMet(g) => PermissionsMet(g)'
    BY <1>1, <2>1 DEF PermissionsMet
  <2>3. CodeMet(g) => CodeMet(g)'
    BY <1>0, <1>1, <2>1 DEF CodeMet
  <2>4. FeaturesMet(g) => FeaturesMet(g)'
    BY <1>0, <1>1 DEF FeaturesMet, FeatureRules
  <2>5. LimitMet => LimitMet'
    BY <1>0 DEF LimitMet
  <2>6. OwnerMet => OwnerMet'
    BY <1>1, <1>2 DEF OwnerMet
  <2>7. MemberMet => MemberMet'
    BY <1>3 DEF MemberMet
  <2>8. WindowMet => WindowMet'
    BY <1>1 DEF WindowMet
  <2>9. AddressesMet => AddressesMet'
    BY <1>1 DEF AddressesMet, HoldsAddress
  <2> QED
    BY <1>1, <1>5, <1>7, <2>2, <2>3, <2>4, <2>5, <2>6, <2>7, <2>8, <2>9 DEF Passed
<1> QED
  BY <1>1, <1>5, <1>6, <1>7 DEF Met

\* A step that passes some checks, and what it has to show of them
LEMMA Passing ==
    ASSUME TypeInv, EntitledInv, NEW checks, Pass(checks),
           UNCHANGED given, seen \subseteq seen', failed \subseteq failed',
           fits' => RulesMet',
           \A c \in Due(ChainOf, route, request) : c \in checks => Met(c)'
    PROVE  EntitledInv'
<1>1. UNCHANGED <<ChainOf, route, request, stage>> /\ todo' = todo \ checks
  BY DEF given, ChainOf, Pass
<1>2. ASSUME stage # "refused", NEW c \in Due(ChainOf, route, request) PROVE c \in todo' \/ Met(c)'
  <2>1. c \in todo \/ Met(c)
    BY <1>2 DEF EntitledInv
  <2> QED
    BY <1>1, <1>2, <2>1, MetStays
<1> QED
  BY <1>1, <1>2 DEF EntitledInv

LEMMA Refusing ==
    ASSUME NEW code, Refuse(code), fits' => RulesMet'
    PROVE  EntitledInv'
  BY DEF Refuse, EntitledInv

\* A check of the given kind is passed, or refuses the request.
LEMMA Settling ==
    ASSUME TypeInv, EntitledInv, NEW c \in todo, NEW ok \in BOOLEAN, NEW code, Settle(c, ok, code),
           ok => Passed(c.kind, GuardOf(c))',
           UNCHANGED given, seen \subseteq seen', failed \subseteq failed',
           fits' => RulesMet'
    PROVE  EntitledInv'
<1>1. CASE ok
  <2>1. Pass({c})
    BY <1>1 DEF Settle
  <2>2. Met(c)'
    BY <1>1 DEF Met
  <2> QED
    BY <2>1, <2>2, Passing
<1>2. CASE ~ok
  BY <1>2, Refusing DEF Settle
<1> QED
  BY <1>1, <1>2

LEMMA Clock ==
    ASSUME NEW x \in Int
    PROVE  /\ x >= 0 /\ x <= 23 => x % 24 = x
           /\ x >= 24 /\ x <= 47 => x % 24 = x - 24
           /\ x >= -23 /\ x <= -1 => x % 24 = x + 24
<1>1. x >= 0 /\ x <= 23 => x % 24 = x
  OBVIOUS
<1>2. x >= 24 /\ x <= 47 => x % 24 = x - 24
  OBVIOUS
<1>3. x >= -23 /\ x <= -1 => x % 24 = x + 24
  OBVIOUS
<1> QED
  BY <1>1, <1>2, <1>3

\* The hours from s up to e, over midnight if need be
LEMMA HoursFrom ==
    \A s \in 0..23, e \in 0..23, h \in 0..23 :
        (IF s <= e THEN h >= s /\ h < e ELSE h >= s \/ h < e)
        <=> \E i \in 0..((e - s) % 24) - 1 : h = (s + i) % 24
<1> TAKE s \in 0..23, e \in 0..23, h \in 0..23
<1> DEFINE n == (e - s) % 24
<1>1. n = IF s <= e THEN e - s ELSE e - s + 24
  <2>1. CASE s <= e
    <3>1. e - s \in Int /\ e - s >= 0 /\ e - s <= 23
      BY <2>1
    <3> QED
      BY <2>1, <3>1, Clock
  <2>2. CASE ~(s <= e)
    <3>1. e - s \in Int /\ e - s >= -23 /\ e - s <= -1
      BY <2>2
    <3> QED
      BY <2>2, <3>1, Clock
  <2> QED
    BY <2>1, <2>2
<1>2. \A i \in 0..23 : (s + i) % 24 = IF s + i <= 23 THEN s + i ELSE s + i - 24
  <2> TAKE i \in 0..23
  <2>1. CASE s + i <= 23
    <3>1. s + i \in Int /\ s + i >= 0 /\ s + i <= 23
      BY <2>1
    <3> QED
      BY <2>1, <3>1, Clock
  <2>2. CASE ~(s + i <= 23)
    <3>1. s + i \in Int /\ s + i >= 24 /\ s + i <= 47
      BY <2>2
    <3> QED
      BY <2>2, <3>1, Clock
  <2> QED
    BY <2>1, <2>2
<1> HIDE DEF n
<1>3. ASSUME NEW i \in 0..(n - 1), h = (s + i) % 24
      PROVE  IF s <= e THEN h >= s /\ h < e ELSE h >= s \/ h < e
  <2>1. i \in 0..23 /\ i < n
    BY <1>1
  <2>2. h = IF s + i <= 23 THEN s + i ELSE s + i - 24
    BY <1>2, <1>3, <2>1
  <2> QED
    BY <1>1, <2>1, <2>2
<1>4. ASSUME IF s <= e THEN h >= s /\ h < e ELSE h >= s \/ h < e
      PROVE  \E i \in 0..(n - 1) : h = (s + i) % 24
  <2>1. CASE h >= s
    <3>1. h - s \in 0..23 /\ h - s \in 0..(n - 1) /\ s + (h - s) = h
      BY <1>1, <1>4, <2>1
    <3>2. (s + (h - s)) % 24 = h
      BY <1>2, <3>1
    <3> QED
      BY <3>1, <3>2
  <2>2. CASE ~(h >= s)
    <3>1. h - s + 24 \in 0..23 /\ h - s + 24 \in 0..(n - 1) /\ s + (h - s + 24) = h + 24
      BY <1>1, <1>4, <2>2
    <3>2. (s + (h - s + 24)) % 24 = h
      BY <1>2, <3>1
    <3> QED
      BY <3>1, <3>2
  <2> QED
    BY <2>1, <2>2
<1> QED
  BY <1>3, <1>4 DEF n

\* An hour is in a window exactly when it is one of the hours the window begins with.
LEMMA Windows ==
    ASSUME NEW w \in Window, NEW h \in Hour
    PROVE  InWindow(w, h) <=> HoldsAt(w, h)
<1>1. w.start \in 0..23 /\ w.end \in 0..23 /\ h \in 0..23
  BY DEF Window, Hour
<1>2. HoldsAt(w, h) <=> \E i \in 0..((w.end - w.start) % 24) - 1 : h = (w.start + i) % 24
  BY DEF HoldsAt
<1>3. InWindow(w, h) <=>
        IF w.start <= w.end THEN h >= w.start /\ h < w.end ELSE h >= w.start \/ h < w.end
  BY DEF InWindow
<1> QED
  BY <1>1, <1>2, <1>3, HoursFrom

LEMMA EntitledInit == Init => EntitledInv
  BY DEF Init, EntitledInv, ChainOf

\* The checks about who is calling
LEMMA WhoStep ==
    ASSUME TypeInv, EntitledInv, NEW c \in todo,
           CheckToken(c) \/ CheckUser(c) \/ CheckSuper(c)
           \/ CheckRow(c) \/ CheckMembershipRole(c) \/ CheckOwnership(c)
    PROVE  EntitledInv'
<1>0. c \in Due(ChainOf, route, request) /\ facts \in seen /\ fits \in BOOLEAN /\ c.at \in Nat
  BY DEF TypeInv, TypeOK, Check
<1>1. c.kind \in Checks(GuardOf(c), route, request) /\ GuardOf(c) \in Guard
  BY <1>0, CheckOf
<1>2. ASSUME UNCHANGED <<given, seen, fits, failed>> PROVE fits' => RulesMet'
  BY <1>2, MetStays DEF EntitledInv
<1>3. CASE CheckToken(c)
  <2>1. c.kind = "token" /\ Settle(c, request.bearer, 401)
        /\ UNCHANGED <<given, facts, seen, fits, failed, changes>>
    BY <1>3 DEF CheckToken, Turn
  <2>2. request.bearer => Passed(c.kind, GuardOf(c))'
    BY <2>1 DEF Passed, GuardOf, given
  <2>3. request.bearer \in BOOLEAN
    BY AccessAssumption DEF TypeInv, TypeOK, Request
  <2> QED
    BY <1>2, <2>1, <2>2, <2>3, Settling
<1>4. CASE CheckUser(c)
  <2>1. c.kind = "user" /\ Settle(c, Accepts(GuardOf(c), user), 401)
        /\ UNCHANGED <<given, facts, seen, user, fits, failed, changes>>
    BY <1>4 DEF CheckUser, Turn
  <2>2. Passed(c.kind, GuardOf(c))'
    BY <2>1 DEF Passed
  <2>3. Accepts(GuardOf(c), user) \in BOOLEAN
    BY DEF Accepts
  <2> QED
    BY <1>2, <2>1, <2>2, <2>3, Settling
<1>5. CASE CheckSuper(c)
  <2> DEFINE spared == {c} \cup {d \in todo : facts.role = "SUPER" /\ d.at = c.at
                                                   /\ d.kind \in Spared(GuardOf(c), route)}
  <2>1. /\ c.kind = "super" /\ Turn(c, "super") /\ Pass(spared)
        /\ UNCHANGED <<given, facts, seen, user, fits, failed, changes>>
    BY <1>5 DEF CheckSuper, Turn
  <2>2. ASSUME NEW d \in spared PROVE Met(d)'
    <3>1. CASE d = c
      BY <2>1, <3>1 DEF Met, Passed
    <3>2. CASE d # c
      <4>1. d \in todo /\ facts.role = "SUPER" /\ d.at = c.at /\ d.kind \in Spared(GuardOf(c), route)
        BY <3>2
      <4>2. GuardOf(d) = GuardOf(c)
        BY <4>1 DEF GuardOf
      <4>0. d.kind \notin {"user", "scope"}
        <5>1. Rank["super"] <= Rank[d.kind]
          BY <1>0, <2>1, <4>1 DEF Turn
        <5> QED
          BY <5>1 DEF Rank
      <4>3. Excused(d)
        BY <1>0, <1>1, <2>1, <4>0, <4>1, <4>2 DEF Excused
      <4> QED
        BY <2>1, <4>3, MetStays DEF Met
    <3> QED
      BY <3>1, <3>2
  <2> HIDE DEF spared
  <2> QED
    BY <1>2, <2>1, <2>2, Passing
<1>6. CASE CheckRow(c)
  <2> DEFINE ok == request.bearer /\ facts.role # "none" /\ (fits' \/ Here # NoId)
  <2>1. c.kind = "row" /\ Settle(c, ok, 403) /\ UNCHANGED <<given, facts, seen, failed, changes>>
        /\ fits' = (\E roles \in route.roles : facts.role \in roles)
    BY <1>6 DEF CheckRow, Turn
  <2>2. fits' => RulesMet
    BY <1>0, <2>1, AtMostOnce DEF RulesMet, HoldsRoles
  <2>3. RulesMet => RulesMet'
    BY <2>1, MetStays
  <2>4. ok => Passed(c.kind, GuardOf(c))'
    BY <2>1, <2>2, <2>3 DEF Passed, given, Here
  <2>5. ok \in BOOLEAN
    BY AccessAssumption DEF TypeInv, TypeOK, Request
  <2> HIDE DEF ok
  <2> QED
    BY <2>1, <2>2, <2>3, <2>4, <2>5, Settling
<1>7. CASE CheckMembershipRole(c)
  <2>1. c.kind = "membership" /\ Pass({c}) /\ UNCHANGED <<given, facts, seen, user, failed, changes>>
        /\ fits' = (fits \/ \E roles \in route.roles, r \in MemberRole :
                        r \in roles /\ <<Here, r>> \in facts.belongs)
    BY <1>7 DEF CheckMembershipRole, Turn
  <2>2. Here # NoId
    BY <1>1, <2>1, KindsOf DEF Guard
  <2>3. fits' => RulesMet
    BY <1>0, <2>1, <2>2, AtMostOnce DEF RulesMet, HoldsRoles, EntitledInv
  <2>4. fits' => RulesMet'
    BY <2>1, <2>3, MetStays
  <2>5. Met(c)'
    BY <2>1 DEF Met, Passed
  <2> QED
    BY <2>1, <2>4, <2>5, Passing
<1>8. CASE CheckOwnership(c)
  <2>1. c.kind = "ownership" /\ Settle(c, fits \/ Here \in facts.owns, 403)
        /\ UNCHANGED <<given, facts, seen, user, fits, failed, changes>>
    BY <1>8 DEF CheckOwnership, Turn
  <2>2. Here # NoId
    BY <1>1, <2>1, KindsOf DEF Guard
  <2>3. fits \/ Here \in facts.owns => RulesMet
    BY <1>0, <2>2 DEF RulesMet, HoldsRoles, EntitledInv
  <2> DEFINE ok == fits \/ Here \in facts.owns
  <2>4. ok => Passed(c.kind, GuardOf(c))'
    BY <2>1, <2>3, MetStays DEF Passed
  <2>5. ok \in BOOLEAN
    OBVIOUS
  <2>6. fits' => RulesMet'
    BY <1>2, <2>1
  <2> HIDE DEF ok
  <2>7. Settle(c, ok, 403) /\ UNCHANGED given /\ seen' = seen /\ failed' = failed
    BY <2>1 DEF ok
  <2> QED
    BY <2>4, <2>5, <2>6, <2>7, Settling
<1> QED
  BY <1>3, <1>4, <1>5, <1>6, <1>7, <1>8

\* The checks of roles and plans
LEMMA WhatStep ==
    ASSUME TypeInv, EntitledInv, NEW c \in todo,
           CheckScope(c) \/ CheckPermissions(c) \/ CheckCode(c) \/ CheckFeatures(c) \/ CheckLimits(c)
    PROVE  EntitledInv'
<1>0. c \in Due(ChainOf, route, request) /\ told' = told
  BY DEF TypeInv, TypeOK, CheckScope, CheckPermissions, CheckCode, CheckFeatures, CheckLimits,
         told, given
<1>1. /\ c.kind \in Checks(GuardOf(c), route, request) /\ GuardOf(c) \in Guard
      /\ ScopeOf(GuardOf(c), request) \in Judged(GuardOf(c))
  BY <1>0, CheckOf, ScopeJudged
<1>2. ASSUME UNCHANGED <<given, seen, fits, failed>> PROVE fits' => RulesMet'
  BY <1>2, MetStays DEF EntitledInv
\* What the check has established is true already.
<1>3. ASSUME NEW ok \in BOOLEAN, Settle(c, ok, 403), ok => Passed(c.kind, GuardOf(c)),
             UNCHANGED <<given, facts, seen, user, fits, failed, changes>>
      PROVE  EntitledInv'
  <2>1. CASE ok
    <3>1. Pass({c}) /\ Met(c)
      BY <1>3, <2>1 DEF Settle, Met
    <3> QED
      BY <1>2, <1>3, <3>1, MetStays, Passing
  <2>2. CASE ~ok
    BY <1>2, <1>3, <2>2, Refusing DEF Settle
  <2> QED
    BY <2>1, <2>2
<1>4. CASE CheckScope(c)
  <2>1. c.kind = "scope" /\ Settle(c, ScopeOf(GuardOf(c), request) # NoId, 403)
        /\ UNCHANGED <<given, facts, seen, user, fits, failed, changes>>
    BY <1>4 DEF CheckScope, Turn
  <2> QED
    BY <1>3, <2>1 DEF Passed
<1>5. CASE CheckPermissions(c)
  <2>1. c.kind = "permissions" /\ UNCHANGED <<given, facts, seen, user, fits, failed, changes>>
    BY <1>5 DEF CheckPermissions, Turn
  <2>2. PICK o \in route.permission : \E as \in [o.codes -> told] :
            Settle(c, IF o.all THEN \A p \in o.codes : HasPermission(as[p], p, ScopeOf(GuardOf(c), request))
                      ELSE \E p \in o.codes : HasPermission(as[p], p, ScopeOf(GuardOf(c), request)), 403)
    BY <1>5 DEF CheckPermissions
  <2>a. PICK as \in [o.codes -> told] :
            Settle(c, IF o.all THEN \A p \in o.codes : HasPermission(as[p], p, ScopeOf(GuardOf(c), request))
                      ELSE \E p \in o.codes : HasPermission(as[p], p, ScopeOf(GuardOf(c), request)), 403)
    BY <2>2
  <2> DEFINE ok == IF o.all THEN \A p \in o.codes : HasPermission(as[p], p, ScopeOf(GuardOf(c), request))
                   ELSE \E p \in o.codes : HasPermission(as[p], p, ScopeOf(GuardOf(c), request))
  <2>3. ok \in BOOLEAN
    OBVIOUS
  <2>4. \A p \in o.codes : HasPermission(as[p], p, ScopeOf(GuardOf(c), request)) => Held(p, GuardOf(c))
    BY <1>1 DEF Held
  <2>5. ok => PermissionsMet(GuardOf(c))
    BY <2>4, AtMostOnce DEF PermissionsMet
  <2>6. ok => Passed(c.kind, GuardOf(c))
    BY <2>1, <2>5 DEF Passed
  <2>7. Settle(c, ok, 403)
    BY <2>a
  <2> HIDE DEF ok
  <2> QED
    BY <1>3, <2>1, <2>3, <2>6, <2>7
<1>6. CASE CheckCode(c)
  <2>1. c.kind = "code" /\ UNCHANGED <<given, facts, seen, user, fits, failed, changes>>
    BY <1>6 DEF CheckCode, Turn
  <2>2. PICK o \in route.policy, f \in told, g \in told :
            Settle(c, \A p \in o.code : /\ HasPermission(f, p, ScopeOf(GuardOf(c), request))
                                        /\ p \in PlanPermissions[g.plan], 403)
    BY <1>6 DEF CheckCode
  <2> DEFINE ok == \A p \in o.code : /\ HasPermission(f, p, ScopeOf(GuardOf(c), request))
                                     /\ p \in PlanPermissions[g.plan]
  <2>3. ok => CodeMet(GuardOf(c))
    BY <1>1, AtMostOnce DEF CodeMet, Held
  <2>4. ok => Passed(c.kind, GuardOf(c))
    BY <2>1, <2>3 DEF Passed
  <2>5. Settle(c, ok, 403) /\ ok \in BOOLEAN
    BY <2>2
  <2> HIDE DEF ok
  <2> QED
    BY <1>3, <2>1, <2>4, <2>5
<1>7. CASE CheckFeatures(c)
  <2>1. c.kind = "features" /\ UNCHANGED <<given, facts, seen, user, fits, failed, changes>>
    BY <1>7 DEF CheckFeatures, Turn
  <2>2. PICK o \in FeatureRules(GuardOf(c)), f \in told :
            Settle(c, IF o.all THEN o.names \subseteq PlanFeatures[f.plan]
                      ELSE o.names \cap PlanFeatures[f.plan] # {}, 403)
    BY <1>7 DEF CheckFeatures
  <2> DEFINE ok == IF o.all THEN o.names \subseteq PlanFeatures[f.plan]
                   ELSE o.names \cap PlanFeatures[f.plan] # {}
  <2>3. ok => AnyOrAll(o.all, o.names, PlanFeatures[f.plan])
    BY DEF AnyOrAll
  <2>4. \A p \in FeatureRules(GuardOf(c)) : p = o
    BY AtMostOnce DEF FeatureRules
  <2>5. ok => FeaturesMet(GuardOf(c))
    BY <2>3, <2>4 DEF FeaturesMet
  <2>6. ok => Passed(c.kind, GuardOf(c))
    BY <2>1, <2>5 DEF Passed
  <2>7. Settle(c, ok, 403) /\ ok \in BOOLEAN
    BY <2>2
  <2> HIDE DEF ok
  <2> QED
    BY <1>3, <2>1, <2>6, <2>7
<1>8. CASE CheckLimits(c)
  <2>1. c.kind = "limit" /\ UNCHANGED <<given, facts, seen, user, fits, failed, changes>>
    BY <1>8 DEF CheckLimits, Turn
  <2>2. PICK f \in told : Settle(c, ~f.full, 403)
    BY <1>8 DEF CheckLimits
  <2>3. ~f.full => Passed(c.kind, GuardOf(c))
    BY <2>1 DEF Passed, LimitMet
  <2> QED
    BY <1>3, <2>1, <2>2, <2>3
<1> QED
  BY <1>4, <1>5, <1>6, <1>7, <1>8

\* The checks of the security context
LEMMA WhereStep ==
    ASSUME TypeInv, EntitledInv, NEW c \in todo,
           CheckOwner(c) \/ CheckWorkspace(c) \/ CheckMember(c) \/ CheckWindow(c) \/ CheckAddresses(c)
    PROVE  EntitledInv'
<1>0. c \in Due(ChainOf, route, request) /\ facts \in seen /\ facts.hour[ServerZone] \in Hour
      /\ route \in Endpoint
  BY AccessAssumption, GuardsAssumption DEF TypeInv, TypeOK, Facts
<1>1. c.kind \in Checks(GuardOf(c), route, request) /\ GuardOf(c) \in Guard
  BY <1>0, CheckOf
<1>2. ASSUME UNCHANGED <<given, seen, fits, failed>> PROVE fits' => RulesMet'
  BY <1>2, MetStays DEF EntitledInv
<1>3. ASSUME NEW ok \in BOOLEAN, Settle(c, ok, 403), ok => Passed(c.kind, GuardOf(c)),
             UNCHANGED <<given, facts, seen, user, fits, failed, changes>>
      PROVE  EntitledInv'
  <2>1. CASE ok
    <3>1. Pass({c}) /\ Met(c)
      BY <1>3, <2>1 DEF Settle, Met
    <3> QED
      BY <1>2, <1>3, <3>1, MetStays, Passing
  <2>2. CASE ~ok
    BY <1>2, <1>3, <2>2, Refusing DEF Settle
  <2> QED
    BY <2>1, <2>2
<1>4. ASSUME c.kind \in {"workspace", "member"}
      PROVE  ScopeOf(GuardOf(c), request) \in Judged("ContextAwareGuard")
  <2>1. GuardOf(c) \in ContextJudge
    BY <1>1, <1>4, KindsOf DEF Guard, ContextJudge
  <2>2. Judged(GuardOf(c)) = Judged("ContextAwareGuard")
    BY <2>1 DEF Judged, ContextJudge
  <2> QED
    BY <1>1, <2>2, ScopeJudged
<1>5. CASE CheckOwner(c)
  <2>1. c.kind = "owner" /\ UNCHANGED <<given, facts, seen, user, fits, failed, changes>>
    BY <1>5 DEF CheckOwner, Turn
  <2>2. PICK o \in route.context :
            Settle(c, ResourceOf(request, o) # NoId
                      /\ OwnsResource(facts, o.type, ResourceOf(request, o)), 403)
    BY <1>5 DEF CheckOwner
  <2> DEFINE ok == ResourceOf(request, o) # NoId
                   /\ OwnsResource(facts, o.type, ResourceOf(request, o))
  <2>3. ok => OwnerMet
    BY <1>0, AtMostOnce, ResourceFound DEF OwnerMet
  <2>4. ok => Passed(c.kind, GuardOf(c))
    BY <2>1, <2>3 DEF Passed
  <2>5. Settle(c, ok, 403) /\ ok \in BOOLEAN
    BY <2>2 DEF OwnsResource
  <2> HIDE DEF ok
  <2> QED
    BY <1>3, <2>1, <2>4, <2>5
<1>6. CASE CheckWorkspace(c)
  <2> DEFINE w == ScopeOf(GuardOf(c), request)
             served == {c} \cup {d \in todo : w \in facts.owns /\ d.at = c.at /\ d.kind = "member"}
  <2>1. c.kind = "workspace" /\ UNCHANGED <<given, facts, seen, user, fits, failed, changes>>
        /\ (Refuse(403) \/ Pass(served))
    BY <1>6 DEF CheckWorkspace, Turn
  <2>2. ASSUME NEW d \in served PROVE Met(d)
    <3>1. CASE d = c
      BY <2>1, <3>1 DEF Met, Passed
    <3>2. CASE d # c
      <4>1. w \in facts.owns /\ d.kind = "member"
        BY <3>2
      <4>2. MemberMet
        BY <1>0, <1>4, <2>1, <4>1 DEF MemberMet, HoldsMember
      <4> QED
        BY <4>1, <4>2 DEF Met, Passed
    <3> QED
      BY <3>1, <3>2
  <2> HIDE DEF served
  <2> QED
    BY <1>2, <2>1, <2>2, MetStays, Passing, Refusing
<1>7. CASE CheckMember(c)
  <2> DEFINE ok == \E r \in MemberRole : <<ScopeOf(GuardOf(c), request), r>> \in facts.belongs
  <2>1. c.kind = "member" /\ UNCHANGED <<given, facts, seen, user, fits, failed, changes>>
        /\ Settle(c, ok, 403)
    BY <1>7 DEF CheckMember, Turn
  <2>2. ok => MemberMet
    BY <1>0, <1>4, <2>1 DEF MemberMet, HoldsMember
  <2>3. ok => Passed(c.kind, GuardOf(c))
    BY <2>1, <2>2 DEF Passed
  <2>4. ok \in BOOLEAN
    OBVIOUS
  <2> HIDE DEF ok
  <2> QED
    BY <1>3, <2>1, <2>3, <2>4
<1>8. CASE CheckWindow(c)
  <2>1. c.kind = "window" /\ UNCHANGED <<given, facts, seen, user, fits, failed, changes>>
    BY <1>8 DEF CheckWindow, Turn
  <2>2. PICK o \in route.context : Settle(c, \A w \in o.window : InWindow(w, facts.hour[ServerZone]), 403)
    BY <1>8 DEF CheckWindow
  <2> DEFINE ok == \A w \in o.window : InWindow(w, facts.hour[ServerZone])
  <2>3. \A w \in o.window : w \in Window
    BY <1>0 DEF Endpoint, Optional, ContextOptions
  <2>4. ok => WindowMet
    BY <1>0, <2>3, AtMostOnce, Windows DEF WindowMet, Misread
  <2>5. ok => Passed(c.kind, GuardOf(c))
    BY <2>1, <2>4 DEF Passed
  <2>6. Settle(c, ok, 403) /\ ok \in BOOLEAN
    BY <2>2
  <2> HIDE DEF ok
  <2> QED
    BY <1>3, <2>1, <2>5, <2>6
<1>9. CASE CheckAddresses(c)
  <2>1. c.kind = "addresses" /\ UNCHANGED <<given, facts, seen, user, fits, failed, changes>>
    BY <1>9 DEF CheckAddresses, Turn
  <2>2. PICK o \in route.context :
            Settle(c, \A list \in o.addresses : AddressAllowed(list, request.from), 403)
    BY <1>9 DEF CheckAddresses
  <2> DEFINE ok == \A list \in o.addresses : AddressAllowed(list, request.from)
  <2>3. ok => AddressesMet
    BY AtMostOnce DEF AddressesMet, HoldsAddress, AddressAllowed
  <2>4. ok => Passed(c.kind, GuardOf(c))
    BY <2>1, <2>3 DEF Passed
  <2>5. Settle(c, ok, 403) /\ ok \in BOOLEAN
    BY <2>2
  <2> HIDE DEF ok
  <2> QED
    BY <1>3, <2>1, <2>4, <2>5
<1> QED
  BY <1>5, <1>6, <1>7, <1>8, <1>9

LEMMA EntitledStep == TypeInv /\ EntitledInv /\ [Next]_vars => EntitledInv'
<1> SUFFICES ASSUME TypeInv, EntitledInv, [Next]_vars PROVE EntitledInv'
  OBVIOUS
<1>1. ASSUME NEW c \in todo, Fails(c) PROVE EntitledInv'
  <2> DEFINE ok == c.kind \in {"super", "limit"}
  <2>1. Settle(c, ok, 403) /\ failed' = failed \cup {c.kind}
        /\ UNCHANGED <<given, facts, seen, user, fits, changes>>
    BY <1>1 DEF Fails
  <2>2. fits' => RulesMet'
    BY <2>1, MetStays DEF EntitledInv
  <2>3. ok => Passed(c.kind, GuardOf(c))'
    BY <2>1 DEF Passed, LimitMet
  <2>4. ok \in BOOLEAN /\ failed \subseteq failed' /\ seen \subseteq seen' /\ UNCHANGED given
    BY <2>1
  <2> HIDE DEF ok
  <2> QED
    BY <2>1, <2>2, <2>3, <2>4, Settling
<1>2. CASE Admit
  <2>1. todo = {} /\ todo' = {} /\ stage = "guards"
        /\ UNCHANGED <<given, facts, seen, user, fits, failed, changes>>
    BY <1>2 DEF Admit, given
  <2>2. \A c \in Due(ChainOf, route, request) : Met(c)'
    BY <2>1, MetStays DEF EntitledInv
  <2>3. Due(ChainOf, route, request)' = Due(ChainOf, route, request)
    BY <2>1 DEF given, ChainOf
  <2> QED
    BY <2>1, <2>2, <2>3, MetStays DEF EntitledInv
<1>3. ASSUME NEW f \in Cases, Change(f) PROVE EntitledInv'
  <2>1. seen \subseteq seen' /\ UNCHANGED <<given, todo, user, fits, stage, answer, failed>>
    BY <1>3 DEF Change
  <2>2. Due(ChainOf, route, request)' = Due(ChainOf, route, request)
    BY <2>1 DEF given, ChainOf
  <2> QED
    BY <2>1, <2>2, MetStays DEF EntitledInv
<1>4. CASE UNCHANGED vars
  <2>1. Due(ChainOf, route, request)' = Due(ChainOf, route, request)
    BY <1>4 DEF vars, ChainOf
  <2>2. UNCHANGED <<given, seen, failed, fits, stage, todo>>
    BY <1>4 DEF vars, given
  <2> QED
    BY <2>1, <2>2, MetStays DEF EntitledInv
<1> QED
  BY <1>1, <1>2, <1>3, <1>4, WhoStep, WhatStep, WhereStep DEF Next

\* A request in the handler has passed, or was spared, every check of its guards.
LEMMA AllMet ==
    ASSUME TypeInv, EntitledInv, stage = "handler", NEW g \in Guard, Guarded(g),
           NEW k \in Checks(g, route, request)
    PROVE  \E c \in Due(ChainOf, route, request) : GuardOf(c) = g /\ c.kind = k /\ Met(c)
<1>1. PICK i \in DOMAIN ChainOf : ChainOf[i] = g
  BY DEF Guarded, ChainOf
<1>2. k \in Kind
  BY KindsOf DEF Kind, Rank, Guard
<1> DEFINE c == [at |-> i, kind |-> k]
<1>3. c \in Due(ChainOf, route, request)
  BY <1>1, <1>2 DEF Due
<1>4. GuardOf(c) = g
  BY <1>1 DEF GuardOf, ChainOf
<1>5. Met(c)
  BY <1>3 DEF EntitledInv
<1> QED
  BY <1>3, <1>4, <1>5

\* Who is spared by a guard is exempt from what the guard checks.
LEMMA ExcusedExempt ==
    ASSUME TypeInv, NEW c \in Due(ChainOf, route, request), Excused(c)
    PROVE  /\ GuardOf(c) \notin {"JwtAuthGuard", "RolesGuard"} /\ c.kind # "scope"
           /\ \E f \in seen : f.role = "SUPER"
           /\ GuardOf(c) = "FeatureGuard" /\ c.kind = "features" =>
                \A o \in route.feature : Exempt(o, seen)
           /\ GuardOf(c) \in {"FeatureGuard", "LimitGuard"} /\ c.kind = "limit" =>
                \A o \in route.limit : Exempt(o, seen)
           /\ GuardOf(c) \in PolicyJudge
              /\ (GuardOf(c) = "UnifiedAuthGuard" \/ ~Guarded("UnifiedAuthGuard")) =>
                \A o \in route.policy : FullyExempt(o, seen)
           /\ GuardOf(c) \in ContextJudge
              /\ (GuardOf(c) = "UnifiedAuthGuard" \/ ~Guarded("UnifiedAuthGuard")) =>
                \A o \in route.context : FullyExempt(o, seen)
<1>1. /\ c.kind \in Spared(GuardOf(c), route)
      /\ "super" \in Checks(GuardOf(c), route, request)
      /\ GuardOf(c) \in Guard
      /\ \E f \in seen : f.role = "SUPER"
      /\ c.kind # "scope"
  BY CheckOf DEF Excused
<1>2. \A o : o.super => Exempt(o, seen)
  BY <1>1 DEF Exempt
<1>3. GuardOf(c) \notin {"JwtAuthGuard", "RolesGuard"}
  BY <1>1, KindsOf DEF Guard
<1>4. CASE GuardOf(c) = "PermissionGuard"
  BY <1>1, <1>3, <1>4 DEF PolicyJudge, ContextJudge
<1>5. CASE GuardOf(c) = "FeatureGuard"
  <2>1. /\ c.kind = "features" => \E o \in route.feature : o.super
        /\ c.kind = "limit" => \E o \in route.limit : o.super
    BY <1>1, <1>5 DEF Spared, Only
  <2> QED
    BY <1>1, <1>2, <1>5, <2>1, AtMostOnce DEF PolicyJudge, ContextJudge
<1>6. CASE GuardOf(c) = "LimitGuard"
  BY <1>1, <1>2, <1>6, KindsOf, AtMostOnce DEF PolicyJudge, ContextJudge
<1>7. CASE GuardOf(c) = "UnifiedPolicyGuard"
  <2>1. \A o \in route.policy : o.super
    BY <1>1, <1>7 DEF Spared, Only
  <2> QED
    BY <1>1, <1>2, <1>7, <2>1 DEF PolicyJudge, ContextJudge, FullyExempt
<1>8. CASE GuardOf(c) = "ContextAwareGuard"
  BY <1>1, <1>2, <1>8, KindsOf, AtMostOnce DEF PolicyJudge, ContextJudge, FullyExempt
<1>9. CASE GuardOf(c) = "UnifiedAuthGuard"
  <2>1. AllowSuper(route)
    BY <1>1, <1>9 DEF Spared, Only
  <2> QED
    BY <1>1, <1>2, <1>9, <2>1 DEF AllowSuper, FullyExempt
<1> QED
  BY <1>1, <1>3, <1>4, <1>5, <1>6, <1>7, <1>8, <1>9 DEF Guard

\* What the check of one kind in one guard comes to
LEMMA Established ==
    ASSUME TypeInv, EntitledInv, stage = "handler", NEW g \in Guard, Guarded(g),
           NEW k \in Checks(g, route, request)
    PROVE  /\ g \in {"JwtAuthGuard", "RolesGuard"} \/ k = "scope" => Passed(k, g)
           /\ Passed(k, g) \/ \E f \in seen : f.role = "SUPER"
           /\ g = "FeatureGuard" /\ k = "features" =>
                Passed(k, g) \/ \A o \in route.feature : Exempt(o, seen)
           /\ g \in {"FeatureGuard", "LimitGuard"} /\ k = "limit" =>
                Passed(k, g) \/ \A o \in route.limit : Exempt(o, seen)
           /\ g \in PolicyJudge /\ (g = "UnifiedAuthGuard" \/ ~Guarded("UnifiedAuthGuard")) =>
                Passed(k, g) \/ \A o \in route.policy : FullyExempt(o, seen)
           /\ g \in ContextJudge /\ (g = "UnifiedAuthGuard" \/ ~Guarded("UnifiedAuthGuard")) =>
                Passed(k, g) \/ \A o \in route.context : FullyExempt(o, seen)
<1>1. PICK c \in Due(ChainOf, route, request) : GuardOf(c) = g /\ c.kind = k /\ Met(c)
  BY AllMet
<1>2. CASE Excused(c)
  BY <1>1, <1>2, ExcusedExempt
<1>3. CASE Passed(k, g)
  BY <1>3
<1> QED
  BY <1>1, <1>2, <1>3 DEF Met

\* A SUPER caller has every permission in every workspace.
LEMMA SuperHolds ==
    ASSUME \E f \in seen : f.role = "SUPER", NEW p, NEW g
    PROVE  Held(p, g)
<1>1. PICK f \in seen : f.role = "SUPER"
  OBVIOUS
<1>2. f \in told /\ \A s : HasPermission(f, p, s)
  BY <1>1 DEF told, HasPermission
<1>3. \E s : s \in Judged(g)
  BY DEF Judged
<1> QED
  BY <1>2, <1>3 DEF Held

\* Whichever guards judge a kind of declaration: one of them decides who is exempt.
LEMMA Decides ==
    ASSUME NEW S, \E g \in S : Guarded(g), "UnifiedAuthGuard" \in S
    PROVE  \E g \in S : Guarded(g) /\ (g = "UnifiedAuthGuard" \/ ~Guarded("UnifiedAuthGuard"))
OBVIOUS

LEMMA Entitled == TypeInv /\ EntitledInv => AdmittedOnlyIfEntitled
<1> SUFFICES ASSUME TypeInv, EntitledInv, stage = "handler" PROVE AdmittedOnlyIfEntitled
  BY DEF AdmittedOnlyIfEntitled
<1>1. Guarded("JwtAuthGuard") => request.bearer
  <2> SUFFICES ASSUME Guarded("JwtAuthGuard") PROVE request.bearer
    OBVIOUS
  <2>1. "token" \in Checks("JwtAuthGuard", route, request) /\ "JwtAuthGuard" \in Guard
    BY DEF Checks, Guard
  <2>2. Passed("token", "JwtAuthGuard")
    BY <2>1, Established
  <2> QED
    BY <2>2 DEF Passed
<1>2. Guarded("RolesGuard") =>
        \A roles \in route.roles : request.bearer /\ \E f \in seen : HoldsRoles(roles, f)
  <2> SUFFICES ASSUME Guarded("RolesGuard"), NEW roles \in route.roles
               PROVE  request.bearer /\ \E f \in seen : HoldsRoles(roles, f)
    OBVIOUS
  <2>1. /\ "row" \in Checks("RolesGuard", route, request) /\ "RolesGuard" \in Guard
        /\ Here # NoId => "ownership" \in Checks("RolesGuard", route, request)
    BY DEF Checks, Guard, RolesGuardChecks, Only, Here
  <2>2. Passed("row", "RolesGuard") /\ (Here # NoId => Passed("ownership", "RolesGuard"))
    BY <2>1, Established
  <2> QED
    BY <2>2 DEF Passed, RulesMet
<1>3. \A o \in route.permission : AdmittedByPermission(o)
  <2> SUFFICES ASSUME NEW o \in route.permission PROVE AdmittedByPermission(o)
    OBVIOUS
  <2>1. ASSUME o.scoped, Guarded("PermissionGuard") PROVE NoId \notin Judged("PermissionGuard")
    <3>1. "scope" \in Checks("PermissionGuard", route, request) /\ "PermissionGuard" \in Guard
      BY <2>1 DEF Checks, PermissionGuardChecks, Only, Guard
    <3>2. ScopeOf("PermissionGuard", request) # NoId
      BY <2>1, <3>1, Established DEF Passed
    <3>3. Judged("PermissionGuard") # {NoId}
      BY <3>1, <3>2, ScopeJudged
    <3> QED
      BY <3>3 DEF Judged, Named
  <2>2. ASSUME NEW g \in PermissionGuards
        PROVE  IF o.all THEN \A p \in o.codes : Held(p, g) ELSE \E p \in o.codes : Held(p, g)
    <3>1. Guarded(g) /\ g \in PermissionJudge /\ g \in Guard
      BY DEF PermissionGuards, PermissionJudge, Guard
    <3>2. "permissions" \in Checks(g, route, request)
      BY <3>1 DEF PermissionJudge, Checks, PermissionGuardChecks, UnifiedAuthGuardChecks, Only
    <3>3. CASE Passed("permissions", g)
      BY <3>3 DEF Passed, PermissionsMet
    <3>4. CASE \E f \in seen : f.role = "SUPER"
      <4>1. \A p : Held(p, g)
        BY <3>4, SuperHolds
      <4>2. o.codes # {}
        BY DEF TypeInv, Endpoint, Optional, PermissionOptions
      <4> QED
        BY <4>1, <4>2
    <3> QED
      BY <3>1, <3>2, <3>3, <3>4, Established
  <2> QED
    BY <2>1, <2>2 DEF AdmittedByPermission, Held
<1>4. Guarded("FeatureGuard") => \A o \in route.feature : Exempt(o, seen) \/ HasFeatures(o)
  <2> SUFFICES ASSUME Guarded("FeatureGuard"), NEW o \in route.feature, ~Exempt(o, seen)
               PROVE  HasFeatures(o)
    OBVIOUS
  <2>1. "features" \in Checks("FeatureGuard", route, request) /\ "FeatureGuard" \in Guard
    BY DEF Checks, FeatureGuardChecks, Only, Guard
  <2>2. Passed("features", "FeatureGuard")
    BY <2>1, Established
  <2> QED
    BY <2>2 DEF Passed, FeaturesMet, FeatureRules, HasFeatures
<1>5. LimitGuards # {} => \A o \in route.limit : Exempt(o, seen) \/ BelowLimit
  <2> SUFFICES ASSUME NEW g \in LimitGuards, NEW o \in route.limit, ~Exempt(o, seen)
               PROVE  BelowLimit
    OBVIOUS
  <2>1. Guarded(g) /\ g \in {"FeatureGuard", "LimitGuard"} /\ g \in Guard
    BY DEF LimitGuards, Guard
  <2>2. "limit" \in Checks(g, route, request)
    BY <2>1 DEF Checks, LimitGuardChecks, FeatureGuardChecks, Only
  <2>3. Passed("limit", g)
    BY <2>1, <2>2, Established
  <2> QED
    BY <2>3 DEF Passed, LimitMet, BelowLimit
<1>6. \A o \in route.policy : AdmittedByPolicy(o)
  <2> SUFFICES ASSUME NEW o \in route.policy, ~FullyExempt(o, seen) PROVE AdmittedByPolicy(o)
    BY DEF AdmittedByPolicy
  <2>1. ASSUME NEW g \in PolicyJudge, Guarded(g)
        PROVE  /\ g \in Guard
               /\ o.code # {} => "code" \in Checks(g, route, request)
               /\ o.names # {} => "features" \in Checks(g, route, request)
               /\ o.limit => "limit" \in Checks(g, route, request)
    <3>1. g \in Guard
      BY DEF PolicyJudge, Guard
    <3>2. /\ o.code # {} => "code" \in PolicyChecks(o)
          /\ o.names # {} => "features" \in PolicyChecks(o)
          /\ o.limit => "limit" \in PolicyChecks(o)
      BY DEF PolicyChecks, Only
    <3>3. PolicyChecks(o) \subseteq Checks(g, route, request)
      BY DEF Checks, PolicyJudge, UnifiedPolicyGuardChecks, UnifiedAuthGuardChecks
    <3> QED
      BY <3>1, <3>2, <3>3
  <2>2. \E g \in PolicyJudge : Guarded(g)
    <3>1. route \in Routes /\ route.guards \in Seq(Guard) /\ route.policy # {}
      BY DEF TypeInv, TypeOK, Endpoint
    <3>2. PICK i \in DOMAIN route.guards : route.guards[i] \in PolicyJudge
      BY <3>1, AccessAssumption DEF PolicyJudge
    <3> QED
      BY <3>1, <3>2, GuardsIn
  <2>3. PICK h \in PolicyJudge :
            Guarded(h) /\ (h = "UnifiedAuthGuard" \/ ~Guarded("UnifiedAuthGuard"))
    BY <2>2, Decides DEF PolicyJudge
  <2>4. /\ o.code # {} => Passed("code", h)
        /\ o.names # {} => Passed("features", h)
        /\ o.limit => Passed("limit", h)
    BY <2>1, <2>3, Established
  <2>5. ASSUME NEW p \in o.code, NEW g \in PolicyGuards
        PROVE  \E s \in Judged(g), f \in told : HasPermission(f, p, s)
    <3>1. g \in PolicyJudge /\ Guarded(g)
      BY DEF PolicyGuards, PolicyJudge
    <3>2. Passed("code", g) \/ \E f \in seen : f.role = "SUPER"
      BY <2>1, <2>5, <3>1, Established
    <3>3. Held(p, g)
      BY <3>2, SuperHolds DEF Passed, CodeMet
    <3> QED
      BY <3>3 DEF Held
  <2>6. ASSUME NEW p \in o.code PROVE \E f \in told : p \in PlanPermissions[f.plan]
    BY <2>4, <2>6 DEF Passed, CodeMet
  <2>7. o.names # {} => HasFeatures(o)
    <3>1. FeatureRules(h) = route.policy
      BY DEF FeatureRules, PolicyJudge
    <3> QED
      BY <2>4, <3>1 DEF Passed, FeaturesMet, HasFeatures
  <2>8. o.limit => BelowLimit
    BY <2>4 DEF Passed, LimitMet, BelowLimit
  <2> QED
    BY <2>5, <2>6, <2>7, <2>8 DEF AdmittedByPolicy
<1>7. \A o \in route.context : AdmittedByContext(o)
  <2> SUFFICES ASSUME NEW o \in route.context, ~FullyExempt(o, seen) PROVE AdmittedByContext(o)
    BY DEF AdmittedByContext
  <2>1. \E g \in ContextJudge : Guarded(g)
    <3>1. route \in Routes /\ route.guards \in Seq(Guard) /\ route.context # {}
      BY DEF TypeInv, TypeOK, Endpoint
    <3>2. PICK i \in DOMAIN route.guards : route.guards[i] \in ContextJudge
      BY <3>1, AccessAssumption DEF ContextJudge
    <3> QED
      BY <3>1, <3>2, GuardsIn
  <2>2. PICK g \in ContextJudge :
            Guarded(g) /\ (g = "UnifiedAuthGuard" \/ ~Guarded("UnifiedAuthGuard"))
    BY <2>1, Decides DEF ContextJudge
  <2>3. g \in Guard /\ ContextChecks(o) \subseteq Checks(g, route, request)
    BY DEF Checks, ContextJudge, ContextAwareGuardChecks, UnifiedAuthGuardChecks, Guard
  <2>4. /\ o.owner => "owner" \in ContextChecks(o)
        /\ o.member => "member" \in ContextChecks(o)
        /\ o.window # {} => "window" \in ContextChecks(o)
        /\ o.addresses # {} => "addresses" \in ContextChecks(o)
    BY DEF ContextChecks, Only
  <2>5. /\ o.owner => Passed("owner", g)
        /\ o.member => Passed("member", g)
        /\ o.window # {} => Passed("window", g)
        /\ o.addresses # {} => Passed("addresses", g)
    BY <2>2, <2>3, <2>4, Established
  <2>6. /\ o.owner => OwnerMet
        /\ o.member => MemberMet
        /\ o.window # {} => WindowMet
        /\ o.addresses # {} => AddressesMet
    BY <2>5 DEF Passed
  <2> QED
    BY <2>6 DEF AdmittedByContext, OwnerMet, MemberMet, WindowMet, AddressesMet
<1> QED
  BY <1>1, <1>2, <1>3, <1>4, <1>5, <1>6, <1>7 DEF AdmittedOnlyIfEntitled

\* For any routes, requests and states of the database: a handler runs only for a caller
\* who met each requirement the route declares, or was exempt from it.
THEOREM AdmittedEntitled == Spec => []AdmittedOnlyIfEntitled
<1>1. Init => TypeInv /\ EntitledInv
  BY TypeInit, EntitledInit
<1>2. TypeInv /\ EntitledInv /\ [Next]_vars => TypeInv' /\ EntitledInv'
  BY TypeStep, EntitledStep
<1> QED
  BY <1>1, <1>2, Entitled, PTL DEF Spec

-----------------------------------------------------------------------------
(* Who is refused lacked something *)

\* Nothing has changed since the request came in, no cache is behind, no lookup has failed.
Calm == told = {facts} /\ failed = {}

Cause == Lacking \/ Unrecognised \/ Misjudged

\* The check of that kind in the same place of the chain
Beside(c, kind) == [at |-> c.at, kind |-> kind]

\* d comes after c: in a guard further on or, in RolesGuard, further on in the same guard.
Ahead(c, d) ==
    c.at < d.at \/ (c.at = d.at /\ GuardOf(c) = "RolesGuard" /\ Rank[c.kind] <= Rank[d.kind])

\* Nothing is skipped: what comes after a check still to do is still to do as well.
OrderInv == \A c \in todo, d \in Due(ChainOf, route, request) : Ahead(c, d) => d \in todo

\* What RolesGuard has found so far, before its last check
FitsInv == Calm =>
    \A c \in todo : c.kind = "ownership" /\ ~fits /\ Beside(c, "row") \notin todo =>
        \A roles \in route.roles :
            /\ facts.role \notin roles
            /\ Beside(c, "membership") \notin todo =>
                \A r \in MemberRole \cap roles : <<Here, r>> \notin facts.belongs

\* A membership is looked up only for a workspace that is not the caller's own.
MemberInv == Calm =>
    \A c \in todo : c.kind = "member" /\ Beside(c, "workspace") \notin todo =>
        ScopeOf(GuardOf(c), request) \notin facts.owns

\* Nothing is left to do for a SUPER caller of what a guard spares one.
SuperInv == Calm /\ facts.role = "SUPER" =>
    \A c \in todo :
        "super" \in Checks(GuardOf(c), route, request) /\ Beside(c, "super") \notin todo =>
            c.kind \notin Spared(GuardOf(c), route)

CauseInv ==
    /\ OrderInv
    /\ FitsInv
    /\ MemberInv
    /\ SuperInv
    /\ stage = "refused" /\ Calm => Cause

LEMMA CauseSuffices == CauseInv => RefusedOnlyForCause
  BY DEF CauseInv, Calm, Cause, RefusedOnlyForCause

\* The causes speak of the declaration, the request, the facts and the user.
LEMMA CauseKept ==
    ASSUME UNCHANGED <<given, facts>>, user' \in {user, "sub"}, Cause
    PROVE  Cause'
<1>1. /\ request' = request /\ route' = route /\ registered' = registered
      /\ Here' = Here /\ facts' = facts
  BY DEF given, Here
<1>2. \A S : Named(S)' = Named(S)
  BY <1>1 DEF Named
<1>3. \A g : Judged(g)' = Judged(g)
  BY <1>2 DEF Judged
<1>4. /\ \A g : Guarded(g)' = Guarded(g)
      /\ PermissionGuards' = PermissionGuards /\ PolicyGuards' = PolicyGuards
      /\ LimitGuards' = LimitGuards
  BY <1>1 DEF PermissionGuards, PolicyGuards, LimitGuards, Guarded
<1>5. \A roles : HoldsRoles(roles, facts)' = HoldsRoles(roles, facts)
  BY <1>1 DEF HoldsRoles
<1>6. \A o : LacksPermission(o)' = LacksPermission(o)
  BY <1>1, <1>3, <1>4 DEF LacksPermission
<1>7. \A o : LacksFeature(o)' = LacksFeature(o)
  BY <1>1 DEF LacksFeature
<1>8. \A o : /\ Exempt(o, {facts})' = Exempt(o, {facts})
             /\ FullyExempt(o, {facts})' = FullyExempt(o, {facts})
  BY <1>1, <1>4 DEF Exempt, FullyExempt
<1>9. \A o : LacksPolicy(o)' = LacksPolicy(o)
  BY <1>1, <1>3, <1>4, <1>7, <1>8 DEF LacksPolicy
<1>10. \A o : LacksContext(o)' = LacksContext(o)
  BY <1>1, <1>2, <1>3, <1>8 DEF LacksContext, HoldsAddress
<1>11. Unrecognised => Unrecognised'
  BY <1>1 DEF Unrecognised
<1>12. Lacking => Lacking'
  BY <1>1, <1>4, <1>5, <1>6, <1>7, <1>8, <1>9, <1>10 DEF Lacking
<1>13. Misjudged => Misjudged'
  BY <1>1, <1>8 DEF Misjudged
<1> QED
  BY <1>11, <1>12, <1>13 DEF Cause

LEMMA CalmBefore ==
    ASSUME UNCHANGED <<given, facts, seen>>, failed \subseteq failed', Calm'
    PROVE  Calm
  BY DEF Calm, told, given

\* Each check of a guard is due in every place the guard has in the chain.
LEMMA BesideDue ==
    ASSUME TypeInv, NEW c \in Due(ChainOf, route, request),
           NEW k \in Checks(GuardOf(c), route, request)
    PROVE  Beside(c, k) \in Due(ChainOf, route, request)
<1>1. c.at \in DOMAIN ChainOf /\ GuardOf(c) \in Guard
  BY CheckOf
<1>2. GuardOf(c) = ChainOf[c.at]
  BY DEF GuardOf, ChainOf
<1>3. k \in Kind
  BY <1>1, KindsOf DEF Kind, Rank, Guard
<1> QED
  BY <1>1, <1>2, <1>3 DEF Due, Beside

LEMMA CauseInit == Init => CauseInv
<1> SUFFICES ASSUME Init PROVE CauseInv
  OBVIOUS
<1>0. TypeInv /\ todo = Due(ChainOf, route, request) /\ stage = "guards"
  BY TypeInit DEF Init, ChainOf
<1>1. OrderInv
  BY <1>0 DEF OrderInv
<1>2. \A c \in todo : GuardOf(c) \in Guard /\ c.kind \in Checks(GuardOf(c), route, request)
  BY <1>0, CheckOf
<1>3. ASSUME NEW c \in todo, c.kind = "ownership" PROVE Beside(c, "row") \in todo
  <2>1. GuardOf(c) = "RolesGuard" /\ route.roles # {}
    BY <1>2, <1>3, KindsOf DEF Guard
  <2>2. "row" \in Checks(GuardOf(c), route, request)
    BY <2>1 DEF Checks, RolesGuardChecks, Only
  <2> QED
    BY <1>0, <2>2, BesideDue
<1>4. ASSUME NEW c \in todo, c.kind = "member" PROVE Beside(c, "workspace") \in todo
  <2>1. GuardOf(c) \in ContextJudge
    BY <1>2, <1>4, KindsOf DEF Guard, ContextJudge
  <2>2. PICK o \in route.context : o.member
    BY <1>2, <1>4, <2>1, KindsOf
  <2>3. "workspace" \in ContextChecks(o)
    BY <2>2 DEF ContextChecks, Only
  <2>4. "workspace" \in Checks(GuardOf(c), route, request)
    BY <2>1, <2>3 DEF Checks, ContextJudge, ContextAwareGuardChecks, UnifiedAuthGuardChecks
  <2> QED
    BY <1>0, <2>4, BesideDue
<1>5. \A c \in todo : "super" \in Checks(GuardOf(c), route, request) => Beside(c, "super") \in todo
  BY <1>0, BesideDue
<1> QED
  BY <1>0, <1>1, <1>3, <1>4, <1>5 DEF CauseInv, FitsInv, MemberInv, SuperInv

\* Passing the check whose turn it is leaves what comes after the others.
LEMMA OrderKept ==
    ASSUME TypeInv, OrderInv, NEW c \in todo, Turn(c, c.kind), NEW checks, Pass(checks),
           c \in checks, \A d \in checks : d.at = c.at,
           GuardOf(c) = "RolesGuard" => checks = {c}, UNCHANGED given
    PROVE  OrderInv'
<1>0. ChainOf' = ChainOf /\ route' = route /\ request' = request /\ todo' = todo \ checks
  BY DEF given, ChainOf, Pass
<1>1. \A d \in Due(ChainOf, route, request) :
        /\ d.at \in Nat /\ d.kind \in Kind /\ d = [at |-> d.at, kind |-> d.kind]
        /\ GuardOf(d) = ChainOf[d.at]
  <2>1. DOMAIN ChainOf \subseteq Nat
    <3>1. ChainOf \in Seq(Guard)
      BY ChainType DEF ChainOf, TypeInv, TypeOK
    <3> QED
      BY <3>1
  <2> QED
    BY <2>1, CheckOf DEF GuardOf, ChainOf
<1>2. \A k, l \in Kind : Rank[k] \in Nat /\ (Rank[k] = Rank[l] => k = l)
  BY DEF Kind, Rank
<1> SUFFICES ASSUME NEW e \in todo', NEW d \in Due(ChainOf, route, request), Ahead(e, d)'
             PROVE  d \notin checks /\ d \in todo
  BY <1>0 DEF OrderInv
<1>3. e \in todo /\ e \notin checks /\ e \in Due(ChainOf, route, request)
      /\ c \in Due(ChainOf, route, request)
  BY <1>0 DEF TypeInv
<1>4. Ahead(e, d)
  <2>1. GuardOf(e)' = GuardOf(e)
    BY <1>0 DEF GuardOf, ChainOf, given
  <2> QED
    BY <2>1 DEF Ahead
<1>5. d \in todo
  BY <1>3, <1>4 DEF OrderInv
<1>6. c.at < e.at \/ (c.at = e.at /\ Rank[c.kind] <= Rank[e.kind])
  BY <1>3 DEF Turn
<1>7. ASSUME d \in checks PROVE FALSE
  <2>1. d.at = c.at /\ c.at \in Nat /\ e.at \in Nat /\ d.at \in Nat
    BY <1>1, <1>3, <1>7
  <2>2. e.at = c.at /\ Rank[c.kind] <= Rank[e.kind]
        /\ GuardOf(e) = "RolesGuard" /\ Rank[e.kind] <= Rank[d.kind]
    BY <1>4, <1>6, <2>1 DEF Ahead
  <2>3. GuardOf(c) = "RolesGuard"
    BY <2>2 DEF GuardOf
  <2>4. d = c
    BY <1>7, <2>3
  <2>5. Rank[c.kind] = Rank[e.kind]
    BY <1>1, <1>2, <1>3, <2>2, <2>4
  <2>6. c.kind = e.kind
    BY <1>1, <1>2, <1>3, <2>5
  <2>7. c = e
    <3>1. c = [at |-> c.at, kind |-> c.kind] /\ e = [at |-> e.at, kind |-> e.kind]
      BY <1>1, <1>3
    <3> QED
      BY <2>2, <2>6, <3>1, Zenon
  <2> QED
    BY <1>3, <2>7
<1> QED
  BY <1>5, <1>7

\* A refused request has nothing left to do.
LEMMA RefusedFor ==
    ASSUME NEW code, Refuse(code), Calm' => Cause'
    PROVE  CauseInv'
  BY DEF Refuse, CauseInv, OrderInv, FitsInv, MemberInv, SuperInv

\* A check that is not one of RolesGuard's first two leaves what RolesGuard has found.
LEMMA FitsKept ==
    ASSUME FitsInv, UNCHANGED <<given, facts, seen, fits>>, failed \subseteq failed',
           todo' \subseteq todo,
           \A d \in todo : d.kind \in {"row", "membership"} => d \in todo'
    PROVE  FitsInv'
<1> SUFFICES ASSUME Calm', NEW c \in todo', c.kind = "ownership", ~fits, Beside(c, "row") \notin todo',
                    NEW roles \in route.roles
             PROVE  /\ facts.role \notin roles
                    /\ Beside(c, "membership") \notin todo' =>
                        \A r \in MemberRole \cap roles : <<Here, r>> \notin facts.belongs
  BY DEF FitsInv, given, Here, Beside
<1>1. Calm /\ c \in todo
  BY CalmBefore
<1>2. Beside(c, "row").kind = "row" /\ Beside(c, "membership").kind = "membership"
  BY DEF Beside
<1>3. Beside(c, "row") \notin todo
      /\ (Beside(c, "membership") \notin todo' => Beside(c, "membership") \notin todo)
  BY <1>2
<1> QED
  BY <1>1, <1>3 DEF FitsInv

\* So does every check but that of the workspace with what is known about ownership.
LEMMA MemberKept ==
    ASSUME MemberInv, UNCHANGED <<given, facts, seen>>, failed \subseteq failed',
           todo' \subseteq todo,
           \A d \in todo : d.kind = "workspace" => d \in todo'
    PROVE  MemberInv'
<1> SUFFICES ASSUME Calm', NEW c \in todo', c.kind = "member", Beside(c, "workspace") \notin todo'
             PROVE  ScopeOf(GuardOf(c), request) \notin facts.owns
  <2>1. \A c : GuardOf(c)' = GuardOf(c) /\ request' = request /\ facts' = facts
    BY DEF given, GuardOf
  <2> QED
    BY <2>1 DEF MemberInv, Beside
<1>1. Calm /\ c \in todo
  BY CalmBefore
<1>2. Beside(c, "workspace").kind = "workspace"
  BY DEF Beside
<1>3. Beside(c, "workspace") \notin todo
  BY <1>2
<1> QED
  BY <1>1, <1>3 DEF MemberInv

\* And every check but that for SUPER with what a SUPER caller is spared.
LEMMA SuperKept ==
    ASSUME SuperInv, UNCHANGED <<given, facts, seen>>, failed \subseteq failed',
           todo' \subseteq todo,
           \A d \in todo : d.kind = "super" => d \in todo'
    PROVE  SuperInv'
<1> SUFFICES ASSUME Calm', facts.role = "SUPER", NEW c \in todo',
                    "super" \in Checks(GuardOf(c), route, request), Beside(c, "super") \notin todo'
             PROVE  c.kind \notin Spared(GuardOf(c), route)
  <2>1. \A d : GuardOf(d)' = GuardOf(d) /\ request' = request /\ route' = route /\ facts' = facts
    BY DEF given, GuardOf
  <2> QED
    BY <2>1 DEF SuperInv, Beside
<1>1. Calm /\ c \in todo
  BY CalmBefore
<1>2. Beside(c, "super").kind = "super"
  BY DEF Beside
<1>3. Beside(c, "super") \notin todo
  BY <1>2
<1> QED
  BY <1>1, <1>3 DEF SuperInv

\* A check of the other kinds is passed, or refuses the request for a cause.
LEMMA SettlingFor ==
    ASSUME TypeInv, CauseInv, NEW c \in todo, Turn(c, c.kind),
           c.kind \notin {"row", "membership", "super", "workspace"},
           NEW ok \in BOOLEAN, NEW code, Settle(c, ok, code),
           Calm /\ ~ok => Cause,
           UNCHANGED <<given, facts, seen, fits, failed>>, ok \/ user' = user
    PROVE  CauseInv'
<1>1. CASE ok
  <2>1. Pass({c})
    BY <1>1 DEF Settle
  <2>2. todo' = todo \ {c} /\ stage' = stage /\ stage = "guards"
    BY <2>1 DEF Pass, Turn
  <2>3. OrderInv'
    BY <2>1, OrderKept DEF CauseInv
  <2>4. \A d \in todo : d.kind \in {"row", "membership", "super", "workspace"} => d \in todo'
    BY <2>2
  <2> QED
    BY <2>2, <2>3, <2>4, FitsKept, MemberKept, SuperKept DEF CauseInv
<1>2. CASE ~ok
  <2>1. Refuse(code) /\ user' = user
    BY <1>2 DEF Settle
  <2>2. Calm' => Cause'
    BY <1>2, <2>1, CalmBefore, CauseKept
  <2> QED
    BY <2>1, <2>2, RefusedFor
<1> QED
  BY <1>1, <1>2

\* Who is refused by a check that a guard spares SUPER callers is not exempt.
LEMMA NotExempt ==
    ASSUME TypeInv, CauseInv, Calm, NEW c \in todo, Turn(c, c.kind),
           c.kind \in {"code", "features", "limit", "owner", "workspace", "member", "window", "addresses"}
    PROVE  /\ GuardOf(c) = "FeatureGuard" /\ c.kind = "features" =>
                \A o \in route.feature : ~Exempt(o, {facts})
           /\ GuardOf(c) \in {"FeatureGuard", "LimitGuard"} /\ c.kind = "limit" =>
                \A o \in route.limit : ~Exempt(o, {facts})
           /\ GuardOf(c) \in PolicyJudge => \A o \in route.policy : ~FullyExempt(o, {facts})
           /\ GuardOf(c) \in ContextJudge => \A o \in route.context : ~FullyExempt(o, {facts})
<1>1. /\ c.at \in Nat /\ c.kind \in Kind
      /\ GuardOf(c) \in Guard /\ Guarded(GuardOf(c))
      /\ c.kind \in Checks(GuardOf(c), route, request)
  BY CheckOf DEF TypeInv, TypeOK, Check
<1>2. Beside(c, "super") \notin todo
  <2>1. Beside(c, "super").at = c.at /\ Beside(c, "super").kind = "super"
    BY DEF Beside
  <2>2. ~(Rank[c.kind] <= Rank["super"])
    BY DEF Rank
  <2> QED
    BY <1>1, <2>1, <2>2 DEF Turn
<1>3. ASSUME facts.role = "SUPER", "super" \in Checks(GuardOf(c), route, request)
      PROVE  c.kind \notin Spared(GuardOf(c), route)
  BY <1>2, <1>3 DEF CauseInv, SuperInv
<1>4. ASSUME GuardOf(c) = "FeatureGuard", c.kind = "features", NEW o \in route.feature
      PROVE  ~Exempt(o, {facts})
  <2>1. "super" \in Checks(GuardOf(c), route, request)
    BY <1>4 DEF Checks, FeatureGuardChecks, Only
  <2>2. o.super => c.kind \in Spared(GuardOf(c), route)
    BY <1>4 DEF Spared, Only
  <2> QED
    BY <1>3, <2>1, <2>2 DEF Exempt
<1>5. ASSUME GuardOf(c) \in {"FeatureGuard", "LimitGuard"}, c.kind = "limit", NEW o \in route.limit
      PROVE  ~Exempt(o, {facts})
  <2>1. o.super => "super" \in Checks(GuardOf(c), route, request)
    BY <1>5 DEF Checks, FeatureGuardChecks, LimitGuardChecks, Only
  <2>2. o.super => c.kind \in Spared(GuardOf(c), route)
    BY <1>1, <1>5 DEF Spared, Only
  <2> QED
    BY <1>3, <2>1, <2>2 DEF Exempt
<1>6. ASSUME GuardOf(c) = "UnifiedAuthGuard", AllowSuper(route)
      PROVE  facts.role # "SUPER"
  <2>1. "super" \in Checks(GuardOf(c), route, request)
    <3>1. route.permission # {} \/ route.policy # {} \/ route.context # {}
      BY <1>1, <1>6, KindsOf DEF Guard
    <3> QED
      BY <1>6, <3>1 DEF Checks, UnifiedAuthGuardChecks, Only
  <2>2. c.kind \in Spared(GuardOf(c), route)
    BY <1>1, <1>6 DEF Spared, Only
  <2> QED
    BY <1>3, <2>1, <2>2
<1>7. ASSUME GuardOf(c) \in PolicyJudge, NEW o \in route.policy PROVE ~FullyExempt(o, {facts})
  <2>1. CASE GuardOf(c) = "UnifiedPolicyGuard"
    <3>1. "super" \in Checks(GuardOf(c), route, request)
      BY <2>1 DEF Checks, UnifiedPolicyGuardChecks
    <3>2. o.super => c.kind \in Spared(GuardOf(c), route)
      BY <1>1, <2>1, AtMostOnce DEF Spared, Only
    <3> QED
      BY <1>3, <3>1, <3>2 DEF FullyExempt, Exempt
  <2>2. CASE GuardOf(c) = "UnifiedAuthGuard"
    BY <1>1, <1>6, <2>2 DEF FullyExempt, Exempt
  <2> QED
    BY <1>7, <2>1, <2>2 DEF PolicyJudge
<1>8. ASSUME GuardOf(c) \in ContextJudge, NEW o \in route.context PROVE ~FullyExempt(o, {facts})
  <2>1. CASE GuardOf(c) = "ContextAwareGuard"
    <3>1. o.super => "super" \in Checks(GuardOf(c), route, request)
      BY <2>1 DEF Checks, ContextAwareGuardChecks, Only
    <3>2. c.kind \in Spared(GuardOf(c), route)
      BY <1>1, <2>1 DEF Spared
    <3> QED
      BY <1>3, <3>1, <3>2 DEF FullyExempt, Exempt
  <2>2. CASE GuardOf(c) = "UnifiedAuthGuard"
    BY <1>1, <1>6, <2>2 DEF FullyExempt, Exempt
  <2> QED
    BY <1>8, <2>1, <2>2 DEF ContextJudge
<1> QED
  BY <1>4, <1>5, <1>7, <1>8

\* RolesGuard's checks: what it finds is what the roles ask for.
LEMMA RolesStep ==
    ASSUME TypeInv, CauseInv, NEW c \in todo,
           CheckRow(c) \/ CheckMembershipRole(c) \/ CheckOwnership(c)
    PROVE  CauseInv'
<1>0. c \in Due(ChainOf, route, request) /\ facts \in Facts /\ route \in Endpoint
  BY AccessAssumption DEF TypeInv, TypeOK
<1>1. c.kind \in Checks(GuardOf(c), route, request) /\ GuardOf(c) \in Guard
  BY <1>0, CheckOf
<1>2. c.kind \in {"row", "membership", "ownership"}
  BY DEF CheckRow, CheckMembershipRole, CheckOwnership, Turn
<1>3. /\ GuardOf(c) = "RolesGuard" /\ Guarded("RolesGuard") /\ route.roles # {}
      /\ (c.kind # "row" => Here # NoId)
  BY <1>0, <1>1, <1>2, CheckOf, KindsOf DEF Guard
<1>4. PICK required : required \in route.roles /\ \A roles \in route.roles : roles = required
  BY <1>3, AtMostOnce
<1>5. stage = "guards" /\ Turn(c, c.kind)
  BY DEF CheckRow, CheckMembershipRole, CheckOwnership, Turn
<1>6. ASSUME NEW e \in todo, e.kind = "ownership", NEW k \in {"row", "membership"}
      PROVE  /\ GuardOf(e) = "RolesGuard"
             /\ Beside(e, k) \in Due(ChainOf, route, request)
  <2>1. /\ e \in Due(ChainOf, route, request) /\ GuardOf(e) \in Guard
        /\ e.kind \in Checks(GuardOf(e), route, request)
    BY CheckOf DEF TypeInv
  <2>2. GuardOf(e) = "RolesGuard" /\ Here # NoId
    BY <1>6, <2>1, KindsOf DEF Guard
  <2>3. k \in Checks(GuardOf(e), route, request)
    BY <1>3, <2>2 DEF Checks, RolesGuardChecks, Only, Here
  <2> QED
    BY <2>1, <2>2, <2>3, BesideDue
<1>7. ASSUME NEW e \in todo, e.kind = "ownership", c.at < e.at, NEW k \in {"row", "membership"}
      PROVE  Beside(e, k) \in todo
  BY <1>6, <1>7 DEF CauseInv, OrderInv, Ahead, Beside
<1>8. ASSUME NEW e \in todo, e.kind = "ownership"
      PROVE  c.at < e.at \/ c.at = e.at
  BY <1>5 DEF Turn
<1>9. \A e \in Due(ChainOf, route, request) : e.at \in Nat /\ e = [at |-> e.at, kind |-> e.kind]
  <2>1. ChainOf \in Seq(Guard)
    BY ChainType DEF ChainOf, TypeInv, TypeOK
  <2>2. DOMAIN ChainOf \subseteq Nat
    BY <2>1
  <2> QED
    BY <2>2, CheckOf
<1>10. CASE CheckRow(c)
  <2> DEFINE ok == request.bearer /\ facts.role # "none" /\ (fits' \/ Here # NoId)
  <2>1. /\ c.kind = "row" /\ Settle(c, ok, 403)
        /\ UNCHANGED <<given, facts, seen, failed, changes>>
        /\ fits' = (\E roles \in route.roles : facts.role \in roles)
        /\ user' = IF request.bearer THEN "sub" ELSE user
    BY <1>10 DEF CheckRow, Turn
  <2>2. CASE ok
    <3>1. Pass({c}) /\ todo' = todo \ {c} /\ stage' = "guards"
      BY <1>5, <2>1, <2>2 DEF Settle, Pass
    <3>2. OrderInv'
      BY <1>5, <2>1, <3>1, OrderKept DEF CauseInv
    <3>3. FitsInv'
      <4> SUFFICES ASSUME NEW e \in todo', e.kind = "ownership", ~fits',
                          Beside(e, "row") \notin todo', NEW roles \in route.roles
                   PROVE  facts.role \notin roles /\ Beside(e, "membership") \in todo'
        BY <2>1 DEF FitsInv, given, Here, Beside
      <4>1. facts.role \notin roles
        BY <2>1
      <4>2. e \in todo /\ Beside(e, "membership") # c
        BY <2>1, <3>1 DEF Beside
      <4>3. CASE c.at < e.at
        BY <3>1, <4>1, <4>2, <4>3, <1>7
      <4>4. CASE c.at = e.at
        <5>1. Beside(e, "membership").at = c.at /\ Beside(e, "membership").kind = "membership"
          BY <4>4 DEF Beside
        <5>2. Rank[c.kind] <= Rank["membership"]
          BY <2>1 DEF Rank
        <5>3. Ahead(c, Beside(e, "membership"))
          BY <1>3, <5>1, <5>2 DEF Ahead
        <5>4. Beside(e, "membership") \in Due(ChainOf, route, request)
          BY <1>6, <4>2
        <5>5. Beside(e, "membership") \in todo
          BY <5>3, <5>4 DEF CauseInv, OrderInv
        <5> QED
          BY <3>1, <4>1, <4>2, <5>5
      <4> QED
        BY <1>8, <4>2, <4>3, <4>4
    <3>4. MemberInv' /\ SuperInv'
      BY <2>1, <3>1, MemberKept, SuperKept DEF CauseInv
    <3> QED
      BY <3>1, <3>2, <3>3, <3>4 DEF CauseInv
  <2>3. CASE ~ok
    <3>1. Refuse(403)
      BY <2>1, <2>3 DEF Settle
    <3>2. request.bearer => ~HoldsRoles(required, facts)
      <4> SUFFICES ASSUME request.bearer PROVE ~HoldsRoles(required, facts)
        OBVIOUS
      <4>1. facts.role \notin required
        <5>1. CASE facts.role = "none"
          BY <1>0, <1>4, <5>1 DEF Endpoint, Optional, Role
        <5>2. CASE facts.role # "none"
          BY <1>4, <2>1, <2>3, <5>2
        <5> QED
          BY <5>1, <5>2
      <4>2. Here # NoId => facts.owns = {} /\ facts.belongs = {}
        BY <1>0, <2>3 DEF Facts
      <4> QED
        BY <4>1, <4>2 DEF HoldsRoles
    <3>3. Cause
      BY <1>3, <1>4, <3>2 DEF Cause, Lacking
    <3>4. Cause'
      BY <2>1, <3>3, CauseKept
    <3> QED
      BY <3>1, <3>4, RefusedFor
  <2> QED
    BY <2>2, <2>3
<1>11. CASE CheckMembershipRole(c)
  <2>1. /\ c.kind = "membership" /\ Pass({c})
        /\ UNCHANGED <<given, facts, seen, user, failed, changes>>
        /\ fits' = (fits \/ \E roles \in route.roles, r \in MemberRole :
                        r \in roles /\ <<Here, r>> \in facts.belongs)
    BY <1>11 DEF CheckMembershipRole, Turn
  <2>2. todo' = todo \ {c} /\ stage' = "guards"
    BY <1>5, <2>1 DEF Pass
  <2>3. OrderInv'
    BY <1>5, <2>1, OrderKept DEF CauseInv
  <2>4. MemberInv' /\ SuperInv'
    BY <2>1, <2>2, MemberKept, SuperKept DEF CauseInv
  <2>5. FitsInv'
    <3> SUFFICES ASSUME Calm', NEW e \in todo', e.kind = "ownership", ~fits',
                        Beside(e, "row") \notin todo', NEW roles \in route.roles
                 PROVE  /\ facts.role \notin roles
                        /\ \A r \in MemberRole \cap roles : <<Here, r>> \notin facts.belongs
      BY <2>1 DEF FitsInv, given, Here, Beside
    <3>1. Calm /\ e \in todo /\ ~fits
      BY <2>1, <2>2, CalmBefore
    <3>2. Beside(e, "row") \notin todo
      BY <2>1, <2>2 DEF Beside
    <3> QED
      BY <2>1, <3>1, <3>2 DEF CauseInv, FitsInv
  <2> QED
    BY <2>2, <2>3, <2>4, <2>5 DEF CauseInv
<1>12. CASE CheckOwnership(c)
  <2> DEFINE ok == fits \/ Here \in facts.owns
  <2>1. c.kind = "ownership" /\ Settle(c, ok, 403)
        /\ UNCHANGED <<given, facts, seen, user, fits, failed, changes>>
    BY <1>12 DEF CheckOwnership, Turn
  <2>2. ASSUME Calm, ~ok PROVE Cause
    <3>1. Beside(c, "row") \notin todo /\ Beside(c, "membership") \notin todo
      <4>1. ASSUME NEW k \in {"row", "membership"} PROVE Beside(c, k) \notin todo
        <5>1. Beside(c, k).at = c.at /\ Beside(c, k).kind = k /\ c.at \in Nat
          BY <1>0, <1>9 DEF Beside
        <5>2. ~(Rank[c.kind] <= Rank[k])
          BY <2>1 DEF Rank
        <5> QED
          BY <1>5, <5>1, <5>2 DEF Turn
      <4> QED
        BY <4>1
    <3>2. /\ facts.role \notin required
          /\ \A r \in MemberRole \cap required : <<Here, r>> \notin facts.belongs
      BY <1>4, <2>1, <2>2, <3>1 DEF CauseInv, FitsInv
    <3>3. \A r : <<Here, r>> \in facts.belongs => r \in MemberRole
      BY <1>0 DEF Facts
    <3>4. ~HoldsRoles(required, facts)
      BY <2>2, <3>2, <3>3 DEF HoldsRoles
    <3> QED
      BY <1>3, <1>4, <3>4 DEF Cause, Lacking
  <2>3. ok \in BOOLEAN
    BY DEF TypeInv, TypeOK
  <2> HIDE DEF ok
  <2> QED
    BY <1>5, <2>1, <2>2, <2>3, SettlingFor
<1> QED
  BY <1>10, <1>11, <1>12

\* The other checks about who is calling
LEMMA CallerStep ==
    ASSUME TypeInv, CauseInv, NEW c \in todo, CheckToken(c) \/ CheckUser(c) \/ CheckSuper(c)
    PROVE  CauseInv'
<1>0. c \in Due(ChainOf, route, request)
  BY DEF TypeInv
<1>1. c.kind \in Checks(GuardOf(c), route, request) /\ GuardOf(c) \in Guard
  BY <1>0, CheckOf
<1>2. Turn(c, c.kind) /\ stage = "guards"
  BY DEF CheckToken, CheckUser, CheckSuper, Turn
<1>3. CASE CheckToken(c)
  <2>1. c.kind = "token" /\ Settle(c, request.bearer, 401)
        /\ UNCHANGED <<given, facts, seen, fits, failed, changes>>
        /\ user' = IF request.bearer THEN "id" ELSE user
    BY <1>3 DEF CheckToken, Turn
  <2>2. request.bearer \in BOOLEAN
    BY AccessAssumption DEF TypeInv, TypeOK, Request
  <2>3. GuardOf(c) = "JwtAuthGuard" /\ Guarded("JwtAuthGuard")
    BY <1>0, <1>1, <2>1, CheckOf, KindsOf DEF Guard
  <2>4. ~request.bearer => Cause
    BY <2>3 DEF Cause, Lacking
  <2> QED
    BY <1>2, <2>1, <2>2, <2>4, SettlingFor
<1>4. CASE CheckUser(c)
  <2>1. c.kind = "user" /\ Settle(c, Accepts(GuardOf(c), user), 401)
        /\ UNCHANGED <<given, facts, seen, user, fits, failed, changes>>
    BY <1>4 DEF CheckUser, Turn
  <2>2. ~Accepts(GuardOf(c), user) => user # "id"
    BY DEF Accepts
  <2>3. route.permission \cup route.feature \cup route.limit \cup route.policy \cup route.context # {}
    BY <1>1, <2>1, KindsOf DEF Guard
  <2>4. ~Accepts(GuardOf(c), user) => Cause
    BY <2>2, <2>3 DEF Cause, Unrecognised
  <2>5. Accepts(GuardOf(c), user) \in BOOLEAN
    BY DEF Accepts
  <2> QED
    BY <1>2, <2>1, <2>4, <2>5, SettlingFor
<1>5. CASE CheckSuper(c)
  <2> DEFINE Free(d) == facts.role = "SUPER" /\ d.at = c.at /\ d.kind \in Spared(GuardOf(c), route)
             spared == {c} \cup {d \in todo : Free(d)}
  <2>1. c.kind = "super" /\ Pass(spared) /\ UNCHANGED <<given, facts, seen, user, fits, failed, changes>>
    BY <1>5 DEF CheckSuper, Turn
  <2>2. GuardOf(c) # "RolesGuard"
    BY <1>1, <2>1, KindsOf
  <2>3. todo' = todo \ spared /\ stage' = "guards"
    BY <1>2, <2>1 DEF Pass
  <2>4. OrderInv'
    <3>1. c \in spared /\ \A d \in spared : d.at = c.at
      OBVIOUS
    <3> HIDE DEF spared
    <3> QED
      BY <1>2, <2>1, <2>2, <3>1, OrderKept DEF CauseInv
  <2>5. \A d \in todo : d.kind \in {"row", "membership"} => d \in todo'
    <3> SUFFICES ASSUME NEW d \in todo, d.kind \in {"row", "membership"}, d.at = c.at PROVE FALSE
      BY <2>1, <2>3
    <3>1. d.kind \in Checks(GuardOf(d), route, request) /\ GuardOf(d) = GuardOf(c)
      BY CheckOf DEF GuardOf, TypeInv
    <3> QED
      BY <1>1, <2>2, <3>1, KindsOf DEF Guard
  <2>6. FitsInv'
    BY <2>1, <2>3, <2>5, FitsKept DEF CauseInv
  <2>7. MemberInv'
    <3> SUFFICES ASSUME Calm', NEW e \in todo', e.kind = "member", Beside(e, "workspace") \notin todo'
                 PROVE  ScopeOf(GuardOf(e), request) \notin facts.owns
      <4>1. \A d : GuardOf(d)' = GuardOf(d) /\ request' = request /\ facts' = facts
        BY <2>1 DEF given, GuardOf
      <4> QED
        BY <4>1 DEF MemberInv, Beside
    <3>1. Calm /\ e \in todo
      BY <2>1, <2>3, CalmBefore
    <3>2. Beside(e, "workspace") \notin todo
      <4> SUFFICES ASSUME Beside(e, "workspace") \in todo PROVE FALSE
        OBVIOUS
      <4>1. Beside(e, "workspace") \in spared
        BY <2>3
      <4>2. Free(Beside(e, "workspace"))
        BY <2>1, <4>1 DEF Beside
      <4>3. facts.role = "SUPER" /\ e.at = c.at /\ "workspace" \in Spared(GuardOf(c), route)
        BY <4>2 DEF Beside
      <4>4. GuardOf(c) \in ContextJudge
        <5>1. e.kind \in Checks(GuardOf(e), route, request) /\ GuardOf(e) = GuardOf(c)
          BY <3>1, <4>3, CheckOf DEF GuardOf, TypeInv
        <5> QED
          BY <1>1, <5>1, KindsOf DEF Guard, ContextJudge
      <4>5. Spared(GuardOf(c), route) = Kind
        BY <4>3, <4>4 DEF Spared, Only, ContextJudge
      <4>6. e.kind \in Kind
        BY DEF Kind, Rank
      <4>7. e \in spared
        BY <3>1, <4>3, <4>5, <4>6
      <4> QED
        BY <2>3, <4>7
    <3> QED
      BY <3>1, <3>2 DEF CauseInv, MemberInv
  <2>8. SuperInv'
    <3> SUFFICES ASSUME Calm', facts.role = "SUPER", NEW e \in todo',
                        "super" \in Checks(GuardOf(e), route, request), Beside(e, "super") \notin todo'
                 PROVE  e.kind \notin Spared(GuardOf(e), route)
      <4>1. \A d : GuardOf(d)' = GuardOf(d) /\ request' = request /\ route' = route /\ facts' = facts
        BY <2>1 DEF given, GuardOf
      <4> QED
        BY <4>1 DEF SuperInv, Beside
    <3>1. Calm /\ e \in todo
      BY <2>1, <2>3, CalmBefore
    <3>2. CASE Beside(e, "super") \in todo
      <4>1. Beside(e, "super") \in spared
        BY <2>3, <3>2
      <4>2. Beside(e, "super").at = c.at
        BY <4>1
      <4>3. e.at = c.at
        BY <4>2 DEF Beside
      <4>4. GuardOf(e) = GuardOf(c)
        BY <4>3 DEF GuardOf
      <4>5. e \notin spared
        BY <2>3
      <4> QED
        BY <3>1, <4>3, <4>4, <4>5
    <3>3. CASE Beside(e, "super") \notin todo
      BY <3>1, <3>3 DEF CauseInv, SuperInv
    <3> QED
      BY <3>2, <3>3
  <2> QED
    BY <2>3, <2>4, <2>6, <2>7, <2>8 DEF CauseInv
<1> QED
  BY <1>3, <1>4, <1>5

\* The checks of permissions, features and limits: what a cache tells are the facts.
LEMMA EntitlementStep ==
    ASSUME TypeInv, CauseInv, NEW c \in todo,
           CheckScope(c) \/ CheckPermissions(c) \/ CheckCode(c) \/ CheckFeatures(c) \/ CheckLimits(c)
    PROVE  CauseInv'
<1>0. c \in Due(ChainOf, route, request)
  BY DEF TypeInv
<1>1. /\ c.kind \in Checks(GuardOf(c), route, request) /\ GuardOf(c) \in Guard
      /\ Guarded(GuardOf(c))
  BY <1>0, CheckOf
<1>2. Turn(c, c.kind) /\ UNCHANGED <<given, facts, seen, user, fits, failed, changes>>
  BY DEF CheckScope, CheckPermissions, CheckCode, CheckFeatures, CheckLimits, Turn
<1>3. /\ ScopeOf(GuardOf(c), request) \in Judged(GuardOf(c))
      /\ ScopeOf(GuardOf(c), request) = NoId => Judged(GuardOf(c)) = {NoId}
  BY <1>1, ScopeJudged
<1>4. ASSUME NEW ok \in BOOLEAN, Settle(c, ok, 403), Calm /\ ~ok => Cause,
             c.kind \notin {"row", "membership", "super", "workspace"}
      PROVE  CauseInv'
  BY <1>2, <1>4, SettlingFor
<1>5. CASE CheckScope(c)
  <2>1. c.kind = "scope" /\ Settle(c, ScopeOf(GuardOf(c), request) # NoId, 403)
    BY <1>5 DEF CheckScope, Turn
  <2>2. GuardOf(c) = "PermissionGuard" /\ \E o \in route.permission : o.scoped
    BY <1>1, <2>1, KindsOf DEF Guard
  <2>3. ScopeOf(GuardOf(c), request) = NoId => Cause
    BY <1>1, <1>3, <2>2 DEF Cause, Lacking, LacksPermission
  <2> QED
    BY <1>4, <2>1, <2>3
<1>6. CASE CheckPermissions(c)
  <2> DEFINE s == ScopeOf(GuardOf(c), request)
             Answers(as, p) == HasPermission(as[p], p, s)
             Ok(o, as) == IF o.all THEN \A p \in o.codes : Answers(as, p)
                          ELSE \E p \in o.codes : Answers(as, p)
  <2>1. c.kind = "permissions"
    BY <1>6 DEF CheckPermissions, Turn
  <2>0. PICK o \in route.permission : \E as \in [o.codes -> told] : Settle(c, Ok(o, as), 403)
    BY <1>6 DEF CheckPermissions
  <2>2. PICK as \in [o.codes -> told] : Settle(c, Ok(o, as), 403)
    BY <2>0
  <2>3. GuardOf(c) \in PermissionGuards
    <3>1. GuardOf(c) \in PermissionJudge
      BY <1>1, <2>1, KindsOf DEF Guard, PermissionJudge
    <3> QED
      BY <1>1, <3>1 DEF PermissionGuards, PermissionJudge
  <2>4. ASSUME Calm, ~Ok(o, as) PROVE Cause
    <3>1. \A p \in o.codes : as[p] = facts
      BY <2>4 DEF Calm
    <3>2. \A p \in o.codes : ~Answers(as, p) =>
              \E g \in PermissionGuards : \E t \in Judged(g) : ~HasPermission(facts, p, t)
      BY <1>3, <2>3, <3>1
    <3>3. LacksPermission(o)
      BY <2>4, <3>2 DEF LacksPermission
    <3> QED
      BY <3>3 DEF Cause, Lacking
  <2>5. Ok(o, as) \in BOOLEAN
    BY DEF HasPermission
  <2> HIDE DEF Ok
  <2> QED
    BY <1>4, <2>1, <2>2, <2>4, <2>5
<1>7. CASE CheckCode(c)
  <2> DEFINE Ok(o, f, g) ==
        \A p \in o.code : /\ HasPermission(f, p, ScopeOf(GuardOf(c), request))
                          /\ p \in PlanPermissions[g.plan]
  <2>1. c.kind = "code"
    BY <1>7 DEF CheckCode, Turn
  <2>2. PICK o \in route.policy, f \in told, g \in told : Settle(c, Ok(o, f, g), 403)
    BY <1>7 DEF CheckCode
  <2>3. GuardOf(c) \in PolicyGuards
    <3>1. GuardOf(c) \in PolicyJudge
      BY <1>1, <2>1, KindsOf DEF Guard, PolicyJudge
    <3> QED
      BY <1>1, <3>1 DEF PolicyGuards, PolicyJudge
  <2>4. ASSUME Calm, ~Ok(o, f, g) PROVE Cause
    <3>1. f = facts /\ g = facts
      BY <2>4 DEF Calm
    <3>2. GuardOf(c) \in PolicyJudge
      BY <2>3 DEF PolicyGuards, PolicyJudge
    <3>3. ~FullyExempt(o, {facts})
      BY <1>2, <2>1, <2>4, <3>2, NotExempt
    <3>4. LacksPolicy(o)
      BY <1>3, <2>3, <2>4, <3>1, <3>3 DEF LacksPolicy
    <3> QED
      BY <3>4 DEF Cause, Lacking
  <2>5. Ok(o, f, g) \in BOOLEAN
    OBVIOUS
  <2> HIDE DEF Ok
  <2> QED
    BY <1>4, <2>1, <2>2, <2>4, <2>5
<1>8. CASE CheckFeatures(c)
  <2> DEFINE Ok(o, f) == IF o.all THEN o.names \subseteq PlanFeatures[f.plan]
                         ELSE o.names \cap PlanFeatures[f.plan] # {}
  <2>1. c.kind = "features"
    BY <1>8 DEF CheckFeatures, Turn
  <2>2. PICK o \in FeatureRules(GuardOf(c)), f \in told : Settle(c, Ok(o, f), 403)
    BY <1>8 DEF CheckFeatures
  <2>3. Calm /\ ~Ok(o, f) => LacksFeature(o)
    BY DEF LacksFeature, AnyOrAll, Calm
  <2>4. CASE GuardOf(c) = "FeatureGuard"
    <3>0. Calm => ~Exempt(o, {facts}) /\ o \in route.feature
      BY <1>2, <2>1, <2>2, <2>4, NotExempt DEF FeatureRules
    <3>1. Calm /\ ~Ok(o, f) => Cause
      BY <1>1, <2>3, <2>4, <3>0 DEF Cause, Lacking
    <3>2. Ok(o, f) \in BOOLEAN
      OBVIOUS
    <3> HIDE DEF Ok
    <3> QED
      BY <1>4, <2>1, <2>2, <3>1, <3>2
  <2>5. CASE GuardOf(c) # "FeatureGuard"
    <3>1. o \in route.policy
      BY <2>2, <2>5 DEF FeatureRules
    <3>2. \E d \in route.policy : d.names # {}
      BY <1>1, <2>1, <2>5, KindsOf DEF Guard, PolicyJudge
    <3>3. o.names # {}
      BY <3>1, <3>2, AtMostOnce
    <3>4. GuardOf(c) \in PolicyJudge
      BY <1>1, <2>1, <2>5, KindsOf DEF Guard, PolicyJudge
    <3>5. Calm => ~FullyExempt(o, {facts})
      BY <1>2, <2>1, <3>1, <3>4, NotExempt
    <3>6. Calm /\ ~Ok(o, f) => Cause
      BY <2>3, <3>1, <3>3, <3>5 DEF LacksPolicy, Cause, Lacking
    <3>7. Ok(o, f) \in BOOLEAN
      OBVIOUS
    <3> HIDE DEF Ok
    <3> QED
      BY <1>4, <2>1, <2>2, <3>6, <3>7
  <2> QED
    BY <2>4, <2>5
<1>9. CASE CheckLimits(c)
  <2>1. c.kind = "limit"
    BY <1>9 DEF CheckLimits, Turn
  <2>2. PICK f \in told : Settle(c, ~f.full, 403)
    BY <1>9 DEF CheckLimits
  <2>3. \/ GuardOf(c) \in {"FeatureGuard", "LimitGuard"} /\ route.limit # {}
        \/ GuardOf(c) \in PolicyJudge /\ \E o \in route.policy : o.limit
    BY <1>1, <2>1, KindsOf DEF Guard, PolicyJudge
  <2>4. Calm => f = facts
    BY DEF Calm
  <2>5. ASSUME Calm, f.full, GuardOf(c) \in {"FeatureGuard", "LimitGuard"}, route.limit # {}
        PROVE  Cause
    <3>1. LimitGuards # {}
      BY <1>1, <2>5 DEF LimitGuards
    <3>2. \A o \in route.limit : ~Exempt(o, {facts})
      BY <1>2, <2>1, <2>5, NotExempt
    <3> QED
      BY <2>4, <2>5, <3>1, <3>2 DEF Cause, Lacking
  <2>6. ASSUME Calm, f.full, GuardOf(c) \in PolicyJudge, NEW o \in route.policy, o.limit
        PROVE  Cause
    <3>1. ~FullyExempt(o, {facts})
      BY <1>2, <2>1, <2>6, NotExempt
    <3> QED
      BY <2>4, <2>6, <3>1 DEF Cause, Lacking, LacksPolicy
  <2>7. Calm /\ f.full => Cause
    BY <2>3, <2>5, <2>6
  <2> QED
    BY <1>4, <2>1, <2>2, <2>7
<1> QED
  BY <1>5, <1>6, <1>7, <1>8, <1>9

\* The checks of the security context
LEMMA ContextStep ==
    ASSUME TypeInv, CauseInv, NEW c \in todo,
           CheckOwner(c) \/ CheckWorkspace(c) \/ CheckMember(c) \/ CheckWindow(c) \/ CheckAddresses(c)
    PROVE  CauseInv'
<1>0. /\ c \in Due(ChainOf, route, request) /\ facts \in Facts /\ route \in Endpoint
      /\ facts.hour[ServerZone] \in Hour /\ facts.owns \subseteq Id
      /\ facts.belongs \subseteq Workspace \X MemberRole
  BY AccessAssumption, GuardsAssumption DEF TypeInv, TypeOK, Facts
<1>1. c.kind \in Checks(GuardOf(c), route, request) /\ GuardOf(c) \in Guard /\ c.at \in Nat
  <2>1. ChainOf \in Seq(Guard)
    BY ChainType DEF ChainOf, TypeInv, TypeOK
  <2>2. DOMAIN ChainOf \subseteq Nat
    BY <2>1
  <2> QED
    BY <1>0, <2>2, CheckOf
<1>2. Turn(c, c.kind) /\ UNCHANGED <<given, facts, seen, user, fits, failed, changes>>
      /\ stage = "guards"
  BY DEF CheckOwner, CheckWorkspace, CheckMember, CheckWindow, CheckAddresses, Turn
<1>3. c.kind \in {"owner", "workspace", "member", "window", "addresses"}
  BY DEF CheckOwner, CheckWorkspace, CheckMember, CheckWindow, CheckAddresses, Turn
<1>4. GuardOf(c) \in ContextJudge
  BY <1>1, <1>3, KindsOf DEF Guard, ContextJudge
<1>5. Judged(GuardOf(c)) = Judged("ContextAwareGuard")
  BY <1>4 DEF Judged, ContextJudge
<1>6. /\ ScopeOf(GuardOf(c), request) \in Judged(GuardOf(c))
      /\ ScopeOf(GuardOf(c), request) = NoId => Judged(GuardOf(c)) = {NoId}
  BY <1>1, ScopeJudged
<1>7. Calm => \A o \in route.context : ~FullyExempt(o, {facts})
  BY <1>2, <1>3, <1>4, NotExempt
<1>8. ASSUME NEW ok \in BOOLEAN, Settle(c, ok, 403), Calm /\ ~ok => Cause, c.kind # "workspace"
      PROVE  CauseInv'
  BY <1>2, <1>3, <1>8, SettlingFor
<1>9. CASE CheckOwner(c)
  <2>1. c.kind = "owner"
    BY <1>9 DEF CheckOwner, Turn
  <2>2. PICK o \in route.context :
            Settle(c, ResourceOf(request, o) # NoId
                      /\ OwnsResource(facts, o.type, ResourceOf(request, o)), 403)
    BY <1>9 DEF CheckOwner
  <2>3. o.owner
    BY <1>1, <1>4, <2>1, KindsOf, AtMostOnce
  <2> DEFINE ok == ResourceOf(request, o) # NoId
                   /\ OwnsResource(facts, o.type, ResourceOf(request, o))
  <2>4. Calm /\ ~ok => LacksContext(o)
    BY <1>7, <2>3, ResourceFound DEF LacksContext
  <2>5. Calm /\ ~ok => Cause
    BY <2>4 DEF Cause, Lacking
  <2>6. Settle(c, ok, 403) /\ ok \in BOOLEAN
    BY <2>2
  <2> HIDE DEF ok
  <2> QED
    BY <1>8, <2>1, <2>5, <2>6
<1>10. CASE CheckWorkspace(c)
  <2> DEFINE w == ScopeOf(GuardOf(c), request)
             served == {c} \cup {d \in todo : w \in facts.owns /\ d.at = c.at /\ d.kind = "member"}
  <2>1. c.kind = "workspace" /\ IF w = NoId THEN Refuse(403) ELSE Pass(served)
    BY <1>10 DEF CheckWorkspace, Turn
  <2>2. CASE w = NoId
    <3>1. PICK o \in route.context : o.member
      BY <1>1, <1>4, <2>1, KindsOf
    <3>2. ~HoldsMember(facts, NoId)
      <4>1. NoId \notin Id /\ NoId \notin Workspace
        BY GuardsAssumption DEF Id
      <4> QED
        BY <1>0, <4>1 DEF HoldsMember
    <3>3. Calm => LacksContext(o)
      BY <1>5, <1>6, <1>7, <2>2, <3>1, <3>2 DEF LacksContext
    <3>4. Calm => Cause
      BY <3>3 DEF Cause, Lacking
    <3>5. Calm' => Cause'
      BY <1>2, <3>4, CalmBefore, CauseKept
    <3> QED
      BY <2>1, <2>2, <3>5, RefusedFor
  <2>3. CASE w # NoId
    <3>1. Pass(served) /\ todo' = todo \ served /\ stage' = "guards"
      BY <1>2, <2>1, <2>3 DEF Pass
    <3>2. GuardOf(c) # "RolesGuard"
      BY <1>4 DEF ContextJudge
    <3>3. OrderInv'
      <4>1. c \in served /\ \A d \in served : d.at = c.at
        OBVIOUS
      <4> HIDE DEF served
      <4> QED
        BY <1>2, <3>1, <3>2, <4>1, OrderKept DEF CauseInv
    <3>4. \A d \in todo : d.kind \in {"row", "membership"} => d \in todo'
      BY <2>1, <3>1
    <3>5. FitsInv'
      BY <1>2, <3>1, <3>4, FitsKept DEF CauseInv
    <3>6. SuperInv'
      BY <1>2, <2>1, <3>1, SuperKept DEF CauseInv
    <3>7. MemberInv'
      <4> SUFFICES ASSUME Calm', NEW e \in todo', e.kind = "member", Beside(e, "workspace") \notin todo'
                   PROVE  ScopeOf(GuardOf(e), request) \notin facts.owns
        <5>1. \A d : GuardOf(d)' = GuardOf(d) /\ request' = request /\ facts' = facts
          BY <1>2 DEF given, GuardOf
        <5> QED
          BY <5>1 DEF MemberInv, Beside
      <4>1. Calm /\ e \in todo
        BY <1>2, <3>1, CalmBefore
      <4>2. CASE Beside(e, "workspace") \in todo
        <5>1. Beside(e, "workspace") \in served
          BY <3>1, <4>2
        <5>2. Beside(e, "workspace") = c
          BY <5>1 DEF Beside
        <5>3. e.at = c.at
          BY <5>2 DEF Beside
        <5>4. GuardOf(e) = GuardOf(c)
          BY <5>3 DEF GuardOf
        <5>5. w \notin facts.owns
          BY <3>1, <4>1, <5>3
        <5> QED
          BY <5>4, <5>5
      <4>3. CASE Beside(e, "workspace") \notin todo
        BY <4>1, <4>3 DEF CauseInv, MemberInv
      <4> QED
        BY <4>2, <4>3
    <3> QED
      BY <3>1, <3>3, <3>5, <3>6, <3>7 DEF CauseInv
  <2> QED
    BY <2>2, <2>3
<1>11. CASE CheckMember(c)
  <2> DEFINE s == ScopeOf(GuardOf(c), request)
             ok == \E r \in MemberRole : <<s, r>> \in facts.belongs
  <2>1. c.kind = "member" /\ Settle(c, ok, 403)
    BY <1>11 DEF CheckMember, Turn
  <2>2. ASSUME Calm, ~ok PROVE Cause
    <3>1. Beside(c, "workspace") \notin todo
      <4>1. Beside(c, "workspace").at = c.at /\ Beside(c, "workspace").kind = "workspace"
        BY DEF Beside
      <4>2. ~(Rank[c.kind] <= Rank["workspace"])
        BY <2>1 DEF Rank
      <4> QED
        BY <1>1, <1>2, <4>1, <4>2 DEF Turn
    <3>2. s \notin facts.owns
      BY <2>1, <2>2, <3>1 DEF CauseInv, MemberInv
    <3>3. ~HoldsMember(facts, s)
      BY <2>2, <3>2 DEF HoldsMember
    <3>4. PICK o \in route.context : o.member
      BY <1>1, <1>4, <2>1, KindsOf
    <3>5. LacksContext(o)
      BY <1>5, <1>6, <1>7, <2>2, <3>3, <3>4 DEF LacksContext
    <3> QED
      BY <3>5 DEF Cause, Lacking
  <2>3. ok \in BOOLEAN
    OBVIOUS
  <2> HIDE DEF ok
  <2> QED
    BY <1>8, <2>1, <2>2, <2>3
<1>12. CASE CheckWindow(c)
  <2>1. c.kind = "window"
    BY <1>12 DEF CheckWindow, Turn
  <2>2. PICK o \in route.context : Settle(c, \A w \in o.window : InWindow(w, facts.hour[ServerZone]), 403)
    BY <1>12 DEF CheckWindow
  <2> DEFINE ok == \A w \in o.window : InWindow(w, facts.hour[ServerZone])
  <2>3. \A w \in o.window : w \in Window
    BY <1>0 DEF Endpoint, Optional, ContextOptions
  <2>4. Calm /\ ~ok => LacksContext(o) \/ Misjudged
    BY <1>0, <1>7, <2>3, Windows DEF LacksContext, Misjudged, Misread
  <2>5. Calm /\ ~ok => Cause
    BY <2>4 DEF Cause, Lacking
  <2>6. Settle(c, ok, 403) /\ ok \in BOOLEAN
    BY <2>2
  <2> HIDE DEF ok
  <2> QED
    BY <1>8, <2>1, <2>5, <2>6
<1>13. CASE CheckAddresses(c)
  <2>1. c.kind = "addresses"
    BY <1>13 DEF CheckAddresses, Turn
  <2>2. PICK o \in route.context :
            Settle(c, \A list \in o.addresses : AddressAllowed(list, request.from), 403)
    BY <1>13 DEF CheckAddresses
  <2> DEFINE ok == \A list \in o.addresses : AddressAllowed(list, request.from)
  <2>3. Calm /\ ~ok => LacksContext(o)
    BY <1>7 DEF LacksContext, HoldsAddress, AddressAllowed
  <2>4. Calm /\ ~ok => Cause
    BY <2>3 DEF Cause, Lacking
  <2>5. Settle(c, ok, 403) /\ ok \in BOOLEAN
    BY <2>2
  <2> HIDE DEF ok
  <2> QED
    BY <1>8, <2>1, <2>4, <2>5
<1> QED
  BY <1>9, <1>10, <1>11, <1>12, <1>13

LEMMA CauseStep == TypeInv /\ CauseInv /\ [Next]_vars => CauseInv'
<1> SUFFICES ASSUME TypeInv, CauseInv, [Next]_vars PROVE CauseInv'
  OBVIOUS
<1>1. ASSUME NEW c \in todo, Fails(c) PROVE CauseInv'
  <2>1. /\ Turn(c, c.kind) /\ stage = "guards"
        /\ Settle(c, c.kind \in {"super", "limit"}, 403) /\ failed' = failed \cup {c.kind}
        /\ UNCHANGED <<given, facts, seen, user, fits, changes>>
    BY <1>1 DEF Fails, Turn
  <2>2. ~Calm'
    BY <2>1 DEF Calm
  <2>3. CASE Refuse(403)
    BY <2>2, <2>3, RefusedFor
  <2>4. CASE Pass({c})
    <3>1. OrderInv'
      BY <2>1, <2>4, OrderKept DEF CauseInv
    <3> QED
      BY <2>2, <3>1 DEF CauseInv, FitsInv, MemberInv, SuperInv
  <2> QED
    BY <2>1, <2>3, <2>4 DEF Settle
<1>2. CASE Admit
  <2>1. todo' = {} /\ stage' = "handler"
    BY <1>2 DEF Admit
  <2> QED
    BY <2>1 DEF CauseInv, OrderInv, FitsInv, MemberInv, SuperInv
<1>3. ASSUME NEW f \in Cases, Change(f) PROVE CauseInv'
  <2>1. /\ f # facts /\ facts' = f /\ seen' = seen \cup {f} /\ stage = "guards"
        /\ UNCHANGED <<given, todo, user, fits, stage, answer, failed>>
    BY <1>3 DEF Change
  <2>2. ~Calm'
    <3>1. facts \in seen
      BY DEF TypeInv, TypeOK
    <3>2. facts \in told' /\ f \in told'
      BY <2>1, <3>1 DEF told
    <3> QED
      BY <2>1, <3>2 DEF Calm
  <2>3. OrderInv'
    BY <2>1 DEF CauseInv, OrderInv, Ahead, GuardOf, ChainOf, given
  <2> QED
    BY <2>2, <2>3 DEF CauseInv, FitsInv, MemberInv, SuperInv
<1>4. CASE UNCHANGED vars
  <2>1. UNCHANGED <<given, facts, seen, todo, user, fits, stage, failed>>
    BY <1>4 DEF vars, given
  <2>2. OrderInv'
    BY <2>1 DEF CauseInv, OrderInv, Ahead, GuardOf, ChainOf, given
  <2>3. FitsInv' /\ MemberInv' /\ SuperInv'
    BY <2>1, FitsKept, MemberKept, SuperKept DEF CauseInv
  <2>4. stage' = "refused" /\ Calm' => Cause'
    BY <2>1, CalmBefore, CauseKept DEF CauseInv
  <2> QED
    BY <2>2, <2>3, <2>4 DEF CauseInv
<1> QED
  BY <1>1, <1>2, <1>3, <1>4, CallerStep, RolesStep, EntitlementStep, ContextStep DEF Next

\* For any routes, requests and states of the database: while nothing changes and no
\* lookup fails, a caller is refused only for something the route asks for and the caller
\* lacks and is not exempt from, because no guard had told the others who is calling, or
\* because the server's clock is outside a time window that holds in its own zone.
THEOREM RefusedForCause == Spec => []RefusedOnlyForCause
<1>1. Init => TypeInv /\ CauseInv
  BY TypeInit, CauseInit
<1>2. TypeInv /\ CauseInv /\ [Next]_vars => TypeInv' /\ CauseInv'
  BY TypeStep, CauseStep
<1> QED
  BY <1>1, <1>2, CauseSuffices, PTL DEF Spec

-----------------------------------------------------------------------------
(* The verdict *)

\* No two places of the request name different workspaces, or different resources where an
\* ownership check looks.
Unambiguous ==
    \A names \in {{"workspaceId", "workspace_id"}} \cup {{o.param} : o \in route.context} :
        \A x, y \in Named(names) : x = y

LEMMA OneJudged == Unambiguous => \A g : \A s, t \in Judged(g) : s = t
<1> SUFFICES ASSUME Unambiguous, NEW g, NEW s \in Judged(g), NEW t \in Judged(g) PROVE s = t
  OBVIOUS
<1>1. \A x, y \in Named({"workspaceId", "workspace_id"}) : x = y
  BY DEF Unambiguous
<1>2. Named({"workspaceId"}) \subseteq Named({"workspaceId", "workspace_id"})
  BY DEF Named
<1> QED
  BY <1>1, <1>2 DEF Judged

\* A request that names one workspace is judged in that one by every guard, whatever the
\* order in which the guard searches it; UnifiedPolicyGuard, which does not look for
\* workspace_id, may find none.
THEOREM GuardsAgree ==
    Unambiguous =>
        \A g, h \in Guard \ {"UnifiedPolicyGuard"} :
            /\ ScopeOf(g, request) = ScopeOf(h, request)
            /\ ScopeOf("UnifiedPolicyGuard", request) \in {NoId, ScopeOf(g, request)}
<1> SUFFICES ASSUME Unambiguous, NEW g \in Guard \ {"UnifiedPolicyGuard"},
                    NEW h \in Guard \ {"UnifiedPolicyGuard"}
             PROVE  /\ ScopeOf(g, request) = ScopeOf(h, request)
                    /\ ScopeOf("UnifiedPolicyGuard", request) \in {NoId, ScopeOf(g, request)}
  OBVIOUS
<1> DEFINE u == "UnifiedPolicyGuard"
<1>1. ScopeOf(g, request) \in Judged(g) /\ ScopeOf(h, request) \in Judged(h)
      /\ ScopeOf(u, request) \in Judged(u)
  BY ScopeJudged DEF Guard
<1>2. Judged(g) = Judged(h)
  BY DEF Judged
<1>3. Judged(u) \subseteq {NoId} \cup Judged(g)
  <2>1. Named({"workspaceId"}) \subseteq Named({"workspaceId", "workspace_id"})
    BY DEF Named
  <2>2. Judged(u) \subseteq {NoId} \cup Named({"workspaceId"})
    BY DEF Judged
  <2>3. Named({"workspaceId", "workspace_id"}) \subseteq Judged(g)
    BY DEF Judged
  <2> QED
    BY <2>1, <2>2, <2>3
<1>4. \A s, t \in Judged(g) : s = t
  BY OneJudged
<1>5. ScopeOf(u, request) = NoId \/ ScopeOf(u, request) = ScopeOf(g, request)
  BY <1>1, <1>3, <1>4
<1> QED
  BY <1>1, <1>2, <1>4, <1>5

\* While nothing changes, whoever meets each requirement lacks nothing.
LEMMA MetLacksNothing ==
    ASSUME TypeInv, AdmittedOnlyIfEntitled, stage = "handler", Calm, Unambiguous, ~Misjudged
    PROVE  ~Lacking
<1>1. told = {facts} /\ seen = {facts} /\ failed = {}
  BY DEF Calm, told, TypeInv, TypeOK
<1>2. ~request.bearer => ~Guarded("JwtAuthGuard") /\ ~(Guarded("RolesGuard") /\ route.roles # {})
  BY DEF AdmittedOnlyIfEntitled
<1>3. Guarded("RolesGuard") => \A roles \in route.roles : HoldsRoles(roles, facts)
  BY <1>1 DEF AdmittedOnlyIfEntitled
<1>4. ASSUME NEW o \in route.permission PROVE ~LacksPermission(o)
  <2>1. AdmittedByPermission(o)
    BY DEF AdmittedOnlyIfEntitled
  <2> DEFINE In(g, p) == \E s \in Judged(g) : HasPermission(facts, p, s)
             All(g, p) == \A s \in Judged(g) : HasPermission(facts, p, s)
  <2>2. \A g, p : In(g, p) => All(g, p)
    BY OneJudged
  <2>3. \A g \in PermissionGuards :
            IF o.all THEN \A p \in o.codes : In(g, p) ELSE \E p \in o.codes : In(g, p)
    BY <1>1, <2>1 DEF AdmittedByPermission
  <2>4. o.scoped /\ Guarded("PermissionGuard") => NoId \notin Judged("PermissionGuard")
    BY <2>1 DEF AdmittedByPermission
  <2>5. \A g, h \in PermissionGuards : Judged(g) = Judged(h)
    BY DEF PermissionGuards, Judged
  <2>6. ASSUME NEW p \in o.codes, NEW g \in PermissionGuards, In(g, p)
        PROVE  ~\E h \in PermissionGuards : \E s \in Judged(h) : ~HasPermission(facts, p, s)
    BY <2>2, <2>5, <2>6
  <2>7. o.codes # {}
    BY DEF TypeInv, Endpoint, Optional, PermissionOptions
  <2>8. CASE o.all
    BY <2>3, <2>4, <2>6, <2>8 DEF LacksPermission
  <2>9. CASE ~o.all
    BY <2>3, <2>4, <2>6, <2>7, <2>9 DEF LacksPermission
  <2> QED
    BY <2>8, <2>9
<1>5. Guarded("FeatureGuard") => \A o \in route.feature : Exempt(o, {facts}) \/ ~LacksFeature(o)
  BY <1>1 DEF AdmittedOnlyIfEntitled, HasFeatures, LacksFeature
<1>6. LimitGuards # {} => \A o \in route.limit : Exempt(o, {facts}) \/ ~facts.full
  BY <1>1 DEF AdmittedOnlyIfEntitled, BelowLimit
<1>7. ASSUME NEW o \in route.policy PROVE ~LacksPolicy(o)
  <2>1. AdmittedByPolicy(o)
    BY DEF AdmittedOnlyIfEntitled
  <2>2. CASE FullyExempt(o, {facts})
    BY <2>2 DEF LacksPolicy
  <2>3. CASE ~FullyExempt(o, {facts})
    <3>1. \A p \in o.code, g \in PolicyGuards : \E s \in Judged(g) : HasPermission(facts, p, s)
      BY <1>1, <2>1, <2>3 DEF AdmittedByPolicy
    <3>2. \A p \in o.code, g \in PolicyGuards : \A s \in Judged(g) : HasPermission(facts, p, s)
      BY <3>1, OneJudged
    <3>3. /\ \A p \in o.code : p \in PlanPermissions[facts.plan]
          /\ o.names # {} => ~LacksFeature(o)
          /\ o.limit => ~facts.full
      BY <1>1, <2>1, <2>3 DEF AdmittedByPolicy, HasFeatures, LacksFeature, BelowLimit
    <3> QED
      BY <3>2, <3>3 DEF LacksPolicy
  <2> QED
    BY <2>2, <2>3
<1>8. ASSUME NEW o \in route.context PROVE ~LacksContext(o)
  <2>1. AdmittedByContext(o)
    BY DEF AdmittedOnlyIfEntitled
  <2>2. CASE FullyExempt(o, {facts})
    BY <2>2 DEF LacksContext
  <2>3. CASE ~FullyExempt(o, {facts})
    <3>1. /\ o.owner => \E id \in Named({o.param}) : OwnsResource(facts, o.type, id)
          /\ o.member => \E s \in Judged("ContextAwareGuard") : HoldsMember(facts, s)
          /\ \A w \in o.window : HoldsWindow(w, facts)
          /\ \A list \in o.addresses : HoldsAddress(list)
      BY <1>1, <2>1, <2>3 DEF AdmittedByContext, Misjudged
    <3>2. \A x, y \in Named({o.param}) : x = y
      BY DEF Unambiguous
    <3> QED
      BY <3>1, <3>2, OneJudged DEF LacksContext
  <2> QED
    BY <2>2, <2>3
<1> QED
  BY <1>2, <1>3, <1>4, <1>5, <1>6, <1>7, <1>8 DEF Lacking

\* For any routes, requests and states of the database: while nothing changes, no lookup
\* fails, the request does not name two workspaces and the server's clock does not put the
\* hour on the other side of a time window than the zone the window declares, the guards
\* decide exactly what the declarations ask for.  Who gets through lacks nothing, and who
\* is refused lacks something, or no guard had told the others who is calling.
THEOREM Verdict ==
    Spec => [](Calm /\ Unambiguous /\ ~Misjudged =>
                  /\ stage = "handler" => ~Lacking
                  /\ stage = "refused" => Lacking \/ Unrecognised)
<1>1. Init => TypeInv /\ EntitledInv /\ CauseInv
  BY TypeInit, EntitledInit, CauseInit
<1>2. TypeInv /\ EntitledInv /\ CauseInv /\ [Next]_vars => TypeInv' /\ EntitledInv' /\ CauseInv'
  BY TypeStep, EntitledStep, CauseStep
<1>3. TypeInv /\ EntitledInv /\ CauseInv =>
        (Calm /\ Unambiguous /\ ~Misjudged =>
            /\ stage = "handler" => ~Lacking
            /\ stage = "refused" => Lacking \/ Unrecognised)
  BY Entitled, MetLacksNothing DEF CauseInv, Cause
<1> QED
  BY <1>1, <1>2, <1>3, PTL DEF Spec

-----------------------------------------------------------------------------
(* Every request is answered *)

\* The steps a request still has to take
Remaining == Cardinality(todo) + (IF stage = "guards" THEN 1 ELSE 0)

\* A check whose turn it is has what it reads: the declaration it was made for.
CanCheck(c) ==
    /\ Turn(c, c.kind)
    /\ c.kind = "permissions" => route.permission # {}
    /\ c.kind = "code" => route.policy # {}
    /\ c.kind = "features" => FeatureRules(GuardOf(c)) # {}
    /\ c.kind \in {"owner", "window", "addresses"} => route.context # {}

\* A request before the guards is through, or one of its checks can be made.
CanGoOn == stage = "guards" => todo = {} \/ \E c \in todo : CanCheck(c)

\* The place of a check in the chain, as a number
PlaceNumber(c) == 16 * c.at + Rank[c.kind]

LEMMA Sixteens ==
    /\ \A n \in Nat : \A a \in 1..n, r \in 1..16 : 16 * a + r \in 0..(16 * n + 16)
    /\ \A a, b \in Nat : \A r, s \in 1..16 :
        16 * a + r <= 16 * b + s => a < b \/ (a = b /\ r <= s)
  OBVIOUS

LEMMA Places ==
    ASSUME TypeInv
    PROVE  /\ \A c \in Due(ChainOf, route, request) :
                /\ PlaceNumber(c) \in 0..(16 * Len(ChainOf) + 16)
                /\ c.at \in Nat /\ Rank[c.kind] \in 1..16
           /\ \A c, d \in Due(ChainOf, route, request) : PlaceNumber(c) = PlaceNumber(d) => c = d
<1>1. ChainOf \in Seq(Guard)
  BY ChainType DEF ChainOf, TypeInv, TypeOK
<1>2. DOMAIN ChainOf = 1..Len(ChainOf) /\ Len(ChainOf) \in Nat
  BY <1>1
<1>3. \A c \in Due(ChainOf, route, request) :
        c.at \in 1..Len(ChainOf) /\ c.kind \in Kind /\ c = [at |-> c.at, kind |-> c.kind]
  BY <1>2, CheckOf
<1>4. \A k \in Kind : Rank[k] \in 1..16
  BY DEF Kind, Rank
<1>5. \A k, l \in Kind : Rank[k] = Rank[l] => k = l
  BY DEF Kind, Rank
<1>6. ASSUME NEW c \in Due(ChainOf, route, request)
      PROVE  /\ PlaceNumber(c) \in 0..(16 * Len(ChainOf) + 16)
             /\ c.at \in Nat /\ Rank[c.kind] \in 1..16
  <2>1. c.at \in 1..Len(ChainOf) /\ Rank[c.kind] \in 1..16
    BY <1>3, <1>4
  <2>2. 16 * c.at + Rank[c.kind] \in 0..(16 * Len(ChainOf) + 16)
    BY <1>2, <2>1, Sixteens, Zenon
  <2>3. c.at \in Nat
    BY <1>2, <2>1
  <2> QED
    BY <2>1, <2>2, <2>3 DEF PlaceNumber
<1>7. ASSUME NEW c \in Due(ChainOf, route, request), NEW d \in Due(ChainOf, route, request),
             PlaceNumber(c) = PlaceNumber(d)
      PROVE  c = d
  <2>1. c.at \in Nat /\ d.at \in Nat /\ Rank[c.kind] \in 1..16 /\ Rank[d.kind] \in 1..16
    BY <1>6
  <2>2. c.at = d.at /\ Rank[c.kind] = Rank[d.kind]
    <3> DEFINE a == c.at
               b == d.at
               r == Rank[c.kind]
               s == Rank[d.kind]
    <3>1. 16 * a + r = 16 * b + s
      BY <1>7 DEF PlaceNumber
    <3>2. a \in Nat /\ b \in Nat /\ r \in 1..16 /\ s \in 1..16
      BY <2>1
    <3> HIDE DEF a, b, r, s
    <3>3. a = b /\ r = s
      BY <3>1, <3>2
    <3> QED
      BY <3>3 DEF a, b, r, s
  <2>3. c.kind = d.kind
    BY <1>3, <1>5, <2>2
  <2>4. c = [at |-> c.at, kind |-> c.kind] /\ d = [at |-> d.at, kind |-> d.kind]
    BY <1>3
  <2> QED
    BY <2>2, <2>3, <2>4, Zenon
<1> QED
  BY <1>6, <1>7

LEMMA TodoFinite ==
    ASSUME TypeInv
    PROVE  IsFiniteSet(todo)
<1> DEFINE bound == 16 * Len(ChainOf) + 16
           place == [c \in todo |-> PlaceNumber(c)]
<1>1. todo \subseteq Due(ChainOf, route, request)
  BY DEF TypeInv
<1>2. place \in [todo -> 0..bound]
  BY <1>1, Places
<1>3. \A c, d \in todo : place[c] = place[d] => c = d
  BY <1>1, Places
<1> HIDE DEF place
<1>4. place \in Injection(todo, 0..bound)
  BY <1>2, <1>3 DEF Injection, IsInjective
<1>5. IsFiniteSet(0..bound)
  <2>1. ChainOf \in Seq(Guard)
    BY ChainType DEF ChainOf, TypeInv, TypeOK
  <2>2. bound \in Int
    BY <2>1
  <2> HIDE DEF bound
  <2> QED
    BY <2>2, FS_Interval
<1> HIDE DEF bound
<1> QED
  BY <1>4, <1>5, FS_Injection

\* Of checks still to do, one comes before the others.
LEMMA FirstCheck ==
    ASSUME TypeInv, stage = "guards", todo # {}
    PROVE  \E c \in todo : Turn(c, c.kind)
<1> DEFINE numbers == {PlaceNumber(c) : c \in todo}
<1>1. todo \subseteq Due(ChainOf, route, request)
  BY DEF TypeInv
<1>2. \A c \in todo : PlaceNumber(c) \in Nat /\ c.at \in Nat /\ Rank[c.kind] \in 1..16
  <2>1. \A c \in todo : PlaceNumber(c) \in 0..(16 * Len(ChainOf) + 16) /\ c.at \in Nat /\ Rank[c.kind] \in 1..16
    BY <1>1, Places
  <2> QED
    BY <2>1
<1>3. numbers \subseteq Nat /\ numbers # {}
  BY <1>2
<1>4. PICK n \in numbers : \A m \in numbers : ~(<<m, n>> \in OpToRel(<, Nat))
  <2> HIDE DEF numbers
  <2> QED
    BY <1>3, NatLessThanWellFounded, WFMin
<1>5. PICK c \in todo : n = PlaceNumber(c)
  OBVIOUS
<1>6. ASSUME NEW d \in todo PROVE PlaceNumber(c) <= PlaceNumber(d)
  <2>1. PlaceNumber(d) \in numbers /\ PlaceNumber(d) \in Nat /\ n \in Nat
    BY <1>2, <1>5
  <2>2. ~(PlaceNumber(d) < n)
    <3> HIDE DEF numbers
    <3> QED
      BY <1>4, <2>1 DEF OpToRel
  <2> QED
    BY <1>5, <2>1, <2>2
<1>7. ASSUME NEW d \in todo
      PROVE  c.at < d.at \/ (c.at = d.at /\ Rank[c.kind] <= Rank[d.kind])
  <2>1. 16 * c.at + Rank[c.kind] <= 16 * d.at + Rank[d.kind]
    BY <1>6 DEF PlaceNumber
  <2>2. c.at \in Nat /\ d.at \in Nat /\ Rank[c.kind] \in 1..16 /\ Rank[d.kind] \in 1..16
    BY <1>2
  <2> QED
    BY <2>1, <2>2, Sixteens, Zenon
<1> QED
  BY <1>7 DEF Turn

LEMMA GoesOn == TypeInv => CanGoOn
<1> SUFFICES ASSUME TypeInv, stage = "guards", todo # {} PROVE \E c \in todo : CanCheck(c)
  BY DEF CanGoOn
<1>1. PICK c \in todo : Turn(c, c.kind)
  BY FirstCheck
<1>2. GuardOf(c) \in Guard /\ c.kind \in Checks(GuardOf(c), route, request)
  BY CheckOf DEF TypeInv
<1>3. c.kind = "permissions" => route.permission # {}
  BY <1>2, KindsOf DEF Guard
<1>4. c.kind = "code" => route.policy # {}
  BY <1>2, KindsOf DEF Guard, PolicyJudge
<1>5. c.kind = "features" => FeatureRules(GuardOf(c)) # {}
  BY <1>2, KindsOf DEF Guard, PolicyJudge, FeatureRules
<1>6. c.kind \in {"owner", "window", "addresses"} => route.context # {}
  BY <1>2, KindsOf DEF Guard, ContextJudge
<1> QED
  BY <1>1, <1>3, <1>4, <1>5, <1>6 DEF CanCheck

\* To pass a check, or to refuse the request, leaves less to do.
LEMMA LessToDo ==
    ASSUME TypeInv, NEW c \in todo, stage = "guards",
           \/ \E checks : c \in checks /\ Pass(checks)
           \/ Refuse(401) \/ Refuse(403)
    PROVE  Remaining' < Remaining
<1>1. IsFiniteSet(todo) /\ Cardinality(todo) \in Nat
  BY TodoFinite, FS_CardinalityType
<1>2. todo' \in SUBSET todo /\ todo' # todo
  BY DEF Pass, Refuse
<1>3. Cardinality(todo') \in Nat /\ Cardinality(todo') < Cardinality(todo)
  <2>1. IsFiniteSet(todo') /\ Cardinality(todo') <= Cardinality(todo)
        /\ Cardinality(todo) # Cardinality(todo')
    BY <1>1, <1>2, FS_Subset
  <2>2. Cardinality(todo') \in Nat
    BY <2>1, FS_CardinalityType
  <2> QED
    BY <1>1, <2>1, <2>2
<1> QED
  BY <1>1, <1>3 DEF Remaining

\* What a step does to the steps left
Advance == Remaining' < Remaining \/ (Remaining' = Remaining /\ \E f \in Cases : Change(f))

LEMMA StepsLeft == TypeInv /\ Next => Advance
<1> SUFFICES ASSUME TypeInv, Next PROVE Advance
  OBVIOUS
<1>1. ASSUME NEW c \in todo,
             \/ CheckToken(c) \/ CheckUser(c) \/ CheckRow(c) \/ CheckMembershipRole(c)
             \/ CheckOwnership(c) \/ CheckScope(c) \/ CheckPermissions(c) \/ CheckCode(c)
             \/ CheckFeatures(c) \/ CheckLimits(c) \/ CheckOwner(c) \/ CheckMember(c)
             \/ CheckWindow(c) \/ CheckAddresses(c) \/ Fails(c)
      PROVE  Remaining' < Remaining
  <2>1. stage = "guards" /\ (Pass({c}) \/ Refuse(401) \/ Refuse(403))
    <3>1. CASE CheckToken(c) \/ CheckUser(c) \/ CheckRow(c) \/ CheckMembershipRole(c) \/ CheckOwnership(c)
      BY <3>1 DEF CheckToken, CheckUser, CheckRow, CheckMembershipRole, CheckOwnership, Turn, Settle
    <3>2. CASE CheckScope(c) \/ CheckPermissions(c) \/ CheckCode(c) \/ CheckFeatures(c) \/ CheckLimits(c)
      BY <3>2 DEF CheckScope, CheckPermissions, CheckCode, CheckFeatures, CheckLimits, Turn, Settle
    <3>3. CASE CheckOwner(c) \/ CheckMember(c) \/ CheckWindow(c) \/ CheckAddresses(c) \/ Fails(c)
      BY <3>3 DEF CheckOwner, CheckMember, CheckWindow, CheckAddresses, Fails, Turn, Settle
    <3> QED
      BY <1>1, <3>1, <3>2, <3>3
  <2> QED
    BY <2>1, LessToDo
<1>2. ASSUME NEW c \in todo, CheckSuper(c) \/ CheckWorkspace(c)
      PROVE  Remaining' < Remaining
  <2>1. stage = "guards"
    BY <1>2 DEF CheckSuper, CheckWorkspace, Turn
  <2>2. Refuse(403) \/ \E checks : c \in checks /\ Pass(checks)
    <3>1. CASE CheckSuper(c)
      <4>1. c \in {c} \cup {d \in todo : facts.role = "SUPER" /\ d.at = c.at
                                          /\ d.kind \in Spared(GuardOf(c), route)}
        OBVIOUS
      <4> QED
        BY <3>1, <4>1 DEF CheckSuper
    <3>2. CASE CheckWorkspace(c)
      <4> DEFINE w == ScopeOf(GuardOf(c), request)
      <4>1. c \in {c} \cup {d \in todo : w \in facts.owns /\ d.at = c.at /\ d.kind = "member"}
        OBVIOUS
      <4> QED
        BY <3>2, <4>1 DEF CheckWorkspace
    <3> QED
      BY <1>2, <3>1, <3>2
  <2> QED
    BY <2>1, <2>2, LessToDo
<1>3. ASSUME Admit PROVE Remaining' < Remaining
  <2>1. Cardinality(todo') = 0 /\ Cardinality(todo) = 0
    BY <1>3, FS_EmptySet DEF Admit
  <2> QED
    BY <1>3, <2>1 DEF Admit, Remaining
<1>4. ASSUME NEW f \in Cases, Change(f) PROVE Remaining' = Remaining
  BY <1>4 DEF Change, Remaining
<1> QED
  BY <1>1, <1>2, <1>3, <1>4 DEF Next, Advance

\* However often the facts change on the way and whichever lookups fail, the guards answer a
\* request: there is always a check that can be made, or none left, and every step but a
\* change of the facts leaves fewer steps, a natural number, to take.
THEOREM GuardsAnswer == Spec => [](CanGoOn /\ Remaining \in Nat) /\ [][Advance]_vars
<1>1. TypeInv => CanGoOn /\ Remaining \in Nat
  <2> SUFFICES ASSUME TypeInv PROVE Remaining \in Nat
    BY GoesOn
  <2>1. Cardinality(todo) \in Nat
    BY TodoFinite, FS_CardinalityType
  <2> QED
    BY <2>1 DEF Remaining
<1>2. TypeInv /\ [Next]_vars => [Advance]_vars
  <2> SUFFICES ASSUME TypeInv, [Next]_vars PROVE [Advance]_vars
    OBVIOUS
  <2>1. CASE Next
    BY <2>1, StepsLeft
  <2>2. CASE UNCHANGED vars
    BY <2>2
  <2> QED
    BY <2>1, <2>2
<1> QED
  BY <1>1, <1>2, TypeInit, TypeStep, PTL DEF Spec

================================================================================
