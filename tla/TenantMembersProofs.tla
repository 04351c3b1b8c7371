------------------------ MODULE TenantMembersProofs ------------------------
(***************************************************************************)
(* Proofs about TenantMembers, for every set of users and of requests.     *)
(*                                                                         *)
(* Why the locks exclude: the rows a request has asked for, as far as they *)
(* still exist, are all or part of those any later request asks for.  Of   *)
(* two requests that both hold all their rows, one would hold a row of the *)
(* other's.                                                                *)
(***************************************************************************)
EXTENDS TenantMembers, FiniteSetTheorems, WellFoundedInduction, TLAPS

Rows(r) == want[r] \cup held[r]

(* Rows asked for exist, and no row is held twice.                         *)
LockInv ==
    /\ \A r \in Request : Rows(r) \subseteq Members
    /\ \A r, q \in Request : r # q => held[r] \cap held[q] = {}
    /\ \A r \in Request : pc[r] = "idle" => Rows(r) = {}
    /\ \A r \in Request : pc[r] = "write" => want[r] = {}

(* Requests are nested by the rows they asked for.                         *)
NestedInv == \A r, q \in Request : Rows(r) \subseteq Rows(q) \/ Rows(q) \subseteq Rows(r)

(* At most one request is about to lower a role, and another admin than    *)
(* the one it is about is left.                                            *)
LowerInv == ~bypassed =>
    /\ Admins # {}
    /\ \A r, q \in Request : Lowers(r) /\ Lowers(q) => r = q
    /\ \A r \in Request : Lowers(r) => Admins \ {op[r].user} # {}

(* A request holds rows before those it has yet to lock, and the tenant    *)
(* has finitely many rows.                                                 *)
OrderInv == \A r \in Request : \A u \in held[r], v \in want[r] : u < v
FiniteInv == IsFiniteSet(Members)

IInv == LockInv /\ NestedInv /\ ActorStaysAdmin /\ LowerInv /\ OrderInv /\ FiniteInv

-----------------------------------------------------------------------------
(* Types.                                                                  *)

LEMMA EndType ==
    ASSUME TypeOK, NEW r \in Request, NEW gone \in SUBSET User, End(r, gone)
    PROVE  /\ pc' \in [Request -> {"idle", "lock", "write"}]
           /\ op' \in [Request -> Op \cup {NoOp}]
           /\ \A q \in Request : pc'[q] # "idle" => op'[q] \in Op
           /\ want' \in [Request -> SUBSET User]
           /\ held' \in [Request -> SUBSET User]
BY DEF TypeOK, End

LEMMA PassType ==
    ASSUME TypeOK, NEW r \in Request, NEW o \in Op, NEW locked \in BOOLEAN, Pass(r, o, locked)
    PROVE  TypeOK'
BY DEF TypeOK, Pass

LEMMA LockType ==
    ASSUME TypeOK, NEW r \in Request, NEW o \in Op, Lock(r, o)
    PROVE  TypeOK'
BY DEF TypeOK, Lock, Members

(* Every step keeps the types.                                             *)
LEMMA TypeOKNext == TypeOK /\ [Next]_vars => TypeOK'
<1> SUFFICES ASSUME TypeOK, [Next]_vars PROVE TypeOK'
    OBVIOUS
<1>1. ASSUME NEW r \in Request, NEW actor \in User, NEW user \in User, NEW to \in Role,
             GrantTenantRole(r, actor, user, to)
      PROVE  TypeOK'
    BY <1>1, LockType DEF GrantTenantRole, Op
<1>2. ASSUME NEW r \in Request, NEW actor \in User, NEW user \in User,
             RevokeTenantMember(r, actor, user)
      PROVE  TypeOK'
    BY <1>2, LockType DEF RevokeTenantMember, Op
<1>3. ASSUME NEW r \in Request, NEW u \in User, LockRow(r, u)
      PROVE  TypeOK'
    BY <1>3 DEF LockRow, TypeOK
<1>4. ASSUME NEW r \in Request, NEW u \in User, NEW to \in Role, UpdateMember(r, u, to)
      PROVE  TypeOK'
    <2>1. TenantsOp(u, to) \in Op
        BY DEF TenantsOp, Op
    <2> QED BY <1>4, <2>1, PassType DEF UpdateMember
<1>5. ASSUME NEW r \in Request, NEW u \in User, RemoveMember(r, u)
      PROVE  TypeOK'
    <2>1. TenantsOp(u, "none") \in Op
        BY DEF TenantsOp, Op
    <2> QED BY <1>5, <2>1, PassType DEF RemoveMember
<1>6. ASSUME NEW r \in Request, CheckUnderLock(r)
      PROVE  TypeOK'
    <2>1. op[r] \in Op
        BY <1>6 DEF CheckUnderLock, TypeOK
    <2>2. CASE Pass(r, op[r], held[r] # {})
        BY <2>1, <2>2, PassType
    <2>3. CASE Refuse(r)
        BY <2>3, EndType DEF Refuse, TypeOK
    <2> QED BY <1>6, <2>2, <2>3 DEF CheckUnderLock
<1>7. ASSUME NEW r \in Request, WriteMember(r)
      PROVE  TypeOK'
    <2>1. op[r] \in Op
        BY <1>7 DEF WriteMember, TypeOK
    <2>2. op[r].user \in User /\ op[r].role \in Role \cup {"none"}
        BY <2>1 DEF Op
    <2>3. role' \in [User -> Role \cup {"none"}]
        BY <1>7, <2>2 DEF WriteMember, TypeOK
    <2>4. End(r, IF op[r].role = "none" THEN {op[r].user} ELSE {})
        BY <1>7 DEF WriteMember
    <2> QED BY <1>7, <2>2, <2>3, <2>4, EndType DEF WriteMember, TypeOK
<1>8. ASSUME NEW r \in Request, Abort(r)
      PROVE  TypeOK'
    BY <1>8, EndType DEF Abort, Refuse, TypeOK
<1>9. ASSUME NEW u \in User, NEW to \in Role, AddMember(u, to)
      PROVE  TypeOK'
    BY <1>9 DEF AddMember, TypeOK
<1>10. ASSUME NEW u \in User, UpdateOwner(u)
       PROVE  TypeOK'
    BY <1>10, <1>9 DEF UpdateOwner, Role
<1>11. CASE UNCHANGED vars
    BY <1>11 DEF vars, TypeOK
<1> QED BY <1>1, <1>2, <1>3, <1>4, <1>5, <1>6, <1>7, <1>8, <1>9, <1>10, <1>11 DEF Next, RequestStep

(* The variables keep their types in every reachable state.                *)
THEOREM TypeCorrect == Spec => []TypeOK
<1>1. Init => TypeOK
    BY DEF Init, TypeOK, Role
<1> QED BY <1>1, TypeOKNext, PTL DEF Spec

-----------------------------------------------------------------------------
(* Locks.                                                                  *)

(* What the end of a transaction leaves of the locks.                      *)
LEMMA EndRows ==
    ASSUME TypeOK, LockInv, NEW r \in Request, NEW gone \in SUBSET User, End(r, gone),
           \A q \in Request \ {r} : held[q] \cap gone = {}
    PROVE  /\ Rows(r)' = {}
           /\ \A q \in Request \ {r} : Rows(q)' = Rows(q) \ gone
           /\ \A q \in Request : held'[q] \subseteq held[q]
           /\ \A q \in Request \ {r} : held'[q] = held[q] /\ pc'[q] = pc[q] /\ op'[q] = op[q]
           /\ pc'[r] = "idle"
           /\ \A q \in Request : pc'[q] = "write" => want'[q] = {}
BY DEF TypeOK, LockInv, End, Rows

(* The row a request deletes is held by no other request.                  *)
LEMMA WriteRows ==
    ASSUME TypeOK, NEW r \in Request, WriteMember(r)
    PROVE  /\ op[r] \in Op
           /\ op[r].user \in User /\ op[r].role \in Role \cup {"none"}
           /\ role' = [role EXCEPT ![op[r].user] = op[r].role]
           /\ \A q \in Request \ {r} : op[r].user \notin held[q]
           /\ \E gone \in SUBSET User :
                 /\ End(r, gone)
                 /\ gone = IF op[r].role = "none" THEN {op[r].user} ELSE {}
                 /\ \A q \in Request \ {r} : held[q] \cap gone = {}
<1>1. op[r] \in Op
    BY DEF WriteMember, TypeOK
<1>2. op[r].user \in User /\ op[r].role \in Role \cup {"none"}
    BY <1>1 DEF Op
<1> DEFINE gone == IF op[r].role = "none" THEN {op[r].user} ELSE {}
<1>3. End(r, gone) /\ \A q \in Request \ {r} : op[r].user \notin held[q]
    BY DEF WriteMember, Unlocked
<1>4. gone \in SUBSET User /\ \A q \in Request \ {r} : held[q] \cap gone = {}
    BY <1>2, <1>3
<1> QED BY <1>1, <1>2, <1>3, <1>4 DEF WriteMember

(* A refusal or an abort ends the transaction and changes no row.          *)
LEMMA RefuseRows ==
    ASSUME TypeOK, LockInv, NEW r \in Request, Refuse(r)
    PROVE  /\ UNCHANGED <<role, bypassed>>
           /\ Rows(r)' = {}
           /\ \A q \in Request \ {r} : Rows(q)' = Rows(q)
           /\ \A q \in Request : held'[q] \subseteq held[q]
           /\ \A q \in Request \ {r} : held'[q] = held[q] /\ pc'[q] = pc[q] /\ op'[q] = op[q]
           /\ pc'[r] = "idle"
           /\ \A q \in Request : pc'[q] = "write" => want'[q] = {}
<1>1. End(r, {}) /\ {} \in SUBSET User /\ \A q \in Request \ {r} : held[q] \cap {} = {}
    BY DEF Refuse
<1>2. \A q \in Request \ {r} : Rows(q)' = Rows(q) \ {}
    BY <1>1, EndRows
<1>3. \A q \in Request \ {r} : Rows(q)' = Rows(q)
    BY <1>2
<1>4. UNCHANGED <<role, bypassed>>
    BY DEF Refuse
<1> QED BY <1>1, <1>3, <1>4, EndRows

(* What a step of any kind does, as far as the invariants see it.          *)
Asks(r) == \E o \in Op : Lock(r, o)
Checks(r) == \E o \in Op, locked \in BOOLEAN :
    /\ Pass(r, o, locked)
    /\ pc[r] # "write"
    /\ want[r] = {}
    /\ locked => held[r] # {}
    /\ o.api = "rbac" => role[o.actor] = "admin"
    /\ o.role # "admin" => ~LastAdmin(o.user) /\ (Admins # {} => Admins \ {o.user} # {})
Upserts == \E u \in User, to \in Role : AddMember(u, to)

(* An admin who is not the last leaves another.                            *)
LEMMA OtherAdmin ==
    ASSUME NEW u \in User, ~LastAdmin(u), Admins # {}
    PROVE  Admins \ {u} # {}
<1>1. CASE role[u] = "admin"
    <2>1. ~(Cardinality(Admins) <= 1)
        BY <1>1 DEF LastAdmin
    <2>2. Cardinality({u}) = 1
        BY FS_Singleton
    <2> QED BY <2>1, <2>2
<1>2. CASE role[u] # "admin"
    BY <1>2 DEF Admins
<1> QED BY <1>1, <1>2

LEMMA Steps ==
    ASSUME TypeOK, LockInv, Next
    PROVE  \/ \E r \in Request :
                 \/ Asks(r) \/ Checks(r) \/ Refuse(r) \/ WriteMember(r)
                 \/ \E u \in User : LockRow(r, u)
           \/ Upserts
<1>1. ASSUME NEW r \in Request, NEW actor \in User, NEW user \in User, NEW to \in Role,
             GrantTenantRole(r, actor, user, to)
      PROVE  Asks(r)
    BY <1>1 DEF GrantTenantRole, Op, Asks
<1>2. ASSUME NEW r \in Request, NEW actor \in User, NEW user \in User,
             RevokeTenantMember(r, actor, user)
      PROVE  Asks(r)
    BY <1>2 DEF RevokeTenantMember, Op, Asks
<1>3. ASSUME NEW r \in Request, NEW u \in User, NEW to \in Role, UpdateMember(r, u, to)
      PROVE  Checks(r)
    <2> DEFINE o == TenantsOp(u, to)
    <2>1. o \in Op /\ o.api = "tenants" /\ o.user = u /\ o.role = to
        BY DEF TenantsOp, Op
    <2>2. Pass(r, o, FALSE) /\ pc[r] # "write" /\ want[r] = {}
        BY <1>3 DEF UpdateMember, LockInv, Rows
    <2>3. to # "admin" => ~LastAdmin(u) /\ (Admins # {} => Admins \ {u} # {})
        BY <1>3, OtherAdmin DEF UpdateMember
    <2> HIDE DEF o
    <2> QED BY <2>1, <2>2, <2>3 DEF Checks
<1>4. ASSUME NEW r \in Request, NEW u \in User, RemoveMember(r, u)
      PROVE  Checks(r)
    <2> DEFINE o == TenantsOp(u, "none")
    <2>1. o \in Op /\ o.api = "tenants" /\ o.user = u
        BY DEF TenantsOp, Op
    <2>2. Pass(r, o, FALSE) /\ pc[r] # "write" /\ want[r] = {}
        BY <1>4 DEF RemoveMember, LockInv, Rows
    <2>3. ~LastAdmin(u) /\ (Admins # {} => Admins \ {u} # {})
        BY <1>4, OtherAdmin DEF RemoveMember
    <2> HIDE DEF o
    <2> QED BY <2>1, <2>2, <2>3 DEF Checks
<1>5. ASSUME NEW r \in Request, CheckUnderLock(r)
      PROVE  Checks(r) \/ Refuse(r)
    <2> SUFFICES ASSUME RoleChangeAllowed(op[r]), Pass(r, op[r], held[r] # {}) PROVE Checks(r)
        BY <1>5 DEF CheckUnderLock
    <2>1. op[r] \in Op /\ op[r].user \in User
        BY <1>5 DEF CheckUnderLock, TypeOK, Op
    <2>2. op[r].role # "admin" =>
              ~LastAdmin(op[r].user) /\ (Admins # {} => Admins \ {op[r].user} # {})
        BY <2>1, OtherAdmin DEF RoleChangeAllowed
    <2>3. pc[r] # "write" /\ want[r] = {} /\ role[op[r].actor] = "admin"
        BY <1>5 DEF CheckUnderLock, RoleChangeAllowed
    <2> QED BY <2>1, <2>2, <2>3 DEF Checks
<1>6. ASSUME NEW u \in User, UpdateOwner(u)
      PROVE  Upserts
    BY <1>6 DEF UpdateOwner, Upserts, Role
<1> QED BY <1>1, <1>2, <1>3, <1>4, <1>5, <1>6 DEF Next, RequestStep, Abort, Upserts

(* Every step keeps the locks exclusive and on rows that exist.            *)
LEMMA LockInvNext == TypeOK /\ LockInv /\ [Next]_vars => LockInv'
<1> SUFFICES ASSUME TypeOK, LockInv, [Next]_vars PROVE LockInv'
    OBVIOUS
<1>1. ASSUME NEW r \in Request, Asks(r) PROVE LockInv'
    BY <1>1 DEF Asks, Lock, TypeOK, LockInv, Rows, Members
<1>2. ASSUME NEW r \in Request, Checks(r) PROVE LockInv'
    BY <1>2 DEF Checks, Pass, TypeOK, LockInv, Rows, Members
<1>3. ASSUME NEW r \in Request, Refuse(r) PROVE LockInv'
    <2>1. Members' = Members
        BY <1>3 DEF Refuse, Members
    <2>2. /\ Rows(r)' = {}
          /\ \A q \in Request \ {r} : Rows(q)' = Rows(q) /\ pc'[q] = pc[q]
          /\ \A q \in Request : held'[q] \subseteq held[q]
          /\ \A q \in Request : pc'[q] = "write" => want'[q] = {}
        BY <1>3, RefuseRows
    <2> QED BY <2>1, <2>2 DEF LockInv
<1>4. ASSUME NEW r \in Request, WriteMember(r) PROVE LockInv'
    <2>1. PICK gone \in SUBSET User :
              /\ End(r, gone)
              /\ gone = IF op[r].role = "none" THEN {op[r].user} ELSE {}
              /\ \A q \in Request \ {r} : held[q] \cap gone = {}
        BY <1>4, WriteRows
    <2>2. /\ Rows(r)' = {}
          /\ \A q \in Request \ {r} : Rows(q)' = Rows(q) \ gone /\ pc'[q] = pc[q]
          /\ \A q \in Request : held'[q] \subseteq held[q]
          /\ \A q \in Request : pc'[q] = "write" => want'[q] = {}
        BY <2>1, EndRows
    <2>3. Members \ gone \subseteq Members'
        BY <1>4, <2>1, WriteRows DEF Members, TypeOK, Role
    <2>4. \A q \in Request : Rows(q)' \subseteq Members'
        BY <2>2, <2>3 DEF LockInv
    <2>5. \A q \in Request : pc'[q] = "idle" => Rows(q)' = {}
        BY <2>2 DEF LockInv
    <2> QED BY <2>2, <2>4, <2>5 DEF LockInv
<1>5. ASSUME NEW r \in Request, NEW u \in User, LockRow(r, u) PROVE LockInv'
    BY <1>5 DEF LockRow, NextRow, Unlocked, TypeOK, LockInv, Rows, Members
<1>6. CASE Upserts
    BY <1>6 DEF Upserts, AddMember, TypeOK, LockInv, Rows, Members, Role
<1>7. CASE UNCHANGED vars
    BY <1>7 DEF vars, LockInv, Rows, Members
<1> QED BY <1>1, <1>2, <1>3, <1>4, <1>5, <1>6, <1>7, Steps

(* ... and the requests nested.                                            *)
LEMMA NestedInvNext == TypeOK /\ LockInv /\ NestedInv /\ [Next]_vars => NestedInv'
<1> SUFFICES ASSUME TypeOK, LockInv, NestedInv, [Next]_vars PROVE NestedInv'
    OBVIOUS
<1>1. ASSUME NEW r \in Request, Asks(r) PROVE NestedInv'
    <2>1. Rows(r)' = Members
        BY <1>1 DEF Asks, Lock, TypeOK, LockInv, Rows
    <2>2. \A q \in Request \ {r} : Rows(q)' = Rows(q)
        BY <1>1 DEF Asks, Lock, TypeOK, Rows
    <2> QED BY <2>1, <2>2 DEF NestedInv, LockInv
<1>2. ASSUME NEW r \in Request, Checks(r) PROVE NestedInv'
    BY <1>2 DEF Checks, Pass, NestedInv, Rows
<1>3. ASSUME NEW r \in Request, Refuse(r) PROVE NestedInv'
    <2>1. Rows(r)' = {} /\ \A q \in Request \ {r} : Rows(q)' = Rows(q)
        BY <1>3, RefuseRows
    <2> QED BY <2>1 DEF NestedInv
<1>4. ASSUME NEW r \in Request, WriteMember(r) PROVE NestedInv'
    <2>1. PICK gone \in SUBSET User :
              End(r, gone) /\ \A q \in Request \ {r} : held[q] \cap gone = {}
        BY <1>4, WriteRows
    <2>2. Rows(r)' = {} /\ \A q \in Request \ {r} : Rows(q)' = Rows(q) \ gone
        BY <2>1, EndRows
    <2> QED BY <2>2 DEF NestedInv
<1>5. ASSUME NEW r \in Request, NEW u \in User, LockRow(r, u) PROVE NestedInv'
    <2>1. \A q \in Request : Rows(q)' = Rows(q)
        BY <1>5 DEF LockRow, NextRow, TypeOK, Rows
    <2> QED BY <2>1 DEF NestedInv
<1>6. CASE Upserts
    BY <1>6 DEF Upserts, AddMember, NestedInv, Rows
<1>7. CASE UNCHANGED vars
    BY <1>7 DEF vars, NestedInv, Rows
<1> QED BY <1>1, <1>2, <1>3, <1>4, <1>5, <1>6, <1>7, Steps

(* Two requests with all their rows and some row each are the same one.    *)
LEMMA OneHolder ==
    ASSUME LockInv, NestedInv, NEW r \in Request, NEW q \in Request,
           want[r] = {}, want[q] = {}, held[r] # {}, held[q] # {}
    PROVE  r = q
BY DEF LockInv, NestedInv, Rows

-----------------------------------------------------------------------------
(* Actors and admins.                                                      *)

(* The actor checked under the lock is an admin until the write.           *)
LEMMA ActorNext == TypeOK /\ LockInv /\ ActorStaysAdmin /\ [Next]_vars => ActorStaysAdmin'
<1> SUFFICES ASSUME TypeOK, LockInv, ActorStaysAdmin, [Next]_vars PROVE ActorStaysAdmin'
    OBVIOUS
<1>1. ASSUME NEW r \in Request, Asks(r) PROVE ActorStaysAdmin'
    BY <1>1 DEF Asks, Lock, TypeOK, ActorStaysAdmin
<1>2. ASSUME NEW r \in Request, Checks(r) PROVE ActorStaysAdmin'
    BY <1>2 DEF Checks, Pass, TypeOK, ActorStaysAdmin
<1>3. ASSUME NEW r \in Request, Refuse(r) PROVE ActorStaysAdmin'
    BY <1>3, RefuseRows DEF ActorStaysAdmin
<1>4. ASSUME NEW r \in Request, WriteMember(r) PROVE ActorStaysAdmin'
    <2>1. /\ \A q \in Request \ {r} : held'[q] = held[q] /\ pc'[q] = pc[q] /\ op'[q] = op[q]
          /\ pc'[r] = "idle"
        BY <1>4, WriteRows, EndRows
    <2>2. \A q \in Request \ {r} : \A u \in held[q] : role'[u] = role[u]
        BY <1>4, WriteRows DEF TypeOK
    <2> QED BY <2>1, <2>2 DEF ActorStaysAdmin
<1>5. ASSUME NEW r \in Request, NEW u \in User, LockRow(r, u) PROVE ActorStaysAdmin'
    BY <1>5 DEF LockRow, TypeOK, ActorStaysAdmin
<1>6. CASE Upserts
    BY <1>6 DEF Upserts, AddMember, TypeOK, ActorStaysAdmin
<1>7. CASE UNCHANGED vars
    BY <1>7 DEF vars, ActorStaysAdmin
<1> QED BY <1>1, <1>2, <1>3, <1>4, <1>5, <1>6, <1>7, Steps

(* A check that bypasses nothing finds no other request about to lower.    *)
LEMMA CheckedAlone ==
    ASSUME TypeOK, LockInv, NestedInv, NEW r \in Request, NEW q \in Request,
           NEW o \in Op, NEW locked \in BOOLEAN, Pass(r, o, locked),
           want[r] = {}, locked => held[r] # {}, o.role # "admin", ~bypassed', Lowers(q)
    PROVE  r = q
<1>1. UnderLock(q) /\ locked
    BY DEF Pass
<1>2. want[q] = {} /\ held[q] # {}
    BY <1>1 DEF Lowers, UnderLock, LockInv
<1> QED BY <1>1, <1>2, OneHolder

(* Every step keeps an admin, and one besides the next to be lowered.      *)
LEMMA LowerInvNext == TypeOK /\ LockInv /\ NestedInv /\ LowerInv /\ [Next]_vars => LowerInv'
<1> SUFFICES ASSUME TypeOK, LockInv, NestedInv, LowerInv, [Next]_vars, ~bypassed' PROVE LowerInv'
    BY DEF LowerInv
<1>1. ASSUME NEW r \in Request, Asks(r) PROVE LowerInv'
    <2>1. /\ Admins' = Admins /\ bypassed' = bypassed
          /\ \A q \in Request : Lowers(q)' => Lowers(q) /\ op'[q] = op[q]
        BY <1>1 DEF Asks, Lock, TypeOK, Lowers, Admins
    <2> QED BY <2>1 DEF LowerInv
<1>2. ASSUME NEW r \in Request, Checks(r) PROVE LowerInv'
    <2>1. PICK o \in Op, locked \in BOOLEAN :
              /\ Pass(r, o, locked)
              /\ want[r] = {}
              /\ locked => held[r] # {}
              /\ o.role # "admin" => (Admins # {} => Admins \ {o.user} # {})
        BY <1>2 DEF Checks
    <2>2. ~bypassed /\ Admins' = Admins
        BY <2>1 DEF Pass, Admins
    <2>3. /\ \A q \in Request \ {r} : Lowers(q)' => Lowers(q) /\ op'[q] = op[q]
          /\ Lowers(r)' => o.role # "admin" /\ op'[r] = o
        BY <2>1 DEF Pass, TypeOK, Lowers
    <2>4. o.role # "admin" => \A q \in Request : Lowers(q) => q = r
        BY <2>1, CheckedAlone
    <2> QED BY <2>1, <2>2, <2>3, <2>4 DEF LowerInv
<1>3. ASSUME NEW r \in Request, Refuse(r) PROVE LowerInv'
    <2>1. /\ Admins' = Admins /\ bypassed' = bypassed
          /\ \A q \in Request : Lowers(q)' => Lowers(q) /\ op'[q] = op[q]
        BY <1>3, RefuseRows DEF Lowers, Admins
    <2> QED BY <2>1 DEF LowerInv
<1>4. ASSUME NEW r \in Request, WriteMember(r) PROVE LowerInv'
    <2>1. /\ ~bypassed
          /\ \A q \in Request : Lowers(q)' => Lowers(q) /\ q # r /\ op'[q] = op[q]
        BY <1>4, WriteRows, EndRows DEF WriteMember, Lowers
    <2>2. CASE op[r].role = "admin"
        <3>1. Admins \subseteq Admins'
            BY <1>4, <2>2, WriteRows DEF Admins, TypeOK
        <3> QED BY <2>1, <3>1 DEF LowerInv
    <2>3. CASE op[r].role # "admin"
        <3>1. Lowers(r)
            BY <1>4, <2>3 DEF WriteMember, Lowers
        <3>2. Admins' = Admins \ {op[r].user}
            BY <1>4, <2>3, WriteRows DEF Admins, TypeOK
        <3> QED BY <2>1, <3>1, <3>2 DEF LowerInv
    <2> QED BY <2>2, <2>3
<1>5. ASSUME NEW r \in Request, NEW u \in User, LockRow(r, u) PROVE LowerInv'
    BY <1>5 DEF LockRow, LowerInv, Lowers, Admins
<1>6. CASE Upserts
    <2>1. /\ ~bypassed /\ Admins \subseteq Admins'
          /\ \A q \in Request : Lowers(q)' = Lowers(q) /\ op'[q] = op[q]
        BY <1>6 DEF Upserts, AddMember, TypeOK, Lowers, Admins
    <2> QED BY <2>1 DEF LowerInv
<1>7. CASE UNCHANGED vars
    BY <1>7 DEF vars, LowerInv, Lowers, Admins
<1> QED BY <1>1, <1>2, <1>3, <1>4, <1>5, <1>6, <1>7, Steps

-----------------------------------------------------------------------------
(* The order of the locks.                                                 *)

(* Every step keeps the rows held before the rows wanted.                  *)
LEMMA OrderInvNext == TypeOK /\ LockInv /\ OrderInv /\ [Next]_vars => OrderInv'
<1> SUFFICES ASSUME TypeOK, LockInv, OrderInv, [Next]_vars PROVE OrderInv'
    OBVIOUS
<1>1. ASSUME NEW r \in Request, Asks(r) PROVE OrderInv'
    BY <1>1 DEF Asks, Lock, TypeOK, LockInv, Rows, OrderInv
<1>2. ASSUME NEW r \in Request, Checks(r) PROVE OrderInv'
    BY <1>2 DEF Checks, Pass, OrderInv
<1>3. ASSUME NEW r \in Request, NEW gone \in SUBSET User, End(r, gone) PROVE OrderInv'
    <2>1. /\ held'[r] = {}
          /\ \A q \in Request \ {r} : held'[q] = held[q] /\ want'[q] \subseteq want[q]
        BY <1>3 DEF End, TypeOK
    <2> QED BY <2>1 DEF OrderInv
<1>4. ASSUME NEW r \in Request, Refuse(r) PROVE OrderInv'
    BY <1>3, <1>4 DEF Refuse
<1>5. ASSUME NEW r \in Request, WriteMember(r) PROVE OrderInv'
    BY <1>3, <1>5, WriteRows
<1>6. ASSUME NEW r \in Request, NEW u \in User, LockRow(r, u) PROVE OrderInv'
    <2>1. u \in Nat /\ \A v \in want[r] : v \in Nat /\ u <= v
        BY <1>6, UserAssumption DEF LockRow, NextRow, TypeOK
    <2>2. \A v \in want[r] \ {u} : u < v
        BY <2>1
    <2>3. /\ held'[r] = held[r] \cup {u} /\ want'[r] = want[r] \ {u}
          /\ \A q \in Request \ {r} : held'[q] = held[q] /\ want'[q] = want[q]
        BY <1>6 DEF LockRow, TypeOK
    <2> QED BY <2>2, <2>3 DEF OrderInv
<1>7. CASE Upserts
    BY <1>7 DEF Upserts, AddMember, OrderInv
<1>8. CASE UNCHANGED vars
    BY <1>8 DEF vars, OrderInv
<1> QED BY <1>1, <1>2, <1>4, <1>5, <1>6, <1>7, <1>8, Steps

(* A step inserts one row at most.                                         *)
LEMMA FiniteInvNext == TypeOK /\ LockInv /\ FiniteInv /\ [Next]_vars => FiniteInv'
<1> SUFFICES ASSUME TypeOK, LockInv, FiniteInv, [Next]_vars PROVE FiniteInv'
    OBVIOUS
<1>1. ASSUME NEW u, Members' \subseteq Members \cup {u} PROVE FiniteInv'
    BY <1>1, FS_AddElement, FS_Subset DEF FiniteInv
<1>2. CASE UNCHANGED role
    BY <1>2 DEF FiniteInv, Members
<1>3. ASSUME NEW r \in Request, Asks(r) \/ Checks(r) \/ Refuse(r) PROVE UNCHANGED role
    BY <1>3 DEF Asks, Lock, Checks, Pass, Refuse
<1>4. ASSUME NEW r \in Request, WriteMember(r) PROVE FiniteInv'
    <2>1. Members' \subseteq Members \cup {op[r].user}
        BY <1>4, WriteRows DEF TypeOK, Members
    <2> QED BY <1>1, <2>1
<1>5. ASSUME NEW r \in Request, NEW u \in User, LockRow(r, u) PROVE UNCHANGED role
    BY <1>5 DEF LockRow
<1>6. CASE Upserts
    <2>1. PICK u \in User : Members' \subseteq Members \cup {u}
        BY <1>6 DEF Upserts, AddMember, TypeOK, Members
    <2> QED BY <1>1, <2>1
<1>7. CASE UNCHANGED vars
    BY <1>7 DEF vars, FiniteInv, Members
<1> QED BY <1>2, <1>3, <1>4, <1>5, <1>6, <1>7, Steps

(* A non-empty set of rows that a request waits for has a last one: the    *)
(* row with the fewest rows from it on.                                    *)
LEMMA LastRow ==
    ASSUME TypeOK, FiniteInv, NEW W \in SUBSET Members, W # {}
    PROVE  \E u \in W : \A v \in W : ~ (u < v)
<1> DEFINE From(u) == {m \in Members : u <= m}
           T == {From(u) : u \in W}
           Order == StrictSubsetOrdering(Members)
<1>1. IsWellFoundedOn(Order, SUBSET Members)
    BY FS_StrictSubsetOrderingWellFounded, FS_FiniteSubsetsOfFinite DEF FiniteInv
<1>2. T \subseteq SUBSET Members /\ T # {}
    OBVIOUS
<1>3. \E x \in T : \A y \in T : ~ (<<y, x>> \in Order)
    <2> HIDE DEF T, Order
    <2> QED BY <1>1, <1>2, WFMin
<1>4. PICK u \in W : \A v \in W : <<From(v), From(u)>> \notin Order
    BY <1>3
<1>5. ASSUME NEW v \in W, u < v PROVE FALSE
    <2>1. \A m \in Members : m \in Nat
        BY UserAssumption DEF Members
    <2>2. u \in Nat /\ v \in Nat /\ u \in Members /\ v \in Members
        BY <2>1
    <2>3. ASSUME NEW m \in Members, v <= m PROVE u <= m
        BY <1>5, <2>1, <2>2, <2>3
    <2>4. u \in From(u) /\ u \notin From(v)
        BY <1>5, <2>2
    <2>5. From(u) \in SUBSET Members /\ From(v) \subseteq From(u)
        BY <2>3
    <2> HIDE DEF From
    <2>6. <<From(v), From(u)>> \in Order
        BY <2>4, <2>5 DEF StrictSubsetOrdering
    <2> QED BY <1>4, <2>6
<1> QED BY <1>5

(* Of requests that wait for one another, one would wait for the last of   *)
(* the rows waited for; its holder waits too, and for a later row, since a *)
(* request has locked only rows before the one it waits for.               *)
LEMMA NoCircle ==
    ASSUME TypeOK, LockInv, OrderInv, FiniteInv
    PROVE  NoCircularWait
<1> SUFFICES ASSUME NEW waiting \in SUBSET Request, waiting # {},
                    \A r \in waiting : ~WritesNewRow(r) /\ \E q \in waiting \ {r} : WaitsFor(r, q)
             PROVE  FALSE
    BY DEF NoCircularWait
<1> DEFINE Blocks(q, u) == \E r \in waiting \ {q} : u \in held[q] /\ u \in NextRow(r) /\ held[r] # {}
           W == {u \in Members : \E q \in waiting : Blocks(q, u)}
\* A request that waits and holds a row waits for the next of its rows.
<1>1. ASSUME NEW r \in waiting, held[r] # {}
      PROVE  \E q \in waiting : \E u \in W : Blocks(q, u) /\ u \in NextRow(r) /\ q # r
    <2>1. PICK q \in waiting \ {r} : WaitsFor(r, q)
        OBVIOUS
    <2>2. PICK u \in held[q] : IF pc[r] = "write" THEN u = op[r].user ELSE u \in NextRow(r)
        BY <2>1 DEF WaitsFor
    <2>3. u \in Members /\ u \notin held[r]
        BY <2>1, <2>2 DEF LockInv, Rows
    <2>4. pc[r] # "write"
        BY <1>1, <2>2, <2>3 DEF WritesNewRow
    <2> QED BY <1>1, <2>1, <2>2, <2>3, <2>4
\* So does whoever holds the row some request waits for.
<1>2. W # {}
    <2>1. PICK r \in waiting : \E q \in waiting \ {r} : WaitsFor(r, q)
        OBVIOUS
    <2>2. PICK q \in waiting : held[q] # {}
        BY <2>1 DEF WaitsFor
    <2> QED BY <1>1, <2>2
<1>3. PICK u \in W : \A v \in W : ~ (u < v)
    <2>1. W \in SUBSET Members
        OBVIOUS
    <2> HIDE DEF W
    <2> QED BY <1>2, <2>1, LastRow
<1>4. PICK q \in waiting : u \in held[q]
    OBVIOUS
<1>5. PICK v \in W : v \in NextRow(q)
    BY <1>1, <1>4
<1>6. u < v
    BY <1>4, <1>5 DEF OrderInv, NextRow
<1> QED BY <1>3, <1>5, <1>6

-----------------------------------------------------------------------------
LEMMA InitIInv == Init => IInv
<1> SUFFICES ASSUME Init PROVE IInv
    OBVIOUS
<1>1. LockInv /\ NestedInv /\ ActorStaysAdmin /\ LowerInv
    BY DEF Init, LockInv, NestedInv, ActorStaysAdmin, LowerInv, Rows, Lowers, Admins
<1>2. OrderInv
    BY DEF Init, OrderInv
<1>3. PICK owner \in User : Members = {owner}
    BY DEF Init, Members
<1> QED BY <1>1, <1>2, <1>3, FS_Singleton DEF IInv, FiniteInv

(* The inductive invariant holds in every reachable state.                 *)
THEOREM Invariance == Spec => []IInv
<1>1. TypeOK /\ IInv /\ [Next]_vars => IInv'
    BY LockInvNext, NestedInvNext, ActorNext, LowerInvNext, OrderInvNext, FiniteInvNext DEF IInv
<1> QED BY <1>1, InitIInv, TypeCorrect, PTL DEF Spec

(* The tenant keeps an admin, whoever removes or demotes whom at once,     *)
(* under the row locks of the role endpoints.                              *)
THEOREM AdminsRemain == Spec => []AdminRemains
<1>1. IInv => AdminRemains
    BY DEF IInv, LowerInv, AdminRemains
<1> QED BY <1>1, Invariance, PTL

(* A role request writes while the actor it checked is still an admin.     *)
THEOREM ActorsStayAdmin == Spec => []ActorStaysAdmin
<1>1. IInv => ActorStaysAdmin
    BY DEF IInv
<1> QED BY <1>1, Invariance, PTL

(* FOR UPDATE on the member rows is a mutual exclusion: of the requests    *)
(* that checked under the lock, one at a time is about to write.           *)
OneUnderLock == \A r, q \in Request :
    pc[r] = "write" /\ pc[q] = "write" /\ held[r] # {} /\ held[q] # {} => r = q
(* No two of them are about to write in any reachable state.               *)
THEOREM LocksExclude == Spec => []OneUnderLock
<1>1. IInv => OneUnderLock
    BY OneHolder DEF IInv, LockInv, OneUnderLock
<1> QED BY <1>1, Invariance, PTL

(* Requests that wait for one another's rows never wait in a circle: rows  *)
(* are locked in the order of their ids.                                   *)
THEOREM NeverCircular == Spec => []NoCircularWait
<1>1. TypeOK /\ IInv => NoCircularWait
    BY NoCircle DEF IInv
<1> QED BY <1>1, TypeCorrect, Invariance, PTL

-----------------------------------------------------------------------------
(* The role endpoints and the tenant endpoints together behave like the    *)
(* admin set: a demotion or removal takes effect, at its write, as if the  *)
(* last-admin check had been made in that moment.                          *)
Guard == INSTANCE AdminSet WITH admins <- Admins, guarded <- ~bypassed

(* Each step promotes, demotes one of several, goes past the check, or     *)
(* changes no admin.                                                       *)
LEMMA GuardNext ==
    ASSUME TypeOK, TypeOK', IInv, [Next]_vars
    PROVE  [Guard!Next]_Guard!vars
<1>1. CASE bypassed'
    BY <1>1 DEF Guard!Next, Guard!Bypass, Admins
<1>2. CASE ~bypassed' /\ bypassed
    <2>1. bypassed => bypassed'
        BY Steps DEF IInv, vars, Asks, Lock, Checks, Pass, Refuse, WriteMember, LockRow,
                     Upserts, AddMember
    <2> QED BY <1>2, <2>1
<1>3. CASE ~bypassed' /\ ~bypassed
    <2> DEFINE Same == Admins' = Admins /\ (~bypassed)' = ~bypassed
    <2>1. Same => UNCHANGED Guard!vars
        BY DEF Guard!vars
    <2>2. ASSUME NEW r \in Request,
                 Asks(r) \/ Checks(r) \/ Refuse(r) \/ \E u \in User : LockRow(r, u)
          PROVE  Same
        BY <1>3, <2>2 DEF Asks, Lock, Checks, Pass, Refuse, LockRow, Admins
    <2>3. ASSUME NEW r \in Request, WriteMember(r)
          PROVE  Guard!Next
        <3>1. op[r].user \in User /\ role' = [role EXCEPT ![op[r].user] = op[r].role]
            BY <2>3, WriteRows
        <3>2. CASE op[r].role = "admin"
            <4>1. Admins' = Admins \cup {op[r].user}
                BY <3>1, <3>2 DEF Admins, TypeOK
            <4> QED BY <1>3, <3>1, <4>1 DEF Guard!Next, Guard!Promote
        <3>3. CASE op[r].role # "admin"
            <4>1. Admins' = Admins \ {op[r].user}
                BY <3>1, <3>3 DEF Admins, TypeOK
            <4>2. Lowers(r)
                BY <2>3, <3>3 DEF WriteMember, Lowers
            <4>3. Admins \ {op[r].user} # {}
                BY <1>3, <4>2 DEF IInv, LowerInv
            <4> QED BY <1>3, <3>1, <4>1, <4>3 DEF Guard!Next, Guard!Demote
        <3> QED BY <3>2, <3>3
    <2>4. ASSUME NEW u \in User, NEW to \in Role, AddMember(u, to)
          PROVE  Guard!Next \/ Same
        <3>1. CASE to = "admin"
            <4>1. Admins' = Admins \cup {u}
                BY <2>4, <3>1 DEF AddMember, Admins, TypeOK
            <4> QED BY <1>3, <4>1 DEF Guard!Next, Guard!Promote
        <3>2. CASE to # "admin"
            <4>1. role[u] # "admin" /\ role' = [role EXCEPT ![u] = to]
                BY <1>3, <2>4, <3>2 DEF AddMember
            <4>2. Admins' = Admins
                BY <3>2, <4>1 DEF Admins, TypeOK
            <4> QED BY <1>3, <4>2
        <3> QED BY <3>1, <3>2
    <2>5. CASE UNCHANGED vars
        <3>1. Same
            BY <2>5 DEF vars, Admins
        <3> QED BY <2>1, <3>1
    <2>6. CASE Next
        <3> HIDE DEF Same
        <3>1. Guard!Next \/ Same
            BY <2>2, <2>3, <2>4, <2>6, Steps DEF IInv, Upserts
        <3> QED BY <2>1, <3>1
    <2> QED BY <2>5, <2>6
<1> QED BY <1>1, <1>2, <1>3

(* What AdminSet promises.                                                 *)
LEMMA GuardKeepsAdmin == Guard!Spec => []Guard!AdminRemains
<1>1. Guard!Init => Guard!AdminRemains
    BY DEF Guard!Init, Guard!AdminRemains
<1>2. Guard!AdminRemains /\ [Guard!Next]_Guard!vars => Guard!AdminRemains'
    BY DEF Guard!AdminRemains, Guard!Next, Guard!vars, Guard!Promote, Guard!Demote, Guard!Bypass
<1> QED BY <1>1, <1>2, PTL DEF Guard!Spec

(* Every behaviour of TenantMembers is one of AdminSet.                    *)
THEOREM Implements == Spec => Guard!Spec
<1>1. Init => Guard!Init
    BY DEF Init, Guard!Init, Admins
<1>2. Spec => []TypeOK /\ []IInv
    BY TypeCorrect, Invariance
<1> QED BY <1>1, <1>2, GuardNext, PTL DEF Spec, Guard!Spec

-----------------------------------------------------------------------------
(* docs/api/tenants.md's claim holds of a program that differs in two      *)
(* points: add_member demotes nobody, and no two requests that lower a     *)
(* role are between check and write at once, as with update_member and     *)
(* remove_member under the role endpoints' lock of the rows.               *)
OneLowers == \A r, q \in Request : Lowers(r) /\ Lowers(q) => r = q
LoweredByRequests == [][\A u \in User :
    u \in Admins /\ u \notin Admins' => \E r \in Request : WriteMember(r)]_vars

(* Nothing goes past the check there: who checks sees no other lowering.   *)
LEMMA NotBypassed ==
    ASSUME TypeOK, LockInv, [Next]_vars, OneLowers', ~bypassed,
           [\A u \in User : u \in Admins /\ u \notin Admins' =>
                \E r \in Request : WriteMember(r)]_vars
    PROVE  ~bypassed'
<1>1. ASSUME NEW r \in Request, Checks(r) PROVE ~bypassed'
    <2>1. PICK o \in Op, locked \in BOOLEAN : Pass(r, o, locked) /\ pc[r] # "write"
        BY <1>1 DEF Checks
    <2>2. ASSUME NEW q \in Request, Lowers(q), o.role # "admin" PROVE FALSE
        <3>1. q # r /\ Lowers(q)' /\ Lowers(r)'
            BY <2>1, <2>2 DEF Pass, Lowers, TypeOK
        <3> QED BY <3>1 DEF OneLowers
    <2> QED BY <2>1, <2>2 DEF Pass
<1>2. ASSUME NEW u \in User, NEW to \in Role, AddMember(u, to), bypassed' PROVE FALSE
    <2>1. u \in Admins /\ u \notin Admins' /\ UNCHANGED pc
        BY <1>2 DEF AddMember, Admins, TypeOK
    <2>2. vars' # vars
        BY <2>1 DEF vars, Admins
    <2>3. PICK r \in Request : WriteMember(r)
        BY <2>1, <2>2
    <2>4. pc[r] = "write" /\ pc'[r] = "idle"
        BY <2>3, WriteRows, EndRows DEF WriteMember
    <2> QED BY <2>1, <2>4
<1>3. ASSUME NEW r \in Request,
             \/ Asks(r) \/ Refuse(r) \/ WriteMember(r) \/ \E u \in User : LockRow(r, u)
      PROVE  ~bypassed'
    BY <1>3 DEF Asks, Lock, Refuse, WriteMember, LockRow
<1>4. CASE UNCHANGED vars
    BY <1>4 DEF vars
<1> QED BY <1>1, <1>2, <1>3, <1>4, Steps DEF Upserts

(* In such a program the tenant has an admin in every reachable state.     *)
THEOREM ClaimHoldsUnderLock == Spec /\ []OneLowers /\ LoweredByRequests => []TenantKeepsAdmin
<1>1. Init => ~bypassed
    BY DEF Init
<1>2. IInv /\ ~bypassed => TenantKeepsAdmin
    BY DEF IInv, LowerInv, TenantKeepsAdmin
<1>3. IInv => LockInv
    BY DEF IInv
<1> QED BY <1>1, <1>2, <1>3, NotBypassed, TypeCorrect, Invariance, PTL DEF Spec, LoweredByRequests
=============================================================================
