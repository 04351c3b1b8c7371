--------------------------- MODULE AccountsProofs ---------------------------
(***************************************************************************)
(* Proofs about Accounts, for every set of users, roles, tokens and        *)
(* requests.                                                               *)
(***************************************************************************)
EXTENDS Accounts, TLAPS

(* The types of what requests keep.                                        *)
RequestType ==
    /\ pc \in [Request -> {"idle", "lock", "write"}]
    /\ op \in [Request -> Op \cup {NoOp}]
    /\ \A r \in Request : pc[r] # "idle" => op[r] \in Op
    /\ \A r \in Request : pc[r] = "lock" => op[r].kind = "revoke"
    /\ rows \in [Request -> SUBSET Row]
    /\ stale \in [Request -> BOOLEAN]

(* The rows revocations have locked, or wait for, exist, are nested by     *)
(* when they were selected, and are locked by one request at a time.       *)
RowsInv ==
    /\ \A r \in Request : rows[r] \subseteq roles
    /\ \A r \in Request : pc[r] = "idle" \/ (Busy(r) /\ op[r].kind # "delete") => rows[r] = {}
    /\ \A r, q \in Request : rows[r] \subseteq rows[q] \/ rows[q] \subseteq rows[r]
    /\ \A r, q \in Request : r # q /\ Busy(r) /\ Busy(q) => rows[r] \cap rows[q] = {}

(* At most one revocation is about to take an admin, and not the last.     *)
AdminInv == ~bypassed =>
    /\ Admins # {}
    /\ \A r, q \in Request : RevokesAdmin(r) /\ RevokesAdmin(q) => r = q
    /\ \A r \in Request : RevokesAdmin(r) => Admins # {op[r].user}

(* A request that counted the admins and is to take the role from one, or  *)
(* to disable a user; and what it counted, if only one at a time does so.  *)
Disables(r) == Busy(r) /\ op[r].kind = "status" /\ op[r].to = "disabled"
Lowers(r) == RevokesAdmin(r) \/ Disables(r)
OneLowers == \A r, q \in Request : Lowers(r) /\ Lowers(q) => r = q
CountInv ==
    /\ Admins # {}
    /\ \A r \in Request : Lowers(r) => Admins # {op[r].user}
AdminsKept == AdminInv' /\ (OneLowers /\ CountInv => CountInv')

(* What an uncontested request is about to use is there to be used.        *)
SpentInv ==
    /\ SpentOnce
    /\ \A r \in Request : Busy(r) /\ op[r].kind = "refresh" /\ op[r].token \notin contested =>
          token[op[r].token] = "live"
    /\ \A r \in Request : Busy(r) /\ op[r].kind = "activate" /\ op[r].user \notin doubled =>
          invite[op[r].user] = "sent"
    /\ \A u \in User : status[u] = "none" => invite[u] = "none"

(* A login or refresh whose check still holds is of an active user.        *)
ActiveInv == \A r \in Request :
    Busy(r) /\ op[r].kind \in {"login", "refresh"} /\ ~stale[r] => status[op[r].user] = "active"

-----------------------------------------------------------------------------

(* The fields of what a request does, by its kind.                         *)
LEMMA OpFields ==
    ASSUME NEW o \in Op
    PROVE  /\ o.user \in User
           /\ o.kind \in {"grant", "revoke", "delete"} => o.role \in Role
           /\ o.kind = "revoke" => o.actor \in User
           /\ o.kind = "create" => o.roles \subseteq Role
           /\ o.kind = "status" => o.to \in {"active", "disabled"}
           /\ o.kind = "refresh" => o.token \in Token
<1>1. \/ o \in [kind : {"grant"}, user : User, role : Role]
      \/ o \in [kind : {"revoke"}, actor : User, user : User, role : Role]
      \/ o \in [kind : {"delete"}, user : User, role : Role]
      \/ o \in [kind : {"create"}, user : User, roles : SUBSET Role]
      \/ o \in [kind : {"status"}, user : User, to : {"active", "disabled"}]
      \/ o \in [kind : {"activate", "login"}, user : User]
      \/ o \in [kind : {"refresh"}, user : User, token : Token]
    BY DEF Op
<1>2. CASE o \in [kind : {"grant"}, user : User, role : Role]
    BY <1>2
<1>3. CASE o \in [kind : {"revoke"}, actor : User, user : User, role : Role]
    BY <1>3
<1>4. CASE o \in [kind : {"delete"}, user : User, role : Role]
    BY <1>4
<1>5. CASE o \in [kind : {"create"}, user : User, roles : SUBSET Role]
    BY <1>5
<1>6. CASE o \in [kind : {"status"}, user : User, to : {"active", "disabled"}]
    BY <1>6
<1>7. CASE o \in [kind : {"activate", "login"}, user : User]
    BY <1>7
<1>8. CASE o \in [kind : {"refresh"}, user : User, token : Token]
    BY <1>8
<1> QED BY <1>1, <1>2, <1>3, <1>4, <1>5, <1>6, <1>7, <1>8

(* A request that passes its checks keeps the types.                       *)
LEMMA PassType ==
    ASSUME TypeOK, NEW r \in Request, NEW o \in Op, Pass(r, o)
    PROVE  TypeOK'
BY DEF Pass, TypeOK, db, history

(* The end of a request keeps the types of what it leaves of it.           *)
LEMMA EndType ==
    ASSUME TypeOK, NEW r \in Request, NEW deleted, Ends(r, deleted), Outdates(r) \/ Keeps(r)
    PROVE  RequestType'
BY DEF Ends, Outdates, Keeps, Relies, Busy, TypeOK, RequestType

(* More admins, and no request that passed its checks since, keep the rule. *)
LEMMA AdminsGrow ==
    ASSUME AdminInv, roles \subseteq roles', bypassed' = bypassed,
           \A q \in Request : pc'[q] = "write" => pc[q] = "write" /\ op'[q] = op[q]
    PROVE  AdminsKept
<1>1. Admins \subseteq Admins'
    BY DEF Admins, Has
<1>2. \A q \in Request : RevokesAdmin(q)' => RevokesAdmin(q) /\ op'[q] = op[q]
    BY DEF RevokesAdmin, Busy
<1>3. AdminInv'
    <2> SUFFICES ASSUME ~bypassed PROVE
              /\ Admins' # {}
              /\ \A r, q \in Request : RevokesAdmin(r)' /\ RevokesAdmin(q)' => r = q
              /\ \A r \in Request : RevokesAdmin(r)' => Admins' # {op'[r].user}
        BY DEF AdminInv
    <2> QED BY <1>1, <1>2 DEF AdminInv
<1>4. \A q \in Request : Lowers(q)' => Lowers(q) /\ op'[q] = op[q]
    BY <1>2 DEF Lowers, Disables, Busy
<1>5. CountInv => CountInv'
    BY <1>1, <1>4 DEF CountInv
<1> QED BY <1>3, <1>5 DEF AdminsKept

(* A request that passes its checks counts on no last admin.               *)
LEMMA PassAdmin ==
    ASSUME TypeOK, AdminInv, NEW r \in Request, NEW o, Pass(r, o),
           o.kind # "delete",
           o.kind = "status" /\ o.to = "disabled" => ~LastAdmin(o.user)
    PROVE  AdminsKept
<1>1. UNCHANGED <<roles, bypassed>> /\ Admins' = Admins
    BY DEF Pass, db, history, Admins, Has
<1>2. \A q \in Request \ {r} : pc'[q] = pc[q] /\ op'[q] = op[q]
    BY DEF Pass, TypeOK
<1>3. op'[r] = o
    BY DEF Pass, TypeOK
<1>4. \A q \in Request : RevokesAdmin(q)' => RevokesAdmin(q) /\ op'[q] = op[q]
    BY <1>2, <1>3 DEF RevokesAdmin, Busy
<1>5. AdminInv'
    BY <1>1, <1>4 DEF AdminInv
<1>6. \A q \in Request \ {r} : Lowers(q)' => Lowers(q) /\ op'[q] = op[q]
    BY <1>2 DEF Lowers, RevokesAdmin, Disables, Busy
<1>7. Lowers(r)' => Admins # {op'[r].user}
    BY <1>3 DEF Lowers, RevokesAdmin, Disables, LastAdmin
<1>8. CountInv => CountInv'
    BY <1>1, <1>6, <1>7 DEF CountInv
<1> QED BY <1>5, <1>8 DEF AdminsKept

(* The end of a request that deleted no row leaves the others' as they are. *)
LEMMA EndRows ==
    ASSUME TypeOK, RowsInv, NEW r \in Request, Ends(r, {}), roles \subseteq roles'
    PROVE  RowsInv'
<1>1. \A q \in Request : rows'[q] = IF q = r THEN {} ELSE rows[q]
    BY DEF Ends
<1>2. \A q \in Request : q # r => pc'[q] = pc[q] /\ op'[q] = op[q]
    BY DEF Ends, TypeOK
<1>3. pc'[r] = "idle"
    BY DEF Ends, TypeOK
<1> QED BY <1>1, <1>2, <1>3 DEF RowsInv, Busy

(* No step leaves the declared ranges.                                     *)
LEMMA TypeStep == TypeOK /\ [Next]_vars => TypeOK'
<1> SUFFICES ASSUME TypeOK, [Next]_vars PROVE TypeOK'
    OBVIOUS
<1>1. ASSUME NEW r \in Request, NEW actor \in User, NEW user \in User, NEW
   role \in Role, GrantPlatformRole(r, actor, user, role) PROVE TypeOK'
  <2>1. PICK o \in Op : Pass(r, o)
    BY <1>1 DEF GrantPlatformRole, Op
  <2> QED BY <2>1, PassType
<1>2. ASSUME NEW r \in Request, NEW actor \in User, NEW user \in User, NEW
   role \in Role, RevokePlatformRole(r, actor, user, role) PROVE TypeOK'
  <2> DEFINE o == [kind |-> "revoke", actor |-> actor, user |-> user, role |-> role]
  <2>1. o \in Op
    BY DEF Op
  <2> HIDE DEF o
  <2>2. op' = [op EXCEPT ![r] = o]
    BY <1>2 DEF RevokePlatformRole, o
  <2> QED BY <1>2, <2>1, <2>2 DEF RevokePlatformRole, TypeOK, db, history
<1>3. ASSUME NEW r \in Request, GrantPlatformRoleCommit(r) PROVE TypeOK'
  <2>1. op[r] \in Op
    BY <1>3 DEF GrantPlatformRoleCommit, Commits, Busy, TypeOK
  <2>2. Ends(r, {}) /\ (Outdates(r) \/ Keeps(r))
    BY <1>3 DEF GrantPlatformRoleCommit, End
  <2>3. RequestType'
    BY <2>2, EndType
  <2>4. op[r].user \in User /\ op[r].role \in Role
    BY <1>3, <2>1, OpFields DEF GrantPlatformRoleCommit, Commits
  <2> QED BY <1>3, <2>3, <2>4 DEF GrantPlatformRoleCommit, Row, db, history, RequestType, TypeOK
<1>4. ASSUME NEW r \in Request, RevokePlatformRoleChecked(r) PROVE TypeOK'
  <2>1. op[r] \in Op /\ op[r].kind = "revoke"
    BY <1>4 DEF RevokePlatformRoleChecked, TypeOK
  <2> DEFINE o == [kind |-> "delete", user |-> op[r].user, role |-> op[r].role]
  <2>2. o \in Op
    BY <2>1, OpFields DEF Op
  <2>3. op' = [op EXCEPT ![r] = o]
    BY <1>4 DEF RevokePlatformRoleChecked
  <2> HIDE DEF o
  <2>4. rows' \in [Request -> SUBSET Row]
    BY <1>4 DEF RevokePlatformRoleChecked, TypeOK
  <2>5. bypassed' \in BOOLEAN
    BY <1>4 DEF RevokePlatformRoleChecked, RevokesAdmin, Busy, TypeOK
  <2> QED BY <1>4, <2>2, <2>3, <2>4, <2>5 DEF RevokePlatformRoleChecked, TypeOK, db
<1>5. ASSUME NEW r \in Request, RevokePlatformRoleCommit(r) PROVE TypeOK'
  <2> DEFINE row == <<op[r].user, op[r].role>>
  <2>1. Ends(r, {row}) /\ (Outdates(r) \/ Keeps(r))
    BY <1>5 DEF RevokePlatformRoleCommit
  <2>2. RequestType'
    BY <2>1, EndType
  <2> QED BY <1>5, <2>2 DEF RequestType, RevokePlatformRoleCommit, history, TypeOK
<1>6. ASSUME NEW r \in Request, NEW actor \in User, NEW user \in User, NEW
   some \in SUBSET Role, CreatePlatformUser(r, actor, user, some) PROVE
   TypeOK'
  <2>1. PICK o \in Op : Pass(r, o)
    BY <1>6 DEF CreatePlatformUser, Op
  <2> QED BY <2>1, PassType
<1>7. ASSUME NEW r \in Request, NEW actor \in User, NEW user \in User, NEW to
   \in {"active", "disabled"}, UpdateUserStatus(r, actor, user, to) PROVE
   TypeOK'
  <2>1. PICK o \in Op : Pass(r, o)
    BY <1>7 DEF UpdateUserStatus, Op
  <2> QED BY <2>1, PassType
<1>8. ASSUME NEW r \in Request, NEW user \in User, ActivatePlatformUser(r,
   user) PROVE TypeOK'
  <2>1. PICK o \in Op : Pass(r, o)
    BY <1>8 DEF ActivatePlatformUser, Op
  <2> QED BY <2>1, PassType
<1>9. ASSUME NEW r \in Request, CreatePlatformUserCommit(r) PROVE TypeOK'
  <2>1. op[r] \in Op
    BY <1>9 DEF CreatePlatformUserCommit, Commits, Busy, TypeOK
  <2>2. Ends(r, {}) /\ (Outdates(r) \/ Keeps(r))
    BY <1>9 DEF CreatePlatformUserCommit, End
  <2>3. RequestType'
    BY <2>2, EndType
  <2>4. op[r].user \in User /\ op[r].roles \subseteq Role
    BY <1>9, <2>1, OpFields DEF CreatePlatformUserCommit, Commits
  <2> QED BY <1>9, <2>3, <2>4 DEF CreatePlatformUserCommit, Row, db, history, RequestType, TypeOK, RoleRows
<1>10. ASSUME NEW r \in Request, UpdateUserStatusCommit(r) PROVE TypeOK'
  <2>1. op[r] \in Op
    BY <1>10 DEF UpdateUserStatusCommit, Commits, Busy, TypeOK
  <2>2. Ends(r, {}) /\ (Outdates(r) \/ Keeps(r))
    BY <1>10 DEF UpdateUserStatusCommit, End
  <2>3. RequestType'
    BY <2>2, EndType
  <2>4. op[r].user \in User /\ op[r].to \in {"active", "disabled"}
    BY <1>10, <2>1, OpFields DEF UpdateUserStatusCommit, Commits
  <2> QED BY <1>10, <2>3, <2>4 DEF UpdateUserStatusCommit, Row, db, history, RequestType, TypeOK
<1>11. ASSUME NEW r \in Request, ActivatePlatformUserCommit(r) PROVE TypeOK'
  <2>1. op[r] \in Op
    BY <1>11 DEF ActivatePlatformUserCommit, Commits, Busy, TypeOK
  <2>2. Ends(r, {}) /\ (Outdates(r) \/ Keeps(r))
    BY <1>11 DEF ActivatePlatformUserCommit, End
  <2>3. RequestType'
    BY <2>2, EndType
  <2>4. op[r].user \in User
    BY <1>11, <2>1, OpFields DEF ActivatePlatformUserCommit, Commits
  <2> QED BY <1>11, <2>3, <2>4 DEF ActivatePlatformUserCommit, Row, db, history, RequestType, TypeOK
<1>12. ASSUME NEW r \in Request, NEW user \in User, Login(r, user) PROVE
   TypeOK'
  <2>1. PICK o \in Op : Pass(r, o)
    BY <1>12 DEF Login, Op
  <2> QED BY <2>1, PassType
<1>13. ASSUME NEW r \in Request, NEW k \in Token, Refresh(r, k) PROVE TypeOK'
  <2>1. OwnerOf[k] \in User
    BY OwnerAssumption
  <2>2. PICK o \in Op : Pass(r, o)
    BY <1>13, <2>1 DEF Refresh, Op
  <2> QED BY <2>2, PassType
<1>14. ASSUME NEW r \in Request, NEW k \in Token, LoginCommit(r, k) PROVE
   TypeOK'
  <2>1. op[r] \in Op
    BY <1>14 DEF LoginCommit, Commits, Busy, TypeOK
  <2>2. Ends(r, {}) /\ (Outdates(r) \/ Keeps(r))
    BY <1>14 DEF LoginCommit, End
  <2>3. RequestType'
    BY <2>2, EndType
  <2>4. op[r].user \in User
    BY <1>14, <2>1, OpFields DEF LoginCommit, Commits
  <2> QED BY <1>14, <2>3, <2>4 DEF LoginCommit, Row, db, history, RequestType, TypeOK
<1>15. ASSUME NEW r \in Request, NEW k \in Token, RefreshCommit(r, k) PROVE
   TypeOK'
  <2>1. op[r] \in Op
    BY <1>15 DEF RefreshCommit, Commits, Busy, TypeOK
  <2>2. Ends(r, {}) /\ (Outdates(r) \/ Keeps(r))
    BY <1>15 DEF RefreshCommit, End
  <2>3. RequestType'
    BY <2>2, EndType
  <2>4. op[r].token \in Token
    BY <1>15, <2>1, OpFields DEF RefreshCommit, Commits
  <2>5. contested' \subseteq Token
    BY <1>15, <2>4 DEF RefreshCommit, ContestedBy, TypeOK
  <2> QED BY <1>15, <2>3, <2>4, <2>5 DEF RefreshCommit, Row, db, history, RequestType, TypeOK
<1>16. ASSUME NEW r \in Request, Abort(r) PROVE TypeOK'
  <2>1. Ends(r, {}) /\ Keeps(r)
    BY <1>16 DEF Abort, End
  <2>2. RequestType'
    BY <2>1, EndType
  <2> QED BY <1>16, <2>2 DEF Abort, db, history, RequestType, TypeOK
<1>17. ASSUME NEW user \in User, NEW reset \in BOOLEAN, BootstrapAdmin(user,
   reset) PROVE TypeOK'
  <2>1. status' \in [User -> {"none", "pending", "active", "disabled"}]
    BY <1>17 DEF BootstrapAdmin, TypeOK
  <2>2. stale' \in [Request -> BOOLEAN]
    BY <1>17 DEF BootstrapAdmin, Relies, Busy, TypeOK
  <2>3. roles' \subseteq Row
    <3>1. <<user, "admin">> \in Row
      BY AdminAssumption DEF Row
    <3> QED BY <1>17, <3>1 DEF BootstrapAdmin, TypeOK
  <2> QED BY <1>17, <2>1, <2>2, <2>3 DEF BootstrapAdmin, history, TypeOK
<1>18. ASSUME NEW user \in User, NEW k \in Token, Register(user, k) PROVE
   TypeOK'
  <2>1. stale' \in [Request -> BOOLEAN]
    BY <1>18 DEF Register, Relies, Busy, TypeOK
  <2> QED BY <1>18, <2>1 DEF Register, history, TypeOK
<1>19. ASSUME NEW k \in Token, Logout(k) PROVE TypeOK'
    BY <1>19 DEF Logout, TypeOK
<1>20. CASE UNCHANGED vars
    BY <1>20 DEF vars, db, history, TypeOK
<1>21. ASSUME NEW r \in Request, RoleRequest(r) PROVE TypeOK'
    BY <1>21, <1>1, <1>2, <1>3, <1>4, <1>5 DEF RoleRequest
<1>22. ASSUME NEW r \in Request, UserRequest(r) PROVE TypeOK'
    BY <1>22, <1>6, <1>7, <1>8, <1>9, <1>10, <1>11 DEF UserRequest
<1>23. ASSUME NEW r \in Request, TokenRequest(r) PROVE TypeOK'
    BY <1>23, <1>12, <1>13, <1>14, <1>15 DEF TokenRequest
<1>24. CASE AtOnce
    BY <1>24, <1>17, <1>18, <1>19, OwnerAssumption DEF AtOnce
<1> QED BY <1>16, <1>20, <1>21, <1>22, <1>23, <1>24 DEF Next

(* Whoever waits for rows waits for those that are left of its snapshot.   *)
LEMMA RowsStep == TypeOK /\ RowsInv /\ [Next]_vars => RowsInv'
<1> SUFFICES ASSUME TypeOK, RowsInv, [Next]_vars PROVE RowsInv'
    OBVIOUS
<1> USE DEF Busy
<1>1. ASSUME NEW r \in Request, NEW actor \in User, NEW user \in User, NEW
   role \in Role, GrantPlatformRole(r, actor, user, role) PROVE RowsInv'
    BY <1>1 DEF GrantPlatformRole, Pass, db, history, TypeOK, RowsInv
<1>2. ASSUME NEW r \in Request, NEW actor \in User, NEW user \in User, NEW
   role \in Role, RevokePlatformRole(r, actor, user, role) PROVE RowsInv'
    BY <1>2 DEF RevokePlatformRole, db, history, TypeOK, RowsInv
<1>3. ASSUME NEW r \in Request, GrantPlatformRoleCommit(r) PROVE RowsInv'
  <2>1. Ends(r, {}) /\ roles \subseteq roles'
    BY <1>3 DEF GrantPlatformRoleCommit, End
  <2> QED BY <2>1, EndRows
<1>4. ASSUME NEW r \in Request, RevokePlatformRoleChecked(r) PROVE RowsInv'
  <2> DEFINE locked == rows[r] \cap roles
  <2>1. /\ pc[r] = "lock" /\ Unlocked(r, locked) /\ roles' = roles
        /\ op' = [op EXCEPT ![r] = [kind |-> "delete", user |-> op[r].user, role |-> op[r].role]]
        /\ pc' = [pc EXCEPT ![r] = "write"]
        /\ rows' = [rows EXCEPT ![r] = locked]
    BY <1>4 DEF RevokePlatformRoleChecked, db
  <2>2. locked = rows[r]
    BY DEF RowsInv
  <2>3. rows' = rows
    BY <2>1, <2>2 DEF TypeOK
  <2>4. \A q \in Request \ {r} : rows[r] \cap rows[q] = {} \/ ~Busy(q)
    BY <2>1, <2>2 DEF Unlocked
  <2>5. op'[r].kind = "delete" /\ \A q \in Request \ {r} : pc'[q] = pc[q] /\ op'[q] = op[q]
    BY <2>1 DEF TypeOK
  <2>6. pc'[r] = "write"
    BY <2>1 DEF TypeOK
  <2> QED BY <2>1, <2>3, <2>4, <2>5, <2>6 DEF RowsInv
<1>5. ASSUME NEW r \in Request, RevokePlatformRoleCommit(r) PROVE RowsInv'
    BY <1>5 DEF RevokePlatformRoleCommit, Commits, Ends, Keeps, Outdates,
       history, TypeOK, RowsInv
<1>6. ASSUME NEW r \in Request, NEW actor \in User, NEW user \in User, NEW
   some \in SUBSET Role, CreatePlatformUser(r, actor, user, some) PROVE
   RowsInv'
    BY <1>6 DEF CreatePlatformUser, Pass, db, history, TypeOK, RowsInv
<1>7. ASSUME NEW r \in Request, NEW actor \in User, NEW user \in User, NEW to
   \in {"active", "disabled"}, UpdateUserStatus(r, actor, user, to) PROVE
   RowsInv'
    BY <1>7 DEF UpdateUserStatus, Pass, db, history, TypeOK, RowsInv
<1>8. ASSUME NEW r \in Request, NEW user \in User, ActivatePlatformUser(r,
   user) PROVE RowsInv'
    BY <1>8 DEF ActivatePlatformUser, Pass, db, history, TypeOK, RowsInv
<1>9. ASSUME NEW r \in Request, CreatePlatformUserCommit(r) PROVE RowsInv'
  <2>1. Ends(r, {}) /\ roles \subseteq roles'
    BY <1>9 DEF CreatePlatformUserCommit, End
  <2> QED BY <2>1, EndRows
<1>10. ASSUME NEW r \in Request, UpdateUserStatusCommit(r) PROVE RowsInv'
  <2>1. Ends(r, {}) /\ roles \subseteq roles'
    BY <1>10 DEF UpdateUserStatusCommit, End
  <2> QED BY <2>1, EndRows
<1>11. ASSUME NEW r \in Request, ActivatePlatformUserCommit(r) PROVE RowsInv'
  <2>1. Ends(r, {}) /\ roles \subseteq roles'
    BY <1>11 DEF ActivatePlatformUserCommit, End
  <2> QED BY <2>1, EndRows
<1>12. ASSUME NEW r \in Request, NEW user \in User, Login(r, user) PROVE
   RowsInv'
    BY <1>12 DEF Login, Pass, db, history, TypeOK, RowsInv
<1>13. ASSUME NEW r \in Request, NEW k \in Token, Refresh(r, k) PROVE RowsInv'
    BY <1>13 DEF Refresh, Pass, db, history, TypeOK, RowsInv
<1>14. ASSUME NEW r \in Request, NEW k \in Token, LoginCommit(r, k) PROVE
   RowsInv'
  <2>1. Ends(r, {}) /\ roles \subseteq roles'
    BY <1>14 DEF LoginCommit, End
  <2> QED BY <2>1, EndRows
<1>15. ASSUME NEW r \in Request, NEW k \in Token, RefreshCommit(r, k) PROVE
   RowsInv'
  <2>1. Ends(r, {}) /\ roles \subseteq roles'
    BY <1>15 DEF RefreshCommit, End
  <2> QED BY <2>1, EndRows
<1>16. ASSUME NEW r \in Request, Abort(r) PROVE RowsInv'
  <2>1. Ends(r, {}) /\ roles \subseteq roles'
    BY <1>16 DEF Abort, End, db
  <2> QED BY <2>1, EndRows
<1>17. ASSUME NEW user \in User, NEW reset \in BOOLEAN, BootstrapAdmin(user,
   reset) PROVE RowsInv'
    BY <1>17 DEF BootstrapAdmin, history, TypeOK, RowsInv
<1>18. ASSUME NEW user \in User, NEW k \in Token, Register(user, k) PROVE
   RowsInv'
    BY <1>18 DEF Register, Unissued, history, TypeOK, RowsInv
<1>19. ASSUME NEW k \in Token, Logout(k) PROVE RowsInv'
    BY <1>19 DEF Logout, TypeOK, RowsInv
<1>20. CASE UNCHANGED vars
    BY <1>20 DEF vars, db, history, TypeOK, RowsInv
<1> HIDE DEF Busy
<1>21. ASSUME NEW r \in Request, RoleRequest(r) PROVE RowsInv'
    BY <1>21, <1>1, <1>2, <1>3, <1>4, <1>5 DEF RoleRequest
<1>22. ASSUME NEW r \in Request, UserRequest(r) PROVE RowsInv'
    BY <1>22, <1>6, <1>7, <1>8, <1>9, <1>10, <1>11 DEF UserRequest
<1>23. ASSUME NEW r \in Request, TokenRequest(r) PROVE RowsInv'
    BY <1>23, <1>12, <1>13, <1>14, <1>15 DEF TokenRequest
<1>24. CASE AtOnce
    BY <1>24, <1>17, <1>18, <1>19, OwnerAssumption DEF AtOnce
<1> QED BY <1>16, <1>20, <1>21, <1>22, <1>23, <1>24 DEF Next

(* Of two revocations that locked rows, one has checked after the other    *)
(* committed; nothing else takes an admin.                                 *)
LEMMA AdminStep == TypeOK /\ RowsInv /\ AdminInv /\ [Next]_vars => AdminsKept
<1> SUFFICES ASSUME TypeOK, RowsInv, AdminInv, [Next]_vars PROVE AdminsKept
    OBVIOUS
<1> USE DEF Busy, Has, Admins, LastAdmin, RevokesAdmin
<1>1. ASSUME NEW r \in Request, NEW actor \in User, NEW user \in User, NEW
   role \in Role, GrantPlatformRole(r, actor, user, role) PROVE AdminsKept
  <2>1. PICK o : /\ Pass(r, o) /\ o.kind # "delete"
                 /\ o.kind = "status" /\ o.to = "disabled" => ~LastAdmin(o.user)
    BY <1>1 DEF GrantPlatformRole
  <2> QED BY <2>1, PassAdmin
<1>2. ASSUME NEW r \in Request, NEW actor \in User, NEW user \in User, NEW
   role \in Role, RevokePlatformRole(r, actor, user, role) PROVE AdminsKept
  <2>1. roles \subseteq roles' /\ bypassed' = bypassed
    BY <1>2 DEF RevokePlatformRole, db, history
  <2>2. \A q \in Request : pc'[q] = "write" => pc[q] = "write" /\ op'[q] = op[q]
    BY <1>2 DEF RevokePlatformRole, TypeOK
  <2> QED BY <2>1, <2>2, AdminsGrow
<1>3. ASSUME NEW r \in Request, GrantPlatformRoleCommit(r) PROVE AdminsKept
  <2>1. roles \subseteq roles' /\ bypassed' = bypassed
    BY <1>3 DEF GrantPlatformRoleCommit, history
  <2>2. \A q \in Request : pc'[q] = "write" => pc[q] = "write" /\ op'[q] = op[q]
    BY <1>3 DEF GrantPlatformRoleCommit, Commits, End, Ends, TypeOK
  <2> QED BY <2>1, <2>2, AdminsGrow
<1>4. ASSUME NEW r \in Request, RevokePlatformRoleChecked(r) PROVE AdminsKept
  <2> DEFINE o == op[r]
             locked == rows[r] \cap roles
  <2>1. /\ pc[r] = "lock" /\ Unlocked(r, locked) /\ roles' = roles
        /\ o.role = "admin" => ~LastAdmin(o.user)
        /\ op' = [op EXCEPT ![r] = [kind |-> "delete", user |-> o.user, role |-> o.role]]
        /\ pc' = [pc EXCEPT ![r] = "write"]
        /\ bypassed' = (bypassed \/ (o.role = "admin" /\ \E q \in Request :
                           RevokesAdmin(q) /\ (rows[q] = {} \/ locked = {})))
    BY <1>4 DEF RevokePlatformRoleChecked, db
  <2>2. locked = rows[r]
    BY DEF RowsInv
  <2>3. Admins' = Admins
    BY <2>1 DEF Admins, Has
  <2>4. /\ op'[r].kind = "delete" /\ op'[r].user = o.user /\ op'[r].role = o.role
        /\ \A q \in Request \ {r} : pc'[q] = pc[q] /\ op'[q] = op[q]
    BY <2>1 DEF TypeOK
  <2>5. \A q \in Request \ {r} : RevokesAdmin(q)' <=> RevokesAdmin(q)
    BY <2>4 DEF RevokesAdmin, Busy
  <2>6. RevokesAdmin(r)' => o.role = "admin"
    BY <2>4 DEF RevokesAdmin
  <2>7. CountInv => CountInv'
    <3>1. \A q \in Request \ {r} : Lowers(q)' => Lowers(q) /\ op'[q] = op[q]
      BY <2>4 DEF Lowers, RevokesAdmin, Disables, Busy
    <3>2. Lowers(r)' => o.role = "admin"
      BY <2>4, <2>6 DEF Lowers, Disables
    <3>3. Lowers(r)' => Admins # {op'[r].user}
      BY <2>1, <2>4, <3>2 DEF LastAdmin
    <3> QED BY <2>3, <3>1, <3>3 DEF CountInv
  <2>8. ASSUME ~bypassed', o.role = "admin", NEW q \in Request, RevokesAdmin(q) PROVE FALSE
    <3>1. rows[q] # {} /\ locked # {} /\ q # r
      BY <2>1, <2>8 DEF RevokesAdmin, Busy
    <3>2. rows[q] \cap rows[r] = {}
      BY <2>1, <2>2, <2>8, <3>1 DEF Unlocked, RevokesAdmin
    <3> QED BY <2>2, <3>1, <3>2 DEF RowsInv
  <2>9. AdminInv'
    <3> SUFFICES ASSUME ~bypassed' PROVE
              /\ Admins' # {}
              /\ \A p, q \in Request : RevokesAdmin(p)' /\ RevokesAdmin(q)' => p = q
              /\ \A q \in Request : RevokesAdmin(q)' => Admins' # {op'[q].user}
      BY DEF AdminInv
    <3>1. ~bypassed /\ Admins # {}
      BY <2>1 DEF AdminInv
    <3>2. ASSUME NEW p \in Request, NEW q \in Request, RevokesAdmin(p)', RevokesAdmin(q)'
          PROVE  p = q
      BY <2>5, <2>6, <2>8, <3>1, <3>2 DEF AdminInv
    <3>3. ASSUME NEW q \in Request, RevokesAdmin(q)' PROVE Admins' # {op'[q].user}
      <4>1. CASE q = r
        BY <2>1, <2>3, <2>4, <2>6, <3>3, <4>1 DEF LastAdmin
      <4>2. CASE q # r
        BY <2>3, <2>4, <2>5, <3>1, <3>3, <4>2 DEF AdminInv
      <4> QED BY <4>1, <4>2
    <3> QED BY <2>3, <3>1, <3>2, <3>3
  <2> QED BY <2>7, <2>9 DEF AdminsKept
<1>5. ASSUME NEW r \in Request, RevokePlatformRoleCommit(r) PROVE AdminsKept
  <2> DEFINE row == <<op[r].user, op[r].role>>
  <2>1. /\ Ends(r, {row}) /\ Busy(r) /\ op[r].kind = "delete"
        /\ roles' = roles \ {row} /\ bypassed' = bypassed
    BY <1>5 DEF RevokePlatformRoleCommit, Commits, history
  <2>2. \A q \in Request : Busy(q)' => q # r /\ Busy(q) /\ op'[q] = op[q]
    BY <2>1 DEF Ends, TypeOK, Busy
  <2>3. CASE op[r].role = "admin"
    <3>1. RevokesAdmin(r) /\ Admins' = Admins \ {op[r].user}
      BY <2>1, <2>3 DEF RevokesAdmin, Admins, Has
    <3>2. ~bypassed => \A q \in Request : ~RevokesAdmin(q)'
      BY <2>2, <3>1 DEF AdminInv, RevokesAdmin
    <3>3. ~bypassed => Admins' # {}
      BY <3>1 DEF AdminInv
    <3>4. OneLowers => \A q \in Request : ~Lowers(q)'
      BY <2>2, <3>1 DEF OneLowers, Lowers, RevokesAdmin, Disables
    <3>5. CountInv => Admins' # {}
      BY <3>1 DEF CountInv, Lowers
    <3> QED BY <2>1, <3>2, <3>3, <3>4, <3>5 DEF AdminInv, AdminsKept, CountInv
  <2>4. CASE op[r].role # "admin"
    <3>1. Admins' = Admins
      BY <2>1, <2>4 DEF Admins, Has
    <3>2. \A q \in Request : RevokesAdmin(q)' => RevokesAdmin(q) /\ op'[q] = op[q]
      BY <2>2 DEF RevokesAdmin
    <3>3. AdminInv'
      BY <2>1, <3>1, <3>2 DEF AdminInv
    <3>4. \A q \in Request : Lowers(q)' => Lowers(q) /\ op'[q] = op[q]
      BY <2>2, <3>2 DEF Lowers, Disables
    <3> QED BY <3>1, <3>3, <3>4 DEF AdminsKept, CountInv
  <2> QED BY <2>3, <2>4
<1>6. ASSUME NEW r \in Request, NEW actor \in User, NEW user \in User, NEW
   some \in SUBSET Role, CreatePlatformUser(r, actor, user, some) PROVE AdminsKept
  <2>1. PICK o : /\ Pass(r, o) /\ o.kind # "delete"
                 /\ o.kind = "status" /\ o.to = "disabled" => ~LastAdmin(o.user)
    BY <1>6 DEF CreatePlatformUser
  <2> QED BY <2>1, PassAdmin
<1>7. ASSUME NEW r \in Request, NEW actor \in User, NEW user \in User, NEW to
   \in {"active", "disabled"}, UpdateUserStatus(r, actor, user, to) PROVE AdminsKept
  <2>1. PICK o : /\ Pass(r, o) /\ o.kind # "delete"
                 /\ o.kind = "status" /\ o.to = "disabled" => ~LastAdmin(o.user)
    BY <1>7 DEF UpdateUserStatus
  <2> QED BY <2>1, PassAdmin
<1>8. ASSUME NEW r \in Request, NEW user \in User, ActivatePlatformUser(r,
   user) PROVE AdminsKept
  <2>1. PICK o : /\ Pass(r, o) /\ o.kind # "delete"
                 /\ o.kind = "status" /\ o.to = "disabled" => ~LastAdmin(o.user)
    BY <1>8 DEF ActivatePlatformUser
  <2> QED BY <2>1, PassAdmin
<1>9. ASSUME NEW r \in Request, CreatePlatformUserCommit(r) PROVE AdminsKept
  <2>1. roles \subseteq roles' /\ bypassed' = bypassed
    BY <1>9 DEF CreatePlatformUserCommit, history
  <2>2. \A q \in Request : pc'[q] = "write" => pc[q] = "write" /\ op'[q] = op[q]
    BY <1>9 DEF CreatePlatformUserCommit, Commits, End, Ends, TypeOK
  <2> QED BY <2>1, <2>2, AdminsGrow
<1>10. ASSUME NEW r \in Request, UpdateUserStatusCommit(r) PROVE AdminsKept
  <2>1. roles \subseteq roles' /\ bypassed' = bypassed
    BY <1>10 DEF UpdateUserStatusCommit, history
  <2>2. \A q \in Request : pc'[q] = "write" => pc[q] = "write" /\ op'[q] = op[q]
    BY <1>10 DEF UpdateUserStatusCommit, Commits, End, Ends, TypeOK
  <2> QED BY <2>1, <2>2, AdminsGrow
<1>11. ASSUME NEW r \in Request, ActivatePlatformUserCommit(r) PROVE AdminsKept
  <2>1. roles \subseteq roles' /\ bypassed' = bypassed
    BY <1>11 DEF ActivatePlatformUserCommit, history
  <2>2. \A q \in Request : pc'[q] = "write" => pc[q] = "write" /\ op'[q] = op[q]
    BY <1>11 DEF ActivatePlatformUserCommit, Commits, End, Ends, TypeOK
  <2> QED BY <2>1, <2>2, AdminsGrow
<1>12. ASSUME NEW r \in Request, NEW user \in User, Login(r, user) PROVE AdminsKept
  <2>1. PICK o : /\ Pass(r, o) /\ o.kind # "delete"
                 /\ o.kind = "status" /\ o.to = "disabled" => ~LastAdmin(o.user)
    BY <1>12 DEF Login
  <2> QED BY <2>1, PassAdmin
<1>13. ASSUME NEW r \in Request, NEW k \in Token, Refresh(r, k) PROVE AdminsKept
  <2>1. PICK o : /\ Pass(r, o) /\ o.kind # "delete"
                 /\ o.kind = "status" /\ o.to = "disabled" => ~LastAdmin(o.user)
    BY <1>13 DEF Refresh
  <2> QED BY <2>1, PassAdmin
<1>14. ASSUME NEW r \in Request, NEW k \in Token, LoginCommit(r, k) PROVE AdminsKept
  <2>1. roles \subseteq roles' /\ bypassed' = bypassed
    BY <1>14 DEF LoginCommit, Commits, End, Ends, history
  <2>2. \A q \in Request : pc'[q] = "write" => pc[q] = "write" /\ op'[q] = op[q]
    BY <1>14 DEF LoginCommit, Commits, End, Ends, TypeOK
  <2> QED BY <2>1, <2>2, AdminsGrow
<1>15. ASSUME NEW r \in Request, NEW k \in Token, RefreshCommit(r, k) PROVE AdminsKept
  <2>1. roles \subseteq roles' /\ bypassed' = bypassed
    BY <1>15 DEF RefreshCommit, history
  <2>2. \A q \in Request : pc'[q] = "write" => pc[q] = "write" /\ op'[q] = op[q]
    BY <1>15 DEF RefreshCommit, Commits, End, Ends, TypeOK
  <2> QED BY <2>1, <2>2, AdminsGrow
<1>16. ASSUME NEW r \in Request, Abort(r) PROVE AdminsKept
  <2>1. roles \subseteq roles' /\ bypassed' = bypassed
    BY <1>16 DEF Abort, End, Ends, db, history
  <2>2. \A q \in Request : pc'[q] = "write" => pc[q] = "write" /\ op'[q] = op[q]
    BY <1>16 DEF Abort, End, Ends, db, TypeOK
  <2> QED BY <2>1, <2>2, AdminsGrow
<1>17. ASSUME NEW user \in User, NEW reset \in BOOLEAN, BootstrapAdmin(user,
   reset) PROVE AdminsKept
  <2>1. roles \subseteq roles' /\ bypassed' = bypassed
    BY <1>17 DEF BootstrapAdmin, history
  <2>2. \A q \in Request : pc'[q] = "write" => pc[q] = "write" /\ op'[q] = op[q]
    BY <1>17 DEF BootstrapAdmin, TypeOK
  <2> QED BY <2>1, <2>2, AdminsGrow
<1>18. ASSUME NEW user \in User, NEW k \in Token, Register(user, k) PROVE AdminsKept
  <2>1. roles \subseteq roles' /\ bypassed' = bypassed
    BY <1>18 DEF Register, history
  <2>2. \A q \in Request : pc'[q] = "write" => pc[q] = "write" /\ op'[q] = op[q]
    BY <1>18 DEF Register, TypeOK
  <2> QED BY <2>1, <2>2, AdminsGrow
<1>19. ASSUME NEW k \in Token, Logout(k) PROVE AdminsKept
  <2>1. roles \subseteq roles' /\ bypassed' = bypassed
    BY <1>19 DEF Logout, history
  <2>2. \A q \in Request : pc'[q] = "write" => pc[q] = "write" /\ op'[q] = op[q]
    BY <1>19 DEF Logout, TypeOK
  <2> QED BY <2>1, <2>2, AdminsGrow
<1>20. CASE UNCHANGED vars
  <2>1. UNCHANGED <<roles, pc, op, bypassed>>
    BY <1>20 DEF vars, db, history
  <2> QED BY <2>1, AdminsGrow
<1> HIDE DEF Busy, Has, Admins, LastAdmin, RevokesAdmin
<1>21. ASSUME NEW r \in Request, RoleRequest(r) PROVE AdminsKept
    BY <1>21, <1>1, <1>2, <1>3, <1>4, <1>5 DEF RoleRequest
<1>22. ASSUME NEW r \in Request, UserRequest(r) PROVE AdminsKept
    BY <1>22, <1>6, <1>7, <1>8, <1>9, <1>10, <1>11 DEF UserRequest
<1>23. ASSUME NEW r \in Request, TokenRequest(r) PROVE AdminsKept
    BY <1>23, <1>12, <1>13, <1>14, <1>15 DEF TokenRequest
<1>24. CASE AtOnce
    BY <1>24, <1>17, <1>18, <1>19, OwnerAssumption DEF AtOnce
<1> QED BY <1>16, <1>20, <1>21, <1>22, <1>23, <1>24 DEF Next

(* A token or an invitation another request is using becomes contested as  *)
(* it is used.                                                             *)
LEMMA SpentStep == TypeOK /\ SpentInv /\ [Next]_vars => SpentInv'
<1> SUFFICES ASSUME TypeOK, SpentInv, [Next]_vars PROVE SpentInv'
    OBVIOUS
<1> USE DEF Busy
<1>1. ASSUME NEW r \in Request, NEW actor \in User, NEW user \in User, NEW
   role \in Role, GrantPlatformRole(r, actor, user, role) PROVE SpentInv'
    BY <1>1 DEF GrantPlatformRole, Pass, db, history, TypeOK, SpentInv,
       SpentOnce
<1>2. ASSUME NEW r \in Request, NEW actor \in User, NEW user \in User, NEW
   role \in Role, RevokePlatformRole(r, actor, user, role) PROVE SpentInv'
    BY <1>2 DEF RevokePlatformRole, db, history, TypeOK, SpentInv, SpentOnce
<1>3. ASSUME NEW r \in Request, GrantPlatformRoleCommit(r) PROVE SpentInv'
    BY <1>3 DEF GrantPlatformRoleCommit, Commits, End, Ends, Keeps, history,
       TypeOK, SpentInv, SpentOnce
<1>4. ASSUME NEW r \in Request, RevokePlatformRoleChecked(r) PROVE SpentInv'
    BY <1>4 DEF RevokePlatformRoleChecked, db, TypeOK, SpentInv, SpentOnce
<1>5. ASSUME NEW r \in Request, RevokePlatformRoleCommit(r) PROVE SpentInv'
    BY <1>5 DEF RevokePlatformRoleCommit, Commits, Ends, Keeps, Outdates,
       history, TypeOK, SpentInv, SpentOnce
<1>6. ASSUME NEW r \in Request, NEW actor \in User, NEW user \in User, NEW
   some \in SUBSET Role, CreatePlatformUser(r, actor, user, some) PROVE
   SpentInv'
    BY <1>6 DEF CreatePlatformUser, Pass, db, history, TypeOK, SpentInv,
       SpentOnce
<1>7. ASSUME NEW r \in Request, NEW actor \in User, NEW user \in User, NEW to
   \in {"active", "disabled"}, UpdateUserStatus(r, actor, user, to) PROVE
   SpentInv'
    BY <1>7 DEF UpdateUserStatus, Pass, db, history, TypeOK, SpentInv,
       SpentOnce
<1>8. ASSUME NEW r \in Request, NEW user \in User, ActivatePlatformUser(r,
   user) PROVE SpentInv'
    BY <1>8 DEF ActivatePlatformUser, Pass, db, history, TypeOK, SpentInv,
       SpentOnce
<1>9. ASSUME NEW r \in Request, CreatePlatformUserCommit(r) PROVE SpentInv'
    BY <1>9 DEF CreatePlatformUserCommit, Commits, End, Ends, Outdates,
       RoleRows, history, TypeOK, SpentInv, SpentOnce
<1>10. ASSUME NEW r \in Request, UpdateUserStatusCommit(r) PROVE SpentInv'
  <2>1. op[r].to # "none"
    BY <1>10, OpFields DEF UpdateUserStatusCommit, Commits, TypeOK
  <2>2. \A u \in User : status'[u] = "none" => status[u] = "none"
    BY <1>10, <2>1 DEF UpdateUserStatusCommit, TypeOK
  <2>3. \A q \in Request : Busy(q)' => Busy(q) /\ op'[q] = op[q]
    BY <1>10 DEF UpdateUserStatusCommit, End, Ends, TypeOK
  <2>4. UNCHANGED <<invite, token, heirs, uses, contested, doubled>>
    BY <1>10 DEF UpdateUserStatusCommit, history
  <2> QED BY <2>2, <2>3, <2>4 DEF SpentInv, SpentOnce
<1>11. ASSUME NEW r \in Request, ActivatePlatformUserCommit(r) PROVE SpentInv'
    BY <1>11 DEF ActivatePlatformUserCommit, Commits, End, Ends, Outdates,
       Uses, TypeOK, SpentInv, SpentOnce
<1>12. ASSUME NEW r \in Request, NEW user \in User, Login(r, user) PROVE
   SpentInv'
    BY <1>12 DEF Login, Pass, db, history, TypeOK, SpentInv, SpentOnce
<1>13. ASSUME NEW r \in Request, NEW k \in Token, Refresh(r, k) PROVE
   SpentInv'
    BY <1>13 DEF Refresh, Pass, db, history, TypeOK, SpentInv, SpentOnce
<1>14. ASSUME NEW r \in Request, NEW k \in Token, LoginCommit(r, k) PROVE
   SpentInv'
    BY <1>14 DEF LoginCommit, Commits, End, Ends, Keeps, Unissued, history,
       TypeOK, SpentInv, SpentOnce
<1>15. ASSUME NEW r \in Request, NEW k \in Token, RefreshCommit(r, k) PROVE
   SpentInv'
  <2> DEFINE old == op[r].token
  <2>1. /\ Busy(r) /\ op[r].kind = "refresh" /\ old \in Token /\ token[k] = "none"
        /\ token' = [token EXCEPT ![old] = IF @ = "live" THEN "exchanged" ELSE @, ![k] = "live"]
        /\ heirs' = [heirs EXCEPT ![old] = @ + 1]
        /\ UNCHANGED <<status, invite, uses, doubled>>
    BY <1>15, OpFields DEF RefreshCommit, Commits, Unissued, TypeOK
  <2>2. \A q \in Request : Busy(q)' => q # r /\ Busy(q) /\ op'[q] = op[q]
    BY <1>15 DEF RefreshCommit, End, Ends, TypeOK
  <2>3. /\ contested \subseteq contested'
        /\ old \notin contested' => \A q \in Request \ {r} : ~Exchanges(q, old)
    BY <1>15 DEF RefreshCommit, ContestedBy
  <2>4. old \notin contested' => token[old] = "live"
    BY <2>1, <2>3 DEF SpentInv
  <2>5. ASSUME NEW t \in Token, t \notin contested'
        PROVE  heirs'[t] = IF token'[t] = "exchanged" THEN 1 ELSE 0
    <3>1. t \notin contested /\ heirs[t] = IF token[t] = "exchanged" THEN 1 ELSE 0
      BY <2>3, <2>5 DEF SpentInv, SpentOnce
    <3>2. CASE t = old
      <4>1. token[old] = "live" /\ old # k
        BY <2>1, <2>4, <2>5, <3>2
      <4>2. token'[old] = "exchanged"
        BY <2>1, <4>1 DEF TypeOK
      <4>3. heirs'[old] = heirs[old] + 1 /\ heirs[old] = 0
        BY <2>1, <3>1, <3>2, <4>1 DEF TypeOK
      <4> QED BY <3>2, <4>2, <4>3
    <3>3. CASE t # old
      <4>1. heirs'[t] = heirs[t]
        BY <2>1, <3>3 DEF TypeOK
      <4>2. token'[t] = IF t = k THEN "live" ELSE token[t]
        BY <2>1, <3>3 DEF TypeOK
      <4> QED BY <2>1, <3>1, <4>1, <4>2
    <3> QED BY <3>2, <3>3
  <2>6. ASSUME NEW q \in Request, Busy(q)', op'[q].kind = "refresh", op'[q].token \notin contested'
        PROVE  token'[op'[q].token] = "live"
    <3>1. /\ q # r /\ Busy(q) /\ op'[q] = op[q] /\ op[q].kind = "refresh"
          /\ op[q].token \notin contested
      BY <2>2, <2>3, <2>6
    <3>2. token[op[q].token] = "live" /\ op[q].token \in Token
      BY <3>1, OpFields DEF SpentInv, TypeOK
    <3>3. op[q].token # old
      BY <2>3, <2>6, <3>1 DEF Exchanges
    <3> QED BY <2>1, <3>1, <3>2, <3>3 DEF TypeOK
  <2>7. ASSUME NEW q \in Request, Busy(q)', op'[q].kind = "activate", op'[q].user \notin doubled
        PROVE  invite[op'[q].user] = "sent"
    BY <2>2, <2>7 DEF SpentInv
  <2>8. \A u \in User : u \notin doubled => uses[u] = IF invite[u] = "used" THEN 1 ELSE 0
    BY DEF SpentInv, SpentOnce
  <2>9. \A u \in User : status[u] = "none" => invite[u] = "none"
    BY DEF SpentInv
  <2>10. SpentOnce'
    BY <2>1, <2>5, <2>8 DEF SpentOnce
  <2> HIDE DEF old
  <2> QED BY <2>1, <2>6, <2>7, <2>9, <2>10 DEF SpentInv
<1>16. ASSUME NEW r \in Request, Abort(r) PROVE SpentInv'
    BY <1>16 DEF Abort, End, Ends, Keeps, db, history, TypeOK, SpentInv,
       SpentOnce
<1>17. ASSUME NEW user \in User, NEW reset \in BOOLEAN, BootstrapAdmin(user,
   reset) PROVE SpentInv'
    BY <1>17 DEF BootstrapAdmin, history, TypeOK, SpentInv, SpentOnce
<1>18. ASSUME NEW user \in User, NEW k \in Token, Register(user, k) PROVE
   SpentInv'
    BY <1>18 DEF Register, Unissued, history, TypeOK, SpentInv, SpentOnce
<1>19. ASSUME NEW k \in Token, Logout(k) PROVE SpentInv'
    BY <1>19 DEF Logout, Exchanges, TypeOK, SpentInv, SpentOnce
<1>20. CASE UNCHANGED vars
    BY <1>20 DEF vars, db, history, TypeOK, SpentInv, SpentOnce
<1> HIDE DEF Busy
<1>21. ASSUME NEW r \in Request, RoleRequest(r) PROVE SpentInv'
    BY <1>21, <1>1, <1>2, <1>3, <1>4, <1>5 DEF RoleRequest
<1>22. ASSUME NEW r \in Request, UserRequest(r) PROVE SpentInv'
    BY <1>22, <1>6, <1>7, <1>8, <1>9, <1>10, <1>11 DEF UserRequest
<1>23. ASSUME NEW r \in Request, TokenRequest(r) PROVE SpentInv'
    BY <1>23, <1>12, <1>13, <1>14, <1>15 DEF TokenRequest
<1>24. CASE AtOnce
    BY <1>24, <1>17, <1>18, <1>19, OwnerAssumption DEF AtOnce
<1> QED BY <1>16, <1>20, <1>21, <1>22, <1>23, <1>24 DEF Next

(* A written status outdates the logins that have read it.                 *)
LEMMA ActiveStep == TypeOK /\ ActiveInv /\ [Next]_vars => ActiveInv'
<1> SUFFICES ASSUME TypeOK, ActiveInv, [Next]_vars PROVE ActiveInv'
    OBVIOUS
<1> USE DEF Busy, Relies
<1>1. ASSUME NEW r \in Request, NEW actor \in User, NEW user \in User, NEW
   role \in Role, GrantPlatformRole(r, actor, user, role) PROVE ActiveInv'
    BY <1>1 DEF GrantPlatformRole, Pass, db, history, TypeOK, ActiveInv
<1>2. ASSUME NEW r \in Request, NEW actor \in User, NEW user \in User, NEW
   role \in Role, RevokePlatformRole(r, actor, user, role) PROVE ActiveInv'
    BY <1>2 DEF RevokePlatformRole, db, history, TypeOK, ActiveInv
<1>3. ASSUME NEW r \in Request, GrantPlatformRoleCommit(r) PROVE ActiveInv'
    BY <1>3 DEF GrantPlatformRoleCommit, Commits, End, Ends, Keeps, history,
       TypeOK, ActiveInv
<1>4. ASSUME NEW r \in Request, RevokePlatformRoleChecked(r) PROVE ActiveInv'
    BY <1>4 DEF RevokePlatformRoleChecked, db, TypeOK, ActiveInv
<1>5. ASSUME NEW r \in Request, RevokePlatformRoleCommit(r) PROVE ActiveInv'
    BY <1>5 DEF RevokePlatformRoleCommit, Commits, Ends, Keeps, Outdates,
       history, TypeOK, ActiveInv
<1>6. ASSUME NEW r \in Request, NEW actor \in User, NEW user \in User, NEW
   some \in SUBSET Role, CreatePlatformUser(r, actor, user, some) PROVE
   ActiveInv'
    BY <1>6 DEF CreatePlatformUser, Pass, db, history, TypeOK, ActiveInv
<1>7. ASSUME NEW r \in Request, NEW actor \in User, NEW user \in User, NEW to
   \in {"active", "disabled"}, UpdateUserStatus(r, actor, user, to) PROVE
   ActiveInv'
    BY <1>7 DEF UpdateUserStatus, Pass, db, history, TypeOK, ActiveInv
<1>8. ASSUME NEW r \in Request, NEW user \in User, ActivatePlatformUser(r,
   user) PROVE ActiveInv'
    BY <1>8 DEF ActivatePlatformUser, Pass, db, history, TypeOK, ActiveInv
<1>9. ASSUME NEW r \in Request, CreatePlatformUserCommit(r) PROVE ActiveInv'
    BY <1>9 DEF CreatePlatformUserCommit, Commits, End, Ends, Outdates,
       RoleRows, history, TypeOK, ActiveInv
<1>10. ASSUME NEW r \in Request, UpdateUserStatusCommit(r) PROVE ActiveInv'
    BY <1>10 DEF UpdateUserStatusCommit, Commits, End, Ends, Outdates,
       history, TypeOK, ActiveInv
<1>11. ASSUME NEW r \in Request, ActivatePlatformUserCommit(r) PROVE
   ActiveInv'
    BY <1>11 DEF ActivatePlatformUserCommit, Commits, End, Ends, Outdates,
       TypeOK, ActiveInv
<1>12. ASSUME NEW r \in Request, NEW user \in User, Login(r, user) PROVE
   ActiveInv'
    BY <1>12 DEF Login, Pass, db, history, TypeOK, ActiveInv
<1>13. ASSUME NEW r \in Request, NEW k \in Token, Refresh(r, k) PROVE
   ActiveInv'
    BY <1>13 DEF Refresh, Pass, db, history, TypeOK, ActiveInv
<1>14. ASSUME NEW r \in Request, NEW k \in Token, LoginCommit(r, k) PROVE
   ActiveInv'
    BY <1>14 DEF LoginCommit, Commits, End, Ends, Keeps, Unissued, history,
       TypeOK, ActiveInv
<1>15. ASSUME NEW r \in Request, NEW k \in Token, RefreshCommit(r, k) PROVE
   ActiveInv'
    BY <1>15 DEF RefreshCommit, Commits, End, Ends, Keeps, Unissued,
       ContestedBy, TypeOK, ActiveInv
<1>16. ASSUME NEW r \in Request, Abort(r) PROVE ActiveInv'
    BY <1>16 DEF Abort, End, Ends, Keeps, db, history, TypeOK, ActiveInv
<1>17. ASSUME NEW user \in User, NEW reset \in BOOLEAN, BootstrapAdmin(user,
   reset) PROVE ActiveInv'
    BY <1>17 DEF BootstrapAdmin, history, TypeOK, ActiveInv
<1>18. ASSUME NEW user \in User, NEW k \in Token, Register(user, k) PROVE
   ActiveInv'
    BY <1>18 DEF Register, Unissued, history, TypeOK, ActiveInv
<1>19. ASSUME NEW k \in Token, Logout(k) PROVE ActiveInv'
    BY <1>19 DEF Logout, TypeOK, ActiveInv
<1>20. CASE UNCHANGED vars
    BY <1>20 DEF vars, db, history, TypeOK, ActiveInv
<1> HIDE DEF Busy, Relies
<1>21. ASSUME NEW r \in Request, RoleRequest(r) PROVE ActiveInv'
    BY <1>21, <1>1, <1>2, <1>3, <1>4, <1>5 DEF RoleRequest
<1>22. ASSUME NEW r \in Request, UserRequest(r) PROVE ActiveInv'
    BY <1>22, <1>6, <1>7, <1>8, <1>9, <1>10, <1>11 DEF UserRequest
<1>23. ASSUME NEW r \in Request, TokenRequest(r) PROVE ActiveInv'
    BY <1>23, <1>12, <1>13, <1>14, <1>15 DEF TokenRequest
<1>24. CASE AtOnce
    BY <1>24, <1>17, <1>18, <1>19, OwnerAssumption DEF AtOnce
<1> QED BY <1>16, <1>20, <1>21, <1>22, <1>23, <1>24 DEF Next

-----------------------------------------------------------------------------

(* Every variable stays in its declared range.                             *)
THEOREM TypeCorrect == Spec => []TypeOK
<1>1. Init => TypeOK
  <2> SUFFICES ASSUME Init PROVE TypeOK
    OBVIOUS
  <2>1. PICK admin \in User : /\ status = [u \in User |-> IF u = admin THEN "active" ELSE "none"]
                             /\ roles = {<<admin, "admin">>}
    BY DEF Init
  <2>2. roles \subseteq Row
    BY <2>1, AdminAssumption DEF Row
  <2> QED BY <2>1, <2>2 DEF Init, TypeOK
<1> QED BY <1>1, TypeStep, PTL DEF Spec

(* The locks of revocations and what they have counted are in order in     *)
(* every reachable state.                                                  *)
THEOREM Invariance == Spec => [](RowsInv /\ AdminInv)
<1>1. Init => RowsInv
    BY DEF Init, RowsInv, Busy
<1>2. Init => AdminInv
    BY DEF Init, AdminInv, RevokesAdmin, Busy, Admins, Has
<1>3. AdminsKept => AdminInv'
    BY DEF AdminsKept
<1> QED BY <1>1, <1>2, <1>3, TypeCorrect, RowsStep, AdminStep, PTL DEF Spec

(* While revocations find a row to lock, someone holds the admin role.     *)
THEOREM AdminsRemain == Spec => []AdminRemains
<1>1. AdminInv => AdminRemains
    BY DEF AdminInv, AdminRemains
<1> QED BY <1>1, Invariance, PTL

(* A refresh token is exchanged once and an invitation activates once,     *)
(* unless overlapping requests used them.                                  *)
THEOREM SpendOnce == Spec => []SpentOnce
<1>1. Init => SpentInv
    BY DEF Init, SpentInv, SpentOnce, Busy
<1>2. SpentInv => SpentOnce
    BY DEF SpentInv
<1> QED BY <1>1, <1>2, TypeCorrect, SpentStep, PTL DEF Spec

(* A refresh token is issued to an active user, unless the user's status was *)
(* written since it was checked.                                           *)
THEOREM IssuedToActive == Spec => TokensGoToActiveUsers
<1> DEFINE Issued == \A k \in Token : token[k] = "none" /\ token'[k] = "live" =>
               \/ status'[OwnerOf[k]] = "active"
               \/ \E r \in Request : Busy(r) /\ ~Busy(r)' /\ stale[r]
<1>1. Init => ActiveInv
    BY DEF Init, ActiveInv, Busy
<1>2. TypeOK /\ ActiveInv /\ [Next]_vars => [Issued]_vars
  <2> SUFFICES ASSUME TypeOK, ActiveInv, Next, NEW k \in Token,
                      token[k] = "none", token'[k] = "live"
               PROVE  \/ status'[OwnerOf[k]] = "active"
                      \/ \E r \in Request : Busy(r) /\ ~Busy(r)' /\ stale[r]
    OBVIOUS
  <2>1. \/ \E r \in Request, j \in Token : LoginCommit(r, j) \/ RefreshCommit(r, j)
        \/ \E j \in Token : Register(OwnerOf[j], j)
    <3>1. token' # token
      OBVIOUS
    <3>2. \A j \in Token : ~Logout(j)
      BY DEF Logout, TypeOK
    <3>3. \A r \in Request : RoleRequest(r) \/ UserRequest(r) \/ Abort(r) => token' = token
      BY DEF RoleRequest, UserRequest, Abort, GrantPlatformRole, RevokePlatformRole,
         GrantPlatformRoleCommit, RevokePlatformRoleChecked, RevokePlatformRoleCommit,
         CreatePlatformUser, UpdateUserStatus, ActivatePlatformUser, CreatePlatformUserCommit,
         UpdateUserStatusCommit, ActivatePlatformUserCommit, Pass, db
    <3>4. \A user \in User, reset \in BOOLEAN : BootstrapAdmin(user, reset) => token' = token
      BY DEF BootstrapAdmin
    <3>5. \A r \in Request : (\E user \in User : Login(r, user)) \/ (\E j \in Token : Refresh(r, j))
             => token' = token
      BY DEF Login, Refresh, Pass, db
    <3> QED BY <3>1, <3>2, <3>3, <3>4, <3>5 DEF Next, AtOnce, TokenRequest
  <2>2. ASSUME NEW r \in Request, NEW j \in Token, LoginCommit(r, j) \/ RefreshCommit(r, j)
        PROVE  \/ status'[OwnerOf[k]] = "active"
               \/ \E q \in Request : Busy(q) /\ ~Busy(q)' /\ stale[q]
    <3>1. k = j
      BY <2>2 DEF LoginCommit, RefreshCommit, TypeOK
    <3>2. /\ OwnerOf[k] = op[r].user /\ Busy(r) /\ op[r].kind \in {"login", "refresh"}
          /\ status' = status
      BY <2>2, <3>1 DEF LoginCommit, RefreshCommit, Commits, Unissued
    <3>3. ~Busy(r)'
      BY <2>2 DEF LoginCommit, RefreshCommit, End, Ends, Busy, TypeOK
    <3> QED BY <3>2, <3>3 DEF ActiveInv
  <2>3. ASSUME NEW j \in Token, Register(OwnerOf[j], j) PROVE status'[OwnerOf[k]] = "active"
    <3>1. k = j
      BY <2>3 DEF Register, TypeOK
    <3> QED BY <2>3, <3>1, OwnerAssumption DEF Register, TypeOK
  <2> QED BY <2>1, <2>2, <2>3
<1> QED BY <1>1, <1>2, TypeCorrect, ActiveStep, PTL DEF Spec, TokensGoToActiveUsers

-----------------------------------------------------------------------------
(* A user is disabled by a request that has counted the admins.            *)
LEMMA DisableStep == ASSUME TypeOK, CountInv, Next
                     PROVE  \A u \in User :
                               status[u] # "disabled" /\ status'[u] = "disabled" => Admins' # {u}
<1> SUFFICES ASSUME NEW u \in User, status[u] # "disabled", status'[u] = "disabled"
             PROVE  Admins' # {u}
    OBVIOUS
<1>1. \A r \in Request : ~RoleRequest(r) /\ ~TokenRequest(r) /\ ~Abort(r)
    BY DEF RoleRequest, TokenRequest, Abort, GrantPlatformRole, RevokePlatformRole,
       GrantPlatformRoleCommit, RevokePlatformRoleChecked, RevokePlatformRoleCommit, Login,
       Refresh, LoginCommit, RefreshCommit, Pass, db
<1>2. ~AtOnce
    BY DEF AtOnce, BootstrapAdmin, Register, Logout, TypeOK
<1>3. PICK r \in Request : UserRequest(r)
    BY <1>1, <1>2 DEF Next
<1>4. UpdateUserStatusCommit(r)
    BY <1>3 DEF UserRequest, CreatePlatformUser, UpdateUserStatus, ActivatePlatformUser,
       CreatePlatformUserCommit, ActivatePlatformUserCommit, Pass, db, TypeOK
<1>5. Disables(r) /\ op[r].user = u
    BY <1>4 DEF UpdateUserStatusCommit, Commits, Busy, Disables, TypeOK
<1>6. Admins' = Admins
    BY <1>4 DEF UpdateUserStatusCommit, Admins, Has
<1> QED BY <1>5, <1>6 DEF CountInv, Lowers

(* The promise of docs/api/users.md that the last admin is not disabled    *)
(* holds of a program in which at most one request at a time is between    *)
(* its count of the admins and the write that disables a user or takes the *)
(* role from an admin, as it would be if update_user_status locked the     *)
(* rows that revoke_platform_role locks; and so does the rule that someone *)
(* holds the role, without exception.                                      *)
THEOREM DisablesInTurnSpare == Spec /\ []OneLowers => DisableSparesLastAdmin /\ [](Admins # {})
<1> DEFINE Spares == \A u \in User :
              status[u] # "disabled" /\ status'[u] = "disabled" => Admins' # {u}
<1>1. Init => CountInv
    BY DEF Init, CountInv, Lowers, RevokesAdmin, Disables, Busy, Admins, Has
<1>2. TypeOK /\ RowsInv /\ AdminInv /\ OneLowers /\ CountInv /\ [Next]_vars => CountInv'
    BY AdminStep DEF AdminsKept
<1>3. TypeOK /\ CountInv /\ [Next]_vars => [Spares]_vars
    BY DisableStep
<1>4. CountInv => Admins # {}
    BY DEF CountInv
<1> HIDE DEF Spares
<1>5. Spec /\ []OneLowers => []CountInv
    BY <1>1, <1>2, TypeCorrect, Invariance, PTL DEF Spec
<1>6. Spec /\ []OneLowers => [][Spares]_vars
    BY <1>3, <1>5, TypeCorrect, PTL DEF Spec
<1>7. [][Spares]_vars => DisableSparesLastAdmin
    BY DEF Spares, DisableSparesLastAdmin
<1> QED BY <1>4, <1>5, <1>6, <1>7, PTL

-----------------------------------------------------------------------------
(* Platform roles behave like the admin set that the members of a tenant   *)
(* are: a revocation of the admin role takes effect, at its commit, as if  *)
(* the last-admin check had been made in that moment.                      *)
Guard == INSTANCE AdminSet WITH admins <- Admins, guarded <- ~bypassed

(* Each step promotes, demotes one of several, goes past the check, or     *)
(* changes no admin.                                                       *)
LEMMA GuardNext ==
    ASSUME TypeOK, TypeOK', AdminInv, [Next]_vars
    PROVE  [Guard!Next]_Guard!vars
<1> DEFINE Same == Admins' = Admins /\ (~bypassed)' = ~bypassed
<1>1. CASE bypassed'
    BY <1>1 DEF Guard!Next, Guard!Bypass, Admins
<1>2. Same => UNCHANGED Guard!vars
    BY DEF Guard!vars
<1>3. ASSUME ~bypassed', bypassed' = bypassed, NEW u \in User, NEW some \in SUBSET Role,
             roles' = roles \cup ({u} \X some)
      PROVE  Guard!Next \/ Same
    <2>1. \A v \in User, role \in Role : Has(v, role)' <=> Has(v, role) \/ (v = u /\ role \in some)
        BY <1>3 DEF Has
    <2>2. Admins' = IF "admin" \in some THEN Admins \cup {u} ELSE Admins
        BY <2>1, AdminAssumption DEF Admins
    <2>3. CASE "admin" \in some
        BY <1>3, <2>2, <2>3 DEF Guard!Next, Guard!Promote
    <2>4. CASE "admin" \notin some
        BY <1>3, <2>2, <2>4
    <2> QED BY <2>3, <2>4
<1>4. ASSUME ~bypassed', NEW r \in Request, GrantPlatformRoleCommit(r) PROVE Guard!Next \/ Same
    <2>1. op[r] \in Op /\ op[r].kind = "grant"
        BY <1>4 DEF GrantPlatformRoleCommit, Commits, Busy, TypeOK
    <2>2. op[r].user \in User /\ {op[r].role} \in SUBSET Role
        BY <2>1, OpFields
    <2>3. roles' = roles \cup ({op[r].user} \X {op[r].role}) /\ bypassed' = bypassed
        BY <1>4 DEF GrantPlatformRoleCommit, history
    <2> QED BY <1>3, <1>4, <2>2, <2>3
<1>5. ASSUME ~bypassed', NEW r \in Request, CreatePlatformUserCommit(r) PROVE Guard!Next \/ Same
    <2>1. op[r] \in Op /\ op[r].kind = "create"
        BY <1>5 DEF CreatePlatformUserCommit, Commits, Busy, TypeOK
    <2>2. op[r].user \in User /\ op[r].roles \in SUBSET Role
        BY <2>1, OpFields
    <2>3. roles' = roles \cup ({op[r].user} \X op[r].roles) /\ bypassed' = bypassed
        BY <1>5 DEF CreatePlatformUserCommit, RoleRows, history
    <2> QED BY <1>3, <1>5, <2>2, <2>3
<1>6. ASSUME ~bypassed', NEW u \in User, NEW reset \in BOOLEAN, BootstrapAdmin(u, reset)
      PROVE  Guard!Next \/ Same
    <2>1. roles' = roles \cup ({u} \X {"admin"}) /\ bypassed' = bypassed
        BY <1>6 DEF BootstrapAdmin, history
    <2>2. {"admin"} \in SUBSET Role
        BY AdminAssumption
    <2> QED BY <1>3, <1>6, <2>1, <2>2
<1>7. ASSUME ~bypassed', NEW r \in Request, RevokePlatformRoleCommit(r) PROVE Guard!Next \/ Same
    <2> DEFINE u == op[r].user
    <2>1. op[r] \in Op /\ op[r].kind = "delete" /\ Busy(r)
        BY <1>7 DEF RevokePlatformRoleCommit, Commits, Busy, TypeOK
    <2>2. u \in User
        BY <2>1, OpFields
    <2>3. roles' = roles \ {<<u, op[r].role>>} /\ bypassed' = bypassed
        BY <1>7 DEF RevokePlatformRoleCommit, history
    <2>4. CASE op[r].role = "admin"
        <3>1. Admins' = Admins \ {u}
            BY <2>3, <2>4 DEF Admins, Has
        <3>2. Admins # {} /\ Admins # {u}
            BY <1>7, <2>1, <2>3, <2>4 DEF AdminInv, RevokesAdmin
        <3> QED BY <1>7, <2>2, <2>3, <3>1, <3>2 DEF Guard!Next, Guard!Demote
    <2>5. CASE op[r].role # "admin"
        BY <2>3, <2>5 DEF Admins, Has
    <2> QED BY <2>4, <2>5
<1>8. ASSUME ~bypassed', NEW r \in Request, RevokePlatformRoleChecked(r) PROVE Same
    BY <1>8 DEF RevokePlatformRoleChecked, db, Admins, Has, TypeOK
<1>9. ASSUME UNCHANGED <<roles, bypassed>> PROVE Same
    BY <1>9 DEF Admins, Has
<1>10. ASSUME NEW r \in Request,
              \/ UserRequest(r) /\ ~CreatePlatformUserCommit(r)
              \/ TokenRequest(r) \/ Abort(r)
       PROVE  UNCHANGED <<roles, bypassed>>
    BY <1>10 DEF UserRequest, TokenRequest, Abort, CreatePlatformUser, UpdateUserStatus,
       ActivatePlatformUser, UpdateUserStatusCommit, ActivatePlatformUserCommit, Login, Refresh,
       LoginCommit, RefreshCommit, Pass, db, history
<1>11. ASSUME NEW r \in Request, NEW actor \in User, NEW user \in User, NEW role \in Role,
              GrantPlatformRole(r, actor, user, role) \/ RevokePlatformRole(r, actor, user, role)
       PROVE  UNCHANGED <<roles, bypassed>>
    BY <1>11 DEF GrantPlatformRole, RevokePlatformRole, Pass, db, history
<1>12. ASSUME NEW k \in Token, Register(OwnerOf[k], k) \/ Logout(k)
       PROVE  UNCHANGED <<roles, bypassed>>
    BY <1>12 DEF Register, Logout, history
<1>13. CASE UNCHANGED vars
    BY <1>13, <1>9, <1>2 DEF vars, db, history
<1>14. ASSUME ~bypassed', Next PROVE Guard!Next \/ Same
    <2> HIDE DEF Same
    <2>1. ASSUME NEW r \in Request, RoleRequest(r) PROVE Guard!Next \/ Same
        BY <1>14, <2>1, <1>4, <1>7, <1>8, <1>9, <1>11 DEF RoleRequest
    <2>2. ASSUME NEW r \in Request, UserRequest(r) PROVE Guard!Next \/ Same
        BY <1>14, <2>2, <1>5, <1>9, <1>10
    <2> QED BY <1>14, <2>1, <2>2, <1>6, <1>9, <1>10, <1>12 DEF Next, AtOnce
<1> HIDE DEF Same
<1> QED BY <1>1, <1>2, <1>13, <1>14

(* Every behaviour of Accounts is one of AdminSet.                         *)
THEOREM Implements == Spec => Guard!Spec
<1>1. Init => Guard!Init
    BY DEF Init, Guard!Init, Admins, Has
<1> QED BY <1>1, GuardNext, TypeCorrect, Invariance, PTL DEF Spec, Guard!Spec

-----------------------------------------------------------------------------
(* What a lock of the rows read would give: if no two requests were        *)
(* between read and commit of one refresh token, or of one invitation, and *)
(* a token were not logged out between them either, every token would be   *)
(* exchanged once and every invitation used once, without exception.       *)
UsersTakeTurns ==
    /\ \A r, q \in Request, k \in Token : Exchanges(r, k) /\ Exchanges(q, k) => r = q
    /\ \A r, q \in Request, u \in User :
          Uses(r, "activate", u) /\ Uses(q, "activate", u) => r = q
LogoutsWait == [][\A k \in Token : Logout(k) => \A r \in Request : ~Exchanges(r, k)]_vars
NoneSpentTwice ==
    /\ \A k \in Token : heirs[k] = IF token[k] = "exchanged" THEN 1 ELSE 0
    /\ \A u \in User : uses[u] = IF invite[u] = "used" THEN 1 ELSE 0

(* Two requests that contend for a row are both at it before one commits.  *)
LEMMA NoContest ==
    ASSUME TypeOK, UsersTakeTurns, contested = {}, doubled = {}, [Next]_vars,
           [\A k \in Token : Logout(k) => \A r \in Request : ~Exchanges(r, k)]_vars
    PROVE  contested' = {} /\ doubled' = {}
<1>1. ASSUME NEW r \in Request, NEW k \in Token, RefreshCommit(r, k)
      PROVE  contested' = {} /\ doubled' = {}
    <2>1. Exchanges(r, op[r].token) /\ op[r].token \in Token
        BY <1>1, OpFields DEF RefreshCommit, Commits, Busy, Exchanges, TypeOK
    <2> QED BY <1>1, <2>1 DEF RefreshCommit, ContestedBy, UsersTakeTurns
<1>2. ASSUME NEW r \in Request, ActivatePlatformUserCommit(r)
      PROVE  contested' = {} /\ doubled' = {}
    <2>1. Uses(r, "activate", op[r].user) /\ op[r].user \in User
        BY <1>2, OpFields DEF ActivatePlatformUserCommit, Commits, Busy, Uses, TypeOK
    <2> QED BY <1>2, <2>1 DEF ActivatePlatformUserCommit, UsersTakeTurns
<1>3. ASSUME NEW k \in Token, Logout(k) PROVE contested' = {} /\ doubled' = {}
    <2>1. token' # token
        BY <1>3 DEF Logout, TypeOK
    <2>2. \A r \in Request : ~Exchanges(r, k)
        BY <1>3, <2>1 DEF vars, db
    <2> QED BY <1>3, <2>2 DEF Logout
<1>4. ASSUME NEW r \in Request, RoleRequest(r) PROVE contested' = {} /\ doubled' = {}
    BY <1>4 DEF RoleRequest, GrantPlatformRole, RevokePlatformRole, GrantPlatformRoleCommit,
       RevokePlatformRoleChecked, RevokePlatformRoleCommit, Pass, history
<1>5. ASSUME NEW r \in Request, UserRequest(r), ~ActivatePlatformUserCommit(r)
      PROVE  contested' = {} /\ doubled' = {}
    BY <1>5 DEF UserRequest, CreatePlatformUser, UpdateUserStatus, ActivatePlatformUser,
       CreatePlatformUserCommit, UpdateUserStatusCommit, Pass, history
<1>6. ASSUME NEW r \in Request,
             \/ \E user \in User : Login(r, user)
             \/ \E k \in Token : Refresh(r, k) \/ LoginCommit(r, k)
             \/ Abort(r)
      PROVE  contested' = {} /\ doubled' = {}
    BY <1>6 DEF Login, Refresh, LoginCommit, Abort, Pass, history
<1>7. ASSUME NEW user \in User, NEW k \in Token, Register(user, k)
      PROVE  contested' = {} /\ doubled' = {}
    BY <1>7 DEF Register, history
<1>8. ASSUME NEW user \in User, NEW reset \in BOOLEAN, BootstrapAdmin(user, reset)
      PROVE  contested' = {} /\ doubled' = {}
    BY <1>8 DEF BootstrapAdmin, history
<1>9. CASE UNCHANGED vars
    BY <1>9 DEF vars, history
<1> QED BY <1>1, <1>2, <1>3, <1>4, <1>5, <1>6, <1>7, <1>8, <1>9, OwnerAssumption
        DEF Next, AtOnce, TokenRequest

(* Then a token has one successor if it was exchanged and none otherwise,  *)
(* and an invitation was used once if it is marked so.                     *)
THEOREM SpentOnceInTurns == Spec /\ []UsersTakeTurns /\ LogoutsWait => []NoneSpentTwice
<1> DEFINE Uncontested == contested = {} /\ doubled = {}
           Waits == \A k \in Token : Logout(k) => \A r \in Request : ~Exchanges(r, k)
<1>1. Init => Uncontested
    BY DEF Init
<1>2. SpentOnce /\ Uncontested => NoneSpentTwice
    BY DEF SpentOnce, NoneSpentTwice
<1>3. TypeOK /\ UsersTakeTurns /\ Uncontested /\ [Next]_vars /\ [Waits]_vars => Uncontested'
    BY NoContest
<1>4. LogoutsWait => [][Waits]_vars
    BY DEF LogoutsWait
<1> HIDE DEF Uncontested, Waits
<1> QED BY <1>1, <1>2, <1>3, <1>4, TypeCorrect, SpendOnce, PTL DEF Spec
=============================================================================
