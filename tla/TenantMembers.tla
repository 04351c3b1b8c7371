--------------------------- MODULE TenantMembers ---------------------------
(***************************************************************************)
(* The members of one tenant, and the two APIs that change them: the role  *)
(* endpoints (auth_service.py), which take the member rows FOR UPDATE, and *)
(* the tenant endpoints (tenant_service.py), which take no lock.           *)
(*                                                                         *)
(* Requests run in different worker processes, each in a READ COMMITTED    *)
(* transaction.  A request that counts the admins does so in one action,   *)
(* and writes and commits in a later one.  A row that another transaction  *)
(* has locked makes the writer wait; a row that does not exist yet cannot  *)
(* be locked.                                                              *)
(***************************************************************************)
EXTENDS Integers, FiniteSets

CONSTANTS
    User,       \* user ids, numbered in the order of their member rows' ids
    Request,    \* requests that may be under way at once
    NoOp

ASSUME UserAssumption == User \subseteq Nat
ASSUME NoOpAssumption == NoOp \notin [api : STRING, actor : User, user : User, role : STRING]

VARIABLES
    role,       \* tenant_members rows: the role, "none" without a row
    pc, op,     \* per request: the point it has reached, and what it does
    want,       \* per request: rows its FOR UPDATE has yet to lock
    held,       \* per request: rows it has locked
    bypassed    \* history: a change went past the last-admin check

vars == <<role, pc, op, want, held, bypassed>>

Role == {"admin", "member"}
Op == [api : {"rbac", "tenants"}, actor : User, user : User, role : Role \cup {"none"}]

TypeOK ==
    /\ role \in [User -> Role \cup {"none"}]
    /\ pc \in [Request -> {"idle", "lock", "write"}]
    /\ op \in [Request -> Op \cup {NoOp}]
    /\ \A r \in Request : pc[r] # "idle" => op[r] \in Op
    /\ want \in [Request -> SUBSET User]
    /\ held \in [Request -> SUBSET User]
    /\ bypassed \in BOOLEAN

(* create and register leave a tenant with one member, its owner, an admin.*)
Init ==
    /\ \E owner \in User : role = [u \in User |-> IF u = owner THEN "admin" ELSE "none"]
    /\ pc = [r \in Request |-> "idle"]
    /\ op = [r \in Request |-> NoOp]
    /\ want = [r \in Request |-> {}]
    /\ held = [r \in Request |-> {}]
    /\ bypassed = FALSE

Members == {u \in User : role[u] # "none"}
Admins == {u \in User : role[u] = "admin"}

(* No other transaction has the row locked.  A Faulty... operator here and *)
(* below is a variant of the definition after it with a bug (here, rows    *)
(* read without FOR UPDATE); no specification uses it.                     *)
FaultyUnlocked(r, u) == TRUE
Unlocked(r, u) == \A q \in Request \ {r} : u \notin held[q]

(* The transaction is over, committed or rolled back: its locks go.  A row *)
(* that was deleted is skipped by whoever waits for it.                    *)
End(r, gone) ==
    /\ pc' = [pc EXCEPT ![r] = "idle"]
    /\ op' = [op EXCEPT ![r] = NoOp]
    /\ want' = [q \in Request |-> IF q = r THEN {} ELSE want[q] \ gone]
    /\ held' = [held EXCEPT ![r] = {}]

Refuse(r) == End(r, {}) /\ UNCHANGED <<role, bypassed>>

-----------------------------------------------------------------------------
(* The last-admin check.                                                   *)

FaultyLastAdmin(u) == role[u] = "admin" /\ Cardinality(Admins) < 1
LastAdmin(u) == role[u] = "admin" /\ Cardinality(Admins) <= 1

(* Two requests that take away, or set, a role below admin, and checked    *)
(* before either wrote, see each other's admins as still there.            *)
Lowers(r) == pc[r] = "write" /\ op[r].role # "admin"
UnderLock(r) == op[r].api = "rbac" /\ held[r] # {}

Pass(r, o, locked) ==
    /\ pc' = [pc EXCEPT ![r] = "write"]
    /\ op' = [op EXCEPT ![r] = o]
    /\ bypassed' = (bypassed \/ \E q \in Request :
                       Lowers(q) /\ o.role # "admin" /\ ~(UnderLock(q) /\ locked))
    /\ UNCHANGED <<role, want, held>>

-----------------------------------------------------------------------------
(* The role endpoints: grant_tenant_role and revoke_tenant_member.         *)

(* _lock_tenant_members: the rows that exist when the statement begins ... *)
Lock(r, o) ==
    /\ pc[r] = "idle"
    /\ pc' = [pc EXCEPT ![r] = "lock"]
    /\ op' = [op EXCEPT ![r] = o]
    /\ want' = [want EXCEPT ![r] = Members]
    /\ UNCHANGED <<role, held, bypassed>>

GrantTenantRole(r, actor, user, to) ==
    Lock(r, [api |-> "rbac", actor |-> actor, user |-> user, role |-> to])

RevokeTenantMember(r, actor, user) ==
    Lock(r, [api |-> "rbac", actor |-> actor, user |-> user, role |-> "none"])

(* ... in the order of their ids, each once no one else holds it.          *)
FaultyNextRow(r) == want[r]
NextRow(r) == {u \in want[r] : \A v \in want[r] : u <= v}

LockRow(r, u) ==
    /\ pc[r] = "lock"
    /\ u \in NextRow(r)
    /\ Unlocked(r, u)
    /\ want' = [want EXCEPT ![r] = @ \ {u}]
    /\ held' = [held EXCEPT ![r] = @ \cup {u}]
    /\ UNCHANGED <<role, pc, op, bypassed>>

(* The actor must be an admin, the member to revoke a member, and the last *)
(* admin keeps the role.                                                   *)
RoleChangeAllowed(o) ==
    /\ role[o.actor] = "admin"
    /\ o.role = "none" => role[o.user] # "none"
    /\ o.role # "admin" => ~LastAdmin(o.user)

CheckUnderLock(r) ==
    /\ pc[r] = "lock"
    /\ want[r] = {}
    /\ IF RoleChangeAllowed(op[r]) THEN Pass(r, op[r], held[r] # {}) ELSE Refuse(r)

-----------------------------------------------------------------------------
(* The tenant endpoints, for platform admins: no lock is taken.            *)

FaultyTenantsOp(user, to) == [api |-> "tenants", user |-> user, role |-> to]
TenantsOp(user, to) == [api |-> "tenants", actor |-> user, user |-> user, role |-> to]

RequireMember(user) == role[user] # "none"

(* update_member and remove_member check a member ...                      *)
UpdateMember(r, user, to) ==
    /\ pc[r] = "idle"
    /\ RequireMember(user)
    /\ to # "admin" => ~LastAdmin(user)
    /\ Pass(r, TenantsOp(user, to), FALSE)

RemoveMember(r, user) ==
    /\ pc[r] = "idle"
    /\ RequireMember(user)
    /\ ~LastAdmin(user)
    /\ Pass(r, TenantsOp(user, "none"), FALSE)

(* ... and write, as the role endpoints do: an upsert or a delete of one   *)
(* row, which waits for the row's lock, and the commit.                    *)
WriteMember(r) ==
    LET u == op[r].user IN
    /\ pc[r] = "write"
    /\ Unlocked(r, u)
    /\ role' = [role EXCEPT ![u] = op[r].role]
    /\ End(r, IF op[r].role = "none" THEN {u} ELSE {})
    /\ UNCHANGED bypassed

(* add_member upserts whatever role is asked for, and checks nothing.      *)
AddMember(user, to) ==
    /\ \A r \in Request : user \notin held[r]
    /\ role' = [role EXCEPT ![user] = to]
    /\ bypassed' = (bypassed \/ (role[user] = "admin" /\ to # "admin"))
    /\ UNCHANGED <<pc, op, want, held>>

(* update, to a new owner.                                                 *)
UpdateOwner(user) == AddMember(user, "admin")

(* The connection or the process goes: the transaction rolls back.         *)
Abort(r) ==
    /\ pc[r] # "idle"
    /\ Refuse(r)

-----------------------------------------------------------------------------
RequestStep(r) ==
    \/ \E actor, user \in User :
          \/ \E to \in Role : GrantTenantRole(r, actor, user, to)
          \/ RevokeTenantMember(r, actor, user)
    \/ \E u \in User :
          \/ LockRow(r, u)
          \/ \E to \in Role : UpdateMember(r, u, to)
          \/ RemoveMember(r, u)
    \/ CheckUnderLock(r)
    \/ WriteMember(r)
    \/ Abort(r)

Next ==
    \/ \E r \in Request : RequestStep(r)
    \/ \E u \in User : UpdateOwner(u) \/ \E to \in Role : AddMember(u, to)

Spec == Init /\ [][Next]_vars

-----------------------------------------------------------------------------
(* The tenant keeps an admin through any interleaving of role requests     *)
(* that hold the lock, and of tenant requests whose check did not overlap  *)
(* another.  A role request whose rows were all deleted while it waited    *)
(* holds no lock.                                                          *)
AdminRemains == ~bypassed => Admins # {}

(* A role request that checked its actor under the lock writes while the   *)
(* actor is still an admin.                                                *)
ActorStaysAdmin == \A r \in Request :
    pc[r] = "write" /\ op[r].api = "rbac" /\ op[r].actor \in held[r] =>
        role[op[r].actor] = "admin"

(* Requests that wait for one another's rows never wait in a circle: the   *)
(* rows are locked in the order of their ids.  The exception is a request  *)
(* that writes a row inserted after it took its locks.                     *)
WaitsFor(r, q) ==
    /\ pc[r] # "idle"
    /\ \E u \in held[q] : IF pc[r] = "write" THEN u = op[r].user ELSE u \in NextRow(r)
WritesNewRow(r) == pc[r] = "write" /\ held[r] # {} /\ op[r].user \in Members \ held[r]
NoCircularWait == \A waiting \in SUBSET Request :
    waiting # {} => \E r \in waiting :
        WritesNewRow(r) \/ \A q \in waiting \ {r} : ~WaitsFor(r, q)

(* docs/api/tenants.md: "TENANT_LAST_ADMIN protects a tenant from ending   *)
(* up with no admin member."                                               *)
TenantKeepsAdmin == Admins # {}
=============================================================================
