------------------------------ MODULE Accounts ------------------------------
(***************************************************************************)
(* Platform accounts: users' statuses, platform roles, the invitations     *)
(* that activate an account, and the refresh tokens that keep it logged in *)
(* (auth_service.py, bootstrap_admin.py).                                  *)
(*                                                                         *)
(* Requests run in different worker processes, each in a READ COMMITTED    *)
(* transaction: what a request reads, checks and decides is one action,    *)
(* and what it writes takes effect with its commit, in a later one.        *)
(* Nothing but revoke_platform_role locks what it has read.                *)
(***************************************************************************)
EXTENDS Integers, FiniteSets

CONSTANTS
    User,       \* users by email, registered or not
    Role,       \* PlatformRole: "admin", "operator" and any other
    Token,      \* refresh tokens that will ever be issued
    OwnerOf,    \* [Token -> User]: whom each is issued to
    Request,    \* requests that may be under way at once
    NoOp

ASSUME OwnerAssumption == OwnerOf \in [Token -> User]
ASSUME AdminAssumption == "admin" \in Role

VARIABLES
    status,     \* users.status, "none" before the row is there
    roles,      \* platform_user_roles
    invite,     \* platform_activation_tokens: "none", "sent" or "used"
    token,      \* refresh_tokens: "none", "live", or how revoked_at was set
    pc, op,     \* per request: the point it has reached, and what it does
    rows,       \* per request: rows its FOR UPDATE selected, then locked
    heirs,      \* history: tokens issued in exchange for this one
    uses,       \* history: activations with this user's invitation
    contested,  \* history: tokens exchanged while another request used them
    doubled,    \* history: invitations used by overlapping requests
    bypassed,   \* history: an admin's revocation passed without the lock
    stale       \* history, per request: see Outdates

db == <<status, roles, invite, token>>
history == <<heirs, uses, contested, doubled, bypassed>>
vars == <<db, pc, op, rows, history, stale>>

Row == User \X Role
Op ==
    [kind : {"grant"}, user : User, role : Role]
    \cup [kind : {"revoke"}, actor : User, user : User, role : Role]
    \cup [kind : {"delete"}, user : User, role : Role]
    \cup [kind : {"create"}, user : User, roles : SUBSET Role]
    \cup [kind : {"status"}, user : User, to : {"active", "disabled"}]
    \cup [kind : {"activate", "login"}, user : User]
    \cup [kind : {"refresh"}, user : User, token : Token]

TypeOK ==
    /\ status \in [User -> {"none", "pending", "active", "disabled"}]
    /\ roles \subseteq Row
    /\ invite \in [User -> {"none", "sent", "used"}]
    /\ token \in [Token -> {"none", "live", "exchanged", "out"}]
    /\ pc \in [Request -> {"idle", "lock", "write"}]
    /\ op \in [Request -> Op \cup {NoOp}]
    /\ \A r \in Request : pc[r] # "idle" => op[r] \in Op
    /\ \A r \in Request : pc[r] = "lock" => op[r].kind = "revoke"
    /\ rows \in [Request -> SUBSET Row]
    /\ heirs \in [Token -> Nat]
    /\ uses \in [User -> Nat]
    /\ contested \subseteq Token
    /\ doubled \subseteq User
    /\ bypassed \in BOOLEAN
    /\ stale \in [Request -> BOOLEAN]

(* A fresh deployment after bootstrap_admin.py.                            *)
Init ==
    /\ \E admin \in User :
          /\ status = [u \in User |-> IF u = admin THEN "active" ELSE "none"]
          /\ roles = {<<admin, "admin">>}
    /\ invite = [u \in User |-> "none"]
    /\ token = [k \in Token |-> "none"]
    /\ pc = [r \in Request |-> "idle"]
    /\ op = [r \in Request |-> NoOp]
    /\ rows = [r \in Request |-> {}]
    /\ heirs = [k \in Token |-> 0]
    /\ uses = [u \in User |-> 0]
    /\ contested = {}
    /\ doubled = {}
    /\ bypassed = FALSE
    /\ stale = [r \in Request |-> FALSE]

Has(u, role) == <<u, role>> \in roles
Admins == {u \in User : Has(u, "admin")}

(* platform_role_permissions: user_manage and role_grant.                  *)
Permitted(u) == Has(u, "admin") \/ Has(u, "operator")

(* current_principal reads the user's row on every request, and            *)
(* require_platform_permission the permissions of its roles.               *)
CurrentPrincipal(u) == status[u] = "active"
Manages(u) == CurrentPrincipal(u) /\ Permitted(u)

FindUserById(u) == status[u] # "none"

(* _can_grant_platform_role                                                *)
CanGrant(u, role) == Has(u, "admin") \/ (Has(u, "operator") /\ role # "admin")

-----------------------------------------------------------------------------
(* Transactions.                                                           *)

Busy(r) == pc[r] = "write"

(* Reads and checks are done: what is left is to write and to commit.      *)
Pass(r, o) ==
    /\ pc[r] = "idle"
    /\ pc' = [pc EXCEPT ![r] = "write"]
    /\ op' = [op EXCEPT ![r] = o]
    /\ UNCHANGED <<db, rows, history, stale>>

Ends(r, deleted) ==
    /\ pc' = [pc EXCEPT ![r] = "idle"]
    /\ op' = [op EXCEPT ![r] = NoOp]
    /\ rows' = [q \in Request |-> IF q = r THEN {} ELSE rows[q] \ deleted]
End(r) == Ends(r, {})

Commits(r, kind) == Busy(r) /\ op[r].kind = kind

(* A commit that writes a status outdates what other requests have read    *)
(* and rely on; r's own reads go with it.                                  *)
Relies(q) == Busy(q) /\ op[q].kind \in {"login", "refresh"}
Outdates(r) == stale' = [q \in Request |-> q # r /\ (stale[q] \/ Relies(q))]
Keeps(r) == stale' = [stale EXCEPT ![r] = FALSE]

(* An error, a lost connection or a crash: the transaction rolls back.     *)
Abort(r) ==
    /\ pc[r] # "idle"
    /\ End(r)
    /\ Keeps(r)
    /\ UNCHANGED <<db, history>>

-----------------------------------------------------------------------------
(* Platform roles.                                                         *)

GrantPlatformRole(r, actor, user, role) ==
    /\ Manages(actor)
    /\ CanGrant(actor, role)
    /\ FindUserById(user)
    /\ Pass(r, [kind |-> "grant", user |-> user, role |-> role])

(* on conflict do nothing                                                  *)
GrantPlatformRoleCommit(r) ==
    /\ Commits(r, "grant")
    /\ End(r)
    /\ roles' = roles \cup {<<op[r].user, op[r].role>>}
    /\ Keeps(r)
    /\ UNCHANGED <<status, invite, token, history>>

(* revoke_platform_role locks every role row its FOR UPDATE finds ...      *)
RevokePlatformRole(r, actor, user, role) ==
    /\ Manages(actor)
    /\ pc[r] = "idle"
    /\ pc' = [pc EXCEPT ![r] = "lock"]
    /\ op' = [op EXCEPT ![r] =
                 [kind |-> "revoke", actor |-> actor, user |-> user, role |-> role]]
    /\ rows' = [rows EXCEPT ![r] = roles]
    /\ UNCHANGED <<db, history, stale>>

(* ... waiting for those another request has locked; those deleted         *)
(* meanwhile are skipped.  (A Faulty... operator here and below is a variant   *)
(* of the definition after it with a bug; no specification uses it.)       *)
FaultyUnlocked(r, some) == TRUE
Unlocked(r, some) == \A q \in Request \ {r} : Busy(q) => rows[q] \cap some = {}

LastAdmin(u) == Admins = {u}

RevokesAdmin(r) == Busy(r) /\ op[r].kind = "delete" /\ op[r].role = "admin"

(* Two revocations of admins that checked before either wrote count each   *)
(* other's: only a request whose rows were all deleted while it waited,    *)
(* and that so has no lock, can do that.                                   *)
RevokePlatformRoleChecked(r) ==
    LET o == op[r]
        locked == rows[r] \cap roles
    IN
    /\ pc[r] = "lock"
    /\ Unlocked(r, locked)
    /\ CanGrant(o.actor, o.role)
    /\ FindUserById(o.user)
    /\ o.role = "admin" => ~LastAdmin(o.user)
    /\ pc' = [pc EXCEPT ![r] = "write"]
    /\ op' = [op EXCEPT ![r] = [kind |-> "delete", user |-> o.user, role |-> o.role]]
    /\ rows' = [rows EXCEPT ![r] = locked]
    /\ bypassed' = (bypassed \/ (o.role = "admin" /\ \E q \in Request :
                       RevokesAdmin(q) /\ (rows[q] = {} \/ locked = {})))
    /\ UNCHANGED <<db, heirs, uses, contested, doubled, stale>>

RevokePlatformRoleCommit(r) ==
    LET row == <<op[r].user, op[r].role>> IN
    /\ Commits(r, "delete")
    /\ Ends(r, {row})
    /\ Unlocked(r, {row})
    /\ roles' = roles \ {row}
    /\ Keeps(r)
    /\ UNCHANGED <<status, invite, token, history>>

-----------------------------------------------------------------------------
(* Users.                                                                  *)

CreatePlatformUser(r, actor, user, some) ==
    /\ Manages(actor)
    /\ \A role \in some : CanGrant(actor, role)
    /\ status[user] = "none"
    /\ Pass(r, [kind |-> "create", user |-> user, roles |-> some])

FaultyRoleRows(user, some) == {<<role, user>> : role \in some}
RoleRows(user, some) == {<<user, role>> : role \in some}

(* A unique violation on the email aborts.                                 *)
CreatePlatformUserCommit(r) ==
    LET user == op[r].user IN
    /\ Commits(r, "create")
    /\ End(r)
    /\ status[user] = "none"
    /\ status' = [status EXCEPT ![user] = "pending"]
    /\ roles' = roles \cup RoleRows(user, op[r].roles)
    /\ invite' = [invite EXCEPT ![user] = "sent"]
    /\ Outdates(r)
    /\ UNCHANGED <<token, history>>

(* update_user_status counts admins by their role rows, whatever their     *)
(* status, and locks none of them.                                         *)
UpdateUserStatus(r, actor, user, to) ==
    /\ Manages(actor)
    /\ FindUserById(user)
    /\ to = "disabled" => ~LastAdmin(user)
    /\ Pass(r, [kind |-> "status", user |-> user, to |-> to])

UpdateUserStatusCommit(r) ==
    /\ Commits(r, "status")
    /\ End(r)
    /\ status' = [status EXCEPT ![op[r].user] = op[r].to]
    /\ Outdates(r)
    /\ UNCHANGED <<roles, invite, token, history>>

(* activate_platform_user, with the invitation's token: whatever the       *)
(* user's status is by now, it becomes active.                             *)
FaultyActivatePlatformUser(r, user) ==
    /\ invite[user] # "none"
    /\ Pass(r, [kind |-> "activate", user |-> user])
ActivatePlatformUser(r, user) ==
    /\ invite[user] = "sent"
    /\ Pass(r, [kind |-> "activate", user |-> user])

Uses(q, kind, user) == Busy(q) /\ op[q].kind = kind /\ op[q].user = user

ActivatePlatformUserCommit(r) ==
    LET user == op[r].user IN
    /\ Commits(r, "activate")
    /\ End(r)
    /\ status' = [status EXCEPT ![user] = "active"]
    /\ invite' = [invite EXCEPT ![user] = "used"]
    /\ uses' = [uses EXCEPT ![user] = @ + 1]
    /\ doubled' = IF \E q \in Request \ {r} : Uses(q, "activate", user)
                    THEN doubled \cup {user} ELSE doubled
    /\ Outdates(r)
    /\ UNCHANGED <<roles, token, heirs, contested, bypassed>>

(* bootstrap_admin.py, run by hand: an account is created or promoted, and *)
(* with --reset-password made active again.                                *)
BootstrapAdmin(user, reset) ==
    LET activated == status[user] = "none" \/ reset IN
    /\ status' = IF activated THEN [status EXCEPT ![user] = "active"] ELSE status
    /\ roles' = roles \cup {<<user, "admin">>}
    /\ stale' = [q \in Request |-> stale[q] \/ (activated /\ Relies(q))]
    /\ UNCHANGED <<invite, token, pc, op, rows, history>>

-----------------------------------------------------------------------------
(* Refresh tokens.                                                         *)

Unissued(user) == {k \in Token : OwnerOf[k] = user /\ token[k] = "none"}

(* register: a new account, active and logged in at once.                  *)
Register(user, k) ==
    /\ status[user] = "none"
    /\ k \in Unissued(user)
    /\ status' = [status EXCEPT ![user] = "active"]
    /\ token' = [token EXCEPT ![k] = "live"]
    /\ stale' = [q \in Request |-> stale[q] \/ Relies(q)]
    /\ UNCHANGED <<roles, invite, pc, op, rows, history>>

FaultyLogin(r, user) ==
    /\ status[user] # "none"
    /\ Pass(r, [kind |-> "login", user |-> user])
Login(r, user) ==
    /\ status[user] = "active"
    /\ Pass(r, [kind |-> "login", user |-> user])

LoginCommit(r, k) ==
    /\ Commits(r, "login")
    /\ End(r)
    /\ k \in Unissued(op[r].user)
    /\ token' = [token EXCEPT ![k] = "live"]
    /\ Keeps(r)
    /\ UNCHANGED <<status, roles, invite, history>>

Refresh(r, k) ==
    /\ token[k] = "live"
    /\ status[OwnerOf[k]] = "active"
    /\ Pass(r, [kind |-> "refresh", user |-> OwnerOf[k], token |-> k])

Exchanges(q, k) == Busy(q) /\ op[q].kind = "refresh" /\ op[q].token = k
ContestedBy(r, k) ==
    contested' = IF \E q \in Request \ {r} : Exchanges(q, k)
                   THEN contested \cup {k} ELSE contested

(* The token is revoked where it is not yet, and k issued in any case.     *)
FaultyRefreshCommit(r, k) ==
    LET old == op[r].token IN
    /\ Commits(r, "refresh")
    /\ End(r)
    /\ k \in Unissued(op[r].user)
    /\ token' = [token EXCEPT ![k] = "live"]
    /\ heirs' = [heirs EXCEPT ![old] = @ + 1]
    /\ ContestedBy(r, old)
    /\ Keeps(r)
    /\ UNCHANGED <<status, roles, invite, uses, doubled, bypassed>>
RefreshCommit(r, k) ==
    LET old == op[r].token IN
    /\ Commits(r, "refresh")
    /\ End(r)
    /\ k \in Unissued(op[r].user)
    /\ token' = [token EXCEPT ![old] = IF @ = "live" THEN "exchanged" ELSE @,
                              ![k] = "live"]
    /\ heirs' = [heirs EXCEPT ![old] = @ + 1]
    /\ ContestedBy(r, old)
    /\ Keeps(r)
    /\ UNCHANGED <<status, roles, invite, uses, doubled, bypassed>>

(* The statement waits for no one who has only read the token.             *)
Logout(k) ==
    /\ token[k] = "live"
    /\ token' = [token EXCEPT ![k] = "out"]
    /\ contested' = IF \E q \in Request : Exchanges(q, k)
                      THEN contested \cup {k} ELSE contested
    /\ UNCHANGED <<status, roles, invite, pc, op, rows, heirs, uses, doubled,
                   bypassed, stale>>

-----------------------------------------------------------------------------
(* The platform endpoints of rbac.py.                                      *)
RoleRequest(r) ==
    \/ \E actor, user \in User : \E role \in Role :
          GrantPlatformRole(r, actor, user, role) \/ RevokePlatformRole(r, actor, user, role)
    \/ GrantPlatformRoleCommit(r)
    \/ RevokePlatformRoleChecked(r)
    \/ RevokePlatformRoleCommit(r)

(* The endpoints of users.py.                                              *)
UserRequest(r) ==
    \/ \E actor, user \in User :
          \/ \E some \in (SUBSET Role) \ {{}} : CreatePlatformUser(r, actor, user, some)
          \/ \E to \in {"active", "disabled"} : UpdateUserStatus(r, actor, user, to)
    \/ \E user \in User : ActivatePlatformUser(r, user)
    \/ CreatePlatformUserCommit(r)
    \/ UpdateUserStatusCommit(r)
    \/ ActivatePlatformUserCommit(r)

(* The endpoints of auth.py, but for logout.                               *)
TokenRequest(r) ==
    \/ \E user \in User : Login(r, user)
    \/ \E k \in Token : Refresh(r, k) \/ LoginCommit(r, k) \/ RefreshCommit(r, k)

AtOnce ==
    \/ \E user \in User : \E reset \in BOOLEAN : BootstrapAdmin(user, reset)
    \/ \E k \in Token : Register(OwnerOf[k], k) \/ Logout(k)

Next ==
    \/ AtOnce
    \/ \E r \in Request : RoleRequest(r) \/ UserRequest(r) \/ TokenRequest(r) \/ Abort(r)

Spec == Init /\ [][Next]_vars

-----------------------------------------------------------------------------
(* Someone holds the admin role through every interleaving of grants,      *)
(* creations and revocations, as long as revocations found a row to lock   *)
(* (revoke_platform_role).  It does not say that this admin is active:     *)
(* update_user_status counts role rows of disabled users too.              *)
AdminRemains == ~bypassed => Admins # {}

(* The last holder of the admin role is not disabled (docs/api/users.md on *)
(* PATCH status): at the write, another user holds the role.               *)
DisableSparesLastAdmin == [][\A u \in User :
    status[u] # "disabled" /\ status'[u] = "disabled" => Admins' # {u}]_vars

(* What is good for one use is used once: a refresh token is revoked in    *)
(* exchange for exactly one other, or logged out for none (refresh,        *)
(* logout), and an invitation activates its account once                   *)
(* (activate_platform_user).  The exceptions are a token exchanged or      *)
(* logged out, and an invitation used, between another request's read of   *)
(* it and that request's commit.                                           *)
SpentOnce ==
    /\ \A k \in Token : k \notin contested =>
          heirs[k] = IF token[k] = "exchanged" THEN 1 ELSE 0
    /\ \A u \in User : u \notin doubled =>
          uses[u] = IF invite[u] = "used" THEN 1 ELSE 0

(* A refresh token is issued to an active user only, unless the user's     *)
(* status was written between the check and the commit (login, refresh).   *)
TokensGoToActiveUsers == [][\A k \in Token :
    token[k] = "none" /\ token'[k] = "live" =>
        \/ status'[OwnerOf[k]] = "active"
        \/ \E r \in Request : Busy(r) /\ ~Busy(r)' /\ stale[r]]_vars
=============================================================================
