------------------------------ MODULE Billing ------------------------------
(***************************************************************************)
(* The plans and their prices (plan_service.py), the subscriptions of one  *)
(* tenant (subscription_service.py, tenant_service.py) and the tenant's    *)
(* own row.                                                                *)
(*                                                                         *)
(* Requests run in different worker processes, each in a READ COMMITTED    *)
(* transaction.  What a request reads, with the rows its UPDATEs and       *)
(* DELETEs find, is one action; its commit, when all it writes takes       *)
(* effect, a later one.  A row inserted in between is neither locked nor   *)
(* seen.  A unique or foreign-key violation at the commit aborts.          *)
(***************************************************************************)
EXTENDS FiniteSets, Naturals

CONSTANTS
    Plan,       \* plans that will ever be created
    Code,       \* plan codes, "free" among them
    Period,     \* billing periods
    Sub,        \* subscriptions the tenant will ever have
    Owner,      \* users that may own the tenant
    Request,    \* requests that may be under way at once
    NoOp, NoPlan

ASSUME CodeAssumption == "free" \in Code /\ {"none", "gone"} \cap Code = {}

VARIABLES
    code,       \* plans.code, "none" before the plan is there, "gone" after
    recommended,\* plans with is_recommended
    prices,     \* plan_prices: the periods each plan has an enabled price for
    state,      \* per subscription: "none", current for good or to a date, over
    planOf,     \* tenant_subscriptions.plan_id
    owner,      \* tenants.owner_user_id
    op,         \* per request: what it is about to commit, NoOp when idle
    overlapped, \* history: subscriptions inserted by overlapping requests
    missed,     \* history: a plan recommended behind a clearing request
    stale       \* history, per request: see Outdates

db == <<code, recommended, prices, state, planOf, owner>>
vars == <<db, op, overlapped, missed, stale>>

Op ==
    [kind : {"create"}, plan : Plan, code : Code, rec : BOOLEAN, seen : SUBSET Plan]
    \cup [kind : {"update"}, plan : Plan, code : Code, names : BOOLEAN,
          rec : BOOLEAN, keeps : BOOLEAN, seen : SUBSET Plan]
    \cup [kind : {"delete", "default"}, plan : Plan]
    \cup [kind : {"prices"}, plan : Plan, periods : SUBSET Period, seen : SUBSET Period]
    \cup [kind : {"subscribe"}, plan : Plan, state : {"open", "dated", "over"},
          seen : SUBSET Sub]
    \cup [kind : {"tenant"}, owner : Owner, keeps : BOOLEAN]

TypeOK ==
    /\ code \in [Plan -> Code \cup {"none", "gone"}]
    /\ recommended \subseteq Plan
    /\ prices \in [Plan -> SUBSET Period]
    /\ state \in [Sub -> {"none", "open", "dated", "over"}]
    /\ planOf \in [Sub -> Plan \cup {NoPlan}]
    /\ owner \in Owner
    /\ op \in [Request -> Op \cup {NoOp}]
    /\ overlapped \in BOOLEAN
    /\ missed \in BOOLEAN
    /\ stale \in [Request -> BOOLEAN]

(* The seeded free plan, and a tenant that was never asked about.          *)
Init ==
    /\ \E free \in Plan :
          /\ code = [p \in Plan |-> IF p = free THEN "free" ELSE "none"]
          /\ prices = [p \in Plan |-> IF p = free THEN Period ELSE {}]
    /\ recommended = {}
    /\ state = [s \in Sub |-> "none"]
    /\ planOf = [s \in Sub |-> NoPlan]
    /\ owner \in Owner
    /\ op = [r \in Request |-> NoOp]
    /\ overlapped = FALSE
    /\ missed = FALSE
    /\ stale = [r \in Request |-> FALSE]

Exists(p) == code[p] \in Code
Plans == {p \in Plan : Exists(p)}
Free == {p \in Plan : code[p] = "free"}

(* get_current: of several it returns the one whose period starts last,    *)
(* which may be any of them, as update_subscription is given the start.    *)
Current == {s \in Sub : state[s] \in {"open", "dated"}}

-----------------------------------------------------------------------------
(* Transactions.                                                           *)

Busy(r, kinds) == op[r] # NoOp /\ op[r].kind \in kinds

Pass(r, o) ==
    /\ op[r] = NoOp
    /\ op' = [op EXCEPT ![r] = o]
    /\ UNCHANGED <<db, overlapped, missed, stale>>

(* A commit outdates what other requests of the kinds have read.           *)
Commits(r, kind) ==
    /\ Busy(r, {kind})
    /\ op' = [op EXCEPT ![r] = NoOp]
Outdates(r, kinds) ==
    stale' = [q \in Request |-> q # r /\ (stale[q] \/ Busy(q, kinds))]

Abort(r) ==
    /\ op[r] # NoOp
    /\ op' = [op EXCEPT ![r] = NoOp]
    /\ Outdates(r, {})
    /\ UNCHANGED <<db, overlapped, missed>>

-----------------------------------------------------------------------------
(* Plans.                                                                  *)

(* clear_recommended_except of the plans it sees, then the plan's own row. *)
FaultyRecommend(o) == IF o.rec THEN recommended \cup {o.plan} ELSE recommended \ {o.plan}
Recommend(o) ==
    IF o.rec THEN (recommended \ o.seen) \cup {o.plan} ELSE recommended \ {o.plan}

(* A plan recommended that another request, about to recommend its own,    *)
(* did not see when it cleared the others.                                 *)
Misses(r) ==
    missed' = (missed \/ (op[r].rec /\ \E q \in Request \ {r} :
                  /\ Busy(q, {"create", "update"})
                  /\ op[q].rec
                  /\ op[r].plan \notin op[q].seen))

(* The statements on the plan's row; codes are unique.                     *)
InsertPlan(o) ==
    /\ code[o.plan] = "none"
    /\ \A p \in Plans : code[p] # o.code
    /\ code' = [code EXCEPT ![o.plan] = o.code]
WritePlan(o) ==
    /\ \A p \in Plans \ {o.plan} : code[p] # o.code
    /\ code' = [code EXCEPT ![o.plan] = o.code]

(* A code that is given, or the first unused one for the type's label.     *)
CreatePlan(r, plan, c, rec) ==
    Pass(r, [kind |-> "create", plan |-> plan, code |-> c, rec |-> rec, seen |-> Plans])

CreatePlanCommit(r) ==
    LET o == op[r] IN
    /\ Commits(r, "create")
    /\ InsertPlan(o)
    /\ recommended' = Recommend(o)
    /\ Misses(r)
    /\ Outdates(r, {"update", "delete"})
    /\ UNCHANGED <<prices, state, planOf, owner, overlapped>>

(* What the request leaves out is what the plan's row was read to be, and  *)
(* is written back.                                                        *)
FaultyKept(plan, keeps, rec) == IF keeps THEN FALSE ELSE rec
Kept(plan, keeps, rec) == IF keeps THEN plan \in recommended ELSE rec

UpdatePlan(r, plan, c, names, rec, keeps) ==
    /\ Exists(plan)
    /\ Pass(r, [kind |-> "update", plan |-> plan,
                code |-> IF names THEN c ELSE code[plan], names |-> names,
                rec |-> Kept(plan, keeps, rec), keeps |-> keeps, seen |-> Plans])

(* The UPDATE of a plan deleted meanwhile finds no row.                    *)
UpdatePlanCommit(r) ==
    LET o == op[r] IN
    /\ Commits(r, "update")
    /\ IF Exists(o.plan)
         THEN /\ WritePlan(o)
              /\ recommended' = Recommend(o)
              /\ Misses(r)
         ELSE /\ recommended' = IF o.rec THEN recommended \ o.seen ELSE recommended
              /\ UNCHANGED <<code, missed>>
    /\ Outdates(r, {"update", "delete"})
    /\ UNCHANGED <<prices, state, planOf, owner, overlapped>>

(* has_subscriptions counts those of every tenant and status.              *)
Subscribed(plan) == \E s \in Sub : state[s] # "none" /\ planOf[s] = plan

FaultyDeletePlan(r, plan) ==
    /\ Exists(plan)
    /\ ~Subscribed(plan)
    /\ Pass(r, [kind |-> "delete", plan |-> plan])
DeletePlan(r, plan) ==
    /\ Exists(plan)
    /\ code[plan] # "free"
    /\ ~Subscribed(plan)
    /\ Pass(r, [kind |-> "delete", plan |-> plan])

(* The foreign key restricts, and the prices go with the plan.             *)
DeletePlanCommit(r) ==
    LET plan == op[r].plan IN
    /\ Commits(r, "delete")
    /\ Exists(plan)
    /\ ~Subscribed(plan)
    /\ code' = [code EXCEPT ![plan] = "gone"]
    /\ recommended' = recommended \ {plan}
    /\ prices' = [prices EXCEPT ![plan] = {}]
    /\ Outdates(r, {"update", "delete", "prices"})
    /\ UNCHANGED <<state, planOf, owner, overlapped, missed>>

ReplacePrices(r, plan, periods) ==
    /\ Exists(plan)
    /\ Pass(r, [kind |-> "prices", plan |-> plan, periods |-> periods,
                seen |-> prices[plan]])

(* The DELETE leaves the prices inserted since it began; the same period   *)
(* among them is a unique violation.  Rows that are deleted here are gone  *)
(* for the others' DELETEs.                                                *)
Left(o) == prices[o.plan] \ o.seen
FaultyReplaced(o) == prices[o.plan] \cup o.periods
Replaced(o) == Left(o) \cup o.periods

ReplacePricesCommit(r) ==
    LET o == op[r] IN
    /\ Busy(r, {"prices"})
    /\ Exists(o.plan)
    /\ Left(o) \cap o.periods = {}
    /\ prices' = [prices EXCEPT ![o.plan] = Replaced(o)]
    /\ op' = [q \in Request |->
                 IF q = r THEN NoOp
                 ELSE IF Busy(q, {"prices"}) /\ op[q].plan = o.plan
                      THEN [op[q] EXCEPT !.seen = @ \ o.seen] ELSE op[q]]
    /\ Outdates(r, {"prices"})
    /\ UNCHANGED <<code, recommended, state, planOf, owner, overlapped, missed>>

-----------------------------------------------------------------------------
(* Subscriptions.                                                          *)

(* No constraint keeps a tenant from having two current subscriptions.     *)
Insert(r, s) ==
    /\ state[s] = "none"
    /\ Exists(op[r].plan)
    /\ planOf' = [planOf EXCEPT ![s] = op[r].plan]
    /\ overlapped' = (overlapped \/ \E q \in Request \ {r} :
                         Busy(q, {"default", "subscribe"}))
    /\ Outdates(r, {})
    /\ UNCHANGED <<code, recommended, prices, owner, missed>>

(* current_subscription: where there is none, a subscription to the free   *)
(* plan is inserted.  TenantService.get, with which the tenant's endpoints *)
(* begin and end, is such a request, in a transaction of its own.          *)
FaultyDefaultSubscription(r, plan) ==
    /\ plan \in Free
    /\ Pass(r, [kind |-> "default", plan |-> plan])
DefaultSubscription(r, plan) ==
    /\ Current = {}
    /\ plan \in Free
    /\ Pass(r, [kind |-> "default", plan |-> plan])

DefaultSubscriptionCommit(r, s) ==
    /\ Commits(r, "default")
    /\ Insert(r, s)
    /\ state' = [state EXCEPT ![s] = "open"]

(* update_subscription, to a plan with an enabled price, cancels what the  *)
(* tenant has, and inserts one of any status and period.                   *)
UpdateSubscription(r, plan, st) ==
    /\ Exists(plan)
    /\ prices[plan] # {}
    /\ Pass(r, [kind |-> "subscribe", plan |-> plan, state |-> st, seen |-> Current])

UpdateSubscriptionCommit(r, s) ==
    /\ Commits(r, "subscribe")
    /\ Insert(r, s)
    /\ state' = [t \in Sub |-> IF t = s THEN op[r].state
                               ELSE IF t \in op[r].seen THEN "over" ELSE state[t]]

(* current_period_end passes.                                              *)
Lapse(s) ==
    /\ state[s] = "dated"
    /\ state' = [state EXCEPT ![s] = "over"]
    /\ UNCHANGED <<code, recommended, prices, planOf, owner, op, overlapped,
                   missed, stale>>

-----------------------------------------------------------------------------
(* TenantService.update: without an owner in the request, the owner read   *)
(* is written back.                                                        *)
FaultyNextOwner(to, keeps) == IF keeps THEN NoOp ELSE to
NextOwner(to, keeps) == IF keeps THEN owner ELSE to

UpdateTenant(r, to, keeps) ==
    Pass(r, [kind |-> "tenant", owner |-> NextOwner(to, keeps), keeps |-> keeps])

UpdateTenantCommit(r) ==
    /\ Commits(r, "tenant")
    /\ owner' = op[r].owner
    /\ Outdates(r, {"tenant"})
    /\ UNCHANGED <<code, recommended, prices, state, planOf, overlapped, missed>>

-----------------------------------------------------------------------------
(* The endpoints of plans.py.                                              *)
PlanRequest(r) ==
    \/ \E plan \in Plan :
          \/ \E c \in Code, rec \in BOOLEAN :
                \/ CreatePlan(r, plan, c, rec)
                \/ \E names, keeps \in BOOLEAN : UpdatePlan(r, plan, c, names, rec, keeps)
          \/ DeletePlan(r, plan)
          \/ \E periods \in SUBSET Period : ReplacePrices(r, plan, periods)
    \/ CreatePlanCommit(r)
    \/ UpdatePlanCommit(r)
    \/ DeletePlanCommit(r)
    \/ ReplacePricesCommit(r)

(* The endpoints of tenants.py, and get_current_subscription.              *)
TenantRequest(r) ==
    \/ \E plan \in Plan :
          \/ DefaultSubscription(r, plan)
          \/ \E st \in {"open", "dated", "over"} : UpdateSubscription(r, plan, st)
    \/ \E s \in Sub : DefaultSubscriptionCommit(r, s) \/ UpdateSubscriptionCommit(r, s)
    \/ \E to \in Owner, keeps \in BOOLEAN : UpdateTenant(r, to, keeps)
    \/ UpdateTenantCommit(r)

Next ==
    \/ \E s \in Sub : Lapse(s)
    \/ \E r \in Request : PlanRequest(r) \/ TenantRequest(r) \/ Abort(r)

Spec == Init /\ [][Next]_vars

-----------------------------------------------------------------------------
(* The tenant has at most one current subscription, unless a request       *)
(* inserted one while another was between its read of the current ones and *)
(* its commit (current_subscription, update_subscription).                 *)
OneCurrent == ~overlapped => \A s, t \in Current : s = t

(* At most one plan is recommended, unless one was recommended that a      *)
(* concurrent request did not see when it cleared the others               *)
(* (clear_recommended_except).                                             *)
OneRecommended == ~missed => \A p, q \in recommended : p = q

(* An update changes no column its request leaves out (is_recommended and  *)
(* code of a plan, owner of a tenant), and replace_prices leaves the       *)
(* prices it was given, unless another commit came between the request's   *)
(* read of them and its own.                                               *)
Ended(r, kinds) == Busy(r, kinds) /\ ~Busy(r, kinds)'
Alone(r) == ~stale[r]
WritesWhatIsAsked == [][\A r \in Request : Alone(r) =>
    /\ UpdatePlanCommit(r) =>
          /\ op[r].keeps /\ ~missed => recommended' = recommended
          /\ ~op[r].names => code' = code
    /\ UpdateTenantCommit(r) /\ op[r].keeps => owner' = owner
    /\ ReplacePricesCommit(r) => prices'[op[r].plan] = op[r].periods]_vars

(* The plan the default subscription needs goes away only by a request to  *)
(* give it another code, or when its code was written between another      *)
(* request's read and its commit (PlanService.update and delete).          *)
FreePlanLostOnRequest == [][
    Free # {} /\ Free' = {} => \E r \in Request :
        \/ Ended(r, {"update"}) /\ op[r].names
        \/ Ended(r, {"update", "delete"}) /\ stale[r]]_vars
=============================================================================
