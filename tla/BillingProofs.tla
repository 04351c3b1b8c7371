--------------------------- MODULE BillingProofs ----------------------------
(***************************************************************************)
(* Proofs about Billing, for every set of plans, codes, periods,           *)
(* subscriptions, owners and requests.                                     *)
(***************************************************************************)
EXTENDS Billing, TLAPS

(* Until inserts overlap, who is about to insert has seen what is current. *)
CurrentInv == ~overlapped =>
    /\ \A s, t \in Current : s = t
    /\ \A r \in Request :
          /\ Busy(r, {"default"}) => Current = {}
          /\ Busy(r, {"subscribe"}) => Current \subseteq op[r].seen

(* Until one is missed, who is about to recommend a plan will clear all    *)
(* other recommended ones.                                                 *)
RecommendInv ==
    /\ recommended \subseteq Plans
    /\ ~missed =>
          /\ \A p, q \in recommended : p = q
          /\ \A r \in Request : Busy(r, {"create", "update"}) /\ op[r].rec =>
                recommended \subseteq op[r].seen \cup {op[r].plan}

(* What a request has read is so until another's commit outdates it.       *)
ReadInv == \A r \in Request : ~stale[r] =>
    /\ Busy(r, {"update"}) =>
          /\ op[r].keeps => (op[r].rec <=> op[r].plan \in recommended)
          /\ ~op[r].names => code[op[r].plan] = op[r].code
    /\ Busy(r, {"delete"}) => code[op[r].plan] # "free"
    /\ Busy(r, {"prices"}) => prices[op[r].plan] \subseteq op[r].seen
    /\ Busy(r, {"tenant"}) /\ op[r].keeps => op[r].owner = owner

-----------------------------------------------------------------------------

(* The fields of what a request does, by its kind.                         *)
LEMMA OpFields ==
    ASSUME NEW o \in Op
    PROVE  /\ o.kind # "tenant" => o.plan \in Plan
           /\ o.kind \in {"create", "update"} => o.code \in Code /\ o.rec \in BOOLEAN /\ o.seen \subseteq Plan
           /\ o.kind = "update" => o.names \in BOOLEAN /\ o.keeps \in BOOLEAN
           /\ o.kind = "prices" => o.periods \subseteq Period /\ o.seen \subseteq Period
           /\ o.kind = "subscribe" => o.state \in {"open", "dated", "over"} /\ o.seen \subseteq Sub
           /\ o.kind = "tenant" => o.owner \in Owner
<1>1. \/ o \in [kind : {"create"}, plan : Plan, code : Code, rec : BOOLEAN, seen : SUBSET Plan]
      \/ o \in [kind : {"update"}, plan : Plan, code : Code, names : BOOLEAN,
                   rec : BOOLEAN, keeps : BOOLEAN, seen : SUBSET Plan]
      \/ o \in [kind : {"delete", "default"}, plan : Plan]
      \/ o \in [kind : {"prices"}, plan : Plan, periods : SUBSET Period, seen : SUBSET Period]
      \/ o \in [kind : {"subscribe"}, plan : Plan, state : {"open", "dated", "over"},
                   seen : SUBSET Sub]
      \/ o \in [kind : {"tenant"}, owner : Owner, keeps : BOOLEAN]
    BY DEF Op
<1>2. CASE o \in [kind : {"create"}, plan : Plan, code : Code, rec : BOOLEAN, seen : SUBSET Plan]
    BY <1>2
<1>3. CASE o \in [kind : {"update"}, plan : Plan, code : Code, names : BOOLEAN,
             rec : BOOLEAN, keeps : BOOLEAN, seen : SUBSET Plan]
    BY <1>3
<1>4. CASE o \in [kind : {"delete", "default"}, plan : Plan]
    BY <1>4
<1>5. CASE o \in [kind : {"prices"}, plan : Plan, periods : SUBSET Period, seen : SUBSET Period]
    BY <1>5
<1>6. CASE o \in [kind : {"subscribe"}, plan : Plan, state : {"open", "dated", "over"},
             seen : SUBSET Sub]
    BY <1>6
<1>7. CASE o \in [kind : {"tenant"}, owner : Owner, keeps : BOOLEAN]
    BY <1>7
<1> QED BY <1>1, <1>2, <1>3, <1>4, <1>5, <1>6, <1>7

(* A request that has read what it needs keeps the types.                  *)
LEMMA PassType ==
    ASSUME TypeOK, NEW r \in Request, NEW o \in Op, Pass(r, o)
    PROVE  TypeOK'
BY DEF Pass, TypeOK, db

(* What a commit leaves of requests has its type.                          *)
LEMMA CommitType ==
    ASSUME TypeOK, NEW r \in Request, NEW kinds,
           op' = [op EXCEPT ![r] = NoOp], Outdates(r, kinds)
    PROVE  op' \in [Request -> Op \cup {NoOp}] /\ stale' \in [Request -> BOOLEAN]
BY DEF Outdates, Busy, TypeOK

(* No step leaves the declared ranges.                                     *)
LEMMA TypeStep == TypeOK /\ [Next]_vars => TypeOK'
<1> SUFFICES ASSUME TypeOK, [Next]_vars PROVE TypeOK'
    OBVIOUS
<1>1. ASSUME NEW r \in Request, NEW plan \in Plan, NEW c \in Code, NEW rec \in
   BOOLEAN, CreatePlan(r, plan, c, rec) PROVE TypeOK'
  <2>0. Plans \in SUBSET Plan
    BY DEF Plans
  <2>1. PICK o \in Op : Pass(r, o)
    BY <1>1, <2>0 DEF CreatePlan, Op
  <2> QED BY <2>1, PassType
<1>2. ASSUME NEW r \in Request, NEW plan \in Plan, NEW c \in Code, NEW names
   \in BOOLEAN, NEW rec \in BOOLEAN, NEW keeps \in BOOLEAN, UpdatePlan(r,
   plan, c, names, rec, keeps) PROVE TypeOK'
  <2> DEFINE o == [kind |-> "update", plan |-> plan,
                   code |-> IF names THEN c ELSE code[plan], names |-> names,
                   rec |-> Kept(plan, keeps, rec), keeps |-> keeps, seen |-> Plans]
  <2>1. Plans \subseteq Plan /\ (IF names THEN c ELSE code[plan]) \in Code
    BY <1>2 DEF UpdatePlan, Exists, Plans
  <2>2. Kept(plan, keeps, rec) \in BOOLEAN
    <3>1. CASE keeps
      BY <3>1 DEF Kept
    <3>2. CASE ~keeps
      BY <3>2 DEF Kept
    <3> QED BY <3>1, <3>2
  <2>3. o \in Op
    BY <2>1, <2>2 DEF Op
  <2>4. Pass(r, o)
    BY <1>2 DEF UpdatePlan
  <2> QED BY <2>3, <2>4, PassType
<1>3. ASSUME NEW r \in Request, NEW plan \in Plan, DeletePlan(r, plan) PROVE
   TypeOK'
  <2>1. PICK o \in Op : Pass(r, o)
    BY <1>3 DEF DeletePlan, Op
  <2> QED BY <2>1, PassType
<1>4. ASSUME NEW r \in Request, NEW plan \in Plan, NEW periods \in SUBSET
   Period, ReplacePrices(r, plan, periods) PROVE TypeOK'
  <2>0. prices[plan] \in SUBSET Period
    BY DEF TypeOK
  <2>1. PICK o \in Op : Pass(r, o)
    BY <1>4, <2>0 DEF ReplacePrices, Op
  <2> QED BY <2>1, PassType
<1>5. ASSUME NEW r \in Request, CreatePlanCommit(r) PROVE TypeOK'
  <2>1. op[r] \in Op /\ op[r].kind \in {"create", "update", "delete", "default", "prices", "subscribe", "tenant"}
    BY <1>5 DEF CreatePlanCommit, Commits, Busy, TypeOK
  <2>2. op[r].plan \in Plan /\ op[r].code \in Code
    BY <1>5, <2>1, OpFields DEF CreatePlanCommit, Commits, Busy
  <2>3. op' \in [Request -> Op \cup {NoOp}] /\ stale' \in [Request -> BOOLEAN]
    BY <1>5, CommitType DEF CreatePlanCommit, Commits
  <2>4. recommended' \subseteq Plan
    BY <1>5, <2>2 DEF CreatePlanCommit, Recommend, TypeOK
  <2>5. missed' \in BOOLEAN
    BY <1>5 DEF CreatePlanCommit, Misses, Busy, TypeOK
  <2> QED BY <1>5, <2>2, <2>3, <2>4, <2>5 DEF CreatePlanCommit, InsertPlan, TypeOK
<1>6. ASSUME NEW r \in Request, UpdatePlanCommit(r) PROVE TypeOK'
  <2>1. op[r] \in Op /\ op[r].kind \in {"create", "update", "delete", "default", "prices", "subscribe", "tenant"}
    BY <1>6 DEF UpdatePlanCommit, Commits, Busy, TypeOK
  <2>2. op[r].plan \in Plan /\ op[r].code \in Code
    BY <1>6, <2>1, OpFields DEF UpdatePlanCommit, Commits, Busy
  <2>3. op' \in [Request -> Op \cup {NoOp}] /\ stale' \in [Request -> BOOLEAN]
    BY <1>6, CommitType DEF UpdatePlanCommit, Commits
  <2>4. recommended' \subseteq Plan
    BY <1>6, <2>2 DEF UpdatePlanCommit, Recommend, TypeOK
  <2>5. missed' \in BOOLEAN
    BY <1>6 DEF UpdatePlanCommit, Misses, Busy, TypeOK
  <2> QED BY <1>6, <2>2, <2>3, <2>4, <2>5 DEF UpdatePlanCommit, WritePlan, TypeOK
<1>7. ASSUME NEW r \in Request, DeletePlanCommit(r) PROVE TypeOK'
  <2>1. op[r] \in Op /\ op[r].kind \in {"create", "update", "delete", "default", "prices", "subscribe", "tenant"}
    BY <1>7 DEF DeletePlanCommit, Commits, Busy, TypeOK
  <2>2. op[r].plan \in Plan
    BY <1>7, <2>1, OpFields DEF DeletePlanCommit, Commits, Busy
  <2>3. op' \in [Request -> Op \cup {NoOp}] /\ stale' \in [Request -> BOOLEAN]
    BY <1>7, CommitType DEF DeletePlanCommit, Commits
  <2> QED BY <1>7, <2>2, <2>3 DEF DeletePlanCommit, TypeOK
<1>8. ASSUME NEW r \in Request, ReplacePricesCommit(r) PROVE TypeOK'
  <2>1. op[r] \in Op /\ op[r].kind = "prices"
    BY <1>8 DEF ReplacePricesCommit, Busy, TypeOK
  <2>2. op[r].plan \in Plan /\ op[r].periods \subseteq Period /\ op[r].seen \subseteq Period
    BY <2>1, OpFields
  <2>3. prices' \in [Plan -> SUBSET Period]
    BY <1>8, <2>2 DEF ReplacePricesCommit, Replaced, Left, TypeOK
  <2>4. ASSUME NEW q \in Request, op[q] \in Op, op[q].kind = "prices"
        PROVE  [op[q] EXCEPT !.seen = @ \ op[r].seen] \in Op
    <3>1. op[q] \in [kind : {"prices"}, plan : Plan, periods : SUBSET Period, seen : SUBSET Period]
      BY <2>4 DEF Op
    <3>2. [op[q] EXCEPT !.seen = @ \ op[r].seen] \in
             [kind : {"prices"}, plan : Plan, periods : SUBSET Period, seen : SUBSET Period]
      BY <3>1
    <3> QED BY <3>2 DEF Op
  <2>5. \A q \in Request : op'[q] \in Op \cup {NoOp}
    BY <1>8, <2>4 DEF ReplacePricesCommit, Busy, TypeOK
  <2>6. stale' \in [Request -> BOOLEAN]
    BY <1>8 DEF ReplacePricesCommit, Outdates, Busy, TypeOK
  <2>7. op' \in [Request -> Op \cup {NoOp}]
    BY <1>8, <2>5 DEF ReplacePricesCommit
  <2> QED BY <1>8, <2>3, <2>6, <2>7 DEF ReplacePricesCommit, TypeOK
<1>9. ASSUME NEW r \in Request, NEW plan \in Plan, DefaultSubscription(r,
   plan) PROVE TypeOK'
  <2>1. PICK o \in Op : Pass(r, o)
    BY <1>9 DEF DefaultSubscription, Op
  <2> QED BY <2>1, PassType
<1>10. ASSUME NEW r \in Request, NEW plan \in Plan, NEW st \in {"open",
   "dated", "over"}, UpdateSubscription(r, plan, st) PROVE TypeOK'
  <2>0. Current \in SUBSET Sub
    BY DEF Current
  <2>1. PICK o \in Op : Pass(r, o)
    BY <1>10, <2>0 DEF UpdateSubscription, Op
  <2> QED BY <2>1, PassType
<1>11. ASSUME NEW r \in Request, NEW s \in Sub, DefaultSubscriptionCommit(r,
   s) PROVE TypeOK'
  <2>1. op[r] \in Op /\ op[r].kind \in {"create", "update", "delete", "default", "prices", "subscribe", "tenant"}
    BY <1>11 DEF DefaultSubscriptionCommit, Commits, Busy, TypeOK
  <2>2. op[r].plan \in Plan
    BY <1>11, <2>1, OpFields DEF DefaultSubscriptionCommit, Commits, Busy
  <2>3. op' \in [Request -> Op \cup {NoOp}] /\ stale' \in [Request -> BOOLEAN]
    BY <1>11, CommitType DEF DefaultSubscriptionCommit, Commits, Insert
  <2>4. overlapped' \in BOOLEAN
    BY <1>11 DEF DefaultSubscriptionCommit, Insert, Busy, TypeOK
  <2> QED BY <1>11, <2>2, <2>3, <2>4 DEF DefaultSubscriptionCommit, Insert, TypeOK
<1>12. ASSUME NEW r \in Request, NEW s \in Sub, UpdateSubscriptionCommit(r, s)
   PROVE TypeOK'
  <2>1. op[r] \in Op /\ op[r].kind \in {"create", "update", "delete", "default", "prices", "subscribe", "tenant"}
    BY <1>12 DEF UpdateSubscriptionCommit, Commits, Busy, TypeOK
  <2>2. op[r].plan \in Plan /\ op[r].state \in {"open", "dated", "over"}
    BY <1>12, <2>1, OpFields DEF UpdateSubscriptionCommit, Commits, Busy
  <2>3. op' \in [Request -> Op \cup {NoOp}] /\ stale' \in [Request -> BOOLEAN]
    BY <1>12, CommitType DEF UpdateSubscriptionCommit, Commits, Insert
  <2>4. overlapped' \in BOOLEAN
    BY <1>12 DEF UpdateSubscriptionCommit, Insert, Busy, TypeOK
  <2> QED BY <1>12, <2>2, <2>3, <2>4 DEF UpdateSubscriptionCommit, Insert, TypeOK
<1>13. ASSUME NEW r \in Request, NEW to \in Owner, NEW keeps \in BOOLEAN,
   UpdateTenant(r, to, keeps) PROVE TypeOK'
  <2>0. NextOwner(to, keeps) \in Owner
    BY DEF NextOwner, TypeOK
  <2>1. PICK o \in Op : Pass(r, o)
    BY <1>13, <2>0 DEF UpdateTenant, Op
  <2> QED BY <2>1, PassType
<1>14. ASSUME NEW r \in Request, UpdateTenantCommit(r) PROVE TypeOK'
  <2>1. op[r] \in Op /\ op[r].kind \in {"create", "update", "delete", "default", "prices", "subscribe", "tenant"}
    BY <1>14 DEF UpdateTenantCommit, Commits, Busy, TypeOK
  <2>2. op[r].owner \in Owner
    BY <1>14, <2>1, OpFields DEF UpdateTenantCommit, Commits, Busy
  <2>3. op' \in [Request -> Op \cup {NoOp}] /\ stale' \in [Request -> BOOLEAN]
    BY <1>14, CommitType DEF UpdateTenantCommit, Commits
  <2> QED BY <1>14, <2>2, <2>3 DEF UpdateTenantCommit, TypeOK
<1>15. ASSUME NEW r \in Request, Abort(r) PROVE TypeOK'
  <2>1. op' \in [Request -> Op \cup {NoOp}] /\ stale' \in [Request -> BOOLEAN]
    BY <1>15, CommitType DEF Abort
  <2> QED BY <1>15, <2>1 DEF Abort, db, TypeOK
<1>16. ASSUME NEW s \in Sub, Lapse(s) PROVE TypeOK'
    BY <1>16 DEF Lapse, TypeOK
<1>17. CASE UNCHANGED vars
    BY <1>17 DEF vars, db, TypeOK
<1>18. ASSUME NEW r \in Request, PlanRequest(r) PROVE TypeOK'
    BY <1>18, <1>1, <1>2, <1>3, <1>4, <1>5, <1>6, <1>7, <1>8 DEF PlanRequest
<1>19. ASSUME NEW r \in Request, TenantRequest(r) PROVE TypeOK'
    BY <1>19, <1>9, <1>10, <1>11, <1>12, <1>13, <1>14 DEF TenantRequest
<1> QED BY <1>15, <1>16, <1>17, <1>18, <1>19 DEF Next

(* A commit that was missed by none about to recommend keeps the rule.     *)
LEMMA Recommended ==
    ASSUME TypeOK, RecommendInv, NEW r \in Request, Busy(r, {"create", "update"}),
           op[r].rec \in BOOLEAN, recommended' = Recommend(op[r]), Misses(r),
           recommended' \subseteq recommended \cup (IF op[r].rec THEN {op[r].plan} ELSE {}),
           recommended' \subseteq Plans',
           \A q \in Request : Busy(q, {"create", "update"})' =>
               q # r /\ op'[q] = op[q] /\ Busy(q, {"create", "update"})
    PROVE  RecommendInv'
<1> SUFFICES ASSUME ~missed'
             PROVE  /\ \A p, q \in recommended' : p = q
                    /\ \A q \in Request : Busy(q, {"create", "update"})' /\ op'[q].rec =>
                          recommended' \subseteq op'[q].seen \cup {op'[q].plan}
    BY DEF RecommendInv
<1>1. ~missed
    BY DEF Misses
<1>2. CASE op[r].rec
    <2>1. recommended' = {op[r].plan}
        BY <1>1, <1>2 DEF Recommend, RecommendInv
    <2>2. ASSUME NEW q \in Request, Busy(q, {"create", "update"})', op'[q].rec
          PROVE  op[r].plan \in op'[q].seen
        BY <1>2, <2>2 DEF Misses
    <2> QED BY <2>1, <2>2
<1>3. CASE ~op[r].rec
    <2>1. recommended' \subseteq recommended
        BY <1>3
    <2> QED BY <1>1, <2>1 DEF RecommendInv
<1> QED BY <1>2, <1>3

(* An insert cancels what is current, or there was nothing to cancel.      *)
LEMMA CurrentStep == TypeOK /\ CurrentInv /\ [Next]_vars => CurrentInv'
<1> SUFFICES ASSUME TypeOK, CurrentInv, [Next]_vars PROVE CurrentInv'
    OBVIOUS
<1> USE DEF Busy, Current
<1>1. ASSUME NEW r \in Request, NEW plan \in Plan, NEW c \in Code, NEW rec \in
   BOOLEAN, CreatePlan(r, plan, c, rec) PROVE CurrentInv'
    BY <1>1 DEF CreatePlan, Pass, db, TypeOK, CurrentInv
<1>2. ASSUME NEW r \in Request, NEW plan \in Plan, NEW c \in Code, NEW names
   \in BOOLEAN, NEW rec \in BOOLEAN, NEW keeps \in BOOLEAN, UpdatePlan(r,
   plan, c, names, rec, keeps) PROVE CurrentInv'
    BY <1>2 DEF UpdatePlan, Pass, db, TypeOK, CurrentInv
<1>3. ASSUME NEW r \in Request, NEW plan \in Plan, DeletePlan(r, plan) PROVE
   CurrentInv'
    BY <1>3 DEF DeletePlan, Pass, db, TypeOK, CurrentInv
<1>4. ASSUME NEW r \in Request, NEW plan \in Plan, NEW periods \in SUBSET
   Period, ReplacePrices(r, plan, periods) PROVE CurrentInv'
    BY <1>4 DEF ReplacePrices, Pass, db, TypeOK, CurrentInv
<1>5. ASSUME NEW r \in Request, CreatePlanCommit(r) PROVE CurrentInv'
    BY <1>5 DEF CreatePlanCommit, Commits, Outdates, TypeOK, CurrentInv
<1>6. ASSUME NEW r \in Request, UpdatePlanCommit(r) PROVE CurrentInv'
    BY <1>6 DEF UpdatePlanCommit, Commits, Outdates, TypeOK, CurrentInv
<1>7. ASSUME NEW r \in Request, DeletePlanCommit(r) PROVE CurrentInv'
    BY <1>7 DEF DeletePlanCommit, Commits, Outdates, TypeOK, CurrentInv
<1>8. ASSUME NEW r \in Request, ReplacePricesCommit(r) PROVE CurrentInv'
    BY <1>8 DEF ReplacePricesCommit, Outdates, TypeOK, CurrentInv
<1>9. ASSUME NEW r \in Request, NEW plan \in Plan, DefaultSubscription(r,
   plan) PROVE CurrentInv'
    BY <1>9 DEF DefaultSubscription, Pass, db, TypeOK, CurrentInv
<1>10. ASSUME NEW r \in Request, NEW plan \in Plan, NEW st \in {"open",
   "dated", "over"}, UpdateSubscription(r, plan, st) PROVE CurrentInv'
    BY <1>10 DEF UpdateSubscription, Pass, db, TypeOK, CurrentInv
<1>11. ASSUME NEW r \in Request, NEW s \in Sub, DefaultSubscriptionCommit(r,
   s) PROVE CurrentInv'
    BY <1>11 DEF DefaultSubscriptionCommit, Commits, Insert, Outdates, TypeOK,
       CurrentInv
<1>12. ASSUME NEW r \in Request, NEW s \in Sub, UpdateSubscriptionCommit(r, s)
   PROVE CurrentInv'
    BY <1>12 DEF UpdateSubscriptionCommit, Commits, Insert, Outdates, TypeOK,
       CurrentInv
<1>13. ASSUME NEW r \in Request, NEW to \in Owner, NEW keeps \in BOOLEAN,
   UpdateTenant(r, to, keeps) PROVE CurrentInv'
    BY <1>13 DEF UpdateTenant, Pass, NextOwner, db, TypeOK, CurrentInv
<1>14. ASSUME NEW r \in Request, UpdateTenantCommit(r) PROVE CurrentInv'
    BY <1>14 DEF UpdateTenantCommit, Commits, Outdates, TypeOK, CurrentInv
<1>15. ASSUME NEW r \in Request, Abort(r) PROVE CurrentInv'
    BY <1>15 DEF Abort, Outdates, db, TypeOK, CurrentInv
<1>16. ASSUME NEW s \in Sub, Lapse(s) PROVE CurrentInv'
    BY <1>16 DEF Lapse, TypeOK, CurrentInv
<1>17. CASE UNCHANGED vars
    BY <1>17 DEF vars, db, TypeOK, CurrentInv
<1> HIDE DEF Busy, Current
<1>18. ASSUME NEW r \in Request, PlanRequest(r) PROVE CurrentInv'
    BY <1>18, <1>1, <1>2, <1>3, <1>4, <1>5, <1>6, <1>7, <1>8 DEF PlanRequest
<1>19. ASSUME NEW r \in Request, TenantRequest(r) PROVE CurrentInv'
    BY <1>19, <1>9, <1>10, <1>11, <1>12, <1>13, <1>14 DEF TenantRequest
<1> QED BY <1>15, <1>16, <1>17, <1>18, <1>19 DEF Next

(* A plan is recommended as all others it can see are cleared.             *)
LEMMA RecommendStep == TypeOK /\ RecommendInv /\ [Next]_vars => RecommendInv'
<1> SUFFICES ASSUME TypeOK, RecommendInv, [Next]_vars PROVE RecommendInv'
    OBVIOUS
<1> USE DEF Busy, Plans, Exists
<1>1. ASSUME NEW r \in Request, NEW plan \in Plan, NEW c \in Code, NEW rec \in
   BOOLEAN, CreatePlan(r, plan, c, rec) PROVE RecommendInv'
    BY <1>1 DEF CreatePlan, Pass, db, TypeOK, RecommendInv
<1>2. ASSUME NEW r \in Request, NEW plan \in Plan, NEW c \in Code, NEW names
   \in BOOLEAN, NEW rec \in BOOLEAN, NEW keeps \in BOOLEAN, UpdatePlan(r,
   plan, c, names, rec, keeps) PROVE RecommendInv'
    BY <1>2 DEF UpdatePlan, Pass, db, TypeOK, RecommendInv
<1>3. ASSUME NEW r \in Request, NEW plan \in Plan, DeletePlan(r, plan) PROVE
   RecommendInv'
    BY <1>3 DEF DeletePlan, Pass, db, TypeOK, RecommendInv
<1>4. ASSUME NEW r \in Request, NEW plan \in Plan, NEW periods \in SUBSET
   Period, ReplacePrices(r, plan, periods) PROVE RecommendInv'
    BY <1>4 DEF ReplacePrices, Pass, db, TypeOK, RecommendInv
<1>5. ASSUME NEW r \in Request, CreatePlanCommit(r) PROVE RecommendInv'
  <2>1. /\ op[r].plan \in Plan /\ op[r].code \in Code /\ Busy(r, {"create", "update"})
        /\ op[r].rec \in BOOLEAN
    BY <1>5, OpFields DEF CreatePlanCommit, Commits, TypeOK
  <2>2. \A q \in Request : Busy(q, {"create", "update"})' => q # r /\ op'[q] = op[q] /\ Busy(q, {"create", "update"})
    BY <1>5 DEF CreatePlanCommit, Commits, TypeOK
  <2>3. /\ recommended' = Recommend(op[r]) /\ Misses(r) /\ code[op[r].plan] = "none"
        /\ code' = [code EXCEPT ![op[r].plan] = op[r].code]
    BY <1>5 DEF CreatePlanCommit, InsertPlan
  <2>4. recommended' \subseteq recommended \cup (IF op[r].rec THEN {op[r].plan} ELSE {})
    BY <2>1, <2>3 DEF Recommend
  <2>5. recommended' \subseteq Plans'
    BY <2>1, <2>3, <2>4 DEF Plans, Exists, TypeOK, RecommendInv
  <2> QED BY <2>1, <2>2, <2>3, <2>4, <2>5, Recommended
<1>6. ASSUME NEW r \in Request, UpdatePlanCommit(r) PROVE RecommendInv'
  <2>1. /\ op[r].plan \in Plan /\ op[r].code \in Code /\ Busy(r, {"create", "update"})
        /\ op[r].rec \in BOOLEAN
    BY <1>6, OpFields DEF UpdatePlanCommit, Commits, TypeOK
  <2>2. \A q \in Request : Busy(q, {"create", "update"})' => q # r /\ op'[q] = op[q] /\ Busy(q, {"create", "update"})
    BY <1>6 DEF UpdatePlanCommit, Commits, TypeOK
  <2>3. CASE Exists(op[r].plan)
    <3>1. /\ recommended' = Recommend(op[r]) /\ Misses(r)
          /\ code' = [code EXCEPT ![op[r].plan] = op[r].code]
      BY <1>6, <2>3 DEF UpdatePlanCommit, WritePlan
    <3>2. recommended' \subseteq recommended \cup (IF op[r].rec THEN {op[r].plan} ELSE {})
      BY <2>1, <3>1 DEF Recommend
    <3>3. recommended' \subseteq Plans'
      BY <2>1, <2>3, <3>1, <3>2 DEF Plans, Exists, TypeOK, RecommendInv
    <3> QED BY <2>1, <2>2, <3>1, <3>2, <3>3, Recommended
  <2>4. CASE ~Exists(op[r].plan)
    <3>1. recommended' \subseteq recommended /\ code' = code /\ missed' = missed
      BY <1>6, <2>4 DEF UpdatePlanCommit
    <3>2. recommended' \subseteq Plans'
      BY <3>1 DEF Plans, Exists, RecommendInv
    <3> QED BY <2>2, <3>1, <3>2 DEF RecommendInv
  <2> QED BY <2>3, <2>4
<1>7. ASSUME NEW r \in Request, DeletePlanCommit(r) PROVE RecommendInv'
    BY <1>7 DEF DeletePlanCommit, Commits, Outdates, TypeOK, RecommendInv
<1>8. ASSUME NEW r \in Request, ReplacePricesCommit(r) PROVE RecommendInv'
    BY <1>8 DEF ReplacePricesCommit, Outdates, TypeOK, RecommendInv
<1>9. ASSUME NEW r \in Request, NEW plan \in Plan, DefaultSubscription(r,
   plan) PROVE RecommendInv'
    BY <1>9 DEF DefaultSubscription, Pass, db, TypeOK, RecommendInv
<1>10. ASSUME NEW r \in Request, NEW plan \in Plan, NEW st \in {"open",
   "dated", "over"}, UpdateSubscription(r, plan, st) PROVE RecommendInv'
    BY <1>10 DEF UpdateSubscription, Pass, db, TypeOK, RecommendInv
<1>11. ASSUME NEW r \in Request, NEW s \in Sub, DefaultSubscriptionCommit(r,
   s) PROVE RecommendInv'
    BY <1>11 DEF DefaultSubscriptionCommit, Commits, Insert, Outdates, TypeOK,
       RecommendInv
<1>12. ASSUME NEW r \in Request, NEW s \in Sub, UpdateSubscriptionCommit(r, s)
   PROVE RecommendInv'
    BY <1>12 DEF UpdateSubscriptionCommit, Commits, Insert, Outdates, TypeOK,
       RecommendInv
<1>13. ASSUME NEW r \in Request, NEW to \in Owner, NEW keeps \in BOOLEAN,
   UpdateTenant(r, to, keeps) PROVE RecommendInv'
    BY <1>13 DEF UpdateTenant, Pass, NextOwner, db, TypeOK, RecommendInv
<1>14. ASSUME NEW r \in Request, UpdateTenantCommit(r) PROVE RecommendInv'
    BY <1>14 DEF UpdateTenantCommit, Commits, Outdates, TypeOK, RecommendInv
<1>15. ASSUME NEW r \in Request, Abort(r) PROVE RecommendInv'
    BY <1>15 DEF Abort, Outdates, db, TypeOK, RecommendInv
<1>16. ASSUME NEW s \in Sub, Lapse(s) PROVE RecommendInv'
    BY <1>16 DEF Lapse, TypeOK, RecommendInv
<1>17. CASE UNCHANGED vars
    BY <1>17 DEF vars, db, TypeOK, RecommendInv
<1> HIDE DEF Busy, Plans, Exists
<1>18. ASSUME NEW r \in Request, PlanRequest(r) PROVE RecommendInv'
    BY <1>18, <1>1, <1>2, <1>3, <1>4, <1>5, <1>6, <1>7, <1>8 DEF PlanRequest
<1>19. ASSUME NEW r \in Request, TenantRequest(r) PROVE RecommendInv'
    BY <1>19, <1>9, <1>10, <1>11, <1>12, <1>13, <1>14 DEF TenantRequest
<1> QED BY <1>15, <1>16, <1>17, <1>18, <1>19 DEF Next

(* A commit outdates those who have read what it writes.                   *)
LEMMA ReadStep == TypeOK /\ ReadInv /\ [Next]_vars => ReadInv'
<1> SUFFICES ASSUME TypeOK, ReadInv, [Next]_vars PROVE ReadInv'
    OBVIOUS
<1> USE DEF Busy
<1>1. ASSUME NEW r \in Request, NEW plan \in Plan, NEW c \in Code, NEW rec \in
   BOOLEAN, CreatePlan(r, plan, c, rec) PROVE ReadInv'
    BY <1>1 DEF CreatePlan, Pass, db, TypeOK, ReadInv
<1>2. ASSUME NEW r \in Request, NEW plan \in Plan, NEW c \in Code, NEW names
   \in BOOLEAN, NEW rec \in BOOLEAN, NEW keeps \in BOOLEAN, UpdatePlan(r,
   plan, c, names, rec, keeps) PROVE ReadInv'
    BY <1>2 DEF UpdatePlan, Pass, db, Kept, TypeOK, ReadInv
<1>3. ASSUME NEW r \in Request, NEW plan \in Plan, DeletePlan(r, plan) PROVE
   ReadInv'
    BY <1>3 DEF DeletePlan, Pass, db, TypeOK, ReadInv
<1>4. ASSUME NEW r \in Request, NEW plan \in Plan, NEW periods \in SUBSET
   Period, ReplacePrices(r, plan, periods) PROVE ReadInv'
    BY <1>4 DEF ReplacePrices, Pass, db, TypeOK, ReadInv
<1>5. ASSUME NEW r \in Request, CreatePlanCommit(r) PROVE ReadInv'
    BY <1>5 DEF CreatePlanCommit, Commits, Outdates, TypeOK, ReadInv
<1>6. ASSUME NEW r \in Request, UpdatePlanCommit(r) PROVE ReadInv'
    BY <1>6 DEF UpdatePlanCommit, Commits, Outdates, TypeOK, ReadInv
<1>7. ASSUME NEW r \in Request, DeletePlanCommit(r) PROVE ReadInv'
    BY <1>7 DEF DeletePlanCommit, Commits, Outdates, TypeOK, ReadInv
<1>8. ASSUME NEW r \in Request, ReplacePricesCommit(r) PROVE ReadInv'
    BY <1>8 DEF ReplacePricesCommit, Outdates, TypeOK, ReadInv
<1>9. ASSUME NEW r \in Request, NEW plan \in Plan, DefaultSubscription(r,
   plan) PROVE ReadInv'
    BY <1>9 DEF DefaultSubscription, Pass, db, TypeOK, ReadInv
<1>10. ASSUME NEW r \in Request, NEW plan \in Plan, NEW st \in {"open",
   "dated", "over"}, UpdateSubscription(r, plan, st) PROVE ReadInv'
    BY <1>10 DEF UpdateSubscription, Pass, db, TypeOK, ReadInv
<1>11. ASSUME NEW r \in Request, NEW s \in Sub, DefaultSubscriptionCommit(r,
   s) PROVE ReadInv'
    BY <1>11 DEF DefaultSubscriptionCommit, Commits, Insert, Outdates, TypeOK,
       ReadInv
<1>12. ASSUME NEW r \in Request, NEW s \in Sub, UpdateSubscriptionCommit(r, s)
   PROVE ReadInv'
    BY <1>12 DEF UpdateSubscriptionCommit, Commits, Insert, Outdates, TypeOK,
       ReadInv
<1>13. ASSUME NEW r \in Request, NEW to \in Owner, NEW keeps \in BOOLEAN,
   UpdateTenant(r, to, keeps) PROVE ReadInv'
    BY <1>13 DEF UpdateTenant, Pass, NextOwner, db, TypeOK, ReadInv
<1>14. ASSUME NEW r \in Request, UpdateTenantCommit(r) PROVE ReadInv'
    BY <1>14 DEF UpdateTenantCommit, Commits, Outdates, TypeOK, ReadInv
<1>15. ASSUME NEW r \in Request, Abort(r) PROVE ReadInv'
    BY <1>15 DEF Abort, Outdates, db, TypeOK, ReadInv
<1>16. ASSUME NEW s \in Sub, Lapse(s) PROVE ReadInv'
    BY <1>16 DEF Lapse, TypeOK, ReadInv
<1>17. CASE UNCHANGED vars
    BY <1>17 DEF vars, db, TypeOK, ReadInv
<1> HIDE DEF Busy
<1>18. ASSUME NEW r \in Request, PlanRequest(r) PROVE ReadInv'
    BY <1>18, <1>1, <1>2, <1>3, <1>4, <1>5, <1>6, <1>7, <1>8 DEF PlanRequest
<1>19. ASSUME NEW r \in Request, TenantRequest(r) PROVE ReadInv'
    BY <1>19, <1>9, <1>10, <1>11, <1>12, <1>13, <1>14 DEF TenantRequest
<1> QED BY <1>15, <1>16, <1>17, <1>18, <1>19 DEF Next

-----------------------------------------------------------------------------

(* Every variable stays in its declared range.                             *)
THEOREM TypeCorrect == Spec => []TypeOK
<1>1. Init => TypeOK
    BY CodeAssumption DEF Init, TypeOK
<1> QED BY <1>1, TypeStep, PTL DEF Spec

(* The tenant has at most one current subscription, unless inserts overlap. *)
THEOREM OneIsCurrent == Spec => []OneCurrent
<1>1. Init => CurrentInv
    BY DEF Init, CurrentInv, Current, Busy
<1>2. CurrentInv => OneCurrent
    BY DEF CurrentInv, OneCurrent
<1> QED BY <1>1, <1>2, TypeCorrect, CurrentStep, PTL DEF Spec

(* At most one plan is recommended, unless a concurrent request missed one. *)
THEOREM OneIsRecommended == Spec => []OneRecommended
<1>1. Init => RecommendInv
    BY DEF Init, RecommendInv, Busy
<1>2. RecommendInv => OneRecommended
    BY DEF RecommendInv, OneRecommended
<1> QED BY <1>1, <1>2, TypeCorrect, RecommendStep, PTL DEF Spec

(* A request that is not outdated changes no column it leaves out, and leaves *)
(* a plan the prices it was given.                                         *)
THEOREM AskedIsWritten == Spec => WritesWhatIsAsked
<1> DEFINE Asked == \A r \in Request : Alone(r) =>
              /\ UpdatePlanCommit(r) =>
                    /\ op[r].keeps /\ ~missed => recommended' = recommended
                    /\ ~op[r].names => code' = code
              /\ UpdateTenantCommit(r) /\ op[r].keeps => owner' = owner
              /\ ReplacePricesCommit(r) => prices'[op[r].plan] = op[r].periods
<1>1. Init => RecommendInv /\ ReadInv
    BY DEF Init, RecommendInv, ReadInv, Busy
<1>2. TypeOK /\ RecommendInv /\ ReadInv /\ [Next]_vars => [Asked]_vars
  <2> SUFFICES ASSUME TypeOK, RecommendInv, ReadInv, NEW r \in Request, ~stale[r]
               PROVE  /\ UpdatePlanCommit(r) =>
                            /\ op[r].keeps /\ ~missed => recommended' = recommended
                            /\ ~op[r].names => code' = code
                      /\ UpdateTenantCommit(r) /\ op[r].keeps => owner' = owner
                      /\ ReplacePricesCommit(r) => prices'[op[r].plan] = op[r].periods
    BY DEF Alone
  <2>1. ASSUME UpdatePlanCommit(r), op[r].keeps, ~missed PROVE recommended' = recommended
    <3>1. /\ op[r].rec <=> op[r].plan \in recommended
          /\ op[r].plan \in recommended => Exists(op[r].plan)
          /\ \A p, q \in recommended : p = q
      BY <2>1 DEF UpdatePlanCommit, Commits, ReadInv, RecommendInv, Plans
    <3>2. \/ Exists(op[r].plan) /\ recommended' = Recommend(op[r])
          \/ ~Exists(op[r].plan) /\ recommended' = IF op[r].rec THEN recommended \ op[r].seen ELSE recommended
      BY <2>1 DEF UpdatePlanCommit
    <3> QED BY <3>1, <3>2 DEF Recommend
  <2>2. ASSUME UpdatePlanCommit(r), ~op[r].names PROVE code' = code
    <3>1. code[op[r].plan] = op[r].code
      BY <2>2 DEF UpdatePlanCommit, Commits, ReadInv
    <3> QED BY <2>2, <3>1 DEF UpdatePlanCommit, WritePlan, TypeOK
  <2>3. ASSUME UpdateTenantCommit(r), op[r].keeps PROVE owner' = owner
    BY <2>3 DEF UpdateTenantCommit, Commits, ReadInv
  <2>4. ASSUME ReplacePricesCommit(r) PROVE prices'[op[r].plan] = op[r].periods
    <3>1. op[r].plan \in Plan
      BY <2>4, OpFields DEF ReplacePricesCommit, Busy, TypeOK
    <3>2. prices[op[r].plan] \subseteq op[r].seen
      BY <2>4 DEF ReplacePricesCommit, ReadInv
    <3> QED BY <2>4, <3>1, <3>2 DEF ReplacePricesCommit, Replaced, Left, TypeOK
  <2> QED BY <2>1, <2>2, <2>3, <2>4
<1> QED BY <1>1, <1>2, TypeCorrect, RecommendStep, ReadStep, PTL DEF Spec, WritesWhatIsAsked

(* The free plan goes only by a request to give it another code, or by one *)
(* that was outdated.                                                      *)
THEOREM FreePlanStays == Spec => FreePlanLostOnRequest
<1> DEFINE Lost == Free # {} /\ Free' = {} => \E r \in Request :
              \/ Ended(r, {"update"}) /\ op[r].names
              \/ Ended(r, {"update", "delete"}) /\ stale[r]
<1>1. Init => ReadInv
    BY DEF Init, ReadInv, Busy
<1>2. TypeOK /\ ReadInv /\ [Next]_vars => [Lost]_vars
  <2> SUFFICES ASSUME TypeOK, ReadInv, Next, NEW p \in Plan, code[p] = "free", code'[p] # "free"
               PROVE  \E r \in Request : \/ Ended(r, {"update"}) /\ op[r].names
                                         \/ Ended(r, {"update", "delete"}) /\ stale[r]
    BY DEF Free
  <2>1. PICK r \in Request : CreatePlanCommit(r) \/ UpdatePlanCommit(r) \/ DeletePlanCommit(r)
    <3>1. code' # code
      OBVIOUS
    <3>2. \A r \in Request : TenantRequest(r) \/ Abort(r) => code' = code
      BY DEF TenantRequest, DefaultSubscription, UpdateSubscription, DefaultSubscriptionCommit,
         UpdateSubscriptionCommit, UpdateTenant, UpdateTenantCommit, Abort, Insert, Pass, db
    <3>3. \A s \in Sub : Lapse(s) => code' = code
      BY DEF Lapse
    <3>4. \A r \in Request : ReplacePricesCommit(r) => code' = code
      BY DEF ReplacePricesCommit
    <3>5. \A r \in Request : \A o : Pass(r, o) => code' = code
      BY DEF Pass, db
    <3>6. \A r \in Request :
             \/ \E plan \in Plan, c \in Code, rec \in BOOLEAN : CreatePlan(r, plan, c, rec)
             \/ \E plan \in Plan, c \in Code, rec, names, keeps \in BOOLEAN :
                   UpdatePlan(r, plan, c, names, rec, keeps)
             \/ \E plan \in Plan : DeletePlan(r, plan)
             \/ \E plan \in Plan, periods \in SUBSET Period : ReplacePrices(r, plan, periods)
             => code' = code
      BY <3>5 DEF CreatePlan, UpdatePlan, DeletePlan, ReplacePrices
    <3>7. \A r \in Request : PlanRequest(r) =>
             CreatePlanCommit(r) \/ UpdatePlanCommit(r) \/ DeletePlanCommit(r) \/ code' = code
      BY <3>4, <3>6 DEF PlanRequest
    <3> QED BY <3>1, <3>2, <3>3, <3>7 DEF Next
  <2>2. ~CreatePlanCommit(r)
    <3> SUFFICES ASSUME CreatePlanCommit(r) PROVE FALSE
      OBVIOUS
    <3>1. code' = [code EXCEPT ![op[r].plan] = op[r].code] /\ code[op[r].plan] = "none"
      BY DEF CreatePlanCommit, InsertPlan
    <3> QED BY <3>1 DEF TypeOK
  <2>3. CASE UpdatePlanCommit(r)
    <3>1. /\ Busy(r, {"update"}) /\ ~Busy(r, {"update"})' /\ ~Busy(r, {"update", "delete"})'
          /\ op[r].plan = p /\ code'[p] = op[r].code
      BY <2>3 DEF UpdatePlanCommit, WritePlan, Commits, Busy, TypeOK
    <3>2. stale[r] \/ op[r].names
      BY <3>1 DEF ReadInv
    <3> QED BY <3>1, <3>2 DEF Ended, Busy
  <2>4. CASE DeletePlanCommit(r)
    <3>1. /\ Busy(r, {"delete"}) /\ ~Busy(r, {"update", "delete"})'
          /\ op[r].plan = p
      BY <2>4 DEF DeletePlanCommit, Commits, Busy, TypeOK
    <3>2. stale[r]
      BY <3>1 DEF ReadInv
    <3> QED BY <3>1, <3>2 DEF Ended, Busy
  <2> QED BY <2>1, <2>2, <2>3, <2>4
<1> QED BY <1>1, <1>2, TypeCorrect, ReadStep, PTL DEF Spec, FreePlanLostOnRequest

-----------------------------------------------------------------------------
(* What a lock would give: if the requests that insert a subscription of   *)
(* the tenant took turns, and those that recommend a plan, there would be  *)
(* one current subscription and one recommended plan at most, without      *)
(* exception.  Which requests these are is what the proof shows: lapses,   *)
(* owner changes, deletions of plans and updates that recommend nothing    *)
(* need not wait.                                                          *)
Inserts(r) == Busy(r, {"default", "subscribe"})
Recommends(r) == Busy(r, {"create", "update"}) /\ op[r].rec
WritersTakeTurns ==
    /\ \A r, q \in Request : Inserts(r) /\ Inserts(q) => r = q
    /\ \A r, q \in Request : Recommends(r) /\ Recommends(q) => r = q
OneOfEach ==
    /\ \A s, t \in Current : s = t
    /\ \A p, q \in recommended : p = q

(* An insert beside another, or a recommendation missed, has two at it.    *)
LEMMA NothingMissed ==
    ASSUME TypeOK, WritersTakeTurns, ~overlapped, ~missed, [Next]_vars
    PROVE  ~overlapped' /\ ~missed'
<1>1. ASSUME NEW r \in Request, NEW s \in Sub,
             DefaultSubscriptionCommit(r, s) \/ UpdateSubscriptionCommit(r, s)
      PROVE  ~overlapped' /\ ~missed'
    <2>1. Inserts(r) /\ Insert(r, s)
        BY <1>1 DEF DefaultSubscriptionCommit, UpdateSubscriptionCommit, Commits, Inserts, Busy
    <2>2. \A q \in Request \ {r} : ~Inserts(q)
        BY <2>1 DEF WritersTakeTurns
    <2> QED BY <2>1, <2>2 DEF Insert, Inserts
<1>2. ASSUME NEW r \in Request, Misses(r), Busy(r, {"create"}) \/ Busy(r, {"update"})
      PROVE  ~missed'
    <2>1. op[r].rec => Recommends(r)
        BY <1>2 DEF Recommends, Busy
    <2>2. op[r].rec => \A q \in Request \ {r} : ~Recommends(q)
        BY <2>1 DEF WritersTakeTurns
    <2> QED BY <1>2, <2>2 DEF Misses, Recommends
<1>3. ASSUME NEW r \in Request, CreatePlanCommit(r) \/ UpdatePlanCommit(r)
      PROVE  ~overlapped' /\ ~missed'
    <2>1. \/ Misses(r) /\ (Busy(r, {"create"}) \/ Busy(r, {"update"}))
          \/ UNCHANGED missed
        BY <1>3 DEF CreatePlanCommit, UpdatePlanCommit, Commits
    <2>2. UNCHANGED overlapped
        BY <1>3 DEF CreatePlanCommit, UpdatePlanCommit
    <2> QED BY <1>2, <2>1, <2>2
<1>4. ASSUME NEW r \in Request, PlanRequest(r), ~CreatePlanCommit(r), ~UpdatePlanCommit(r)
      PROVE  UNCHANGED <<overlapped, missed>>
    BY <1>4 DEF PlanRequest, CreatePlan, UpdatePlan, DeletePlan, ReplacePrices, DeletePlanCommit,
       ReplacePricesCommit, Pass
<1>5. ASSUME NEW r \in Request, TenantRequest(r) \/ Abort(r)
      PROVE  ~overlapped' /\ ~missed'
    BY <1>5, <1>1 DEF TenantRequest, DefaultSubscription, UpdateSubscription, UpdateTenant,
       UpdateTenantCommit, Abort, Pass
<1>6. ASSUME NEW s \in Sub, Lapse(s) PROVE UNCHANGED <<overlapped, missed>>
    BY <1>6 DEF Lapse
<1>7. CASE UNCHANGED vars
    BY <1>7 DEF vars
<1> QED BY <1>3, <1>4, <1>5, <1>6, <1>7 DEF Next

(* Then at most one subscription is current and at most one plan           *)
(* recommended, in every reachable state.                                  *)
THEOREM OneOfEachInTurns == Spec /\ []WritersTakeTurns => []OneOfEach
<1> DEFINE Alright == ~overlapped /\ ~missed
<1>1. Init => Alright
    BY DEF Init
<1>2. TypeOK /\ WritersTakeTurns /\ Alright /\ [Next]_vars => Alright'
    BY NothingMissed
<1>3. OneCurrent /\ OneRecommended /\ Alright => OneOfEach
    BY DEF OneCurrent, OneRecommended, OneOfEach
<1> HIDE DEF Alright
<1> QED BY <1>1, <1>2, <1>3, TypeCorrect, OneIsCurrent, OneIsRecommended, PTL DEF Spec
=============================================================================
