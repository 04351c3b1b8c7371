------------------------------ MODULE Summaries ------------------------------
(***************************************************************************)
(* What the user list (auth_service.py) and the tenant list                *)
(* (tenant_service.py) compute from rows already read: the subscription    *)
(* shown, its status, the month's usage, and the filters, orders and pages *)
(* of the lists.  Pure operators; the two services hold a copy each, and   *)
(* where the copies differ there is an operator for each.                  *)
(*                                                                         *)
(* Times are seconds, Never is a null current_period_end.  Texts are only  *)
(* searched: an item has the set of needles that match it.  A subscription *)
(* status or a filter value is taken as casefolded.                        *)
(***************************************************************************)
EXTENDS Integers, Sequences, FiniteSets

Day == 86400
Never == -1

RawStatus == {"active", "trialing", "past_due", "cancelled", "expired"}
Status == {"active", "expiring_soon", "expired"}

-----------------------------------------------------------------------------
(* Subscriptions.                                                          *)

(* max(delta.days, 0): days are whole, rounded down; None of None.         *)
DaysUntil(ends, now) ==
    IF ends = Never THEN Never
    ELSE IF ends < now THEN 0 ELSE (ends - now) \div Day

SubscriptionStatus(raw, ends, now) ==
    IF raw \in {"cancelled", "expired"} THEN "expired"
    ELSE IF ends = Never THEN "active"
    ELSE IF ends <= now THEN "expired"
    ELSE IF DaysUntil(ends, now) <= 14 THEN "expiring_soon"
    ELSE "active"

(* The condition under which get_current, and the order of the user's      *)
(* query, take a row as current.                                           *)
IsCurrent(raw, ends, now) ==
    raw \in {"active", "trialing", "past_due"} /\ (ends = Never \/ ends > now)

(* order by: current rows, then the latest start, then the latest created. *)
Precedes(a, b, now) ==
    LET current(s) == IsCurrent(s.status, s.ends, now) IN
    \/ current(a) /\ ~current(b)
    \/ /\ current(a) = current(b)
       /\ \/ a.start > b.start
          \/ a.start = b.start /\ a.created > b.created

(* limit 1: a first row; among equals the database may return any.         *)
Firsts(subs, now) == {a \in subs : \A b \in subs : ~Precedes(b, a, now)}

AutoRenew(s) == ~s.cancels /\ s.period # "free"

(* The summary a user is shown, of all subscriptions of all their tenants. *)
UserSubscription(subs, now) ==
    IF subs = {} THEN [found |-> FALSE]
    ELSE LET s == CHOOSE a \in Firsts(subs, now) : TRUE IN
         [found |-> TRUE, tenant |-> s.tenant,
          status |-> SubscriptionStatus(s.status, s.ends, now),
          days |-> DaysUntil(s.ends, now), autoRenew |-> AutoRenew(s)]

(* The tenant's is its current one: current_subscription has made one      *)
(* when there was none.                                                    *)
TenantSubscription(s, now) ==
    [found |-> TRUE, tenant |-> s.tenant,
     status |-> SubscriptionStatus(s.status, s.ends, now),
     days |-> DaysUntil(s.ends, now), autoRenew |-> AutoRenew(s)]

-----------------------------------------------------------------------------
(* Prices and entitlements of a plan, copied into a snapshot.              *)

EnabledPrices(prices, period) == {p \in prices : p.period = period /\ p.enabled}

RequireEnabledPrice(prices, period) == EnabledPrices(prices, period) # {}

(* The enabled price of the period, or a price of nothing.                 *)
SelectPrice(prices, period) ==
    IF EnabledPrices(prices, period) = {}
    THEN [period |-> period, amount |-> 0]
    ELSE LET p == CHOOSE q \in EnabledPrices(prices, period) : TRUE IN
         [period |-> p.period, amount |-> p.amount]

(* entitlements is a set of at most one record: plan_entitlements rows.    *)
EntitlementsSnapshot(entitlements) ==
    IF entitlements = {} THEN [questions |-> 0, tokens |-> 0, seats |-> 1]
    ELSE CHOOSE e \in entitlements : TRUE

(* The latest snapshot's limits; a missing or null one counts as 0.        *)
Limits(snapshots) ==
    IF snapshots = {} THEN [questions |-> 0, tokens |-> 0]
    ELSE LET s == CHOOSE a \in snapshots : \A b \in snapshots :
                    \/ a.starts > b.starts
                    \/ a.starts = b.starts /\ a.created >= b.created
         IN [questions |-> s.questions, tokens |-> s.tokens]

-----------------------------------------------------------------------------
(* Usage of the month.                                                     *)

UserQuestions(turns, tenant, user, monthStart) == Cardinality({t \in turns :
    t.tenant = tenant /\ t.user = user /\ t.created >= monthStart /\ ~t.internal})

TenantQuestions(turns, tenant, monthStart) == Cardinality({t \in turns :
    t.tenant = tenant /\ t.created >= monthStart /\ ~t.internal})

(* In hundredths of a percent, rounded.                                    *)
Percent(used, limit) ==
    IF limit <= 0 THEN 0
    ELSE IF used >= limit THEN 10000
    ELSE (20000 * used + limit) \div (2 * limit)

(* sub is a summary as above.                                              *)
UserUsageStatus(sub, used, limit, tokens, tokenLimit) ==
    IF sub.found /\ sub.status = "expired" THEN "expired"
    ELSE IF limit > 0 /\ used >= limit THEN "question_exhausted"
    ELSE IF tokenLimit > 0 /\ tokens >= tokenLimit THEN "token_exhausted"
    ELSE IF sub.found /\ sub.status = "expiring_soon" THEN "expiring_soon"
    ELSE "normal"

TenantUsageStatus(sub, used, limit, tokens, tokenLimit) ==
    IF sub.status = "expired" THEN "expired"
    ELSE IF limit > 0 /\ used >= limit THEN "question_exhausted"
    ELSE IF tokenLimit > 0 /\ tokens >= tokenLimit THEN "token_exhausted"
    ELSE IF sub.status = "expiring_soon" THEN "expiring_soon"
    ELSE "normal"

Paused(status) == status \in {"question_exhausted", "token_exhausted", "expired"}

(* No token is counted: tokenUsed is the constant 0.                       *)
UserMonthlyUsage(sub, used, limits) ==
    LET lim == IF sub.found THEN limits ELSE [questions |-> 0, tokens |-> 0]
        n == IF sub.found THEN used ELSE 0
        status == UserUsageStatus(sub, n, lim.questions, 0, lim.tokens)
    IN [used |-> n, limit |-> lim.questions, percent |-> Percent(n, lim.questions),
        status |-> status, paused |-> sub.found /\ Paused(status)]

TenantMonthlyUsage(sub, used, limits) ==
    LET status == TenantUsageStatus(sub, used, limits.questions, 0, limits.tokens)
    IN [used |-> used, limit |-> limits.questions,
        percent |-> Percent(used, limits.questions),
        status |-> status, paused |-> Paused(status)]

(* Days since the user was created, today included, at least one.          *)
LifetimeUsage(created, sub, now) ==
    [days |-> IF now < created THEN 1 ELSE (now - created) \div Day + 1,
     stopped |-> sub.found /\ sub.status = "expired"]

-----------------------------------------------------------------------------
(* Lists.  An item has found, status, start, ends and type of its summary, *)
(* used, name, and the needles its texts match; NoFilter is a null or      *)
(* empty query parameter.                                                  *)

NoFilter == ""

(* The users' filter also takes the labels the page shows; theirs stand    *)
(* for the Chinese ones.                                                   *)
NormalizeUserFilter(value) ==
    IF value \in {"active", "label_active"} THEN "active"
    ELSE IF value \in {"expiring_soon", "expiringsoon", "label_expiring"} THEN "expiring_soon"
    ELSE IF value \in {"expired", "label_expired"} THEN "expired"
    ELSE value

(* The tenants' filter takes the raw statuses instead.                     *)
NormalizeTenantFilter(value) ==
    IF value \in {"active", "trialing", "past_due"} THEN "active"
    ELSE IF value \in {"expiring_soon", "expiringsoon"} THEN "expiring_soon"
    ELSE IF value \in {"expired", "cancelled"} THEN "expired"
    ELSE value

UserMatches(i, search, status, type) ==
    /\ search # NoFilter => search \in i.text
    /\ status # NoFilter => i.found /\ i.status = NormalizeUserFilter(status)
    /\ type # NoFilter => i.found /\ type \in i.type

FilterUserSummaries(items, search, status, type) ==
    SelectSeq(items, LAMBDA i : UserMatches(i, search, status, type))

TenantMatches(i, search, kind, status, type) ==
    /\ search # NoFilter => search \in i.text
    /\ kind # NoFilter => i.kind = kind
    /\ type # NoFilter => i.found /\ type \in i.type
    /\ status # NoFilter => i.found /\ i.status = NormalizeTenantFilter(status)

FilterTenants(items, search, kind, status, type) ==
    SelectSeq(items, LAMBDA i : TenantMatches(i, search, kind, status, type))

(* sorted() is stable, reverse=True included.                              *)
Sorted(items, Before(_, _)) ==
    LET place(i) == Cardinality({j \in DOMAIN items :
                        \/ Before(items[j], items[i])
                        \/ j <= i /\ ~Before(items[i], items[j])})
    IN [n \in DOMAIN items |-> items[CHOOSE i \in DOMAIN items : place(i) = n]]

(* expiresAt: a key of whether there is no end, and the end.               *)
Endless(i) == ~i.found \/ i.ends = Never
EndsBefore(a, b) ==
    \/ ~Endless(a) /\ Endless(b)
    \/ ~Endless(a) /\ ~Endless(b) /\ a.ends < b.ends

(* The end is None in the key of an endless subscription but "" where      *)
(* there is no subscription; None < "" raises TypeError.                   *)
KeysCompare(items) == \A i, j \in DOMAIN items :
    Endless(items[i]) /\ Endless(items[j]) => items[i].found = items[j].found

UsesMore(a, b) == a.used > b.used

(* Without a subscription the key is "", before every date.                *)
StartsAfter(a, b) == a.found /\ (b.found => a.start > b.start)

SortUserSummaries(items, sort) ==
    IF sort = "expiresAt" THEN Sorted(items, EndsBefore)
    ELSE IF sort = "monthlyUsage" THEN Sorted(items, UsesMore)
    ELSE IF sort = "subscriptionStart" THEN Sorted(items, StartsAfter)
    ELSE items

(* Tenants may also be ordered by name, then id.                           *)
NameBefore(a, b) == a.name < b.name \/ (a.name = b.name /\ a.id < b.id)

SortTenants(items, sort) ==
    IF sort = "expiresAt" THEN Sorted(items, EndsBefore)
    ELSE IF sort = "monthlyUsage" THEN Sorted(items, UsesMore)
    ELSE IF sort = "subscriptionStart" THEN Sorted(items, StartsAfter)
    ELSE IF sort = "name" THEN Sorted(items, NameBefore)
    ELSE items

(* items[start : start + page_size], start = (page - 1) * page_size.       *)
Page(items, page, size) ==
    LET start == (page - 1) * size
        end == IF start + size < Len(items) THEN start + size ELSE Len(items)
    IN SubSeq(items, start + 1, end)

(* The two endpoints: filter, sort, count, cut; ok is FALSE when the sort  *)
(* raises.                                                                 *)
ListManagedUsers(items, search, status, type, sort, page, size) ==
    LET kept == FilterUserSummaries(items, search, status, type) IN
    [ok |-> sort # "expiresAt" \/ KeysCompare(kept), total |-> Len(kept),
     items |-> Page(SortUserSummaries(kept, sort), page, size)]

ListTenants(items, search, kind, status, type, sort, page, size) ==
    LET kept == FilterTenants(items, search, kind, status, type) IN
    [ok |-> sort # "expiresAt" \/ KeysCompare(kept), total |-> Len(kept),
     items |-> Page(SortTenants(kept, sort), page, size)]
=============================================================================
