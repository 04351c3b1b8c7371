----------------------------- MODULE MCSummaries -----------------------------
(* Summaries evaluated over bounded inputs: TLC checks these assumptions   *)
(* when it runs Billing.                                                   *)
EXTENDS Summaries, TLC

(* Days around the limits: now is 2 days, ends up to 20 days later.        *)
Times == {n * (Day \div 2) : n \in 0 .. 40} \cup {Never}
Nows == {0, Day \div 2, 2 * Day, 3 * Day + 1}

(* The shown status is "expired" exactly for the rows that are not current,*)
(* so nothing the query prefers is shown as expired.                       *)
ASSUME StatusMatchesQuery ==
    \A raw \in RawStatus, ends \in Times, now \in Nows :
        (SubscriptionStatus(raw, ends, now) = "expired") <=> ~IsCurrent(raw, ends, now)

Item(found, ends, used, name) ==
    [found |-> found, ends |-> ends, used |-> used, name |-> name, id |-> name,
     start |-> used, status |-> IF used = 0 THEN "expired" ELSE "active",
     type |-> {"plan"}, kind |-> "team", text |-> {"needle"}]
Items == {Item(TRUE, Never, 0, 1), Item(FALSE, Never, 1, 2),
          Item(TRUE, 5, 1, 3), Item(TRUE, 5, 2, 4), Item(TRUE, 3, 0, 5)}
Lists == UNION {[1 .. n -> Items] : n \in 0 .. 3}

Orders == {"expiresAt", "monthlyUsage", "subscriptionStart"}
InOrder(a, b, sort) ==
    IF sort = "expiresAt" THEN ~EndsBefore(b, a)
    ELSE IF sort = "monthlyUsage" THEN ~UsesMore(b, a) ELSE ~StartsAfter(b, a)
Count(items, i) == Cardinality({n \in DOMAIN items : items[n] = i})

(* Sorting keeps the items, puts them in order, and leaves a sorted list   *)
(* as it is.                                                               *)
ASSUME SortIsRight ==
    \A items \in Lists, sort \in Orders :
        LET out == SortUserSummaries(items, sort) IN
        /\ \A i \in Items : Count(out, i) = Count(items, i)
        /\ \A m, n \in DOMAIN out : m < n => InOrder(out[m], out[n], sort)
        /\ SortUserSummaries(out, sort) = out

(* Every item of a list is on one page, in the order of the list.          *)
ASSUME PagesPartition ==
    \A items \in Lists, size \in 1 .. 3 :
        Page(items, 1, size) \o Page(items, 2, size) \o Page(items, 3, size) = items

(* A user without a subscription and one without an end to theirs make     *)
(* GET /users?sort=expiresAt fail; of tenants there are no such two.       *)
ASSUME ExpirySortFails ==
    \A items \in Lists :
        LET r == ListManagedUsers(items, NoFilter, NoFilter, NoFilter, "expiresAt", 1, 3)
            t == ListTenants(items, NoFilter, NoFilter, NoFilter, NoFilter, "expiresAt", 1, 3)
        IN /\ ~r.ok <=> \E m, n \in DOMAIN items : ~items[m].found /\ Endless(items[n])
                                                   /\ items[n].found
           /\ (\A n \in DOMAIN items : items[n].found) => t.ok

(* Usage is shown between 0 and 100 percent, never less for more questions,*)
(* and as 100 once the limit is reached.                                   *)
ASSUME PercentIsRight ==
    \A limit \in -1 .. 30, used \in 0 .. 40 :
        /\ Percent(used, limit) \in 0 .. 10000
        /\ Percent(used, limit) <= Percent(used + 1, limit)
        /\ limit > 0 /\ used >= limit => Percent(used, limit) = 10000

Price(period, enabled, amount) == [period |-> period, enabled |-> enabled, amount |-> amount]

(* A subscription a tenant asked for is never snapshotted at no price.     *)
ASSUME PriceIsTaken ==
    \A prices \in SUBSET {Price("monthly", TRUE, 9), Price("monthly", FALSE, 5),
                          Price("yearly", TRUE, 90)}, period \in {"monthly", "yearly"} :
        IF RequireEnabledPrice(prices, period)
        THEN SelectPrice(prices, period).amount \in {9, 90}
        ELSE SelectPrice(prices, period).amount = 0
=============================================================================
