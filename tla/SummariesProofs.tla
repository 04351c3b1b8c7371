--------------------------- MODULE SummariesProofs ---------------------------
(***************************************************************************)
(* Proofs about Summaries, for all times, statuses, prices and counts.     *)
(***************************************************************************)
EXTENDS Summaries, FiniteSetTheorems, FunctionTheorems, SequenceTheorems, TLAPS

Time == Nat \cup {Never}

(* A row is shown as expired exactly when get_current does not take it.    *)
THEOREM ExpiredIffNotCurrent ==
    ASSUME NEW raw \in RawStatus, NEW ends \in Time, NEW now \in Nat
    PROVE  (SubscriptionStatus(raw, ends, now) = "expired") <=> ~IsCurrent(raw, ends, now)
    BY DEF SubscriptionStatus, IsCurrent, RawStatus, Time, Never

(* Whole days are rounded down: 14 of them are less than 15 days.          *)
LEMMA FourteenDays ==
    ASSUME NEW ends \in Nat, NEW now \in Nat, ends > now
    PROVE  DaysUntil(ends, now) <= 14 <=> ends - now < 15 * Day
    BY DEF DaysUntil, Never, Day

(* A subscription is shown as expiring during the last 15 days before its  *)
(* end, not 14, and never when it has no end.                              *)
THEOREM ExpiringIsFifteenDays ==
    ASSUME NEW raw \in RawStatus, NEW ends \in Time, NEW now \in Nat,
           IsCurrent(raw, ends, now)
    PROVE  (SubscriptionStatus(raw, ends, now) = "expiring_soon")
               <=> (ends # Never /\ ends - now < 15 * Day)
<1>1. raw \notin {"cancelled", "expired"}
    BY DEF IsCurrent
<1>2. CASE ends = Never
    BY <1>1, <1>2 DEF SubscriptionStatus
<1>3. CASE ends \in Nat /\ ends # Never /\ ends > now
    BY <1>1, <1>3, FourteenDays DEF SubscriptionStatus
<1> QED
    BY <1>2, <1>3 DEF IsCurrent, Time

(* As time passes a row only goes on from active to expiring to expired.   *)
THEOREM StatusOnlyWorsens ==
    ASSUME NEW raw \in RawStatus, NEW ends \in Time, NEW now \in Nat, NEW later \in Nat,
           now <= later
    PROVE  LET before == SubscriptionStatus(raw, ends, now)
               after == SubscriptionStatus(raw, ends, later)
           IN /\ before = "expired" => after = "expired"
              /\ before = "expiring_soon" => after # "active"
<1>1. CASE IsCurrent(raw, ends, later)
    <2>1. IsCurrent(raw, ends, now)
        BY <1>1 DEF IsCurrent, Time, Never
    <2>2. ends # Never => ends \in Nat
        BY DEF Time
    <2>3. SubscriptionStatus(raw, ends, now) = "expiring_soon"
              => SubscriptionStatus(raw, ends, later) = "expiring_soon"
        BY <1>1, <2>1, <2>2, ExpiringIsFifteenDays DEF Day
    <2> QED
        BY <2>1, <2>3, ExpiredIffNotCurrent
<1>2. CASE ~IsCurrent(raw, ends, later)
    <2>1. SubscriptionStatus(raw, ends, later) = "expired"
        BY <1>2, ExpiredIffNotCurrent
    <2> QED
        BY <2>1
<1> QED
    BY <1>1, <1>2

Row == [tenant : STRING, status : RawStatus, period : STRING, start : Nat, ends : Time,
        created : Nat, cancels : BOOLEAN]

(* A user with a current subscription, in any of their tenants, is never   *)
(* shown an expired one: the first rows of the query are all current.      *)
THEOREM CurrentIsShown ==
    ASSUME NEW subs \in SUBSET Row, NEW now \in Nat,
           NEW c \in subs, IsCurrent(c.status, c.ends, now),
           NEW s \in Firsts(subs, now)
    PROVE  SubscriptionStatus(s.status, s.ends, now) # "expired"
<1>1. s \in Row /\ ~Precedes(c, s, now)
    BY DEF Firsts
<1>2. IsCurrent(s.status, s.ends, now)
    BY <1>1 DEF Precedes
<1>3. s.status \in RawStatus /\ s.ends \in Time
    BY <1>1 DEF Row
<1> QED
    BY <1>2, <1>3, ExpiredIffNotCurrent

(* The tenant list filters by a status no tenant is shown with: its        *)
(* summaries are of current subscriptions, so "expired" finds nothing.     *)
THEOREM NoTenantIsExpired ==
    ASSUME NEW s \in Row, NEW now \in Nat, IsCurrent(s.status, s.ends, now),
           NEW i, i.status = TenantSubscription(s, now).status,
           NEW search, NEW kind, NEW type, NEW status \in {"expired", "cancelled"}
    PROVE  ~TenantMatches(i, search, kind, status, type)
<1>1. s.status \in RawStatus /\ s.ends \in Time
    BY DEF Row
<1>2. i.status # "expired"
    BY <1>1, ExpiredIffNotCurrent DEF TenantSubscription
<1>3. NormalizeTenantFilter(status) = "expired"
    BY DEF NormalizeTenantFilter
<1> QED
    BY <1>2, <1>3 DEF TenantMatches, NoFilter

-----------------------------------------------------------------------------

(* Normalising a filter twice is normalising it once, and a shown status   *)
(* is its own filter, in both copies.                                      *)
THEOREM FiltersNormalize ==
    ASSUME NEW value
    PROVE  /\ NormalizeUserFilter(NormalizeUserFilter(value)) = NormalizeUserFilter(value)
           /\ NormalizeTenantFilter(NormalizeTenantFilter(value)) = NormalizeTenantFilter(value)
           /\ value \in Status => NormalizeUserFilter(value) = value
                                  /\ NormalizeTenantFilter(value) = value
<1>1. /\ NormalizeUserFilter(value) = value \/ NormalizeUserFilter(value) \in Status
      /\ NormalizeTenantFilter(value) = value \/ NormalizeTenantFilter(value) \in Status
    BY DEF NormalizeUserFilter, NormalizeTenantFilter, Status
<1>2. \A v \in Status : NormalizeUserFilter(v) = v /\ NormalizeTenantFilter(v) = v
    BY DEF NormalizeUserFilter, NormalizeTenantFilter, Status
<1>3. NormalizeUserFilter(NormalizeUserFilter(value)) = NormalizeUserFilter(value)
    BY <1>1, <1>2
<1>4. NormalizeTenantFilter(NormalizeTenantFilter(value)) = NormalizeTenantFilter(value)
    BY <1>1, <1>2
<1> QED
    BY <1>2, <1>3, <1>4

(* With one subscription and the same questions the user page and the      *)
(* tenant page say the same of the month.                                  *)
THEOREM UsageCopiesAgree ==
    ASSUME NEW sub, sub.found = TRUE, NEW used \in Nat,
           NEW limits \in [questions : Nat, tokens : Nat]
    PROVE  UserMonthlyUsage(sub, used, limits) = TenantMonthlyUsage(sub, used, limits)
<1>1. \A n, m, t, k : UserUsageStatus(sub, n, m, t, k) = TenantUsageStatus(sub, n, m, t, k)
    BY DEF UserUsageStatus, TenantUsageStatus
<1> DEFINE status == TenantUsageStatus(sub, used, limits.questions, 0, limits.tokens)
<1>2. UserMonthlyUsage(sub, used, limits) =
          [used |-> used, limit |-> limits.questions,
           percent |-> Percent(used, limits.questions),
           status |-> status, paused |-> TRUE /\ Paused(status)]
    BY <1>1, ZenonT(20) DEF UserMonthlyUsage
<1>3. (TRUE /\ Paused(status)) = Paused(status)
    BY DEF Paused
<1> QED
    BY <1>2, <1>3, ZenonT(20) DEF TenantMonthlyUsage

(* The service is shown as paused for an expired subscription or a reached *)
(* question limit, and for nothing else: tokens are never counted.         *)
THEOREM PausedByQuestionsOrExpiry ==
    ASSUME NEW sub, NEW used \in Nat, NEW limits \in [questions : Nat, tokens : Nat]
    PROVE  TenantMonthlyUsage(sub, used, limits).paused
               <=> \/ sub.status = "expired"
                   \/ limits.questions > 0 /\ used >= limits.questions
<1>1. limits.questions \in Nat /\ limits.tokens \in Nat
    OBVIOUS
<1>2. TenantMonthlyUsage(sub, used, limits).paused
          = Paused(TenantUsageStatus(sub, used, limits.questions, 0, limits.tokens))
    BY DEF TenantMonthlyUsage
<1> DEFINE status == TenantUsageStatus(sub, used, limits.questions, 0, limits.tokens)
<1>3. CASE sub.status = "expired"
    BY <1>2, <1>3 DEF Paused, TenantUsageStatus
<1>4. CASE sub.status # "expired" /\ limits.questions > 0 /\ used >= limits.questions
    <2>1. status = "question_exhausted"
        BY <1>4 DEF TenantUsageStatus
    <2> QED
        BY <1>2, <1>4, <2>1 DEF Paused
<1>5. CASE sub.status # "expired" /\ ~(limits.questions > 0 /\ used >= limits.questions)
    <2>1. ~(limits.tokens > 0 /\ 0 >= limits.tokens)
        BY <1>1
    <2>2. status \in {"expiring_soon", "normal"}
        BY <1>5, <2>1 DEF TenantUsageStatus
    <2>3. ~Paused(status)
        BY <2>2 DEF Paused
    <2> QED
        BY <1>2, <1>5, <2>3
<1> QED
    BY <1>3, <1>4, <1>5

(* The shown days of use never stop growing, and start at one.             *)
THEOREM DaysOfUse ==
    ASSUME NEW created \in Nat, NEW now \in Nat, NEW later \in Nat, now <= later, NEW sub
    PROVE  /\ LifetimeUsage(created, sub, now).days >= 1
           /\ LifetimeUsage(created, sub, now).days <= LifetimeUsage(created, sub, later).days
<1>1. ASSUME NEW n \in Nat
      PROVE  LifetimeUsage(created, sub, n).days =
                 IF n < created THEN 1 ELSE (n - created) \div Day + 1
    BY DEF LifetimeUsage
<1>2. \A a, b \in Nat : a <= b => a \div Day \in Nat /\ a \div Day <= b \div Day
    BY DEF Day
<1>3. CASE now < created
    <2>1. later >= created => (later - created) \div Day \in Nat
        BY <1>2
    <2> QED
        BY <1>1, <1>3, <2>1
<1>4. CASE now >= created
    <2>1. now - created \in Nat /\ later - created \in Nat /\ now - created <= later - created
        BY <1>4
    <2>2. /\ (now - created) \div Day \in Nat
          /\ (later - created) \div Day \in Nat
          /\ (now - created) \div Day <= (later - created) \div Day
        BY <1>2, <2>1
    <2> QED
        BY <1>1, <1>4, <2>2
<1> QED
    BY <1>3, <1>4

-----------------------------------------------------------------------------

(* The price in the snapshot of a subscription that update_subscription    *)
(* let through is an enabled price of the plan for that period.            *)
THEOREM AskedPriceIsTaken ==
    ASSUME NEW prices, NEW period, RequireEnabledPrice(prices, period)
    PROVE  \E p \in prices : /\ p.enabled /\ p.period = period
                             /\ SelectPrice(prices, period).period = period
                             /\ SelectPrice(prices, period).amount = p.amount
<1> DEFINE p == CHOOSE q \in EnabledPrices(prices, period) : TRUE
<1>1. p \in EnabledPrices(prices, period)
    BY DEF RequireEnabledPrice
<1>2. p \in prices /\ p.period = period /\ p.enabled
    BY <1>1 DEF EnabledPrices
<1>3. SelectPrice(prices, period) = [period |-> p.period, amount |-> p.amount]
    BY DEF SelectPrice, RequireEnabledPrice
<1>4. /\ SelectPrice(prices, period).period = p.period
      /\ SelectPrice(prices, period).amount = p.amount
    BY <1>3
<1> HIDE DEF p
<1> QED
    BY <1>2, <1>4

(* Items that all have a subscription, as tenants do, are always ordered   *)
(* by expiry; two items of which only one has, and neither an end, are not.*)
THEOREM WhenExpirySortWorks ==
    ASSUME NEW items
    PROVE  /\ (\A n \in DOMAIN items : items[n].found = TRUE) => KeysCompare(items)
           /\ \A m, n \in DOMAIN items :
                 items[m].found = TRUE /\ items[m].ends = Never /\ items[n].found = FALSE
                     => ~KeysCompare(items)
    BY DEF KeysCompare, Endless

-----------------------------------------------------------------------------
(* Pages.                                                                  *)

(* Where the k-th item of a page is in the list.                           *)
Position(page, k, size) == (page - 1) * size + k

(* A page is the stretch of the list from its start, as far as that goes.  *)
LEMMA PageItems ==
    ASSUME NEW T, NEW items \in Seq(T), NEW page \in Nat \ {0}, NEW size \in Nat \ {0}
    PROVE  LET start == (page - 1) * size
               end == IF start + size < Len(items) THEN start + size ELSE Len(items)
           IN  /\ start \in Nat
               /\ Len(Page(items, page, size)) = IF start + 1 <= end THEN end - start ELSE 0
               /\ \A k \in 1 .. Len(Page(items, page, size)) :
                      Page(items, page, size)[k] = items[start + k]
<1> DEFINE start == (page - 1) * size
           end == IF start + size < Len(items) THEN start + size ELSE Len(items)
<1>1. start \in Nat
    OBVIOUS
<1> HIDE DEF start
<1>2. end \in Int /\ end <= Len(items)
    BY <1>1
<1>3. Page(items, page, size) = SubSeq(items, start + 1, end)
    BY DEF Page, start
<1> HIDE DEF end
<1>4. /\ Len(SubSeq(items, start + 1, end)) = IF start + 1 <= end THEN end - (start + 1) + 1 ELSE 0
      /\ \A k \in 1 .. end - (start + 1) + 1 : SubSeq(items, start + 1, end)[k] = items[start + 1 + k - 1]
    BY <1>1, <1>2, SubSeqProperties
<1> QED BY <1>1, <1>2, <1>3, <1>4 DEF start, end

(* A position belongs to one place of one page.                            *)
LEMMA OnePlace ==
    ASSUME NEW size \in Nat \ {0}, NEW page \in Nat \ {0}, NEW other \in Nat \ {0},
           NEW k \in 1 .. size, NEW l \in 1 .. size,
           Position(page, k, size) = Position(other, l, size)
    PROVE  page = other /\ k = l
<1> SUFFICES page = other
    BY DEF Position
<1>1. ASSUME NEW p \in Nat \ {0}, NEW q \in Nat \ {0}, p < q
      PROVE  (p - 1) * size + size <= (q - 1) * size
    <2>1. PICK d \in Nat : q = p + 1 + d
        <3>1. q - p - 1 \in Nat /\ q = p + 1 + (q - p - 1)
            BY <1>1
        <3> QED BY <3>1
    <2>2. (q - 1) * size = (p - 1) * size + size + d * size
        BY <2>1
    <2>3. d * size \in Nat /\ (p - 1) * size \in Nat
        OBVIOUS
    <2> QED BY <2>2, <2>3
<1>2. (page - 1) * size \in Nat /\ (other - 1) * size \in Nat
    OBVIOUS
<1> QED BY <1>1, <1>2 DEF Position

(* Walking the pages shows every item of the list, each in one place, and  *)
(* in the order of the list: nothing is skipped or shown twice.            *)
THEOREM EveryItemOnOnePage ==
    ASSUME NEW T, NEW items \in Seq(T), NEW size \in Nat \ {0}
    PROVE  /\ \A page \in Nat \ {0} : \A k \in 1 .. Len(Page(items, page, size)) :
                 /\ k <= size
                 /\ Position(page, k, size) \in 1 .. Len(items)
                 /\ Page(items, page, size)[k] = items[Position(page, k, size)]
           /\ \A i \in 1 .. Len(items) :
                 \E page \in Nat \ {0} : \E k \in 1 .. Len(Page(items, page, size)) :
                    /\ Position(page, k, size) = i
                    /\ \A other \in Nat \ {0} : \A l \in 1 .. Len(Page(items, other, size)) :
                          Position(other, l, size) = i => other = page /\ l = k
<1>1. ASSUME NEW page \in Nat \ {0}, NEW k \in 1 .. Len(Page(items, page, size))
      PROVE  /\ k <= size
             /\ Position(page, k, size) \in 1 .. Len(items)
             /\ Page(items, page, size)[k] = items[Position(page, k, size)]
    <2> DEFINE start == (page - 1) * size
    <2>1. start \in Nat /\ Position(page, k, size) = start + k
        BY DEF Position
    <2> HIDE DEF start
    <2>2. LET end == IF start + size < Len(items) THEN start + size ELSE Len(items)
          IN  /\ Len(Page(items, page, size)) = IF start + 1 <= end THEN end - start ELSE 0
              /\ Page(items, page, size)[k] = items[start + k]
        BY PageItems DEF start
    <2> QED BY <2>1, <2>2
<1>2. ASSUME NEW i \in 1 .. Len(items)
      PROVE  \E page \in Nat \ {0} : \E k \in 1 .. Len(Page(items, page, size)) :
                Position(page, k, size) = i
    <2> DEFINE page == (i - 1) \div size + 1
               k == ((i - 1) % size) + 1
    <2>1. (i - 1) \div size \in Nat /\ (i - 1) % size \in 0 .. size - 1
        OBVIOUS
    <2>2. i - 1 = size * ((i - 1) \div size) + ((i - 1) % size)
        OBVIOUS
    <2>3. page \in Nat \ {0} /\ k \in 1 .. size /\ i = (page - 1) * size + k
        BY <2>1, <2>2
    <2> HIDE DEF page, k
    <2> DEFINE start == (page - 1) * size
    <2>4. start \in Nat /\ i = start + k
        BY <2>3
    <2> HIDE DEF start
    <2>5. LET end == IF start + size < Len(items) THEN start + size ELSE Len(items)
          IN  Len(Page(items, page, size)) = IF start + 1 <= end THEN end - start ELSE 0
        BY <2>3, PageItems DEF start
    <2>6. k \in 1 .. Len(Page(items, page, size))
        BY <2>3, <2>4, <2>5
    <2> QED BY <2>3, <2>6 DEF Position
<1>3. ASSUME NEW page \in Nat \ {0}, NEW k \in 1 .. Len(Page(items, page, size)),
             NEW other \in Nat \ {0}, NEW l \in 1 .. Len(Page(items, other, size)),
             Position(other, l, size) = Position(page, k, size)
      PROVE  other = page /\ l = k
    <2>1. k <= size /\ l <= size
        BY <1>1
    <2> QED BY <1>3, <2>1, OnePlace
<1>4. ASSUME NEW i \in 1 .. Len(items)
      PROVE  \E page \in Nat \ {0} : \E k \in 1 .. Len(Page(items, page, size)) :
                /\ Position(page, k, size) = i
                /\ \A other \in Nat \ {0} : \A l \in 1 .. Len(Page(items, other, size)) :
                      Position(other, l, size) = i => other = page /\ l = k
    <2>1. PICK page \in Nat \ {0} : \E k \in 1 .. Len(Page(items, page, size)) :
              Position(page, k, size) = i
        BY <1>2
    <2>2. PICK k \in 1 .. Len(Page(items, page, size)) : Position(page, k, size) = i
        BY <2>1
    <2>3. ASSUME NEW other \in Nat \ {0}, NEW l \in 1 .. Len(Page(items, other, size)),
                 Position(other, l, size) = i
          PROVE  other = page /\ l = k
        BY <1>3, <2>2, <2>3
    <2> QED BY <2>2, <2>3
<1> QED BY <1>1, <1>4, Zenon

-----------------------------------------------------------------------------
(* What the prover does not find alone of products and quotients.          *)
LEMMA Scale ==
    ASSUME NEW a \in Nat, NEW x \in Int, NEW y \in Int, x <= y
    PROVE  a * x <= a * y
<1>1. y - x \in Nat /\ y = x + (y - x)
    OBVIOUS
<1>2. a * (y - x) \in Nat
    BY <1>1
<1>3. a * y = a * x + a * (y - x)
    OBVIOUS
<1>4. a * x \in Int
    OBVIOUS
<1> QED BY <1>2, <1>3, <1>4

LEMMA Quotient ==
    ASSUME NEW a \in Nat \ {0}, NEW n \in Nat
    PROVE  /\ n \div a \in Nat
           /\ a * (n \div a) <= n /\ n < a * (n \div a) + a
    OBVIOUS

LEMMA QuotientBelow ==
    ASSUME NEW a \in Nat \ {0}, NEW n \in Nat, NEW k \in Int, n < a * k
    PROVE  n \div a < k
<1> DEFINE q == n \div a
<1>1. q \in Nat /\ a * q <= n
    BY Quotient
<1> HIDE DEF q
<1>2. SUFFICES ASSUME k <= q PROVE FALSE
    BY <1>1 DEF q
<1>3. a * k <= a * q
    BY <1>1, <1>2, Scale
<1>4. a * k \in Int /\ a * q \in Int
    BY <1>1
<1> QED BY <1>1, <1>3, <1>4

LEMMA QuotientMonotone ==
    ASSUME NEW a \in Nat \ {0}, NEW n \in Nat, NEW m \in Nat, n <= m
    PROVE  n \div a <= m \div a
<1> DEFINE q == m \div a
<1>1. q \in Nat /\ m < a * q + a
    BY Quotient
<1> HIDE DEF q
<1>2. a * (q + 1) = a * q + a /\ a * q \in Int
    BY <1>1
<1>3. n < a * (q + 1)
    BY <1>1, <1>2
<1>4. n \div a < q + 1
    BY <1>1, <1>3, QuotientBelow
<1>5. n \div a \in Nat
    BY Quotient
<1> QED BY <1>1, <1>4, <1>5 DEF q

(* The percentage of the limit: within 0 and 100, never less for more      *)
(* questions, 100 once the limit is reached, and, for limits below 20000,  *)
(* not before: above that 99.995 and more are rounded to 100.              *)
THEOREM PercentIsRight ==
    ASSUME NEW used \in Nat, NEW more \in Nat, used <= more, NEW limit \in Int
    PROVE  /\ Percent(used, limit) \in Nat /\ Percent(used, limit) <= 10000
           /\ Percent(used, limit) <= Percent(more, limit)
           /\ limit > 0 /\ used >= limit => Percent(used, limit) = 10000
           /\ 0 < limit /\ limit < 20000 /\ used < limit => Percent(used, limit) < 10000
<1>1. CASE limit <= 0
    BY <1>1 DEF Percent
<1>2. CASE limit > 0
    <2> DEFINE scaled(n) == 20000 * n + limit
               a == 2 * limit
               hundredths(n) == scaled(n) \div a
    <2>1. a \in Nat \ {0} /\ \A n \in Nat : scaled(n) \in Nat
        BY <1>2
    <2>2. \A n \in Nat : Percent(n, limit) = IF n >= limit THEN 10000 ELSE hundredths(n)
        BY <1>2 DEF Percent
    <2>3. \A n \in Nat : n < limit => scaled(n) < a * 10001
        BY <1>2
    <2>4. \A n \in Nat : n < limit /\ limit < 20000 => scaled(n) < a * 10000
        BY <1>2
    <2>5. \A n, m \in Nat : n <= m => scaled(n) <= scaled(m)
        BY <1>2
    <2> HIDE DEF scaled, a
    <2>6. ASSUME NEW n \in Nat
          PROVE  /\ hundredths(n) \in Nat
                 /\ n < limit => hundredths(n) < 10001
                 /\ n < limit /\ limit < 20000 => hundredths(n) < 10000
        <3>1. scaled(n) \in Nat
            BY <2>1
        <3>2. hundredths(n) \in Nat
            BY <2>1, <3>1, Quotient
        <3>3. n < limit => hundredths(n) < 10001
            BY <2>1, <2>3, <3>1, QuotientBelow
        <3>4. n < limit /\ limit < 20000 => hundredths(n) < 10000
            BY <2>1, <2>4, <3>1, QuotientBelow
        <3> QED BY <3>2, <3>3, <3>4
    <2>7. hundredths(used) <= hundredths(more)
        <3>1. scaled(used) \in Nat /\ scaled(more) \in Nat /\ scaled(used) <= scaled(more)
            BY <2>1, <2>5
        <3> QED BY <2>1, <3>1, QuotientMonotone
    <2> DEFINE h == hundredths(used)
               i == hundredths(more)
    <2>8. /\ Percent(used, limit) = IF used >= limit THEN 10000 ELSE h
          /\ Percent(more, limit) = IF more >= limit THEN 10000 ELSE i
        BY <2>2
    <2>9. /\ h \in Nat /\ i \in Nat /\ h <= i
          /\ used < limit => h < 10001
          /\ used < limit /\ limit < 20000 => h < 10000
        BY <2>6, <2>7
    <2> HIDE DEF hundredths
    <2>10. CASE used >= limit
        <3>1. more >= limit
            BY <2>10
        <3>2. Percent(used, limit) = 10000 /\ Percent(more, limit) = 10000
            BY <2>8, <2>10, <3>1
        <3> QED BY <2>10, <3>2
    <2>11. CASE used < limit
        <3>1. Percent(used, limit) = h
            BY <2>8, <2>11
        <3>2. h \in Nat /\ h <= 10000
            BY <2>9, <2>11
        <3>3. h <= Percent(more, limit)
            BY <2>8, <2>9, <3>2
        <3> QED BY <2>9, <2>11, <3>1, <3>2, <3>3
    <2> QED BY <2>10, <2>11
<1>3. limit <= 0 \/ limit > 0
    OBVIOUS
<1> QED BY <1>1, <1>2, <1>3

-----------------------------------------------------------------------------
(* Orders.                                                                 *)

(* out has the items of the list, each once; an item is never after one it *)
(* comes before, and equal items keep their order.                         *)
IsStableSort(out, items, Before(_, _)) ==
    \E f \in Bijection(DOMAIN items, DOMAIN items) :
        /\ out = [n \in DOMAIN items |-> items[f[n]]]
        /\ \A m, n \in DOMAIN items : m < n =>
              /\ ~Before(items[f[n]], items[f[m]])
              /\ Before(items[f[m]], items[f[n]]) \/ f[m] < f[n]

(* less: the pairs of places, of 1 .. n, whose items compare as less.      *)
WeakOrder(less, n) ==
    /\ \A i, j \in 1 .. n : <<i, j>> \in less => <<j, i>> \notin less
    /\ \A i, j, k \in 1 .. n : <<i, j>> \in less => <<i, k>> \in less \/ <<k, j>> \in less

AtOrBefore(less, j, i) == \/ <<j, i>> \in less
                          \/ j <= i /\ <<i, j>> \notin less

Down(less, n, i) == {j \in 1 .. n : AtOrBefore(less, j, i)}

Ranked(less, n) == [m \in 1 .. n |-> CHOOSE i \in 1 .. n : Cardinality(Down(less, n, i)) = m]

(* Counting what is at or before a place ranks the places 1 .. n, without  *)
(* gaps: what the counting of Sorted relies on.                            *)
LEMMA Ranking ==
    ASSUME NEW n \in Nat, NEW less, WeakOrder(less, n)
    PROVE  /\ Ranked(less, n) \in Bijection(1 .. n, 1 .. n)
           /\ \A a, b \in 1 .. n : a < b =>
                 /\ AtOrBefore(less, Ranked(less, n)[a], Ranked(less, n)[b])
                 /\ Ranked(less, n)[a] # Ranked(less, n)[b]
<1> DEFINE L(j, i) == AtOrBefore(less, j, i)
           D == 1 .. n
           rank == [i \in D |-> Cardinality(Down(less, n, i))]
<1>1. \A i, j, k \in D : L(i, j) /\ L(j, k) => L(i, k)
    <2> SUFFICES ASSUME NEW i \in D, NEW j \in D, NEW k \in D, L(i, j), L(j, k)
                 PROVE  L(i, k)
        OBVIOUS
    <2>1. CASE <<i, j>> \in less \/ <<j, k>> \in less
        BY <2>1 DEF WeakOrder, AtOrBefore
    <2>2. CASE <<i, j>> \notin less /\ <<j, k>> \notin less
        BY <2>2 DEF WeakOrder, AtOrBefore
    <2> QED BY <2>1, <2>2
<1>2. \A i, j \in D : L(i, j) \/ L(j, i)
    BY DEF AtOrBefore
<1>3. \A i, j \in D : L(i, j) /\ L(j, i) => i = j
    BY DEF AtOrBefore, WeakOrder
<1>4. IsFiniteSet(D) /\ Cardinality(D) = n
    BY FS_Interval
<1>5. \A i \in D : Down(less, n, i) \subseteq D /\ (\A j \in D : j \in Down(less, n, i) <=> L(j, i))
    BY DEF Down
<1> HIDE DEF L, D
<1>6. ASSUME NEW i \in D
      PROVE  IsFiniteSet(Down(less, n, i)) /\ rank[i] \in 1 .. n
    <2>1. /\ IsFiniteSet(Down(less, n, i))
          /\ Cardinality(Down(less, n, i)) <= n
        BY <1>4, <1>5, FS_Subset
    <2>2. i \in Down(less, n, i)
        BY <1>2, <1>5
    <2>3. Cardinality(Down(less, n, i)) \in Nat /\ Cardinality(Down(less, n, i)) # 0
        BY <2>1, <2>2, FS_EmptySet, FS_CardinalityType
    <2> QED BY <2>1, <2>3
<1>7. ASSUME NEW i \in D, NEW j \in D, L(i, j), i # j
      PROVE  rank[i] < rank[j]
    <2>1. Down(less, n, i) \subseteq Down(less, n, j)
        BY <1>1, <1>5, <1>7
    <2>2. j \in Down(less, n, j) /\ j \notin Down(less, n, i)
        BY <1>2, <1>3, <1>5, <1>7
    <2>3. /\ Cardinality(Down(less, n, i)) <= Cardinality(Down(less, n, j))
          /\ Cardinality(Down(less, n, i)) # Cardinality(Down(less, n, j))
        BY <1>6, <2>1, <2>2, FS_Subset
    <2>4. Cardinality(Down(less, n, i)) \in Nat /\ Cardinality(Down(less, n, j)) \in Nat
        BY <1>6, FS_CardinalityType
    <2> QED BY <2>3, <2>4
<1>8. rank \in Injection(D, D)
    <2>1. rank \in [D -> D]
        BY <1>6 DEF D
    <2>2. \A i, j \in D : rank[i] = rank[j] => i = j
        <3> SUFFICES ASSUME NEW i \in D, NEW j \in D, i # j PROVE rank[i] # rank[j]
            OBVIOUS
        <3>1. rank[i] < rank[j] \/ rank[j] < rank[i]
            BY <1>2, <1>7
        <3>2. rank[i] \in Int /\ rank[j] \in Int
            BY <1>6
        <3> QED BY <3>1, <3>2
    <2> QED BY <2>1, <2>2, Fun_IsInj
<1>9. rank \in Surjection(D, D)
    BY <1>4, <1>8, FS_Injection
<1> HIDE DEF rank
<1> DEFINE f == Ranked(less, n)
<1>10. f = [m \in D |-> CHOOSE i \in D : rank[i] = m]
    BY DEF Ranked, rank, D
<1>11. \A m \in D : f[m] \in D /\ rank[f[m]] = m
    BY <1>9, <1>10 DEF Surjection
<1>12. f \in [D -> D]
    BY <1>10, <1>11
<1> HIDE DEF f
<1>13. \A i \in D : rank[i] \in D /\ f[rank[i]] = i
    BY <1>6, <1>8, <1>11 DEF Injection, IsInjective, D
<1>14. f \in Bijection(D, D)
    <2>1. \A a, b \in D : f[a] = f[b] => a = b
        BY <1>11
    <2>2. \A i \in D : \E m \in D : f[m] = i
        BY <1>13
    <2> QED BY <1>12, <2>1, <2>2, Fun_IsBij
<1>15. ASSUME NEW a \in D, NEW b \in D, a < b
       PROVE  L(f[a], f[b]) /\ f[a] # f[b]
    <2>1. f[a] # f[b]
        BY <1>11, <1>15 DEF D
    <2>2. ~L(f[b], f[a])
        BY <1>7, <1>11, <1>15, <2>1 DEF D
    <2> QED BY <1>2, <1>11, <2>1, <2>2
<1> QED BY <1>14, <1>15 DEF f, L, D

(* Items as the lists have them; a name and an id are ranks in their order.*)
Item == [found : BOOLEAN, ends : Time, used : Nat, start : Nat, name : Nat, id : Nat,
         status : STRING, kind : STRING, type : SUBSET STRING, text : SUBSET STRING]

(* Each order of the lists is a weak order of the items, so it sorts.      *)
LEMMA EndsSorts ==
    ASSUME NEW items \in Seq(Item)
    PROVE  IsStableSort(Sorted(items, EndsBefore), items, EndsBefore)
<1> DEFINE n == Len(items)
           less == {p \in (1 .. n) \X (1 .. n) : EndsBefore(items[p[1]], items[p[2]])}
<1>1. n \in Nat /\ DOMAIN items = 1 .. n /\ \A i \in 1 .. n : items[i] \in Item
    OBVIOUS
<1>2. \A a, b \in Item : EndsBefore(a, b) => ~EndsBefore(b, a)
    BY DEF EndsBefore, Endless, Time, Never, Item
<1>3. ASSUME NEW a \in Item, NEW b \in Item, NEW c \in Item, EndsBefore(a, b)
      PROVE  EndsBefore(a, c) \/ EndsBefore(c, b)
    <2>1. a.ends \in Int /\ b.ends \in Int /\ c.ends \in Int
        <3>1. a.ends \in Time /\ b.ends \in Time /\ c.ends \in Time
            BY Zenon DEF Item
        <3>2. \A t \in Time : t \in Int
            BY DEF Time, Never
        <3> QED BY <3>1, <3>2
    <2> QED BY <1>3, <2>1 DEF EndsBefore
<1>4. WeakOrder(less, n)
    BY <1>1, <1>2, <1>3 DEF WeakOrder
<1>5. \A i, j \in 1 .. n : <<i, j>> \in less <=> EndsBefore(items[i], items[j])
    OBVIOUS
<1> HIDE DEF less
<1>6. ASSUME NEW i \in 1 .. n
      PROVE  Down(less, n, i) = {j \in DOMAIN items :
                                    \/ EndsBefore(items[j], items[i])
                                    \/ j <= i /\ ~EndsBefore(items[i], items[j])}
    BY <1>1, <1>5 DEF Down, AtOrBefore
<1>7. \A i \in 1 .. n :
          Cardinality({j \in DOMAIN items : \/ EndsBefore(items[j], items[i])
                                            \/ j <= i /\ ~EndsBefore(items[i], items[j])})
              = Cardinality(Down(less, n, i))
    BY <1>6
<1>8. ASSUME NEW m \in 1 .. n
      PROVE  (CHOOSE i \in DOMAIN items :
                 Cardinality({j \in DOMAIN items : \/ EndsBefore(items[j], items[i])
                                                   \/ j <= i /\ ~EndsBefore(items[i], items[j])}) = m)
             = Ranked(less, n)[m]
    BY <1>1, <1>7 DEF Ranked
<1>9. Sorted(items, EndsBefore) = [m \in 1 .. n |-> items[Ranked(less, n)[m]]]
    <2>1. Sorted(items, EndsBefore) =
              [m \in DOMAIN items |-> items[CHOOSE i \in DOMAIN items :
                 Cardinality({j \in DOMAIN items : \/ EndsBefore(items[j], items[i])
                                                   \/ j <= i /\ ~EndsBefore(items[i], items[j])}) = m]]
        BY Zenon DEF Sorted
    <2> QED BY <1>1, <1>8, <2>1
<1>10. /\ Ranked(less, n) \in Bijection(1 .. n, 1 .. n)
       /\ \A a, b \in 1 .. n : a < b =>
              /\ AtOrBefore(less, Ranked(less, n)[a], Ranked(less, n)[b])
              /\ Ranked(less, n)[a] # Ranked(less, n)[b]
    BY <1>1, <1>4, Ranking
<1> DEFINE f == Ranked(less, n)
<1>11. \A a \in 1 .. n : f[a] \in 1 .. n /\ items[f[a]] \in Item
    BY <1>1, <1>10 DEF Bijection, Injection
<1>12. ASSUME NEW a \in 1 .. n, NEW b \in 1 .. n, a < b
       PROVE  /\ ~EndsBefore(items[f[b]], items[f[a]])
              /\ EndsBefore(items[f[a]], items[f[b]]) \/ f[a] < f[b]
    <2>1. AtOrBefore(less, f[a], f[b]) /\ f[a] # f[b]
        BY <1>10, <1>12
    <2> QED BY <1>2, <1>5, <1>11, <2>1 DEF AtOrBefore
<1> QED BY <1>1, <1>9, <1>10, <1>12 DEF IsStableSort

LEMMA UsesSorts ==
    ASSUME NEW items \in Seq(Item)
    PROVE  IsStableSort(Sorted(items, UsesMore), items, UsesMore)
<1> DEFINE n == Len(items)
           less == {p \in (1 .. n) \X (1 .. n) : UsesMore(items[p[1]], items[p[2]])}
<1>1. n \in Nat /\ DOMAIN items = 1 .. n /\ \A i \in 1 .. n : items[i] \in Item
    OBVIOUS
<1>2. \A a, b \in Item : UsesMore(a, b) => ~UsesMore(b, a)
    BY DEF UsesMore, Item
<1>3. ASSUME NEW a \in Item, NEW b \in Item, NEW c \in Item, UsesMore(a, b)
      PROVE  UsesMore(a, c) \/ UsesMore(c, b)
    BY <1>3 DEF UsesMore, Item
<1>4. WeakOrder(less, n)
    BY <1>1, <1>2, <1>3 DEF WeakOrder
<1>5. \A i, j \in 1 .. n : <<i, j>> \in less <=> UsesMore(items[i], items[j])
    OBVIOUS
<1> HIDE DEF less
<1>6. ASSUME NEW i \in 1 .. n
      PROVE  Down(less, n, i) = {j \in DOMAIN items :
                                    \/ UsesMore(items[j], items[i])
                                    \/ j <= i /\ ~UsesMore(items[i], items[j])}
    BY <1>1, <1>5 DEF Down, AtOrBefore
<1>7. \A i \in 1 .. n :
          Cardinality({j \in DOMAIN items : \/ UsesMore(items[j], items[i])
                                            \/ j <= i /\ ~UsesMore(items[i], items[j])})
              = Cardinality(Down(less, n, i))
    BY <1>6
<1>8. ASSUME NEW m \in 1 .. n
      PROVE  (CHOOSE i \in DOMAIN items :
                 Cardinality({j \in DOMAIN items : \/ UsesMore(items[j], items[i])
                                                   \/ j <= i /\ ~UsesMore(items[i], items[j])}) = m)
             = Ranked(less, n)[m]
    BY <1>1, <1>7 DEF Ranked
<1>9. Sorted(items, UsesMore) = [m \in 1 .. n |-> items[Ranked(less, n)[m]]]
    <2>1. Sorted(items, UsesMore) =
              [m \in DOMAIN items |-> items[CHOOSE i \in DOMAIN items :
                 Cardinality({j \in DOMAIN items : \/ UsesMore(items[j], items[i])
                                                   \/ j <= i /\ ~UsesMore(items[i], items[j])}) = m]]
        BY Zenon DEF Sorted
    <2> QED BY <1>1, <1>8, <2>1
<1>10. /\ Ranked(less, n) \in Bijection(1 .. n, 1 .. n)
       /\ \A a, b \in 1 .. n : a < b =>
              /\ AtOrBefore(less, Ranked(less, n)[a], Ranked(less, n)[b])
              /\ Ranked(less, n)[a] # Ranked(less, n)[b]
    BY <1>1, <1>4, Ranking
<1> DEFINE f == Ranked(less, n)
<1>11. \A a \in 1 .. n : f[a] \in 1 .. n /\ items[f[a]] \in Item
    BY <1>1, <1>10 DEF Bijection, Injection
<1>12. ASSUME NEW a \in 1 .. n, NEW b \in 1 .. n, a < b
       PROVE  /\ ~UsesMore(items[f[b]], items[f[a]])
              /\ UsesMore(items[f[a]], items[f[b]]) \/ f[a] < f[b]
    <2>1. AtOrBefore(less, f[a], f[b]) /\ f[a] # f[b]
        BY <1>10, <1>12
    <2> QED BY <1>2, <1>5, <1>11, <2>1 DEF AtOrBefore
<1> QED BY <1>1, <1>9, <1>10, <1>12 DEF IsStableSort

LEMMA StartsSorts ==
    ASSUME NEW items \in Seq(Item)
    PROVE  IsStableSort(Sorted(items, StartsAfter), items, StartsAfter)
<1> DEFINE n == Len(items)
           less == {p \in (1 .. n) \X (1 .. n) : StartsAfter(items[p[1]], items[p[2]])}
<1>1. n \in Nat /\ DOMAIN items = 1 .. n /\ \A i \in 1 .. n : items[i] \in Item
    OBVIOUS
<1>2. \A a, b \in Item : StartsAfter(a, b) => ~StartsAfter(b, a)
    BY DEF StartsAfter, Item
<1>3. ASSUME NEW a \in Item, NEW b \in Item, NEW c \in Item, StartsAfter(a, b)
      PROVE  StartsAfter(a, c) \/ StartsAfter(c, b)
    BY <1>3 DEF StartsAfter, Item
<1>4. WeakOrder(less, n)
    BY <1>1, <1>2, <1>3 DEF WeakOrder
<1>5. \A i, j \in 1 .. n : <<i, j>> \in less <=> StartsAfter(items[i], items[j])
    OBVIOUS
<1> HIDE DEF less
<1>6. ASSUME NEW i \in 1 .. n
      PROVE  Down(less, n, i) = {j \in DOMAIN items :
                                    \/ StartsAfter(items[j], items[i])
                                    \/ j <= i /\ ~StartsAfter(items[i], items[j])}
    BY <1>1, <1>5 DEF Down, AtOrBefore
<1>7. \A i \in 1 .. n :
          Cardinality({j \in DOMAIN items : \/ StartsAfter(items[j], items[i])
                                            \/ j <= i /\ ~StartsAfter(items[i], items[j])})
              = Cardinality(Down(less, n, i))
    BY <1>6
<1>8. ASSUME NEW m \in 1 .. n
      PROVE  (CHOOSE i \in DOMAIN items :
                 Cardinality({j \in DOMAIN items : \/ StartsAfter(items[j], items[i])
                                                   \/ j <= i /\ ~StartsAfter(items[i], items[j])}) = m)
             = Ranked(less, n)[m]
    BY <1>1, <1>7 DEF Ranked
<1>9. Sorted(items, StartsAfter) = [m \in 1 .. n |-> items[Ranked(less, n)[m]]]
    <2>1. Sorted(items, StartsAfter) =
              [m \in DOMAIN items |-> items[CHOOSE i \in DOMAIN items :
                 Cardinality({j \in DOMAIN items : \/ StartsAfter(items[j], items[i])
                                                   \/ j <= i /\ ~StartsAfter(items[i], items[j])}) = m]]
        BY Zenon DEF Sorted
    <2> QED BY <1>1, <1>8, <2>1
<1>10. /\ Ranked(less, n) \in Bijection(1 .. n, 1 .. n)
       /\ \A a, b \in 1 .. n : a < b =>
              /\ AtOrBefore(less, Ranked(less, n)[a], Ranked(less, n)[b])
              /\ Ranked(less, n)[a] # Ranked(less, n)[b]
    BY <1>1, <1>4, Ranking
<1> DEFINE f == Ranked(less, n)
<1>11. \A a \in 1 .. n : f[a] \in 1 .. n /\ items[f[a]] \in Item
    BY <1>1, <1>10 DEF Bijection, Injection
<1>12. ASSUME NEW a \in 1 .. n, NEW b \in 1 .. n, a < b
       PROVE  /\ ~StartsAfter(items[f[b]], items[f[a]])
              /\ StartsAfter(items[f[a]], items[f[b]]) \/ f[a] < f[b]
    <2>1. AtOrBefore(less, f[a], f[b]) /\ f[a] # f[b]
        BY <1>10, <1>12
    <2> QED BY <1>2, <1>5, <1>11, <2>1 DEF AtOrBefore
<1> QED BY <1>1, <1>9, <1>10, <1>12 DEF IsStableSort

LEMMA NamesSorts ==
    ASSUME NEW items \in Seq(Item)
    PROVE  IsStableSort(Sorted(items, NameBefore), items, NameBefore)
<1> DEFINE n == Len(items)
           less == {p \in (1 .. n) \X (1 .. n) : NameBefore(items[p[1]], items[p[2]])}
<1>1. n \in Nat /\ DOMAIN items = 1 .. n /\ \A i \in 1 .. n : items[i] \in Item
    OBVIOUS
<1>2. \A a, b \in Item : NameBefore(a, b) => ~NameBefore(b, a)
    BY DEF NameBefore, Item
<1>3. ASSUME NEW a \in Item, NEW b \in Item, NEW c \in Item, NameBefore(a, b)
      PROVE  NameBefore(a, c) \/ NameBefore(c, b)
    BY <1>3 DEF NameBefore, Item
<1>4. WeakOrder(less, n)
    BY <1>1, <1>2, <1>3 DEF WeakOrder
<1>5. \A i, j \in 1 .. n : <<i, j>> \in less <=> NameBefore(items[i], items[j])
    OBVIOUS
<1> HIDE DEF less
<1>6. ASSUME NEW i \in 1 .. n
      PROVE  Down(less, n, i) = {j \in DOMAIN items :
                                    \/ NameBefore(items[j], items[i])
                                    \/ j <= i /\ ~NameBefore(items[i], items[j])}
    BY <1>1, <1>5 DEF Down, AtOrBefore
<1>7. \A i \in 1 .. n :
          Cardinality({j \in DOMAIN items : \/ NameBefore(items[j], items[i])
                                            \/ j <= i /\ ~NameBefore(items[i], items[j])})
              = Cardinality(Down(less, n, i))
    BY <1>6
<1>8. ASSUME NEW m \in 1 .. n
      PROVE  (CHOOSE i \in DOMAIN items :
                 Cardinality({j \in DOMAIN items : \/ NameBefore(items[j], items[i])
                                                   \/ j <= i /\ ~NameBefore(items[i], items[j])}) = m)
             = Ranked(less, n)[m]
    BY <1>1, <1>7 DEF Ranked
<1>9. Sorted(items, NameBefore) = [m \in 1 .. n |-> items[Ranked(less, n)[m]]]
    <2>1. Sorted(items, NameBefore) =
              [m \in DOMAIN items |-> items[CHOOSE i \in DOMAIN items :
                 Cardinality({j \in DOMAIN items : \/ NameBefore(items[j], items[i])
                                                   \/ j <= i /\ ~NameBefore(items[i], items[j])}) = m]]
        BY Zenon DEF Sorted
    <2> QED BY <1>1, <1>8, <2>1
<1>10. /\ Ranked(less, n) \in Bijection(1 .. n, 1 .. n)
       /\ \A a, b \in 1 .. n : a < b =>
              /\ AtOrBefore(less, Ranked(less, n)[a], Ranked(less, n)[b])
              /\ Ranked(less, n)[a] # Ranked(less, n)[b]
    BY <1>1, <1>4, Ranking
<1> DEFINE f == Ranked(less, n)
<1>11. \A a \in 1 .. n : f[a] \in 1 .. n /\ items[f[a]] \in Item
    BY <1>1, <1>10 DEF Bijection, Injection
<1>12. ASSUME NEW a \in 1 .. n, NEW b \in 1 .. n, a < b
       PROVE  /\ ~NameBefore(items[f[b]], items[f[a]])
              /\ NameBefore(items[f[a]], items[f[b]]) \/ f[a] < f[b]
    <2>1. AtOrBefore(less, f[a], f[b]) /\ f[a] # f[b]
        BY <1>10, <1>12
    <2> QED BY <1>2, <1>5, <1>11, <2>1 DEF AtOrBefore
<1> QED BY <1>1, <1>9, <1>10, <1>12 DEF IsStableSort

(* Both lists are the kept items, each once, in the order asked for, and   *)
(* equal items stay as the query gave them; where the sort raises (the     *)
(* expiry keys do not compare) there is no list and ok is FALSE.           *)
THEOREM ListsAreStablySorted ==
    ASSUME NEW items \in Seq(Item)
    PROVE  /\ IsStableSort(SortUserSummaries(items, "expiresAt"), items, EndsBefore)
           /\ IsStableSort(SortUserSummaries(items, "monthlyUsage"), items, UsesMore)
           /\ IsStableSort(SortUserSummaries(items, "subscriptionStart"), items, StartsAfter)
           /\ IsStableSort(SortTenants(items, "name"), items, NameBefore)
           /\ \A sort \in {"expiresAt", "monthlyUsage", "subscriptionStart"} :
                 SortTenants(items, sort) = SortUserSummaries(items, sort)
<1>1. IsStableSort(SortUserSummaries(items, "expiresAt"), items, EndsBefore)
    BY EndsSorts DEF SortUserSummaries
<1>2. IsStableSort(SortUserSummaries(items, "monthlyUsage"), items, UsesMore)
    BY UsesSorts DEF SortUserSummaries
<1>3. IsStableSort(SortUserSummaries(items, "subscriptionStart"), items, StartsAfter)
    BY StartsSorts DEF SortUserSummaries
<1>4. IsStableSort(SortTenants(items, "name"), items, NameBefore)
    BY NamesSorts DEF SortTenants
<1>5. \A sort \in {"expiresAt", "monthlyUsage", "subscriptionStart"} :
          SortTenants(items, sort) = SortUserSummaries(items, sort)
    BY DEF SortTenants, SortUserSummaries
<1> QED BY <1>1, <1>2, <1>3, <1>4, <1>5
=============================================================================
