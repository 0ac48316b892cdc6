----------------------------- MODULE RulesProofs -----------------------------
(***************************************************************************)
(* Proofs about Rules: dates in any zone, quotes of any range of days at   *)
(* any price, times of any precision, and lists of any length.             *)
(***************************************************************************)
EXTENDS Rules, SumLemmas, SequenceTheorems

-----------------------------------------------------------------------------
(* Integers                                                                *)

\* Products keep the order of their first factors.
LEMMA TimesMonotone == \A x, y, z \in Int : x <= y /\ 0 <= z => x * z <= y * z
  OBVIOUS

\* The quotient is the greatest number whose product fits.
LEMMA Quotient ==
  ASSUME NEW a \in Nat, NEW b \in Nat \ {0}
  PROVE  /\ a \div b \in Nat
         /\ (a \div b) * b <= a
         /\ \A q \in Int : q * b <= a => q <= a \div b
<1>1. a \div b \in Int /\ (a \div b) * b <= a /\ a < (a \div b) * b + b
  OBVIOUS
<1>2. ASSUME NEW q \in Int, q * b <= a, a \div b + 1 <= q PROVE FALSE
  <2>1. (a \div b + 1) * b <= q * b
    BY <1>1, <1>2, TimesMonotone
  <2>2. (a \div b + 1) * b = (a \div b) * b + b
    BY <1>1
  <2>3. QED
    BY <1>1, <1>2, <2>1, <2>2
<1>3. \A q \in Int : q * b <= a => q <= a \div b
  BY <1>1, <1>2
<1>4. 0 * b <= a
  OBVIOUS
<1>5. QED
  BY <1>1, <1>3, <1>4

\* A greater dividend gives no smaller quotient.
LEMMA QuotientMonotone ==
  ASSUME NEW a \in Nat, NEW c \in Nat, a <= c, NEW b \in Nat \ {0}
  PROVE  a \div b <= c \div b
<1>1. a \div b \in Int /\ (a \div b) * b <= a
  BY Quotient
<1>2. (a \div b) * b \in Int
  BY <1>1
<1>3. (a \div b) * b <= c
  BY <1>1, <1>2
<1>4. QED
  BY <1>1, <1>3, Quotient

-----------------------------------------------------------------------------
(* Dates                                                                   *)

AnyZone == [offset: Int, shift: {-1, 1}, at: Int]

\* The clock goes from before the wall time to after it.
Skips(z, w) == z.shift = 1 /\ z.at + z.offset = w

\* time.Date finds an instant of the wall time, or one an hour away from a skipped one.
LEMMA WallTimeFound ==
  ASSUME NEW z \in AnyZone, NEW w \in Int
  PROVE  /\ DateTime(z, w) \in Int
         /\ Local(z, DateTime(z, w)) = IF ~Skips(z, w) THEN w
                                       ELSE IF z.offset < 0 THEN w - 1 ELSE w + 1
<1>1. z.offset \in Int /\ z.at \in Int /\ (z.shift = 1 \/ z.shift = -1)
  BY DEF AnyZone
<1>2. QED
  BY <1>1 DEF DateTime, Local, OffsetAt, Skips

\* midnight and Nights, for every zone whose clock changes by an hour once: the midnight of a
\* date lies in that date, and the day after a night that does not begin in the last hour of
\* a day lies in the next date, just when the clock does not skip the midnight of that date
\* west of Greenwich.
THEOREM NightsFollowDates ==
  ASSUME NEW z \in AnyZone, NEW date \in Int
  PROVE  /\ DateOf(z, ParseDate(z, date)) = date <=> ~SkipsMidnight(z, date)
         /\ \A t \in Int : DateOf(z, t) = date - 1 /\ Local(z, t) % 24 = 0 =>
               (DateOf(z, AddDay(z, t)) = date <=> ~SkipsMidnight(z, date))
         /\ \A t \in Int : DateOf(z, t) = date - 1 /\ Local(z, t) % 24 \in 1..22 =>
               DateOf(z, AddDay(z, t)) = date
<1>1. z.offset \in Int /\ z.at \in Int /\ (z.shift = 1 \/ z.shift = -1)
  BY DEF AnyZone
<1>2. SkipsMidnight(z, date) <=> Skips(z, 24 * date) /\ z.offset < 0
  BY <1>1 DEF SkipsMidnight, Skips
<1>3. \A w \in Int : Local(z, DateTime(z, w)) \in Int
  BY <1>1, WallTimeFound
<1>4. DateOf(z, DateTime(z, 24 * date)) = date <=> ~SkipsMidnight(z, date)
  BY <1>2, WallTimeFound DEF DateOf
<1>5. ASSUME NEW t \in Int, DateOf(z, t) = date - 1, Local(z, t) % 24 = 0
      PROVE  AddDay(z, t) = DateTime(z, 24 * date)
  <2>1. Local(z, t) \in Int
    BY <1>1 DEF Local, OffsetAt
  <2>2. Local(z, t) + 24 = 24 * date
    BY <1>5, <2>1 DEF DateOf
  <2>3. QED
    BY <2>2 DEF AddDay
<1>6. ASSUME NEW t \in Int, DateOf(z, t) = date - 1, Local(z, t) % 24 \in 1..22
      PROVE  DateOf(z, AddDay(z, t)) = date
  <2>1. Local(z, t) \in Int
    BY <1>1 DEF Local, OffsetAt
  <2>2. Local(z, t) + 24 \in 24 * date + 1..24 * date + 22
    BY <1>6, <2>1 DEF DateOf
  <2>3. Local(z, AddDay(z, t)) \in 24 * date..24 * date + 23
    BY <2>1, <2>2, WallTimeFound DEF AddDay
  <2>4. QED
    BY <2>3 DEF DateOf
<1>7. QED
  BY <1>4, <1>5, <1>6 DEF ParseDate

-----------------------------------------------------------------------------
(* Quotes                                                                  *)

\* Any range of days with at most one change of the clock in either direction.
AnyRange == [nights: Nat \ {0}, first: Nat, short: 0..1, long: 0..1, holidays: SUBSET Nat]

\* A number that fits is left as it is.
LEMMA WrapFits ==
  ASSUME NEW n \in Nat, n <= LastWord
  PROVE  Wrap(n) = n /\ Points(n) = n \div Whole
<1> DEFINE half == Word \div 2
<1>1. half \in Nat /\ Word = 2 * half /\ n + half < Word /\ Word \in Nat \ {0}
  BY PricingAssumption DEF LastWord
<1>2. (n + half) % Word = n + half
  <2> HIDE DEF half
  <2>1. \A m \in Nat, w \in Nat \ {0} : m < w => m % w = m
    OBVIOUS
  <2>2. QED
    BY <1>1, <2>1
<1>3. QED
  BY <1>1, <1>2 DEF Wrap, Points

\* Hours are nights up to one.
LEMMA NightsCounted ==
  ASSUME NEW r \in AnyRange
  PROVE  /\ NightCount(r) = IF r.short > r.long THEN r.nights - 1 ELSE r.nights
         /\ NightCount(r) \in Nat
  BY DEF AnyRange, NightCount, Elapsed

\* A night's factor is at least one and at most that of a holiday.
LEMMA FactorRange ==
  ASSUME NEW r \in AnyRange, NEW i \in Nat
  PROVE  /\ Factor(r, i) \in Nat /\ Factor(r, i) <= HolidayPoints
         /\ Whole <= Factor(r, i)
  BY PricingAssumption, PolicyAssumption DEF AnyRange, Factor

\* What the i-th night costs, and the most a night can cost.
NightPrice(r, base, i) == (base * Factor(r, i)) \div Whole
Dearest(base) == (base * HolidayPoints) \div Whole

\* A night costs at least the base price and at most the price of a holiday.
LEMMA NightPriceRange ==
  ASSUME NEW r \in AnyRange, NEW base \in Nat, NEW i \in Nat
  PROVE  /\ base * Factor(r, i) \in Nat
         /\ base * Factor(r, i) <= base * HolidayPoints
         /\ NightPrice(r, base, i) \in Nat
         /\ base <= NightPrice(r, base, i) /\ NightPrice(r, base, i) <= Dearest(base)
<1> DEFINE f == Factor(r, i)
<1>1. f \in Nat /\ Whole <= f /\ f <= HolidayPoints /\ Whole \in Nat \ {0} /\ HolidayPoints \in Nat
  BY FactorRange, PricingAssumption
<1> HIDE DEF f
<1>2. base * f \in Nat /\ base * HolidayPoints \in Nat /\ base * Whole \in Nat
  BY <1>1
<1>3. base * f <= base * HolidayPoints /\ base * Whole <= base * f
  BY <1>1
<1>4. /\ (base * f) \div Whole \in Nat
      /\ (base * f) \div Whole <= (base * HolidayPoints) \div Whole
      /\ base <= (base * f) \div Whole
  BY <1>1, <1>2, <1>3, Quotient, QuotientMonotone
<1>5. QED
  BY <1>2, <1>3, <1>4 DEF f, NightPrice, Dearest

\* All nights together cost no more than as many of the dearest.
LEMMA ExactTotalRange ==
  ASSUME NEW r \in AnyRange, NEW base \in Nat
  PROVE  ExactTotal(r, base) \in Nat /\ ExactTotal(r, base) <= r.nights * Dearest(base)
<1> DEFINE S == 1..r.nights
           F == [i \in S |-> NightPrice(r, base, i)]
<1>1. r.nights \in Nat \ {0} /\ IsFiniteSet(S) /\ Cardinality(S) = r.nights
  BY FS_Interval DEF AnyRange
<1>2. ExactTotal(r, base) = SumFunctionOnSet(F, S)
  BY DEF ExactTotal, NightPrice, SumFunction
<1>3. \A i \in S : F[i] \in Int /\ 0 <= F[i] /\ F[i] <= Dearest(base)
  <2>1. TAKE i \in S
  <2>2. i \in Nat
    BY <1>1
  <2>3. NightPrice(r, base, i) \in Nat /\ NightPrice(r, base, i) <= Dearest(base)
    BY <2>2, NightPriceRange
  <2>4. QED
    BY <2>3
<1>4. Dearest(base) \in Int
  BY PricingAssumption, Quotient DEF Dearest
<1>5. IsFiniteSet({}) /\ SumFunctionOnSet(F, {}) = 0
  BY FS_EmptySet, SumOfNone
<1> HIDE DEF F, S
<1>6. SumFunctionOnSet(F, S) \in Int
  BY <1>1, <1>3, SumIsInt
<1>7. SumFunctionOnSet(F, {}) <= SumFunctionOnSet(F, S)
  BY <1>1, <1>3, <1>5, SumAtMost
<1>8. SumFunctionOnSet(F, S) <= r.nights * Dearest(base)
  BY <1>1, <1>3, <1>4, SumWithin
<1>9. QED
  BY <1>2, <1>5, <1>6, <1>7, <1>8

\* The price that the nights of a safe stay come to, without and with the discount, fits.
LEMMA SafeTotal ==
  ASSUME NEW r \in AnyRange, NEW base \in Nat, Safe(r, base)
  PROVE  /\ ExactTotal(r, base) <= LastWord
         /\ ExactTotal(r, base) * LongStayPoints \in Nat
         /\ ExactTotal(r, base) * LongStayPoints <= LastWord
<1> DEFINE t == ExactTotal(r, base)
           m == r.nights * Dearest(base)
<1>1. t \in Nat /\ t <= m /\ m \in Int
  <2>1. Dearest(base) \in Int /\ r.nights \in Int
    BY PricingAssumption, Quotient DEF Dearest, AnyRange
  <2>2. QED
    BY <2>1, ExactTotalRange
<1>2. m * LongStayPoints <= LastWord /\ LongStayPoints \in Nat \ {0} /\ LastWord \in Int
  BY PricingAssumption DEF Safe, Dearest, LastWord
<1> HIDE DEF t, m
<1>3. t * LongStayPoints <= m * LongStayPoints
  BY <1>1, <1>2, TimesMonotone
<1>4. t <= t * LongStayPoints /\ t * LongStayPoints \in Nat /\ m * LongStayPoints \in Int
  BY <1>1, <1>2
<1>5. t <= LastWord /\ t * LongStayPoints \in Nat /\ t * LongStayPoints <= LastWord
  BY <1>1, <1>2, <1>3, <1>4
<1>6. QED
  BY <1>5 DEF t

\* No intermediate result of a safe stay wraps.
LEMMA SafeQuoteIsExact ==
  ASSUME NEW r \in AnyRange, NEW base \in Nat, Safe(r, base)
  PROVE  Quote(r, base) = ExactQuote(r, base) /\ Quote(r, base) \in Nat
<1> DEFINE t == ExactTotal(r, base)
<1>1. \A i \in 1..r.nights : Points(Wrap(base * Factor(r, i))) = (base * Factor(r, i)) \div Whole
  <2>1. TAKE i \in 1..r.nights
  <2>2. base * Factor(r, i) \in Nat /\ base * Factor(r, i) <= base * HolidayPoints
    <3>1. i \in Nat
      BY DEF AnyRange
    <3>2. QED
      BY <3>1, NightPriceRange
  <2>3. base * HolidayPoints <= LastWord /\ base * HolidayPoints \in Int /\ LastWord \in Int
    BY PricingAssumption DEF Safe, LastWord
  <2>4. base * Factor(r, i) <= LastWord
    BY <2>2, <2>3
  <2>5. QED
    BY <2>2, <2>4, WrapFits
<1>2. [i \in 1..r.nights |-> Points(Wrap(base * Factor(r, i)))]
      = [i \in 1..r.nights |-> (base * Factor(r, i)) \div Whole]
  BY <1>1
<1>3. Total(r, base) = Wrap(t)
  BY <1>2 DEF Total, ExactTotal
<1>4. t \in Nat /\ t <= LastWord /\ t * LongStayPoints \in Nat /\ t * LongStayPoints <= LastWord
  BY ExactTotalRange, SafeTotal
<1> HIDE DEF t
<1>5. Total(r, base) = t /\ LongStayPrice(t) = (t * LongStayPoints) \div Whole
  BY <1>3, <1>4, WrapFits DEF LongStayPrice
<1>6. (t * LongStayPoints) \div Whole \in Nat
  BY <1>4, Quotient, PricingAssumption
<1>7. QED
  BY <1>4, <1>5, <1>6 DEF Quote, ExactQuote, t

\* The stay r with one more night, which is no holiday, and perhaps a change of the clock.
Longer(r, short, long) == [r EXCEPT !.nights = r.nights + 1, !.short = short, !.long = long]

\* One more night adds its price, which is at least the base price.
LEMMA OneMoreNight ==
  ASSUME NEW r \in AnyRange, NEW base \in Nat, NEW short \in 0..1, NEW long \in 0..1
  PROVE  LET longer == Longer(r, short, long)
         IN  /\ longer \in AnyRange
             /\ longer.nights = r.nights + 1 /\ longer.short = short /\ longer.long = long
             /\ ExactTotal(longer, base)
                   = ExactTotal(r, base) + NightPrice(longer, base, r.nights + 1)
<1> DEFINE longer == Longer(r, short, long)
           n == r.nights
           S == 1..n
           T == 1..n + 1
           F == [i \in S |-> NightPrice(r, base, i)]
           G == [i \in T |-> NightPrice(longer, base, i)]
<1>1. /\ longer \in AnyRange /\ longer.nights = n + 1 /\ longer.first = r.first
      /\ longer.short = short /\ longer.long = long /\ longer.holidays = r.holidays
  <2>1. ASSUME NEW m \in Nat \ {0}
        PROVE  LET q == [r EXCEPT !.nights = m, !.short = short, !.long = long]
               IN  /\ q \in AnyRange /\ q.nights = m /\ q.first = r.first
                   /\ q.short = short /\ q.long = long /\ q.holidays = r.holidays
    BY DEF AnyRange
  <2>2. n + 1 \in Nat \ {0}
    BY DEF AnyRange
  <2>3. QED
    BY <2>1, <2>2 DEF Longer
<1>2. n \in Nat \ {0}
  BY DEF AnyRange
<1> HIDE DEF longer, n
<1>3. ExactTotal(r, base) = SumFunctionOnSet(F, S)
  BY DEF ExactTotal, NightPrice, SumFunction, n
<1>4. ExactTotal(longer, base) = SumFunctionOnSet(G, T)
  BY <1>1 DEF ExactTotal, NightPrice, SumFunction
<1>5. \A i \in S : F[i] = G[i]
  BY <1>1, <1>2 DEF NightPrice, Factor
<1>6. \A i \in T : G[i] \in Int
  BY <1>1, <1>2, NightPriceRange
<1>7. G[n + 1] = NightPrice(longer, base, n + 1) /\ n + 1 \in T /\ T \ {n + 1} = S
  BY <1>2
<1>8. IsFiniteSet(S) /\ IsFiniteSet(T)
  BY <1>2, FS_Interval
<1>9. \A i \in S : F[i] \in Int /\ G[i] \in Int /\ F[i] <= G[i] /\ G[i] <= F[i]
  <2>1. TAKE i \in S
  <2>2. i \in T
    BY <1>2
  <2>3. G[i] \in Int /\ F[i] = G[i]
    BY <1>5, <1>6, <2>2
  <2> HIDE DEF F, G
  <2>4. QED
    BY <2>3
<1> HIDE DEF F, G, S, T
<1>10. SumFunctionOnSet(G, T) = G[n + 1] + SumFunctionOnSet(G, S)
  BY <1>6, <1>7, <1>8, SumTakeOne
<1>11. SumFunctionOnSet(F, S) <= SumFunctionOnSet(G, S)
  BY <1>8, <1>9, SumAtMost
<1>12. SumFunctionOnSet(G, S) <= SumFunctionOnSet(F, S)
  BY <1>8, <1>9, SumAtMost
<1>13. SumFunctionOnSet(F, S) \in Int /\ SumFunctionOnSet(G, S) \in Int /\ G[n + 1] \in Int
  BY <1>6, <1>7, <1>8, <1>9, SumIsInt
<1>14. ExactTotal(longer, base) = ExactTotal(r, base) + NightPrice(longer, base, n + 1)
  BY <1>3, <1>4, <1>7, <1>10, <1>11, <1>12, <1>13
<1>15. QED
  BY <1>1, <1>14 DEF longer, n

\* If a stay is safe, the one that is a night shorter is.
LEMMA ShorterIsSafe ==
  ASSUME NEW r \in AnyRange, NEW q \in AnyRange, NEW base \in Nat,
         q.nights = r.nights + 1, Safe(q, base)
  PROVE  Safe(r, base)
<1> DEFINE d == Dearest(base)
           n == r.nights
<1>1. d \in Nat /\ n \in Nat /\ LongStayPoints \in Nat /\ LastWord \in Int
  BY PricingAssumption, Quotient DEF Dearest, AnyRange, LastWord
<1>2. base * HolidayPoints <= LastWord /\ (n + 1) * d * LongStayPoints <= LastWord
  BY DEF Safe, Dearest
<1> HIDE DEF d, n
<1>3. n * d <= (n + 1) * d /\ n * d \in Int /\ (n + 1) * d \in Int
  BY <1>1, TimesMonotone
<1>4. n * d * LongStayPoints <= (n + 1) * d * LongStayPoints
  BY <1>1, <1>3, TimesMonotone
<1>5. n * d * LongStayPoints \in Int /\ (n + 1) * d * LongStayPoints \in Int
  BY <1>1, <1>3
<1>6. n * d * LongStayPoints <= LastWord
  BY <1>1, <1>2, <1>4, <1>5
<1>7. QED
  BY <1>2, <1>6 DEF Safe, d, n, Dearest

\* The discount of the shortest long stays is not worth more than the night that earns it.
LEMMA DiscountWithinNight ==
  ASSUME NEW base \in Nat, NEW n \in Nat, n <= LongStayNights,
         NEW t \in Nat, t <= n * Dearest(base), NEW x \in Nat, base <= x
  PROVE  t * Whole <= (t + x) * LongStayPoints
<1> DEFINE d == Dearest(base)
           off == Whole - LongStayPoints
           N == LongStayNights
<1>1. /\ Whole \in Nat /\ LongStayPoints \in Nat /\ HolidayPoints \in Nat /\ N \in Nat
      /\ off \in Nat /\ d \in Nat /\ d * Whole <= base * HolidayPoints
      /\ off * N * HolidayPoints <= LongStayPoints * Whole
  <2>1. /\ Whole \in Nat \ {0} /\ LongStayPoints \in Nat /\ HolidayPoints \in Nat /\ N \in Nat
        /\ off \in Nat /\ off * N * HolidayPoints <= LongStayPoints * Whole
    BY PricingAssumption, PolicyAssumption
  <2>2. base * HolidayPoints \in Nat
    BY <2>1
  <2>3. d \in Nat /\ d * Whole <= base * HolidayPoints
    BY <2>1, <2>2, Quotient DEF Dearest
  <2>4. QED
    BY <2>1, <2>3
<1>2. Whole = LongStayPoints + off /\ n <= N /\ t <= n * d /\ Whole > 0
  BY PricingAssumption
<1> HIDE DEF d, off, N
<1>3. n * d \in Nat /\ N * d \in Nat /\ n * d <= N * d /\ t <= N * d
  BY <1>1, <1>2, TimesMonotone
<1>4. t * off * Whole <= (N * d) * off * Whole
  <2>1. t * off <= (N * d) * off /\ t * off \in Int /\ (N * d) * off \in Int
    BY <1>1, <1>3, TimesMonotone
  <2>2. QED
    BY <1>1, <2>1, TimesMonotone
<1>5. (N * d) * off * Whole = (off * N) * (d * Whole)
  BY <1>1
<1>6. (off * N) * (d * Whole) <= (off * N) * (base * HolidayPoints)
  <2>1. off * N \in Nat /\ d * Whole \in Int /\ base * HolidayPoints \in Int
    BY <1>1
  <2>2. QED
    BY <1>1, <2>1, TimesMonotone
<1>7. (off * N) * (base * HolidayPoints) = (off * N * HolidayPoints) * base
  BY <1>1
<1>8. (off * N * HolidayPoints) * base <= (LongStayPoints * Whole) * base
  <2>1. off * N * HolidayPoints \in Int /\ LongStayPoints * Whole \in Int
    BY <1>1
  <2>2. QED
    BY <1>1, <2>1, TimesMonotone
<1>9. (LongStayPoints * Whole) * base <= (LongStayPoints * Whole) * x
  <2>1. LongStayPoints * Whole \in Nat
    BY <1>1
  <2>2. QED
    BY <2>1
<1>10. (t * off) * Whole <= (x * LongStayPoints) * Whole
  <2>1. (LongStayPoints * Whole) * x = (x * LongStayPoints) * Whole
    BY <1>1
  <2>2. /\ (N * d) * off * Whole \in Int /\ (off * N) * (base * HolidayPoints) \in Int
        /\ (LongStayPoints * Whole) * base \in Int /\ (LongStayPoints * Whole) * x \in Int
        /\ t * off * Whole \in Int
    BY <1>1
  <2>3. QED
    BY <1>4, <1>5, <1>6, <1>7, <1>8, <1>9, <2>1, <2>2
<1>11. t * off <= x * LongStayPoints
  <2>1. t * off \in Int /\ x * LongStayPoints \in Int
    BY <1>1
  <2>2. \A a, b \in Int : a * Whole <= b * Whole => a <= b
    BY <1>1, <1>2
  <2>3. QED
    BY <1>10, <2>1, <2>2
<1>12. t * Whole = t * LongStayPoints + t * off
  BY <1>1, <1>2
<1>13. (t + x) * LongStayPoints = t * LongStayPoints + x * LongStayPoints
  BY <1>1
<1>14. QED
  BY <1>1, <1>11, <1>12, <1>13

\* One more night never makes a stay cheaper.
LEMMA LongerQuote ==
  ASSUME NEW r \in AnyRange, NEW base \in Nat, NEW short \in {r.short, 1},
         NEW long \in {r.long, 1}, Safe(Longer(r, short, long), base)
  PROVE  Quote(r, base) <= Quote(Longer(r, short, long), base)
<1> DEFINE q == Longer(r, short, long)
           t == ExactTotal(r, base)
           x == NightPrice(q, base, r.nights + 1)
<1>1. short \in 0..1 /\ long \in 0..1 /\ r.nights \in Nat \ {0} /\ r.short \in 0..1
      /\ r.long \in 0..1
  BY DEF AnyRange
<1>2. q \in AnyRange /\ q.nights = r.nights + 1 /\ q.short = short /\ q.long = long
      /\ ExactTotal(q, base) = t + x
  BY <1>1, OneMoreNight
<1>3. Safe(q, base) /\ Safe(r, base)
  BY <1>2, ShorterIsSafe
<1>4. x \in Nat /\ base <= x /\ t \in Nat /\ t <= r.nights * Dearest(base)
  <2>1. r.nights + 1 \in Nat
    BY <1>1
  <2> HIDE DEF q
  <2>2. QED
    BY <1>2, <2>1, NightPriceRange, ExactTotalRange
<1> HIDE DEF q, t, x
<1>5. Quote(q, base) = ExactQuote(q, base) /\ Quote(r, base) = ExactQuote(r, base)
  BY <1>2, <1>3, SafeQuoteIsExact
<1>6. NightCount(r) <= NightCount(q) /\ r.nights <= NightCount(r) + 1
      /\ NightCount(r) \in Nat /\ NightCount(q) \in Nat
  BY <1>1, <1>2, NightsCounted
<1>7. Whole \in Nat \ {0} /\ LongStayPoints \in Nat /\ LongStayNights \in Nat
      /\ t * LongStayPoints \in Nat /\ (t + x) * LongStayPoints \in Nat
  BY <1>4, PricingAssumption
<1>8. CASE NightCount(q) < LongStayNights
  BY <1>2, <1>4, <1>5, <1>6, <1>7, <1>8 DEF ExactQuote, t, q
<1>9. CASE NightCount(r) >= LongStayNights
  <2>1. t * LongStayPoints <= (t + x) * LongStayPoints
    BY <1>4, <1>7, TimesMonotone
  <2>2. (t * LongStayPoints) \div Whole <= ((t + x) * LongStayPoints) \div Whole
    BY <1>7, <2>1, QuotientMonotone
  <2>3. QED
    BY <1>2, <1>5, <1>6, <1>7, <1>9, <2>2 DEF ExactQuote, t, q
<1>10. CASE NightCount(r) < LongStayNights /\ NightCount(q) >= LongStayNights
  <2>1. r.nights <= LongStayNights
    BY <1>1, <1>6, <1>7, <1>10
  <2>2. t * Whole <= (t + x) * LongStayPoints
    BY <1>1, <1>4, <2>1, DiscountWithinNight
  <2>3. t <= ((t + x) * LongStayPoints) \div Whole
    BY <1>4, <1>7, <2>2, Quotient
  <2>4. QED
    BY <1>2, <1>5, <1>6, <1>7, <1>10, <2>3 DEF ExactQuote, t, q
<1>11. QED
  BY <1>6, <1>7, <1>8, <1>9, <1>10 DEF q

-----------------------------------------------------------------------------
(* The rules over the inputs of Rules                                      *)

Input == {Nothing} \cup Dates \cup Stays \cup Times

\* Nothing changes the input.
LEMMA InputStays == Spec => [](input \in Input)
<1>1. Init => input \in Input
  BY DEF Init, Input
<1>2. input \in Input /\ [Next]_vars => (input \in Input)'
  BY DEF Next, vars
<1>3. QED
  BY <1>1, <1>2, PTL DEF Spec

\* A stay of the inputs is a range of days at a price.
LEMMA StayInput ==
  ASSUME input \in Input, input.rule = "stay"
  PROVE  input.range \in AnyRange /\ input.base \in Nat
<1>1. input \in Stays
  BY DEF Input, Nothing, Dates, Times
<1>2. input.range \in Ranges /\ input.base \in Base
  BY <1>1 DEF Stays
<1>3. PICK n \in Nights : input.range \in [nights: {n}, first: 0..6, short: 0..1, long: 0..1,
                                           holidays: {{}, 1..n}]
  BY <1>2 DEF Ranges
<1>4. n \in Nat \ {0} /\ 1..n \in SUBSET Nat /\ input.base \in Nat
  <2>1. n \in Nat \ {0} /\ input.base \in Nat
    BY <1>2, RulesAssumption
  <2>2. 1..n \in SUBSET Nat
    BY <2>1
  <2>3. QED
    BY <2>1, <2>2
<1>5. QED
  BY <1>3, <1>4 DEF AnyRange

\* PricePolicy.Quote: while the longest night and the whole stay fit, nothing wraps.
THEOREM QuotesAreExact == Spec => []QuoteIsExact
<1>1. input \in Input => QuoteIsExact
  BY StayInput, SafeQuoteIsExact DEF QuoteIsExact, Quoted
<1>2. QED
  BY <1>1, InputStays, PTL DEF Spec

\* PricePolicy.Quote: no discount is worth more than the night that earns it.
THEOREM LongerStaysCostMore == Spec => []LongerStayCostsMore
<1>1. input \in Input => LongerStayCostsMore
  BY StayInput, LongerQuote DEF LongerStayCostsMore, Longer
<1>2. QED
  BY <1>1, InputStays, PTL DEF Spec

-----------------------------------------------------------------------------
(* Texts                                                                   *)

AnyTime == [second: [1..SecondDigits -> 0..9], fraction: [1..FractionDigits -> 0..9]]

\* Functions that are not the same differ somewhere.
LEMMA DifferSomewhere ==
  ASSUME NEW X, NEW Y, NEW f \in [X -> Y], NEW g \in [X -> Y], f # g
  PROVE  \E x \in X : f[x] # g[x]
  OBVIOUS

\* Texts that are not the same have a first character that differs.
LEMMA FirstDifference ==
  ASSUME NEW n \in Nat, NEW f \in [1..n -> 0..9], NEW g \in [1..n -> 0..9],
         \E i \in 1..n : f[i] # g[i]
  PROVE  \E d \in 1..n : f[d] # g[d] /\ \A i \in 1..d - 1 : f[i] = g[i]
<1> DEFINE T == {i \in 1..n : f[i] # g[i]}
<1>1. T \in SUBSET Nat /\ T # {}
  OBVIOUS
<1>2. PICK d \in T : \A i \in T : d <= i
  <2> HIDE DEF T
  <2> QED
    BY <1>1, LeastNumber
<1>3. \A i \in 1..d - 1 : i \in 1..n /\ ~(d <= i)
  OBVIOUS
<1>4. QED
  BY <1>2, <1>3

\* Two texts begin with the same n characters when each of these is the same.
LEMMA SameBeginning ==
  ASSUME NEW a \in Seq(Int), NEW b \in Seq(Int), NEW n \in Nat, n <= Len(a), n <= Len(b)
  PROVE  SubSeq(a, 1, n) = SubSeq(b, 1, n) <=> \A i \in 1..n : a[i] = b[i]
<1> DEFINE p == SubSeq(a, 1, n)
           q == SubSeq(b, 1, n)
<1>1. p \in Seq(Int) /\ Len(p) = n /\ \A i \in 1..n : p[i] = a[i]
  BY SubSeqProperties
<1>2. q \in Seq(Int) /\ Len(q) = n /\ \A i \in 1..n : q[i] = b[i]
  BY SubSeqProperties
<1> HIDE DEF p, q
<1>3. (\A i \in 1..n : p[i] = q[i]) => p = q
  BY <1>1, <1>2, SeqEqual
<1>4. p = q <=> \A i \in 1..n : a[i] = b[i]
  BY <1>1, <1>2, <1>3
<1>5. QED
  BY <1>4 DEF p, q

\* The first character that differs decides.
LEMMA DecidedByFirst ==
  ASSUME NEW a \in Seq(Int), NEW b \in Seq(Int), NEW d \in Nat \ {0}, d <= Len(a), d <= Len(b),
         \A i \in 1..d - 1 : a[i] = b[i], a[d] # b[d]
  PROVE  TextBefore(a, b) <=> a[d] < b[d]
<1>0. Len(a) \in Nat /\ Len(b) \in Nat /\ a[d] \in Int /\ b[d] \in Int
  BY LenProperties
<1>1. ASSUME a[d] < b[d] PROVE TextBefore(a, b)
  <2>1. d - 1 \in Nat /\ d - 1 \in 0..Len(a) /\ d - 1 < Len(b) /\ d - 1 <= Len(a) /\ d - 1 <= Len(b)
    BY <1>0
  <2>2. SubSeq(a, 1, d - 1) = SubSeq(b, 1, d - 1)
    BY <2>1, SameBeginning
  <2>3. a[(d - 1) + 1] < b[(d - 1) + 1]
    BY <1>1
  <2>4. QED
    BY <2>1, <2>2, <2>3 DEF TextBefore
<1>2. ASSUME TextBefore(a, b) PROVE a[d] < b[d]
  <2>1. PICK n \in 0..Len(a) : /\ n < Len(b) /\ SubSeq(a, 1, n) = SubSeq(b, 1, n)
                               /\ n = Len(a) \/ a[n + 1] < b[n + 1]
    BY <1>2 DEF TextBefore
  <2>2. n \in Nat /\ n <= Len(a) /\ n <= Len(b)
    BY <1>0, <2>1
  <2>3. \A i \in 1..n : a[i] = b[i]
    BY <2>1, <2>2, SameBeginning
  <2>4. n <= d - 1
    BY <2>2, <2>3
  <2>5. n # Len(a) /\ a[n + 1] < b[n + 1]
    BY <1>0, <2>1, <2>2, <2>4
  <2>6. n + 1 = d
    <3>1. CASE n + 1 < d
      <4>1. n + 1 \in 1..d - 1 /\ n + 1 \in 1..Len(a)
        BY <1>0, <2>2, <3>1
      <4>2. a[n + 1] = b[n + 1] /\ a[n + 1] \in Int
        BY <4>1
      <4>3. QED
        BY <2>5, <4>2
    <3>2. QED
      BY <2>2, <2>4, <3>1
  <2>7. QED
    BY <2>5, <2>6
<1>3. QED
  BY <1>1, <1>2

\* No text comes before itself.
LEMMA NotBeforeItself ==
  ASSUME NEW a \in Seq(Int)
  PROVE  ~TextBefore(a, a)
<1> SUFFICES ASSUME TextBefore(a, a) PROVE FALSE
  OBVIOUS
<1>1. PICK n \in 0..Len(a) : n < Len(a) /\ (n = Len(a) \/ a[n + 1] < a[n + 1])
  BY DEF TextBefore
<1>2. n + 1 \in 1..Len(a) /\ n # Len(a)
  BY <1>1, LenProperties
<1>3. a[n + 1] \in Int
  BY <1>2
<1>4. QED
  BY <1>1, <1>2, <1>3

\* How many digits of a fraction are written.
Kept(ds) == Len(Trim(ds))

\* Trim drops the trailing zeros and nothing else.
LEMMA TrimDropsZeros ==
  ASSUME NEW n \in Nat, NEW ds \in [1..n -> 0..9]
  PROVE  /\ Trim(ds) \in Seq(Int) /\ Kept(ds) \in 0..n
         /\ \A i \in 1..Kept(ds) : Trim(ds)[i] = ds[i]
         /\ Kept(ds) > 0 => ds[Kept(ds)] # 0
         /\ \A i \in Kept(ds) + 1..n : ds[i] = 0
<1>1. ds \in Seq(Int) /\ Len(ds) = n
  BY SeqMonotonic
<1> DEFINE T == {m \in 0..n : \A i \in m + 1..n : ds[i] = 0}
           Q(m) == (m > 0 => ds[m] # 0) /\ \A i \in m + 1..n : ds[i] = 0
<1>2. PICK m \in T : \A k \in T : m <= k
  <2>1. n \in T /\ T \in SUBSET Nat
    OBVIOUS
  <2> HIDE DEF T
  <2>2. QED
    BY <2>1, LeastNumber
<1>3. m > 0 => ds[m] # 0
  <2>1. SUFFICES ASSUME m > 0, ds[m] = 0 PROVE FALSE
    OBVIOUS
  <2>2. m - 1 \in 0..n /\ \A i \in (m - 1) + 1..n : i = m \/ i \in m + 1..n
    BY <2>1
  <2>3. m - 1 \in T
    BY <2>1, <2>2
  <2>4. QED
    BY <1>2, <2>3
<1>4. \E k \in 0..n : Q(k)
  BY <1>3
<1> DEFINE c == CHOOSE k \in 0..n : Q(k)
<1>5. c \in 0..n /\ Q(c)
  <2> HIDE DEF Q
  <2> QED
    BY <1>4
<1>6. Trim(ds) = SubSeq(ds, 1, c)
  BY <1>1 DEF Trim
<1> HIDE DEF c
<1>7. Trim(ds) \in Seq(Int) /\ Len(Trim(ds)) = c /\ \A i \in 1..c : Trim(ds)[i] = ds[i]
  BY <1>1, <1>5, <1>6, SubSeqProperties
<1>8. QED
  BY <1>5, <1>7 DEF Kept

\* The characters of two texts put together.
LEMMA Joined ==
  ASSUME NEW a \in Seq(Int), NEW b \in Seq(Int)
  PROVE  /\ a \o b \in Seq(Int) /\ Len(a) \in Nat /\ Len(b) \in Nat
         /\ Len(a \o b) = Len(a) + Len(b)
         /\ \A i \in 1..Len(a) : (a \o b)[i] = a[i]
         /\ \A i \in 1..Len(b) : (a \o b)[Len(a) + i] = b[i]
<1>1. /\ a \o b \in Seq(Int) /\ Len(a) \in Nat /\ Len(b) \in Nat
      /\ Len(a \o b) = Len(a) + Len(b)
      /\ \A i \in 1..Len(a) + Len(b) :
            (a \o b)[i] = IF i <= Len(a) THEN a[i] ELSE b[i - Len(a)]
  BY ConcatProperties, LenProperties
<1> DEFINE m == Len(a)
           n == Len(b)
           c == a \o b
<1> HIDE DEF m, n, c
<1>2. m \in Nat /\ n \in Nat /\ \A i \in 1..m + n : c[i] = IF i <= m THEN a[i] ELSE b[i - m]
  BY <1>1 DEF m, n, c
<1>3. \A i \in 1..m : c[i] = a[i]
  BY <1>2
<1>4. \A i \in 1..n : c[m + i] = b[i]
  <2>1. TAKE i \in 1..n
  <2>2. m + i \in 1..m + n /\ ~(m + i <= m) /\ (m + i) - m = i
    BY <1>2
  <2>3. QED
    BY <1>2, <2>2
<1>5. QED
  BY <1>1, <1>3, <1>4 DEF m, n, c

\* The characters of a text.
LEMMA TextOfTime ==
  ASSUME NEW t \in AnyTime
  PROVE  LET e == encodeTime(t)
             k == Kept(t.fraction)
             s == SecondDigits
         IN  /\ e \in Seq(Int) /\ s \in Nat \ {0} /\ k \in 0..FractionDigits
             /\ \A i \in 1..s : e[i] = t.second[i]
             /\ k = 0 => Len(e) = s + 1 /\ e[s + 1] = Letter
             /\ k > 0 => /\ Len(e) = s + k + 2 /\ e[s + 1] = Point
                         /\ \A i \in 1..k : e[s + 1 + i] = t.fraction[i]
                         /\ e[s + 1 + k + 1] = Letter
<1> DEFINE e == encodeTime(t)
           a == t.second
           f == Trim(t.fraction)
           k == Kept(t.fraction)
           s == SecondDigits
<1>1. s \in Nat \ {0} /\ a \in Seq(Int) /\ Len(a) = s
  BY TimeTextAssumption, SeqMonotonic DEF AnyTime
<1>2. f \in Seq(Int) /\ k \in 0..FractionDigits /\ Len(f) = k
      /\ \A i \in 1..k : f[i] = t.fraction[i]
  BY TimeTextAssumption, TrimDropsZeros DEF AnyTime, Kept
<1>3. <<Letter>> \in Seq(Int) /\ Len(<<Letter>>) = 1 /\ <<Letter>>[1] = Letter
  BY DEF Letter
<1>4. <<Point>> \in Seq(Int) /\ Len(<<Point>>) = 1 /\ <<Point>>[1] = Point
  BY DEF Point
<1>5. e = (a \o (IF f = <<>> THEN <<>> ELSE <<Point>> \o f)) \o <<Letter>>
  BY DEF encodeTime, Pad
<1>6. f = <<>> <=> k = 0
  BY <1>2, EmptySeq
<1> HIDE DEF e, a, f, k, s
<1>7. CASE k = 0
  <2>1. e = a \o <<Letter>>
    BY <1>1, <1>5, <1>6, <1>7, ConcatEmptySeq
  <2>2. e \in Seq(Int) /\ Len(e) = s + 1 /\ \A i \in 1..s : e[i] = a[i]
    BY <1>1, <1>3, <2>1, ConcatProperties
  <2>3. e[s + 1] = Letter
    BY <1>1, <1>3, <2>1, ConcatProperties
  <2>4. QED
    BY <1>1, <1>2, <1>7, <2>2, <2>3 DEF e, a, k, s
<1>8. CASE k # 0
  <2> DEFINE p == <<Point>> \o f
             q == a \o p
  <2>1. e = q \o <<Letter>>
    BY <1>5, <1>6, <1>8
  <2>2. p \in Seq(Int) /\ Len(p) = k + 1 /\ p[1] = Point /\ \A i \in 1..k : p[1 + i] = f[i]
    <3>1. Len(p) = 1 + k /\ 1 \in 1..1
      BY <1>2, <1>4, Joined
    <3>2. QED
      BY <1>2, <1>4, <3>1, Joined
  <2> HIDE DEF p
  <2>3. /\ q \in Seq(Int) /\ Len(q) = s + k + 1
        /\ \A i \in 1..s : q[i] = a[i]
        /\ \A i \in 1..k + 1 : q[s + i] = p[i]
    <3>1. q \in Seq(Int) /\ Len(q) = Len(a) + Len(p)
      BY <1>1, <2>2, Joined
    <3>2. s + (k + 1) = s + k + 1
      BY <1>1, <1>2
    <3>3. \A i \in 1..s : q[i] = a[i]
      BY <1>1, <2>2, Joined
    <3>4. \A i \in 1..k + 1 : q[s + i] = p[i]
      BY <1>1, <2>2, Joined
    <3>5. QED
      BY <1>1, <2>2, <3>1, <3>2, <3>3, <3>4
  <2> HIDE DEF q
  <2>4. /\ e \in Seq(Int) /\ Len(e) = s + k + 2
        /\ \A i \in 1..s + k + 1 : e[i] = q[i]
        /\ e[s + k + 2] = Letter
    <3>1. Len(e) = (s + k + 1) + 1 /\ 1 \in 1..1
      BY <1>3, <2>1, <2>3, Joined
    <3>2. (s + k + 1) + 1 = s + k + 2
      BY <1>1, <1>2
    <3>3. e[(s + k + 1) + 1] = Letter
      BY <1>3, <2>1, <2>3, <3>1, Joined
    <3>4. QED
      BY <1>3, <2>1, <2>3, <3>1, <3>2, <3>3, Joined
  <2>5. \A i \in 1..s : e[i] = a[i]
    BY <1>1, <1>2, <2>3, <2>4
  <2>6. e[s + 1] = Point
    <3>1. 1 \in 1..k + 1 /\ s + 1 \in 1..s + k + 1
      BY <1>1, <1>2
    <3>2. q[s + 1] = p[1] /\ e[s + 1] = q[s + 1]
      BY <2>3, <2>4, <3>1
    <3>3. QED
      BY <2>2, <3>2
  <2>7. \A i \in 1..k : e[s + 1 + i] = f[i]
    <3>1. TAKE i \in 1..k
    <3>2. 1 + i \in 1..k + 1 /\ s + (1 + i) \in 1..s + k + 1 /\ s + 1 + i = s + (1 + i)
      BY <1>1, <1>2
    <3>3. QED
      BY <2>2, <2>3, <2>4, <3>2
  <2>8. s + 1 + k + 1 = s + k + 2
    BY <1>1, <1>2
  <2>9. QED
    BY <1>1, <1>2, <1>8, <2>4, <2>5, <2>6, <2>7, <2>8 DEF e, a, k, s
<1>9. QED
  BY <1>7, <1>8 DEF e, a, k, s

\* The digits of a time.
LEMMA DigitsOfTime ==
  ASSUME NEW t \in AnyTime
  PROVE  LET d == t.second \o t.fraction
         IN  /\ d \in Seq(Int) /\ Len(d) = SecondDigits + FractionDigits
             /\ \A i \in 1..SecondDigits : d[i] = t.second[i] /\ t.second[i] \in 0..9
             /\ \A i \in 1..FractionDigits :
                   d[SecondDigits + i] = t.fraction[i] /\ t.fraction[i] \in 0..9
<1>1. t.second \in Seq(Int) /\ Len(t.second) = SecondDigits
  BY TimeTextAssumption, SeqMonotonic DEF AnyTime
<1>2. t.fraction \in Seq(Int) /\ Len(t.fraction) = FractionDigits
  BY TimeTextAssumption, SeqMonotonic DEF AnyTime
<1>3. /\ \A i \in 1..SecondDigits : t.second[i] \in 0..9
      /\ \A i \in 1..FractionDigits : t.fraction[i] \in 0..9
  BY DEF AnyTime
<1>4. QED
  BY <1>1, <1>2, <1>3, Joined

\* The first digit of the seconds that differs decides both orders.
LEMMA SecondsDecide ==
  ASSUME NEW a \in AnyTime, NEW b \in AnyTime, a.second # b.second
  PROVE  TextBefore(encodeTime(a), encodeTime(b)) <=> TimeBefore(a, b)
<1> DEFINE S == SecondDigits
           x == encodeTime(a)
           y == encodeTime(b)
           v == a.second \o a.fraction
           w == b.second \o b.fraction
<1>1. \E i \in 1..S : a.second[i] # b.second[i]
  <2> DEFINE X == 1..S
             Y == 0..9
  <2>1. a.second \in [X -> Y] /\ b.second \in [X -> Y]
    BY DEF AnyTime
  <2> HIDE DEF X, Y
  <2>2. \E i \in X : a.second[i] # b.second[i]
    BY <2>1, DifferSomewhere
  <2>3. QED
    BY <2>2 DEF X
<1>2. PICK d \in 1..S : a.second[d] # b.second[d] /\ \A i \in 1..d - 1 : a.second[i] = b.second[i]
  <2>1. S \in Nat
    BY TimeTextAssumption
  <2> DEFINE f == a.second
             g == b.second
  <2>2. f \in [1..S -> 0..9] /\ g \in [1..S -> 0..9] /\ \E i \in 1..S : f[i] # g[i]
    BY <1>1 DEF AnyTime
  <2> HIDE DEF f, g, S
  <2>3. \E d \in 1..S : f[d] # g[d] /\ \A i \in 1..d - 1 : f[i] = g[i]
    BY <2>1, <2>2, FirstDifference
  <2>4. QED
    BY <2>3 DEF f, g
<1>3. S \in Nat \ {0} /\ FractionDigits \in Nat
  BY TimeTextAssumption
<1>4. /\ x \in Seq(Int) /\ d <= Len(x) /\ \A i \in 1..S : x[i] = a.second[i]
      /\ y \in Seq(Int) /\ d <= Len(y) /\ \A i \in 1..S : y[i] = b.second[i]
  <2> HIDE DEF x, y
  <2>1. /\ x \in Seq(Int) /\ Kept(a.fraction) \in 0..FractionDigits
        /\ \A i \in 1..S : x[i] = a.second[i]
        /\ Kept(a.fraction) = 0 => Len(x) = S + 1
        /\ Kept(a.fraction) > 0 => Len(x) = S + Kept(a.fraction) + 2
    BY TextOfTime DEF x
  <2>2. /\ y \in Seq(Int) /\ Kept(b.fraction) \in 0..FractionDigits
        /\ \A i \in 1..S : y[i] = b.second[i]
        /\ Kept(b.fraction) = 0 => Len(y) = S + 1
        /\ Kept(b.fraction) > 0 => Len(y) = S + Kept(b.fraction) + 2
    BY TextOfTime DEF y
  <2>3. QED
    BY <1>3, <2>1, <2>2
<1>5. /\ v \in Seq(Int) /\ Len(v) = S + FractionDigits /\ \A i \in 1..S : v[i] = a.second[i]
      /\ w \in Seq(Int) /\ Len(w) = S + FractionDigits /\ \A i \in 1..S : w[i] = b.second[i]
  BY DigitsOfTime
<1> HIDE DEF x, y, v, w
<1>6. d \in Nat \ {0} /\ d <= Len(v) /\ d <= Len(w) /\ \A i \in 1..d - 1 : i \in 1..S
  BY <1>3, <1>5
<1>7. TextBefore(x, y) <=> a.second[d] < b.second[d]
  <2>1. /\ \A i \in 1..d - 1 : x[i] = y[i]
        /\ x[d] = a.second[d] /\ y[d] = b.second[d] /\ x[d] # y[d]
    BY <1>2, <1>4, <1>6
  <2>2. TextBefore(x, y) <=> x[d] < y[d]
    BY <1>4, <1>6, <2>1, DecidedByFirst
  <2>3. QED
    BY <2>1, <2>2
<1>8. TextBefore(v, w) <=> a.second[d] < b.second[d]
  <2>1. /\ \A i \in 1..d - 1 : v[i] = w[i]
        /\ v[d] = a.second[d] /\ w[d] = b.second[d] /\ v[d] # w[d]
    BY <1>2, <1>5, <1>6
  <2>2. TextBefore(v, w) <=> v[d] < w[d]
    BY <1>5, <1>6, <2>1, DecidedByFirst
  <2>3. QED
    BY <2>1, <2>2
<1>9. QED
  BY <1>7, <1>8 DEF x, y, v, w, TimeBefore

\* The digits of two times of one second, in which the first fraction digit that differs decides.
LEMMA FractionsDecideTimes ==
  ASSUME NEW a \in AnyTime, NEW b \in AnyTime, a.second = b.second,
         NEW d \in 1..FractionDigits, a.fraction[d] # b.fraction[d],
         \A i \in 1..d - 1 : a.fraction[i] = b.fraction[i]
  PROVE  TimeBefore(a, b) <=> a.fraction[d] < b.fraction[d]
<1> DEFINE S == SecondDigits
           F == FractionDigits
           v == a.second \o a.fraction
           w == b.second \o b.fraction
<1>1. S \in Nat \ {0} /\ F \in Nat
  BY TimeTextAssumption
<1>2. /\ v \in Seq(Int) /\ Len(v) = S + F
      /\ \A i \in 1..S : v[i] = a.second[i]
      /\ \A i \in 1..F : v[S + i] = a.fraction[i]
  BY DigitsOfTime
<1>3. /\ w \in Seq(Int) /\ Len(w) = S + F
      /\ \A i \in 1..S : w[i] = b.second[i]
      /\ \A i \in 1..F : w[S + i] = b.fraction[i]
  BY DigitsOfTime
<1> HIDE DEF v, w, S, F
<1>4. d \in 1..F /\ S + d \in Nat \ {0} /\ S + d <= Len(v) /\ S + d <= Len(w)
  BY <1>1, <1>2, <1>3 DEF F
<1>5. v[S + d] = a.fraction[d] /\ w[S + d] = b.fraction[d] /\ v[S + d] # w[S + d]
  BY <1>2, <1>3, <1>4
<1>6. \A i \in 1..(S + d) - 1 : v[i] = w[i]
  <2>1. TAKE i \in 1..(S + d) - 1
  <2>2. CASE i <= S
    BY <1>1, <1>2, <1>3, <2>2
  <2>3. CASE i > S
    <3>1. i - S \in 1..d - 1 /\ i - S \in 1..F /\ i = S + (i - S)
      BY <1>1, <1>4, <2>3
    <3>2. v[S + (i - S)] = a.fraction[i - S] /\ w[S + (i - S)] = b.fraction[i - S]
      BY <1>2, <1>3, <3>1
    <3>3. QED
      BY <3>1, <3>2
  <2>4. QED
    BY <1>1, <1>4, <2>2, <2>3
<1>7. TextBefore(v, w) <=> v[S + d] < w[S + d]
  BY <1>2, <1>3, <1>4, <1>5, <1>6, DecidedByFirst
<1>8. QED
  BY <1>5, <1>7 DEF v, w, TimeBefore

\* The texts of two times of one second, in which the first fraction digit that differs decides
\* if both write it.
LEMMA FractionsDecideTexts ==
  ASSUME NEW a \in AnyTime, NEW b \in AnyTime, a.second = b.second,
         NEW d \in 1..FractionDigits, a.fraction[d] # b.fraction[d],
         \A i \in 1..d - 1 : a.fraction[i] = b.fraction[i],
         d <= Kept(a.fraction), d <= Kept(b.fraction)
  PROVE  TextBefore(encodeTime(a), encodeTime(b)) <=> a.fraction[d] < b.fraction[d]
<1> DEFINE S == SecondDigits
           x == encodeTime(a)
           y == encodeTime(b)
           k == Kept(a.fraction)
           l == Kept(b.fraction)
<1>1. /\ S \in Nat \ {0} /\ k \in Nat /\ l \in Nat /\ d \in Nat \ {0} /\ d <= k /\ d <= l
      /\ k > 0 /\ l > 0
  <2>1. d \in Nat \ {0} /\ d <= k /\ d <= l
    BY TimeTextAssumption
  <2>2. S \in Nat \ {0} /\ k \in 0..FractionDigits /\ l \in 0..FractionDigits
    BY TextOfTime
  <2> HIDE DEF S, k, l
  <2>3. QED
    BY <2>1, <2>2, TimeTextAssumption
<1>2. /\ x \in Seq(Int) /\ Len(x) = S + k + 2
      /\ \A i \in 1..S : x[i] = a.second[i]
      /\ x[S + 1] = Point
      /\ \A i \in 1..k : x[S + 1 + i] = a.fraction[i]
  BY <1>1, TextOfTime
<1>3. /\ y \in Seq(Int) /\ Len(y) = S + l + 2
      /\ \A i \in 1..S : y[i] = b.second[i]
      /\ y[S + 1] = Point
      /\ \A i \in 1..l : y[S + 1 + i] = b.fraction[i]
  BY <1>1, TextOfTime
<1> HIDE DEF x, y, S, k, l
<1>4. S + 1 + d \in Nat \ {0} /\ S + 1 + d <= Len(x) /\ S + 1 + d <= Len(y)
  <2>1. S + 1 + d \in Nat \ {0} /\ S + 1 + d <= S + k + 2 /\ S + 1 + d <= S + l + 2
    BY <1>1
  <2>2. QED
    BY <1>2, <1>3, <2>1
<1>5. x[S + 1 + d] = a.fraction[d] /\ y[S + 1 + d] = b.fraction[d] /\ x[S + 1 + d] # y[S + 1 + d]
  <2>1. d \in 1..k /\ d \in 1..l
    BY <1>1
  <2>2. QED
    BY <1>2, <1>3, <2>1
<1>6. \A i \in 1..(S + 1 + d) - 1 : x[i] = y[i]
  <2>1. TAKE i \in 1..(S + 1 + d) - 1
  <2>2. CASE i <= S
    BY <1>1, <1>2, <1>3, <2>2
  <2>3. CASE i = S + 1
    BY <1>2, <1>3, <2>3
  <2>4. CASE i > S + 1
    <3> DEFINE j == i - (S + 1)
    <3>1. j \in 1..d - 1 /\ j \in 1..k /\ j \in 1..l /\ i = S + 1 + j
      BY <1>1, <2>4
    <3> HIDE DEF j
    <3>2. x[S + 1 + j] = a.fraction[j] /\ y[S + 1 + j] = b.fraction[j]
      BY <1>2, <1>3, <3>1
    <3>3. QED
      BY <3>1, <3>2
  <2>5. QED
    BY <1>1, <2>2, <2>3, <2>4
<1>7. TextBefore(x, y) <=> x[S + 1 + d] < y[S + 1 + d]
  BY <1>2, <1>3, <1>4, <1>5, <1>6, DecidedByFirst
<1>8. QED
  BY <1>5, <1>7 DEF x, y

\* A time whose fraction continues another's within its second is the later of the two,
\* and its text the earlier: a digit, or the point, stands where the other has its letter.
LEMMA ContinuedTime ==
  ASSUME NEW a \in AnyTime, NEW b \in AnyTime, a.second = b.second,
         Kept(a.fraction) < Kept(b.fraction),
         \A i \in 1..Kept(a.fraction) : a.fraction[i] = b.fraction[i]
  PROVE  /\ TimeBefore(a, b) /\ ~TimeBefore(b, a)
         /\ ~TextBefore(encodeTime(a), encodeTime(b)) /\ TextBefore(encodeTime(b), encodeTime(a))
<1> DEFINE S == SecondDigits
           x == encodeTime(a)
           y == encodeTime(b)
           k == Kept(a.fraction)
           l == Kept(b.fraction)
           f == a.fraction
           g == b.fraction
<1>1. /\ FractionDigits \in Nat /\ S \in Nat \ {0} /\ k \in 0..FractionDigits /\ l \in 0..FractionDigits
      /\ k < l
  <2>1. S \in Nat \ {0} /\ k \in 0..FractionDigits /\ l \in 0..FractionDigits
    BY TextOfTime
  <2>2. QED
    BY <2>1, TimeTextAssumption
<1>2. f \in [1..FractionDigits -> 0..9] /\ g \in [1..FractionDigits -> 0..9]
  BY DEF AnyTime
<1>3. /\ \A i \in k + 1..FractionDigits : f[i] = 0
      /\ g[l] # 0
  <2>1. /\ \A i \in k + 1..FractionDigits : f[i] = 0
        /\ l > 0 => g[l] # 0
    BY <1>1, <1>2, TrimDropsZeros
  <2> HIDE DEF k, l, f, g
  <2>2. l > 0
    BY <1>1
  <2>3. QED
    BY <2>1, <2>2
<1>4. /\ x \in Seq(Int) /\ \A i \in 1..S : x[i] = a.second[i]
      /\ k = 0 => Len(x) = S + 1 /\ x[S + 1] = Letter
      /\ k > 0 => /\ Len(x) = S + k + 2 /\ x[S + 1] = Point
                  /\ \A i \in 1..k : x[S + 1 + i] = f[i]
                  /\ x[S + 1 + k + 1] = Letter
  BY TextOfTime
<1>5. /\ y \in Seq(Int) /\ \A i \in 1..S : y[i] = b.second[i]
      /\ Len(y) = S + l + 2 /\ y[S + 1] = Point
      /\ \A i \in 1..l : y[S + 1 + i] = g[i]
  <2>1. /\ y \in Seq(Int) /\ \A i \in 1..S : y[i] = b.second[i]
        /\ l > 0 => /\ Len(y) = S + l + 2 /\ y[S + 1] = Point
                    /\ \A i \in 1..l : y[S + 1 + i] = g[i]
    BY TextOfTime
  <2> HIDE DEF x, y, S, k, l, f, g
  <2>2. l > 0
    BY <1>1
  <2>3. QED
    BY <2>1, <2>2
<1> HIDE DEF x, y, S, k, l, f, g
<1>6. TimeBefore(a, b) /\ ~TimeBefore(b, a)
  <2>1. l \in 1..FractionDigits /\ l \in k + 1..FractionDigits
    BY <1>1
  <2>2. f[l] = 0 /\ g[l] # 0
    BY <1>3, <2>1
  <2>3. PICK d \in 1..FractionDigits : f[d] # g[d] /\ \A i \in 1..d - 1 : f[i] = g[i]
    <3>1. f[l] # g[l] /\ l \in 1..FractionDigits
      BY <2>1, <2>2
    <3>2. \E i \in 1..FractionDigits : f[i] # g[i]
      BY <3>1
    <3>3. QED
      BY <1>1, <1>2, <3>2, FirstDifference
  <2>4. d > k
    BY <1>1, <2>3 DEF k, f, g
  <2>5. f[d] = 0 /\ g[d] \in 0..9
    BY <1>1, <1>2, <1>3, <2>4
  <2>6. f[d] < g[d] /\ ~(g[d] < f[d])
    BY <2>3, <2>5
  <2>7. TimeBefore(a, b) <=> f[d] < g[d]
    BY <2>3, FractionsDecideTimes DEF f, g
  <2>8. TimeBefore(b, a) <=> g[d] < f[d]
    BY <2>3, FractionsDecideTimes DEF f, g
  <2>9. QED
    BY <2>6, <2>7, <2>8
<1>7. ~TextBefore(x, y) /\ TextBefore(y, x)
  <2>1. PICK m \in Nat \ {0} : /\ m <= Len(x) /\ m <= Len(y) /\ y[m] < x[m]
                               /\ \A i \in 1..m - 1 : x[i] = y[i]
    <3>1. CASE k = 0
      <4>1. S + 1 \in Nat \ {0} /\ S + 1 <= Len(x) /\ S + 1 <= Len(y) /\ y[S + 1] < x[S + 1]
        BY <1>1, <1>4, <1>5, <3>1 DEF Point, Letter
      <4>2. \A i \in 1..(S + 1) - 1 : x[i] = y[i]
        BY <1>1, <1>4, <1>5
      <4>3. QED
        BY <4>1, <4>2
    <3>2. CASE k > 0
      <4> DEFINE m == S + 1 + (k + 1)
      <4>1. m \in Nat \ {0} /\ m <= Len(x) /\ m <= Len(y) /\ k + 1 \in 1..l
            /\ k + 1 \in 1..FractionDigits /\ m = S + 1 + k + 1
        BY <1>1, <1>4, <1>5, <3>2
      <4>2. x[m] = Letter /\ y[m] = g[k + 1] /\ g[k + 1] \in 0..9
        BY <1>2, <1>4, <1>5, <3>2, <4>1
      <4>3. y[m] < x[m]
        BY <4>2 DEF Letter
      <4>4. \A i \in 1..m - 1 : x[i] = y[i]
        <5>1. TAKE i \in 1..m - 1
        <5>2. CASE i <= S
          BY <1>1, <1>4, <1>5, <5>2
        <5>3. CASE i = S + 1
          BY <1>4, <1>5, <3>2, <5>3
        <5>4. CASE i > S + 1
          <6> DEFINE j == i - (S + 1)
          <6>1. j \in 1..k /\ j \in 1..l /\ i = S + 1 + j
            BY <1>1, <5>4
          <6> HIDE DEF j
          <6>2. x[S + 1 + j] = f[j] /\ y[S + 1 + j] = g[j] /\ f[j] = g[j]
            BY <1>4, <1>5, <3>2, <6>1 DEF f, g, k
          <6>3. QED
            BY <6>1, <6>2
        <5>5. QED
          BY <1>1, <5>2, <5>3, <5>4
      <4> HIDE DEF m
      <4>5. QED
        BY <4>1, <4>3, <4>4
    <3>3. QED
      BY <1>1, <3>1, <3>2
  <2>2. m \in 1..Len(x) /\ m \in 1..Len(y)
    BY <1>4, <1>5, <2>1, LenProperties
  <2>3. x[m] \in Int /\ y[m] \in Int
    BY <1>4, <1>5, <2>2
  <2>4. x[m] # y[m] /\ ~(x[m] < y[m])
    BY <2>1, <2>3
  <2>5. TextBefore(x, y) <=> x[m] < y[m]
    BY <1>4, <1>5, <2>1, <2>4, DecidedByFirst
  <2>6. TextBefore(y, x) <=> y[m] < x[m]
    BY <1>4, <1>5, <2>1, <2>4, DecidedByFirst
  <2>7. QED
    BY <2>1, <2>4, <2>5, <2>6
<1>8. QED
  BY <1>6, <1>7 DEF x, y

\* A fraction is a prefix of another when the other starts with what is kept of it.
LEMMA PrefixOfFraction ==
  ASSUME NEW f \in [1..FractionDigits -> 0..9], NEW g \in [1..FractionDigits -> 0..9]
  PROVE  IsPrefix(Trim(f), Trim(g))
         <=> Kept(f) <= Kept(g) /\ \A i \in 1..Kept(f) : f[i] = g[i]
<1> DEFINE p == Trim(f)
           q == Trim(g)
           k == Kept(f)
           l == Kept(g)
<1>1. /\ p \in Seq(Int) /\ Len(p) = k /\ k \in Nat /\ \A i \in 1..k : p[i] = f[i]
      /\ q \in Seq(Int) /\ Len(q) = l /\ l \in Nat /\ \A i \in 1..l : q[i] = g[i]
  <2>1. FractionDigits \in Nat
    BY TimeTextAssumption
  <2>2. p \in Seq(Int) /\ k \in Nat /\ \A i \in 1..k : p[i] = f[i]
    BY <2>1, TrimDropsZeros
  <2>3. q \in Seq(Int) /\ l \in Nat /\ \A i \in 1..l : q[i] = g[i]
    BY <2>1, TrimDropsZeros
  <2>4. QED
    BY <2>2, <2>3 DEF Kept
<1>2. IsPrefix(p, q) <=> k <= l /\ SubSeq(p, 1, k) = SubSeq(q, 1, k)
  BY <1>1 DEF IsPrefix
<1> HIDE DEF p, q, k, l
<1>3. k <= l => (SubSeq(p, 1, k) = SubSeq(q, 1, k) <=> \A i \in 1..k : p[i] = q[i])
  BY <1>1, SameBeginning
<1>4. k <= l => ((\A i \in 1..k : p[i] = q[i]) <=> (\A i \in 1..k : f[i] = g[i]))
  BY <1>1
<1>5. QED
  BY <1>2, <1>3, <1>4 DEF p, q, k, l

\* A fraction is its digits.
LEMMA FractionAt ==
  ASSUME NEW f \in [1..FractionDigits -> 0..9], NEW g \in [1..FractionDigits -> 0..9],
         \A i \in 1..FractionDigits : f[i] = g[i]
  PROVE  f = g
<1>1. f = [i \in 1..FractionDigits |-> f[i]] /\ g = [i \in 1..FractionDigits |-> g[i]]
  OBVIOUS
<1>2. QED
  BY <1>1, Zenon

\* Fractions that keep the same digits are the same.
LEMMA SameFraction ==
  ASSUME NEW f \in [1..FractionDigits -> 0..9], NEW g \in [1..FractionDigits -> 0..9],
         Kept(f) = Kept(g), \A i \in 1..Kept(f) : f[i] = g[i]
  PROVE  f = g
<1> DEFINE X == 1..FractionDigits
           k == Kept(f)
<1>1. /\ k \in 0..FractionDigits /\ k = Kept(g) /\ FractionDigits \in Nat
      /\ \A i \in k + 1..FractionDigits : f[i] = 0
      /\ \A i \in k + 1..FractionDigits : g[i] = 0
  BY TimeTextAssumption, TrimDropsZeros
<1>2. \A i \in X : f[i] = g[i]
  <2>1. TAKE i \in X
  <2>2. i \in 1..k \/ i \in k + 1..FractionDigits
    BY <1>1
  <2>3. CASE i \in 1..k
    BY <2>3
  <2>4. CASE i \in k + 1..FractionDigits
    BY <1>1, <2>4
  <2>5. QED
    BY <2>2, <2>3, <2>4
<1>3. QED
  BY <1>2, FractionAt DEF X

\* The orders of two times and of their texts.
LEMMA TextOrder ==
  ASSUME NEW a \in AnyTime, NEW b \in AnyTime
  PROVE  (TextBefore(encodeTime(a), encodeTime(b)) <=> TimeBefore(a, b))
         <=> ~(/\ a # b /\ a.second = b.second
               /\ \/ IsPrefix(Trim(a.fraction), Trim(b.fraction))
                  \/ IsPrefix(Trim(b.fraction), Trim(a.fraction)))
<1> DEFINE f == a.fraction
           g == b.fraction
           k == Kept(f)
           l == Kept(g)
           Agree(m) == \A i \in 1..m : f[i] = g[i]
           Same == TextBefore(encodeTime(a), encodeTime(b)) <=> TimeBefore(a, b)
<1>1. f \in [1..FractionDigits -> 0..9] /\ g \in [1..FractionDigits -> 0..9]
  BY DEF AnyTime
<1>2. FractionDigits \in Nat /\ k \in 0..FractionDigits /\ l \in 0..FractionDigits
  BY <1>1, TimeTextAssumption, TrimDropsZeros
<1>3. IsPrefix(Trim(f), Trim(g)) <=> k <= l /\ Agree(k)
  BY <1>1, PrefixOfFraction
<1>4. IsPrefix(Trim(g), Trim(f)) <=> l <= k /\ Agree(l)
  BY <1>1, PrefixOfFraction
<1>5. a.second = b.second /\ f = g => a = b
  BY DEF AnyTime
<1>6. CASE a = b
  <2>1. encodeTime(a) \in Seq(Int) /\ a.second \o a.fraction \in Seq(Int)
    BY TextOfTime, DigitsOfTime
  <2>2. ~TextBefore(encodeTime(a), encodeTime(b)) /\ ~TimeBefore(a, b)
    BY <1>6, <2>1, NotBeforeItself DEF TimeBefore
  <2>3. QED
    BY <1>6, <2>2
<1>7. CASE a.second # b.second
  BY <1>7, SecondsDecide
<1>8. CASE a # b /\ a.second = b.second /\ k < l /\ Agree(k)
  <2>1. TimeBefore(a, b) /\ ~TextBefore(encodeTime(a), encodeTime(b))
    BY <1>8, ContinuedTime
  <2>2. QED
    BY <1>2, <1>3, <1>8, <2>1
<1>9. CASE a # b /\ a.second = b.second /\ l < k /\ Agree(l)
  <2>1. b.second = a.second /\ \A i \in 1..Kept(b.fraction) : b.fraction[i] = a.fraction[i]
    BY <1>9
  <2>2. ~TimeBefore(a, b) /\ TextBefore(encodeTime(a), encodeTime(b))
    BY <1>9, <2>1, ContinuedTime
  <2>3. QED
    BY <1>2, <1>4, <1>9, <2>2
<1>10. CASE a # b /\ a.second = b.second /\ k = l /\ Agree(k)
  BY <1>1, <1>5, <1>10, SameFraction
<1>11. CASE a.second = b.second /\ ~(k <= l /\ Agree(k)) /\ ~(l <= k /\ Agree(l))
  <2> DEFINE m == IF k <= l THEN k ELSE l
  <2> HIDE DEF f, g, k, l
  <2>1. m \in Nat /\ m <= k /\ m <= l /\ m <= FractionDigits /\ \E i \in 1..m : f[i] # g[i]
    BY <1>2, <1>11
  <2> HIDE DEF m
  <2>2. \E i \in 1..FractionDigits : f[i] # g[i]
    BY <1>2, <2>1
  <2>3. PICK d \in 1..FractionDigits : f[d] # g[d] /\ \A i \in 1..d - 1 : f[i] = g[i]
    BY <1>1, <1>2, <2>2, FirstDifference
  <2>4. d <= k /\ d <= l
    <3>1. PICK i \in 1..m : f[i] # g[i]
      BY <2>1
    <3>2. d <= i
      BY <2>1, <2>3, <3>1
    <3>3. QED
      BY <1>2, <2>1, <3>1, <3>2
  <2>5. TextBefore(encodeTime(a), encodeTime(b)) <=> f[d] < g[d]
    BY <1>11, <2>3, <2>4, FractionsDecideTexts DEF f, g, k, l
  <2>6. TimeBefore(a, b) <=> f[d] < g[d]
    BY <1>11, <2>3, FractionsDecideTimes DEF f, g
  <2>7. QED
    BY <1>3, <1>4, <1>11, <2>5, <2>6 DEF f, g
<1>12. QED
  BY <1>2, <1>6, <1>7, <1>8, <1>9, <1>10, <1>11

\* encodeTime and the comparisons of SQL: the order of the texts is that of the times, but for
\* the fractions of one second of which one continues the other.
THEOREM TextsOrderTimes == Spec => []TextOrderIsTimeOrder
<1>1. input \in Input => TextOrderIsTimeOrder
  <2>1. SUFFICES ASSUME input \in Input, input.rule = "times" PROVE TextOrderIsTimeOrder
    BY DEF TextOrderIsTimeOrder
  <2>2. input \in Times
    BY <2>1 DEF Input, Nothing, Dates, Stays
  <2>3. input.a \in AnyTime /\ input.b \in AnyTime
    BY <2>2, RulesAssumption DEF Times, AnyTime
  <2>4. QED
    BY <2>3, TextOrder DEF TextOrderIsTimeOrder
<1>2. QED
  BY <1>1, InputStays, PTL DEF Spec

\* encodeTime: a row read back holds the time that was written, since no two times have one
\* text, also where their order is not that of the texts.
THEOREM TextsTellTimesApart ==
  ASSUME NEW a \in AnyTime, NEW b \in AnyTime, encodeTime(a) = encodeTime(b)
  PROVE  a = b
<1> DEFINE f == a.fraction
           g == b.fraction
<1>1. \A i \in 1..SecondDigits : a.second[i] = b.second[i]
  <2>1. \A i \in 1..SecondDigits : encodeTime(a)[i] = a.second[i]
    BY TextOfTime
  <2>2. \A i \in 1..SecondDigits : encodeTime(b)[i] = b.second[i]
    BY TextOfTime
  <2>3. QED
    BY <2>1, <2>2
<1>2. a.second = b.second
  <2> DEFINE X == 1..SecondDigits
             Y == 0..9
  <2>1. a.second \in [X -> Y] /\ b.second \in [X -> Y] /\ \A i \in X : a.second[i] = b.second[i]
    BY <1>1 DEF AnyTime
  <2> HIDE DEF X, Y
  <2>2. QED
    BY <2>1, DifferSomewhere
<1>3. f \in [1..FractionDigits -> 0..9] /\ g \in [1..FractionDigits -> 0..9]
  BY DEF AnyTime
<1>4. ASSUME NEW d \in 1..FractionDigits, f[d] # g[d] PROVE FALSE
  <2>1. PICK e \in 1..FractionDigits : f[e] # g[e] /\ \A i \in 1..e - 1 : f[i] = g[i]
    <3>1. \E i \in 1..FractionDigits : f[i] # g[i]
      BY <1>4
    <3> HIDE DEF f, g
    <3>2. QED
      BY <1>3, <3>1, FirstDifference, TimeTextAssumption
  <2>2. f[e] \in 0..9 /\ g[e] \in 0..9
    BY <1>3
  <2>3. TimeBefore(a, b) <=> f[e] < g[e]
    BY <1>2, <2>1, FractionsDecideTimes
  <2>4. TimeBefore(b, a) <=> g[e] < f[e]
    BY <1>2, <2>1, FractionsDecideTimes
  <2>5. encodeTime(a) \in Seq(Int)
    BY TextOfTime
  <2>6. ~TextBefore(encodeTime(a), encodeTime(b)) /\ ~TextBefore(encodeTime(b), encodeTime(a))
    BY <2>5, NotBeforeItself
  <2> DEFINE Continues == /\ a # b /\ a.second = b.second
                          /\ \/ IsPrefix(Trim(f), Trim(g))
                             \/ IsPrefix(Trim(g), Trim(f))
  <2>7. TimeBefore(a, b) <=> Continues
    BY <2>6, TextOrder
  <2>8. TimeBefore(b, a) <=> Continues
    BY <2>6, TextOrder
  <2> HIDE DEF Continues, f, g
  <2>9. QED
    BY <2>1, <2>2, <2>3, <2>4, <2>7, <2>8
<1>5. f = g
  <2>1. \A i \in 1..FractionDigits : f[i] = g[i]
    BY <1>4
  <2>2. QED
    BY <1>3, <2>1, FractionAt
<1>6. QED
  BY <1>2, <1>5 DEF AnyTime

-----------------------------------------------------------------------------
(* Paging                                                                  *)

\* A client in the middle of the list has seen what is before the offset it goes on from.
ListingInv ==
    /\ codes \subseteq Code /\ IsFiniteSet(codes)
    /\ client \in Client
    /\ client.first \subseteq codes
    /\ client.pc = "next" => \A c \in client.first : Before(c) < client.offset => c \in client.seen
    /\ PagesCoverList

-----------------------------------------------------------------------------
(* The rank of a row                                                       *)

\* A part of a finite set is finite and, if it is not the whole, smaller.
LEMMA StrictSubset ==
  ASSUME NEW S, IsFiniteSet(S), NEW T \in SUBSET S
  PROVE  /\ IsFiniteSet(T) /\ Cardinality(T) \in Nat /\ Cardinality(S) \in Nat
         /\ Cardinality(T) <= Cardinality(S)
         /\ T # S => Cardinality(T) < Cardinality(S)
<1>1. IsFiniteSet(T) /\ Cardinality(T) <= Cardinality(S) /\ (Cardinality(S) = Cardinality(T) => S = T)
  BY FS_Subset
<1>2. Cardinality(T) \in Nat /\ Cardinality(S) \in Nat
  BY <1>1, FS_CardinalityType
<1>3. QED
  BY <1>1, <1>2

\* The first n numbers are n.
LEMMA Interval ==
  ASSUME NEW n \in Nat
  PROVE  IsFiniteSet(0..n - 1) /\ Cardinality(0..n - 1) = n
<1>1. 0 \in Int /\ n - 1 \in Int
  OBVIOUS
<1>2. /\ IsFiniteSet(0..n - 1)
      /\ Cardinality(0..n - 1) = IF 0 > n - 1 THEN 0 ELSE (n - 1) - 0 + 1
  BY <1>1, FS_Interval
<1>3. QED
  BY <1>2

\* Rows are numbered from 0 without a gap, so that no two have one number.
LEMMA BeforeNumbersRows ==
  ASSUME codes \subseteq Nat, IsFiniteSet(codes)
  PROVE  /\ Cardinality(codes) \in Nat
         /\ \A c \in codes : Before(c) \in 0..Cardinality(codes) - 1
         /\ \A c, d \in codes : Before(c) = Before(d) => c = d
         /\ \A n \in 0..Cardinality(codes) - 1 : \E c \in codes : Before(c) = n
<1> DEFINE below(c) == {x \in codes : x < c}
<1>1. \A c : below(c) \in SUBSET codes /\ Before(c) = Cardinality(below(c))
  BY DEF Before
<1>2. \A c \in codes : below(c) # codes
  OBVIOUS
<1>3. \A c, d \in codes : c < d => below(c) \in SUBSET below(d) /\ below(c) # below(d)
  <2>1. SUFFICES ASSUME NEW c \in codes, NEW d \in codes, c < d
                 PROVE  below(c) \in SUBSET below(d) /\ below(c) # below(d)
    OBVIOUS
  <2>2. c \in below(d) /\ c \notin below(c)
    BY <2>1
  <2>3. ASSUME NEW x \in below(c) PROVE x \in below(d)
    <3>1. x \in codes /\ x < c /\ x \in Nat /\ c \in Nat /\ d \in Nat
      OBVIOUS
    <3>2. x < d
      BY <2>1, <3>1
    <3>3. QED
      BY <3>1, <3>2
  <2>4. QED
    BY <2>2, <2>3
<1> HIDE DEF below
<1>4. \A c \in codes : /\ IsFiniteSet(below(c)) /\ Before(c) \in Nat /\ Cardinality(codes) \in Nat
                       /\ Before(c) < Cardinality(codes)
  BY <1>1, <1>2, StrictSubset
<1>5. \A c, d \in codes : c < d => Before(c) < Before(d)
  BY <1>1, <1>3, <1>4, StrictSubset
<1>6. \A c, d \in codes : Before(c) = Before(d) => c = d
  <2>1. \A c, d \in codes : c = d \/ c < d \/ d < c
    OBVIOUS
  <2>2. QED
    BY <1>4, <1>5, <2>1
<1>7. Cardinality(codes) \in Nat
  BY FS_CardinalityType
<1>8. \A n \in 0..Cardinality(codes) - 1 : \E c \in codes : Before(c) = n
  <2> DEFINE T == 0..Cardinality(codes) - 1
             rank == [c \in codes |-> Before(c)]
  <2>1. IsFiniteSet(T) /\ Cardinality(T) = Cardinality(codes)
    BY <1>7, Interval
  <2>2. \A c \in codes : Before(c) \in T
    BY <1>4
  <2> HIDE DEF T
  <2>3. rank \in [codes -> T] /\ \A c \in codes : rank[c] = Before(c)
    BY <2>2
  <2>4. rank \in Injection(codes, T)
    <3>1. \A c, d \in codes : rank[c] = rank[d] => c = d
      BY <1>6
    <3>2. QED
      BY <2>3, <3>1, Zenon DEF Injection, IsInjective
  <2>5. rank \in Surjection(codes, T)
    <3> HIDE DEF rank
    <3> QED
      BY <2>1, <2>4, FS_Injection
  <2>6. \A n \in T : \E c \in codes : rank[c] = n
    <3> HIDE DEF rank
    <3> QED
      BY <2>5, Zenon DEF Surjection
  <2>7. QED
    BY <2>3, <2>6 DEF T
<1>9. QED
  BY <1>4, <1>6, <1>7, <1>8

\* A page has no more rows than its limit.
LEMMA PageWithinLimit ==
  ASSUME codes \subseteq Nat, IsFiniteSet(codes), NEW limit \in Nat, NEW offset \in Nat
  PROVE  /\ IsFiniteSet(Page(limit, offset))
         /\ Cardinality(Page(limit, offset)) \in Nat
         /\ Cardinality(Page(limit, offset)) <= limit
<1> DEFINE T == offset..offset + limit - 1
           P == Page(limit, offset)
           rank == [c \in P |-> Before(c)]
<1>1. IsFiniteSet(T) /\ Cardinality(T) = limit
  BY FS_Interval
<1>2. \A c \in P : c \in codes /\ Before(c) \in T
  BY BeforeNumbersRows DEF Page
<1>3. rank \in Injection(P, T)
  <2>1. rank \in [P -> T] /\ \A c, d \in P : rank[c] = rank[d] => c = d
    BY <1>2, BeforeNumbersRows
  <2>2. QED
    BY <2>1, Zenon DEF Injection, IsInjective
<1>4. IsFiniteSet(P) /\ Cardinality(P) <= Cardinality(T)
  <2> HIDE DEF T, P, rank
  <2> QED
    BY <1>1, <1>3, FS_Injection
<1>5. QED
  BY <1>1, <1>4, FS_CardinalityType

\* An empty page is behind the last row.
LEMMA EmptyPageIsLast ==
  ASSUME codes \subseteq Nat, IsFiniteSet(codes), NEW limit \in Nat \ {0}, NEW offset \in Nat,
         Page(limit, offset) = {}
  PROVE  \A c \in codes : Before(c) < offset
<1> SUFFICES ASSUME NEW c \in codes, ~(Before(c) < offset) PROVE FALSE
  OBVIOUS
<1>1. Before(c) \in 0..Cardinality(codes) - 1 /\ Cardinality(codes) \in Nat
  BY BeforeNumbersRows
<1>2. offset \in 0..Cardinality(codes) - 1
  BY <1>1
<1>3. PICK d \in codes : Before(d) = offset
  BY <1>2, BeforeNumbersRows
<1>4. d \in Page(limit, offset)
  BY <1>3 DEF Page
<1>5. QED
  BY <1>4

-----------------------------------------------------------------------------
\* At first the client has asked for nothing.
LEMMA ListingInitInv == ListingInit => ListingInv
  BY FS_EmptySet DEF ListingInit, ListingInv, Client, PagesCoverList

\* A new row only moves later rows down the list.
LEMMA CreateResourceInv ==
  ASSUME ListingInv, NEW c \in Code, CreateResource(c)
  PROVE  ListingInv'
<1>1. codes' = codes \cup {c} /\ client' = client
  BY DEF CreateResource
<1>2. codes' \subseteq Code /\ IsFiniteSet(codes') /\ codes' \subseteq Nat /\ codes \subseteq Nat
  BY <1>1, FS_AddElement, ListingAssumption DEF ListingInv
<1>3. \A d \in codes : Before(d) <= Before(d)' /\ Before(d) \in Nat /\ Before(d)' \in Nat
  <2>1. TAKE d \in codes
  <2>2. {x \in codes : x < d} \in SUBSET {x \in codes' : x < d}
    BY <1>1
  <2>3. {x \in codes' : x < d} \in SUBSET codes'
    OBVIOUS
  <2>4. IsFiniteSet({x \in codes' : x < d})
    BY <1>2, <2>3, StrictSubset
  <2>5. QED
    BY <2>2, <2>4, StrictSubset DEF Before
<1>4. client.pc = "next" =>
         \A d \in client.first : Before(d)' < client.offset => d \in client.seen
  BY <1>3 DEF ListingInv, Client
<1>5. QED
  BY <1>1, <1>2, <1>4 DEF ListingInv, PagesCoverList

\* The list the client asks for is the table as it is.
LEMMA BeginListInv ==
  ASSUME ListingInv, NEW limit \in AskedLimit, NEW offset \in AskedOffset, BeginList(limit, offset)
  PROVE  ListingInv'
<1>1. codes' = codes /\ client'.pc = "next" /\ client'.offset = offset /\ client'.first = codes
      /\ client' = [client EXCEPT !.pc = "next", !.limit = limit, !.offset = offset,
                                  !.first = codes]
  BY DEF BeginList, ListingInv, Client
<1>2. client' \in Client
  BY <1>1, ListingAssumption DEF ListingInv, Client
<1>3. \A c \in codes : Before(c) \in Nat
  <2>1. codes \subseteq Nat /\ IsFiniteSet(codes)
    BY ListingAssumption DEF ListingInv
  <2>2. Cardinality(codes) \in Nat /\ \A c \in codes : Before(c) \in 0..Cardinality(codes) - 1
    BY <2>1, BeforeNumbersRows
  <2>3. QED
    BY <2>2
<1>4. \A c \in codes : Before(c)' = Before(c)
  BY <1>1 DEF Before
<1>5. \A c \in codes : ~(Before(c)' < offset)
  BY <1>3, <1>4, ListingAssumption
<1>6. QED
  BY <1>1, <1>2, <1>5 DEF ListingInv, PagesCoverList

\* A page holds the rows of the ranks from its offset on.
LEMMA ListResourcesInv ==
  ASSUME ListingInv, ListResources
  PROVE  ListingInv'
<1> DEFINE offset == EffectiveOffset(client.offset)
           limit == EffectiveLimit(client.limit)
           page == Page(limit, offset)
<1>1. /\ client.pc = "next" /\ codes' = codes
      /\ client' = [client EXCEPT !.pc = IF page = {} THEN "done" ELSE "next",
                                  !.offset = offset + Cardinality(page), !.seen = @ \cup page]
  BY DEF ListResources
<1>2. offset \in Nat /\ limit \in Nat \ {0} /\ client.offset <= offset
      /\ (offset = client.offset \/ offset = 0)
  BY ListingAssumption DEF EffectiveOffset, EffectiveLimit, ListingInv, Client
<1>3. codes \subseteq Nat /\ IsFiniteSet(codes)
  BY ListingAssumption DEF ListingInv
<1> HIDE DEF offset, limit
<1>4. Cardinality(page) \in Nat /\ Cardinality(page) <= limit
  BY <1>2, <1>3, PageWithinLimit
<1>5. page = {} => \A c \in codes : Before(c) < offset
  BY <1>2, <1>3, EmptyPageIsLast
<1>6. page \subseteq codes /\ \A c \in codes : Before(c) < offset + limit /\ c \notin page
                                                => Before(c) < offset
  BY <1>2, BeforeNumbersRows, <1>3 DEF Page
<1>7. \A c \in codes : Before(c) \in Nat /\ Before(c)' = Before(c)
  BY <1>1, <1>3, BeforeNumbersRows DEF Before
<1>8. \A c \in client.first : Before(c) < offset => c \in client.seen
  BY <1>1, <1>2, <1>7 DEF ListingInv
<1> HIDE DEF page
<1>9. client.seen \cup page \in SUBSET Code /\ offset + Cardinality(page) \in Int
  BY <1>2, <1>4, <1>6 DEF ListingInv, Client
<1>10. client' \in Client /\ client'.first = client.first
      /\ client'.seen = client.seen \cup page /\ client'.offset = offset + Cardinality(page)
      /\ client'.pc = IF page = {} THEN "done" ELSE "next"
  BY <1>1, <1>9 DEF ListingInv, Client
<1>11. \A c \in client.first : Before(c) < offset + Cardinality(page)
                                 => c \in client.seen \cup page
  BY <1>2, <1>4, <1>6, <1>7, <1>8 DEF ListingInv
<1>12. page = {} => client.first \subseteq client.seen \cup page
  BY <1>5, <1>8 DEF ListingInv
<1>13. QED
  BY <1>1, <1>7, <1>10, <1>11, <1>12 DEF ListingInv, PagesCoverList

\* Each step keeps the invariant of paging.
LEMMA ListingNextInv == ListingInv /\ [ListingNext]_listingVars => ListingInv'
<1> SUFFICES ASSUME ListingInv, [ListingNext]_listingVars PROVE ListingInv'
  OBVIOUS
<1>1. CASE UNCHANGED listingVars
  BY <1>1 DEF listingVars, ListingInv, Before, PagesCoverList
<1>2. QED
  BY <1>1, CreateResourceInv, BeginListInv, ListResourcesInv DEF ListingNext

-----------------------------------------------------------------------------
\* ListResources: a client that pages by the rows it got misses no resource that was there
\* when it began, whatever limits are asked for and however many resources are created.
THEOREM PagingCovers == ListingSpec => []PagesCoverList
<1>1. ListingInv => PagesCoverList
  BY DEF ListingInv
<1>2. QED
  BY <1>1, ListingInitInv, ListingNextInv, PTL DEF ListingSpec

\* Whatever rule is looked at beside it, the list goes its own way.
THEOREM PagingCoversInRules == Spec => []PagesCoverList
<1>1. Init => ListingInit
  BY DEF Init
<1>2. [Next]_vars => [ListingNext]_listingVars
  BY DEF Next, vars, listingVars
<1>3. QED
  BY <1>1, <1>2, PagingCovers, PTL DEF Spec, ListingSpec
=============================================================================
