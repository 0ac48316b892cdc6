------------------------------ MODULE Pricing ------------------------------
(***************************************************************************)
(* Quotes: what the nights of a range cost in integers of fixed width, and *)
(* how the clock changing inside the range bears on the discount.          *)
(***************************************************************************)
EXTENDS Integers, FiniteSetsExt

CONSTANTS
    Whole,           \* basis points of an unchanged price: 10000
    WeekendPoints, HolidayPoints, LongStayPoints,
    LongStayNights,
    Word             \* the number of values of the machine's integer: 2^64

ASSUME PricingAssumption ==
    /\ {Whole, WeekendPoints, HolidayPoints, LongStayPoints} \subseteq Nat \ {0}
    /\ LongStayNights \in Nat \ {0}
    /\ Word \in Nat /\ Word % 2 = 0 /\ Word > 0

\* DefaultPricePolicy, which nothing overrides, in what the proofs need of it: no night is
\* dearer than a holiday or cheaper than a plain one, and the discount on the shortest long
\* stay of holidays is not worth more than a plain night.
ASSUME PolicyAssumption ==
    /\ Whole <= WeekendPoints /\ WeekendPoints <= HolidayPoints /\ LongStayPoints <= Whole
    /\ (Whole - LongStayPoints) * LongStayNights * HolidayPoints <= LongStayPoints * Whole

\* A range of calendar days: its nights, the weekday of the first one (Monday is 0), the days
\* of 23 and of 25 hours among them, and the nights that are holidays.  The hours are those
\* between its midnights where the clock skips none; Calendar has the zones that skip one.
Elapsed(range) == 24 * range.nights - range.short + range.long

NightCount(range) == Elapsed(range) \div 24

\* Integers wrap, and division truncates.
Wrap(n) == ((n + Word \div 2) % Word) - Word \div 2
Points(n) == IF n >= 0 THEN n \div Whole ELSE -((-n) \div Whole)
LastWord == Word \div 2 - 1

Factor(range, i) ==
    IF i \in range.holidays THEN HolidayPoints
    ELSE IF (range.first + i - 1) % 7 \in {4, 5} THEN WeekendPoints
    ELSE Whole

\* Mutants: one division for all nights; the points are taken off instead of charged.
TotalDividedOnce(range, base) ==
    Points(Wrap(SumFunction([i \in 1..range.nights |-> Wrap(base * Factor(range, i))])))
LongStayOff(total) == total - Points(Wrap(total * LongStayPoints))

\* The loop goes over the days, not over NightCount.
Total(range, base) ==
    Wrap(SumFunction([i \in 1..range.nights |-> Points(Wrap(base * Factor(range, i)))]))
LongStayPrice(total) == Points(Wrap(total * LongStayPoints))

Quote(range, base) ==
    IF NightCount(range) >= LongStayNights THEN LongStayPrice(Total(range, base))
    ELSE Total(range, base)
Quoted(range, base) == NightCount(range) > 0 /\ Quote(range, base) >= 0
=============================================================================
