------------------------------- MODULE Rules -------------------------------
(***************************************************************************)
(* The rules that are functions of their input (Calendar, Pricing,         *)
(* TimeText), over chosen inputs, and the paging of Listing beside them.   *)
(***************************************************************************)
EXTENDS Calendar, Pricing, TimeText, Listing

CONSTANTS
    CheckIn,       \* dates to arrive on
    Nights, Base,  \* lengths of stays and base prices to quote
    Instant        \* times to write

ASSUME RulesAssumption ==
    /\ CheckIn \subseteq Int /\ Nights \subseteq Nat \ {0} /\ Base \subseteq Nat
    /\ Instant \subseteq [second: [1..SecondDigits -> 0..9], fraction: [1..FractionDigits -> 0..9]]

VARIABLE input     \* dates of a stay, a stay to quote, a pair of times, or none of these

vars == <<codes, client, input>>

Nothing == [rule |-> "none"]
Ranges == {r \in UNION {[nights: {n}, first: 0..6, short: 0..1, long: 0..1,
                         holidays: {{}, 1..n}] : n \in Nights} : r.short + r.long <= r.nights}
Dates == [rule: {"dates"}, zone: Zone, checkIn: CheckIn, nights: Nights]
Stays == [rule: {"stay"}, range: Ranges, base: Base]
Times == [rule: {"times"}, a: Instant, b: Instant]

Init == ListingInit /\ input \in {Nothing} \cup Dates \cup Stays \cup Times

Next == input = Nothing /\ ListingNext /\ UNCHANGED input

Spec == Init /\ [][Next]_vars

-----------------------------------------------------------------------------
\* The clock goes from before midnight to after it, west of Greenwich, where time.Date turns
\* the midnight into the last hour of the day before.
SkipsMidnight(z, date) ==
    /\ z.shift > 0 /\ z.offset < 0
    /\ 24 * date - z.offset \in z.at..z.at + z.shift - 1

\* NewDateRange and Nights: an accepted stay takes the nights from its check-in to the one
\* before its check-out, each once and in order, and no more of them than are allowed,
\* whenever the clock changes, unless it skips the midnight of one of the stay's dates.
NightsAreDates ==
    input.rule = "dates" =>
        LET z == input.zone
            checkOut == input.checkIn + input.nights
        IN  /\ Accepted(z, input.checkIn, checkOut)
            /\ \A d \in input.checkIn..checkOut : ~SkipsMidnight(z, d)
            => /\ NightStrings(z, input.checkIn, checkOut)
                      = [i \in 1..input.nights |-> input.checkIn + i - 1]
               /\ input.nights <= MaxNights

-----------------------------------------------------------------------------
\* A base price whose products fit the machine's integer.
Safe(r, base) ==
    /\ base * HolidayPoints <= LastWord
    /\ r.nights * ((base * HolidayPoints) \div Whole) * LongStayPoints <= LastWord

ExactTotal(r, base) ==
    SumFunction([i \in 1..r.nights |-> (base * Factor(r, i)) \div Whole])
ExactQuote(r, base) ==
    IF NightCount(r) >= LongStayNights THEN (ExactTotal(r, base) * LongStayPoints) \div Whole
    ELSE ExactTotal(r, base)

\* The overflow check sees a wrapped total only when it ends negative, but no total wraps as
\* long as the price of the longest night and that of the whole stay fit, and none of those
\* is turned away as an overflow.
QuoteIsExact ==
    input.rule = "stay" /\ Safe(input.range, input.base) =>
        /\ Quote(input.range, input.base) = ExactQuote(input.range, input.base)
        /\ Quoted(input.range, input.base) <=> NightCount(input.range) > 0

\* One more night never makes a stay cheaper: the discount for a long stay is not worth more
\* than the night that earns it, not even a plain night after a week of holidays.
LongerStayCostsMore ==
    input.rule = "stay" =>
        LET r == input.range
        IN  \A short \in {r.short, 1}, long \in {r.long, 1} :
                LET longer == [r EXCEPT !.nights = r.nights + 1, !.short = short, !.long = long]
                IN  Safe(longer, input.base) => Quote(r, input.base) <= Quote(longer, input.base)

TimeBefore(a, b) == TextBefore(a.second \o a.fraction, b.second \o b.fraction)

\* Texts are ordered as the times they stand for, except two within one second of which one
\* fraction continues the other: a hold or a task is due at most a second early or late.
\* Two times never have one text, so that a row read back holds the time that was written.
TextOrderIsTimeOrder ==
    input.rule = "times" =>
        LET a == input.a
            b == input.b
        IN  (TextBefore(encodeTime(a), encodeTime(b)) <=> TimeBefore(a, b))
            <=> ~(/\ a # b /\ a.second = b.second
                  /\ \/ IsPrefix(Trim(a.fraction), Trim(b.fraction))
                     \/ IsPrefix(Trim(b.fraction), Trim(a.fraction)))
=============================================================================
