------------------------------ MODULE Calendar ------------------------------
(***************************************************************************)
(* The nights of a stay in a zone whose clock changes once.  An instant is *)
(* an hour of UTC, a wall time an hour of the zone's clock, and a date the *)
(* number of its day.                                                      *)
(***************************************************************************)
EXTENDS Integers, Sequences

CONSTANTS
    Zone,      \* the clocks of properties: by how much they are ahead of UTC, and from
               \* the instant "at" on by how much more
    MaxNights  \* 90

ASSUME CalendarAssumption ==
    /\ Zone \subseteq [offset: Int, shift: {-1, 1}, at: Int]
    /\ MaxNights \in Nat \ {0}

OffsetAt(z, t) == IF t < z.at THEN z.offset ELSE z.offset + z.shift
Local(z, t) == t + OffsetAt(z, t)
DateOf(z, t) == Local(z, t) \div 24

\* time.Date of Go takes the offset from the wall time w as if it were an instant, and if
\* that offset does not hold at the instant it leads to, the offset that does hold there.
DateTime(z, w) ==
    LET utc == w - OffsetAt(z, w)
    IN  IF w < z.at <=> utc < z.at THEN utc ELSE w - OffsetAt(z, utc)

midnight(z, t) == DateTime(z, 24 * DateOf(z, t))

\* Mutant: a day has 24 hours.
AddHours(z, t) == t + 24

\* AddDate of Go: the next day at the same wall time.
AddDay(z, t) == DateTime(z, Local(z, t) + 24)

\* The instant that a written date stands for, before and after NewDateRange.
ParseDate(z, date) == DateTime(z, 24 * date)
CheckTime(z, date) == midnight(z, ParseDate(z, date))

\* NewDateRange limits hours, not nights.
Accepted(z, checkIn, checkOut) ==
    LET hours == CheckTime(z, checkOut) - CheckTime(z, checkIn)
    IN  hours > 0 /\ hours <= 24 * MaxNights

\* The rows that a held stay gets in stay_nights.
NightStrings(z, checkIn, checkOut) ==
    LET From[t \in Int] ==
            IF t < CheckTime(z, checkOut) THEN <<DateOf(z, t)>> \o From[AddDay(z, t)] ELSE <<>>
    IN  From[CheckTime(z, checkIn)]
=============================================================================
