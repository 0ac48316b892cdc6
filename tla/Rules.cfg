\* The policy of DefaultPricePolicy in percent, 20-bit integers, the 90 nights of the code;
\* a clock that changes on the third day, before, at or after midnight, east and west of
\* Greenwich; fractions of three digits; lists of up to four resources.
CONSTANTS
    Whole = 100
    WeekendPoints = 120
    HolidayPoints = 135
    LongStayPoints = 92
    LongStayNights = 7
    MaxNights = 90
    Zone <- Zones
    CheckIn = {0, 1, 2, 3}
    Word = 1048576
    Nights = {1, 2, 6, 7, 8, 89, 90, 91}
    Base = {1, 3, 46, 500, 3883, 4000}
    FractionDigits = 3
    SecondDigits = 2
    Digit = {0, 1, 5}
    Instant <- Instants
    Code = {1, 2, 3, 4}
    MaxLimit = 3
    DefaultLimit = 2
    AskedLimit <- Limits
    AskedOffset <- Offsets
SPECIFICATION Spec
CHECK_DEADLOCK FALSE
INVARIANTS PagesCoverList NightsAreDates QuoteIsExact LongerStayCostsMore
           TextOrderIsTimeOrder
