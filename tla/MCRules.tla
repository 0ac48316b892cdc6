------------------------------ MODULE MCRules ------------------------------
(* Instances of Rules small enough for TLC.                                *)
EXTENDS Rules

\* Clocks that go forward or back by an hour on day 2, at an hour of the clock as it was.
Zones == {[offset |-> o, shift |-> s, at |-> 48 + h - o] : o \in {-4, -1, 0, 2},
                                                          s \in {-1, 1}, h \in {-1, 0, 1, 2}}

Instants == [second: [1..SecondDigits -> Digit], fraction: [1..FractionDigits -> Digit]]
Limits == -1..4
Offsets == {-1, 0}
=============================================================================
