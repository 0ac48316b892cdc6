----------------------------- MODULE MCBooking -----------------------------
(* Instances of Booking small enough for TLC.                              *)
EXTENDS BookingProperties, TLC

CONSTANTS s1, s2, r1, p1, g1, g2, k1, k2, e1, e2, h1, h2

OneProperty == [r \in Resource |-> p1]

NoCallback == {}
OneCallback == {[kind |-> "charge", status |-> "succeeded"]}
\* The payment of a guarantee that did not succeed.
FailedGuarantee == {[kind |-> "guarantee", status |-> "failed"]}

StayOperations == {"hold", "guarantee", "check_in", "cancel", "checkout"}
SettleOperations == StayOperations \cup {"settle"}
AllocationOperations == SettleOperations \cup {"payment"}
SweepOperations == {"hold", "guarantee", "payment", "catalog"}

\* Identifiers are opaque: the code only compares them for equality.
Symmetry == Permutations(StayId) \cup Permutations(Handler) \cup Permutations(Key)
            \cup Permutations(Event)
=============================================================================
