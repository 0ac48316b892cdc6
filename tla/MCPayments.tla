----------------------------- MODULE MCPayments -----------------------------
(* Instances of Payments small enough for TLC.                             *)
EXTENDS PaymentsProperties, TLC

CONSTANTS s1, e1, e2, e3, c1, c2, h1

Callback(event, stay, kind, status, amount) ==
    [event |-> event, stay |-> stay, kind |-> kind, status |-> status, amount |-> amount]
\* The guarantee's own event before its time and failed, a charge, a refund larger than it,
\* and a payment of an unknown stay under the event of the charge.
Callbacks == {Callback(e1, s1, "guarantee", "failed", 4), Callback(e2, s1, "charge", "succeeded", 2),
              Callback(e3, s1, "refund", "succeeded", 5), Callback(e2, None, "charge", "pending", -1)}
Tasks == {[stay |-> s1, kind |-> "inspection"], [stay |-> None, kind |-> "inspection"],
          [stay |-> s1, kind |-> "cleaning"]}

Symmetry == Permutations(Claim)
=============================================================================
