------------------------- MODULE PaymentsProperties -------------------------
(* What Payments keeps true.                                               *)
EXTENDS Payments

\* A stay past its hold has the full guarantee on its own books as a succeeded payment: a
\* callback that came first under the same event, with another amount, kind or status, never
\* passes for it.
GuaranteedByFullPayment ==
    \A s \in StayId : stays[s] \notin {"held", "expired"} =>
        \E e \in Event : GuaranteeRow(s, e) \in payments

PaidBy(s) == {p \in payments : p.stay = s /\ p.status = "succeeded"}

\* The two sums of a settlement are no older than its request and no newer than its
\* transaction: each is the sum of a set of rows that holds all those known when the request
\* began and none that is not on the books now.
SettlementCoversRequest ==
    \A x \in settlements :
        /\ \E P \in SUBSET PaidBy(x.stay) : x.knewPaid \subseteq P /\ x.paid = Net(P)
        /\ \E C \in SUBSET Accepted(x.stay) :
              x.knewDamage \subseteq {c.id : c \in C} /\ x.damage = Damage(C)

\* A refund never asks the guest for money and never exceeds what he ever paid in, whatever
\* refunds, charges and damage come in between the statements.
RefundWithinPayments ==
    \A x \in settlements :
        0 <= x.refund /\ x.refund <= Net({p \in PaidBy(x.stay) : p.kind # "refund"})
=============================================================================
