------------------------------ MODULE Payments ------------------------------
(***************************************************************************)
(* Money: guarantees, the payment provider's callbacks, damage claims and  *)
(* the settlement, with amounts.  Module Booking has the stays' side of    *)
(* the same services.                                                      *)
(*                                                                         *)
(* The provider delivers callbacks in any order and any number of times.   *)
(* A settlement sums payments, sums damage and writes, in three            *)
(* statements between which callbacks and claims come in.                  *)
(***************************************************************************)
EXTENDS Integers, FiniteSetsExt

CONSTANTS
    StayId,     \* stays on hold
    Event,      \* (provider, provider_event_id) pairs
    Delivery,   \* callbacks the provider may deliver
    Claim,      \* identifiers of damage claims
    Task,       \* operational tasks: [stay, kind]
    Amount,     \* amounts that damage is assessed at
    Guarantee,  \* guarantee_cents of a stay
    Settler,    \* settlement requests
    None        \* no value

Kind == {"guarantee", "charge", "refund"}
PaymentStatus == {"pending", "succeeded", "failed"}
DamageStatus == {"draft", "accepted", "disputed", "waived"}

ASSUME PaymentsAssumption ==
    /\ None \notin StayId
    /\ Guarantee \in Nat /\ Amount \subseteq Int
    /\ Delivery \subseteq [event: Event, stay: StayId \cup {None}, kind: Kind,
                           status: PaymentStatus, amount: Int]
    /\ Task \subseteq [stay: StayId \cup {None}, kind: {"cleaning", "inspection"}]

VARIABLES
    stays,        \* status of each stay
    payments,     \* table payments
    claims,       \* table damage_claims: [id, stay, amount, status]
    settlements,  \* table refund_settlements, with what its request knew: see NewSettlement
    rq            \* what each settlement request holds in its local variables

vars == <<stays, payments, claims, settlements, rq>>

StayStatus == {"held", "expired", "guaranteed", "checked_out", "settling"}
Payment == [event: Event, stay: StayId, kind: Kind, status: PaymentStatus, amount: Nat]

\* "knew" is what the tables held when the request began; the code keeps no such thing.
Idle == [pc |-> "idle", stay |-> None, paid |-> 0, damage |-> 0,
         knewPaid |-> {}, knewDamage |-> {}]

Init ==
    /\ stays = [s \in StayId |-> "held"]
    /\ payments = {} /\ claims = {} /\ settlements = {}
    /\ rq = [h \in Settler |-> Idle]

-----------------------------------------------------------------------------
(* Guarantee and ReceivePayment                                            *)

\* Mutant: INSERT OR IGNORE in the guarantee.
AcceptsAnyEvent(e) == TRUE

EventTaken(e) == \E p \in payments : p.event = e
AcceptsGuarantee(e) == ~EventTaken(e)
GuaranteeRow(s, e) == [event |-> e, stay |-> s, kind |-> "guarantee", status |-> "succeeded",
                       amount |-> Guarantee]

\* The transaction of Guarantee.  An event that a callback has recorded already makes it
\* fail as a whole, on this attempt and on every later one.
GuaranteeStay(s, e) ==
    /\ stays[s] = "held"
    /\ AcceptsGuarantee(e)
    /\ stays' = [stays EXCEPT ![s] = "guaranteed"]
    /\ payments' = IF EventTaken(e) THEN payments ELSE payments \cup {GuaranteeRow(s, e)}
    /\ UNCHANGED <<claims, settlements, rq>>

\* The sweep, or check-in and check-out: module Booking has their steps.
TransitionStay(s) ==
    /\ \/ stays[s] = "held" /\ stays' = [stays EXCEPT ![s] = "expired"]
       \/ stays[s] = "guaranteed" /\ stays' = [stays EXCEPT ![s] = "checked_out"]
    /\ UNCHANGED <<payments, claims, settlements, rq>>

\* The keys and checks of table payments: the stay exists, the amount is not negative and
\* no row has the event.
Insertable(d) == d.stay # None /\ d.amount >= 0 /\ ~EventTaken(d.event)

\* RecordPayment.  A callback that fails a constraint, or finds the database locked, is
\* answered as a duplicate and changes nothing.
ReceivePayment(d) ==
    /\ \/ Insertable(d) /\ payments' = payments \cup {d}
       \/ UNCHANGED payments
    /\ UNCHANGED <<stays, claims, settlements, rq>>

-----------------------------------------------------------------------------
(* AssessDamage; nothing in the program moves a claim out of draft         *)

AssessDamage(c, s, t, amount) ==
    /\ amount >= 0
    /\ t.stay = s /\ t.kind = "inspection"
    /\ \A x \in claims : x.id # c
    /\ claims' = claims \cup {[id |-> c, stay |-> s, amount |-> amount, status |-> "draft"]}
    /\ UNCHANGED <<stays, payments, settlements, rq>>

Decide(x, to) ==
    /\ x.status = "draft" /\ to # "draft"
    /\ claims' = (claims \ {x}) \cup {[x EXCEPT !.status = to]}
    /\ UNCHANGED <<stays, payments, settlements, rq>>

-----------------------------------------------------------------------------
(* settlement.Service.Start                                                *)

\* Mutants: the sum forgets the CASE on kind, or the filter on status.
SignedAsCharge(p) == p.amount
PaidInAnyStatus(s) == {p \in payments : p.stay = s}

Signed(p) == IF p.kind = "refund" THEN -p.amount ELSE p.amount
Succeeded(s) == {p \in payments : p.stay = s /\ p.status = "succeeded"}
Accepted(s) == {x \in claims : x.stay = s /\ x.status = "accepted"}
Net(P) == SumFunction([p \in P |-> Signed(p)])
Damage(C) == SumFunction([x \in C |-> x.amount])

Sets(h, request) ==
    /\ rq' = [rq EXCEPT ![h] = request]
    /\ UNCHANGED <<stays, payments, claims, settlements>>

SettleBegin(h, s) ==
    /\ rq[h].pc = "idle" /\ stays[s] = "checked_out"
    /\ Sets(h, [Idle EXCEPT !.pc = "payments", !.stay = s, !.knewPaid = Succeeded(s),
                            !.knewDamage = {x.id : x \in Accepted(s)}])

SumSucceededPayments(h) ==
    /\ rq[h].pc = "payments"
    /\ Sets(h, [rq[h] EXCEPT !.pc = "damage", !.paid = Net(Succeeded(rq[h].stay))])

SumAcceptedDamage(h) ==
    /\ rq[h].pc = "damage"
    /\ Sets(h, [rq[h] EXCEPT !.pc = "commit", !.damage = Damage(Accepted(rq[h].stay))])

\* NewSettlement turns down a negative sum and never asks the guest for money.
NewSettlement(q) ==
    [stay |-> q.stay, paid |-> q.paid, damage |-> q.damage,
     refund |-> IF q.paid < q.damage THEN 0 ELSE q.paid - q.damage,
     knewPaid |-> q.knewPaid, knewDamage |-> q.knewDamage]

CreateSettlement(h) ==
    /\ rq[h].pc = "commit"
    /\ rq[h].paid >= 0 /\ rq[h].damage >= 0
    /\ stays[rq[h].stay] = "checked_out"
    /\ settlements' = settlements \cup {NewSettlement(rq[h])}
    /\ stays' = [stays EXCEPT ![rq[h].stay] = "settling"]
    /\ rq' = [rq EXCEPT ![h] = Idle]
    /\ UNCHANGED <<payments, claims>>

\* Refused by NewSettlement or by the transaction, or lost on the way.
SettleEnd(h) == rq[h].pc # "idle" /\ Sets(h, Idle)

-----------------------------------------------------------------------------
Next ==
    \/ \E s \in StayId, e \in Event : GuaranteeStay(s, e)
    \/ \E s \in StayId : TransitionStay(s)
    \/ \E d \in Delivery : ReceivePayment(d)
    \/ \E c \in Claim, s \in StayId, t \in Task, amount \in Amount : AssessDamage(c, s, t, amount)
    \/ \E x \in claims, to \in DamageStatus : Decide(x, to)
    \/ \E h \in Settler, s \in StayId : SettleBegin(h, s)
    \/ \E h \in Settler : SumSucceededPayments(h)
    \/ \E h \in Settler : SumAcceptedDamage(h)
    \/ \E h \in Settler : CreateSettlement(h)
    \/ \E h \in Settler : SettleEnd(h)

Spec == Init /\ [][Next]_vars
=============================================================================
