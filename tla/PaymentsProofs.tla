--------------------------- MODULE PaymentsProofs ---------------------------
(***************************************************************************)
(* Proofs about Payments, for any stays, events, callbacks, claims and     *)
(* settlement requests.                                                    *)
(***************************************************************************)
EXTENDS PaymentsProperties, SumLemmas

\* The types that do not depend on a sum.
TablesOK ==
    /\ stays \in [StayId -> StayStatus]
    /\ payments \subseteq Payment

Inv == TablesOK /\ GuaranteedByFullPayment

\* No statement of the program deletes or changes a row of payments.
RowsStay == payments \subseteq payments'

\* A stay that is past its hold was so before, or has just been guaranteed.
PastHold(s) == stays[s] \notin {"held", "expired"}

-----------------------------------------------------------------------------
LEMMA InitInv == Init => Inv
  BY PaymentsAssumption DEF Init, Inv, TablesOK, StayStatus, GuaranteedByFullPayment

\* A step that leaves the stays alone, or takes one from "checked_out" or out of its hold,
\* keeps the guarantees on the books.
LEMMA GuaranteesKept ==
  ASSUME Inv, RowsStay, \A s \in StayId : PastHold(s)' => PastHold(s)
  PROVE  GuaranteedByFullPayment'
  BY DEF Inv, GuaranteedByFullPayment, PastHold, RowsStay, GuaranteeRow

LEMMA GuaranteeStayInv ==
  ASSUME Inv, NEW s \in StayId, NEW e \in Event, GuaranteeStay(s, e)
  PROVE  Inv'
<1>1. payments' = payments \cup {GuaranteeRow(s, e)}
  BY DEF GuaranteeStay, AcceptsGuarantee
<1>2. GuaranteeRow(s, e) \in Payment
  BY PaymentsAssumption DEF GuaranteeRow, Payment, Kind, PaymentStatus
<1>3. stays' = [stays EXCEPT ![s] = "guaranteed"]
  BY DEF GuaranteeStay
<1>4. TablesOK'
  BY <1>1, <1>2, <1>3 DEF Inv, TablesOK, StayStatus
<1>5. GuaranteedByFullPayment'
  BY <1>1, <1>3 DEF Inv, TablesOK, GuaranteedByFullPayment, GuaranteeRow
<1>6. QED
  BY <1>4, <1>5 DEF Inv

LEMMA TransitionStayInv ==
  ASSUME Inv, NEW s \in StayId, TransitionStay(s)
  PROVE  Inv'
<1>1. TablesOK' /\ RowsStay
  BY DEF TransitionStay, Inv, TablesOK, StayStatus, RowsStay
<1>2. \A t \in StayId : PastHold(t)' => PastHold(t)
  BY DEF TransitionStay, Inv, TablesOK, PastHold
<1>3. QED
  BY <1>1, <1>2, GuaranteesKept DEF Inv

LEMMA ReceivePaymentInv ==
  ASSUME Inv, NEW d \in Delivery, ReceivePayment(d)
  PROVE  Inv'
<1>1. d.event \in Event /\ d.kind \in Kind /\ d.status \in PaymentStatus /\ d.amount \in Int
      /\ d.stay \in StayId \cup {None}
      /\ d = [event |-> d.event, stay |-> d.stay, kind |-> d.kind, status |-> d.status,
              amount |-> d.amount]
  BY PaymentsAssumption
<1>2. RowsStay /\ stays' = stays
  BY DEF ReceivePayment, RowsStay
<1>3. GuaranteedByFullPayment'
  BY <1>2, GuaranteesKept DEF PastHold
<1>4. CASE Insertable(d)
  <2>1. d \in Payment
    BY <1>1, <1>4 DEF Insertable, Payment
  <2>2. QED
    BY <1>2, <1>3, <2>1 DEF ReceivePayment, Inv, TablesOK
<1>5. CASE ~Insertable(d)
  BY <1>2, <1>3, <1>5 DEF ReceivePayment, Inv, TablesOK
<1>6. QED
  BY <1>4, <1>5

LEMMA CreateSettlementInv ==
  ASSUME Inv, NEW h \in Settler, CreateSettlement(h)
  PROVE  Inv'
<1>1. TablesOK' /\ RowsStay
  BY DEF CreateSettlement, Inv, TablesOK, StayStatus, RowsStay
<1>2. \A t \in StayId : PastHold(t)' => PastHold(t)
  BY DEF CreateSettlement, Inv, TablesOK, PastHold
<1>3. QED
  BY <1>1, <1>2, GuaranteesKept DEF Inv

\* Claims, and the reads of a settlement, touch neither stays nor payments.
LEMMA ElsewhereInv ==
  ASSUME Inv, UNCHANGED <<stays, payments>>
  PROVE  Inv'
<1>1. TablesOK' /\ RowsStay /\ \A t \in StayId : PastHold(t)' => PastHold(t)
  BY DEF Inv, TablesOK, RowsStay, PastHold
<1>2. QED
  BY <1>1, GuaranteesKept DEF Inv

LEMMA NextInv == Inv /\ [Next]_vars => Inv'
<1> SUFFICES ASSUME Inv, [Next]_vars PROVE Inv'
  OBVIOUS
<1>1. ASSUME NEW c \in Claim, NEW s \in StayId, NEW t \in Task, NEW amount \in Amount,
             AssessDamage(c, s, t, amount)
      PROVE  Inv'
  BY <1>1, ElsewhereInv DEF AssessDamage
<1>2. ASSUME NEW x \in claims, NEW to \in DamageStatus, Decide(x, to) PROVE Inv'
  BY <1>2, ElsewhereInv DEF Decide
<1>3. ASSUME NEW h \in Settler, NEW s \in StayId, SettleBegin(h, s) PROVE Inv'
  BY <1>3, ElsewhereInv DEF SettleBegin, Sets
<1>4. ASSUME NEW h \in Settler, SumSucceededPayments(h) \/ SumAcceptedDamage(h) \/ SettleEnd(h)
      PROVE  Inv'
  BY <1>4, ElsewhereInv DEF SumSucceededPayments, SumAcceptedDamage, SettleEnd, Sets
<1>5. CASE UNCHANGED vars
  BY <1>5, ElsewhereInv DEF vars
<1>6. QED
  BY <1>1, <1>2, <1>3, <1>4, <1>5, GuaranteeStayInv, TransitionStayInv, ReceivePaymentInv,
     CreateSettlementInv DEF Next

-----------------------------------------------------------------------------
\* The inductive invariant holds.
THEOREM PaymentsInvariance == Spec => []Inv
  BY InitInv, NextInv, PTL DEF Spec

\* Guarantee: no callback that comes first passes for the guarantee's payment.
THEOREM GuaranteesAreFull == Spec => []GuaranteedByFullPayment
<1>1. Inv => GuaranteedByFullPayment
  BY DEF Inv
<1>2. QED
  BY <1>1, PaymentsInvariance, PTL

-----------------------------------------------------------------------------
(* The sums of a settlement                                                *)

DamageClaim == [id: Claim, stay: StayId, amount: Nat, status: DamageStatus]
Request == [pc: {"idle", "payments", "damage", "commit"}, stay: StayId \cup {None},
            paid: Int, damage: Int, knewPaid: SUBSET Payment, knewDamage: SUBSET Claim]
Settlement == [stay: StayId, paid: Nat, damage: Nat, refund: Nat,
               knewPaid: SUBSET Payment, knewDamage: SUBSET Claim]

\* x holds the sum of rows that have all it knew of.
PaidFrom(x) == \E P \in SUBSET PaidBy(x.stay) : x.knewPaid \subseteq P /\ x.paid = Net(P)
DamageFrom(x) ==
    \E C \in SUBSET Accepted(x.stay) :
        x.knewDamage \subseteq {c.id : c \in C} /\ x.damage = Damage(C)

\* What a request has gathered when it is about to read, and what it has read.
Gathered(q) ==
    q.pc # "idle" =>
        /\ q.stay \in StayId
        /\ q.knewPaid \subseteq PaidBy(q.stay)
        /\ q.knewDamage \subseteq {c.id : c \in Accepted(q.stay)}
        /\ q.pc \in {"damage", "commit"} => PaidFrom(q)
        /\ q.pc = "commit" => DamageFrom(q)

SumsOK ==
    /\ IsFiniteSet(payments)
    /\ claims \subseteq DamageClaim /\ IsFiniteSet(claims)
    /\ settlements \subseteq Settlement
    /\ rq \in [Settler -> Request]

SumsInv ==
    /\ SumsOK
    /\ \A h \in Settler : Gathered(rq[h])
    /\ SettlementCoversRequest
    /\ \A x \in settlements : x.refund <= x.paid

\* Rows that a sum counts are never taken back: a payment is never changed, and a claim only
\* as long as it is a draft.
CountedStay ==
    /\ payments \subseteq payments'
    /\ \A s \in StayId : Accepted(s) \subseteq Accepted(s)'

\* The sums are sums of integers.
LEMMA NetIsInt ==
  ASSUME NEW P \in SUBSET Payment, IsFiniteSet(P)
  PROVE  Net(P) \in Int
<1> DEFINE F == [p \in P |-> Signed(p)]
<1>1. \A p \in P : F[p] \in Int
  BY DEF Signed, Payment
<1>2. Net(P) = SumFunctionOnSet(F, P)
  BY DEF Net, SumFunction
<1> HIDE DEF F
<1>3. QED
  BY <1>1, <1>2, SumIsInt

LEMMA DamageIsInt ==
  ASSUME NEW C \in SUBSET DamageClaim, IsFiniteSet(C)
  PROVE  Damage(C) \in Int
<1> DEFINE F == [c \in C |-> c.amount]
<1>1. \A c \in C : F[c] \in Int
  BY DEF DamageClaim
<1>2. Damage(C) = SumFunctionOnSet(F, C)
  BY DEF Damage, SumFunction
<1> HIDE DEF F
<1>3. QED
  BY <1>1, <1>2, SumIsInt

\* Without its refunds a set of payments comes to no less, and with more payments that are no
\* refunds to no less again.
LEMMA NetWithoutRefunds ==
  ASSUME NEW Q \in SUBSET Payment, IsFiniteSet(Q), NEW P \in SUBSET Q
  PROVE  Net(P) <= Net({p \in Q : p.kind # "refund"})
<1> DEFINE R == {p \in Q : p.kind # "refund"}
           F == [p \in P |-> Signed(p)]
           G == [p \in R |-> Signed(p)]
<1>1. IsFiniteSet(P) /\ IsFiniteSet(R)
  BY FS_Subset
<1>2. /\ \A p \in P : F[p] \in Int
      /\ \A p \in R : G[p] \in Int
      /\ \A p \in P \cap R : F[p] <= G[p]
      /\ \A p \in P \ R : F[p] <= 0
      /\ \A p \in R \ P : 0 <= G[p]
  BY DEF Signed, Payment
<1>3. Net(P) = SumFunctionOnSet(F, P) /\ Net(R) = SumFunctionOnSet(G, R)
  BY DEF Net, SumFunction
<1> HIDE DEF F, G, R
<1>4. Net(P) <= Net(R)
  BY <1>1, <1>2, <1>3, SumAtMost
<1>5. QED
  BY <1>4 DEF R

\* What has been gathered stays good while counted rows stay.
LEMMA GatheredStays ==
  ASSUME CountedStay, NEW q \in Request, Gathered(q)
  PROVE  Gathered(q)'
<1>1. \A s \in StayId : PaidBy(s) \subseteq PaidBy(s)'
  BY DEF CountedStay, PaidBy
<1>2. QED
  BY <1>1 DEF CountedStay, Gathered, PaidFrom, DamageFrom

LEMMA CoveredStays ==
  ASSUME CountedStay, NEW x \in Settlement, PaidFrom(x), DamageFrom(x)
  PROVE  PaidFrom(x)' /\ DamageFrom(x)'
<1>1. PaidBy(x.stay) \subseteq PaidBy(x.stay)' /\ Accepted(x.stay) \subseteq Accepted(x.stay)'
  BY DEF CountedStay, PaidBy, Settlement
<1>2. QED
  BY <1>1 DEF PaidFrom, DamageFrom

\* A step that leaves the requests and the settlements alone.
LEMMA RowsSums ==
  ASSUME SumsInv, SumsOK', CountedStay, UNCHANGED <<settlements, rq>>
  PROVE  SumsInv'
<1>1. \A h \in Settler : Gathered(rq[h])'
  BY GatheredStays DEF SumsInv, SumsOK
<1>2. SettlementCoversRequest'
  BY CoveredStays DEF SumsInv, SumsOK, SettlementCoversRequest, PaidFrom, DamageFrom
<1>3. QED
  BY <1>1, <1>2 DEF SumsInv

\* A step of one request, which leaves the tables alone.
LEMMA RequestSums ==
  ASSUME SumsInv, NEW h \in Settler, NEW q \in Request, Gathered(q), Sets(h, q)
  PROVE  SumsInv'
<1>1. UNCHANGED <<payments, claims, settlements>> /\ rq' = [rq EXCEPT ![h] = q]
  BY DEF Sets
<1>2. SumsOK' /\ CountedStay
  BY <1>1 DEF SumsInv, SumsOK, CountedStay, Accepted
<1>3. \A g \in Settler : rq'[g] \in Request /\ Gathered(rq'[g])
  BY <1>1 DEF SumsInv, SumsOK
<1>4. \A g \in Settler : Gathered(rq[g])'
  BY <1>1, <1>3 DEF Gathered, PaidFrom, DamageFrom, PaidBy, Accepted
<1>5. SettlementCoversRequest'
  BY <1>1 DEF SumsInv, SettlementCoversRequest, PaidBy, Accepted
<1>6. QED
  BY <1>1, <1>2, <1>4, <1>5 DEF SumsInv

\* A step that leaves the tables of a settlement and its requests alone.
LEMMA ElsewhereSums ==
  ASSUME SumsInv, UNCHANGED <<payments, claims, settlements, rq>>
  PROVE  SumsInv'
<1>1. SumsOK' /\ CountedStay
  BY DEF SumsInv, SumsOK, CountedStay, Accepted
<1>2. QED
  BY <1>1, RowsSums

LEMMA InitSums == Init => SumsInv
<1> SUFFICES ASSUME Init PROVE SumsInv
  OBVIOUS
<1>1. SumsOK
  BY FS_EmptySet DEF Init, SumsOK, Idle, Request
<1>2. \A h \in Settler : Gathered(rq[h])
  BY DEF Init, Idle, Gathered
<1>3. QED
  BY <1>1, <1>2 DEF Init, SumsInv, SettlementCoversRequest

LEMMA GuaranteeStaySums ==
  ASSUME SumsInv, NEW s \in StayId, NEW e \in Event, GuaranteeStay(s, e)
  PROVE  SumsInv'
<1>1. payments' = payments \cup {GuaranteeRow(s, e)} /\ UNCHANGED <<claims, settlements, rq>>
  BY DEF GuaranteeStay, AcceptsGuarantee
<1>2. IsFiniteSet(payments')
  BY <1>1, FS_AddElement DEF SumsInv, SumsOK
<1>3. SumsOK' /\ CountedStay
  BY <1>1, <1>2 DEF SumsInv, SumsOK, CountedStay, Accepted
<1>4. QED
  BY <1>1, <1>3, RowsSums

LEMMA ReceivePaymentSums ==
  ASSUME SumsInv, NEW d \in Delivery, ReceivePayment(d)
  PROVE  SumsInv'
<1>1. (payments' = payments \/ payments' = payments \cup {d})
      /\ UNCHANGED <<claims, settlements, rq>>
  BY DEF ReceivePayment
<1>2. IsFiniteSet(payments')
  BY <1>1, FS_AddElement DEF SumsInv, SumsOK
<1>3. SumsOK' /\ CountedStay
  BY <1>1, <1>2 DEF SumsInv, SumsOK, CountedStay, Accepted
<1>4. QED
  BY <1>1, <1>3, RowsSums

LEMMA AssessDamageSums ==
  ASSUME SumsInv, NEW c \in Claim, NEW s \in StayId, NEW t \in Task, NEW amount \in Amount,
         AssessDamage(c, s, t, amount)
  PROVE  SumsInv'
<1> DEFINE x == [id |-> c, stay |-> s, amount |-> amount, status |-> "draft"]
<1>1. claims' = claims \cup {x} /\ UNCHANGED <<payments, settlements, rq>>
  BY DEF AssessDamage
<1>2. x \in DamageClaim
  BY PaymentsAssumption DEF AssessDamage, DamageClaim, DamageStatus
<1>3. IsFiniteSet(claims')
  BY <1>1, FS_AddElement DEF SumsInv, SumsOK
<1>4. SumsOK' /\ CountedStay
  BY <1>1, <1>2, <1>3 DEF SumsInv, SumsOK, CountedStay, Accepted
<1>5. QED
  BY <1>1, <1>4, RowsSums

LEMMA DecideSums ==
  ASSUME SumsInv, NEW x \in claims, NEW to \in DamageStatus, Decide(x, to)
  PROVE  SumsInv'
<1> DEFINE y == [x EXCEPT !.status = to]
<1>1. claims' = (claims \ {x}) \cup {y} /\ x.status = "draft"
      /\ UNCHANGED <<payments, settlements, rq>>
  BY DEF Decide
<1>2. y \in DamageClaim
  BY DEF SumsInv, SumsOK, DamageClaim
<1> HIDE DEF y
<1>3. IsFiniteSet(claims')
  BY <1>1, FS_AddElement, FS_RemoveElement DEF SumsInv, SumsOK
<1>4. SumsOK' /\ CountedStay
  BY <1>1, <1>2, <1>3 DEF SumsInv, SumsOK, CountedStay, Accepted
<1>5. QED
  BY <1>1, <1>4, RowsSums

LEMMA SettleBeginSums ==
  ASSUME Inv, SumsInv, NEW h \in Settler, NEW s \in StayId, SettleBegin(h, s)
  PROVE  SumsInv'
<1> DEFINE q == [Idle EXCEPT !.pc = "payments", !.stay = s, !.knewPaid = Succeeded(s),
                             !.knewDamage = {x.id : x \in Accepted(s)}]
<1>1. Succeeded(s) = PaidBy(s) /\ PaidBy(s) \in SUBSET Payment
  BY DEF Succeeded, PaidBy, Inv, TablesOK
<1>2. {x.id : x \in Accepted(s)} \in SUBSET Claim
  BY DEF Accepted, SumsInv, SumsOK, DamageClaim
<1> DEFINE ids == {x.id : x \in Accepted(s)}
<1>3. q \in Request /\ q.pc = "payments" /\ q.stay = s /\ q.knewPaid = Succeeded(s)
      /\ q.knewDamage = ids
  <2> HIDE DEF ids
  <2>1. q = [Idle EXCEPT !.pc = "payments", !.stay = s, !.knewPaid = Succeeded(s),
                         !.knewDamage = ids]
    BY DEF ids
  <2> HIDE DEF q
  <2>2. q = [pc |-> "payments", stay |-> s, paid |-> 0, damage |-> 0,
             knewPaid |-> Succeeded(s), knewDamage |-> ids]
    BY <2>1 DEF Idle
  <2>3. ids \in SUBSET Claim
    BY <1>2 DEF ids
  <2>4. QED
    BY <1>1, <2>2, <2>3 DEF Request
<1>4. Sets(h, q)
  BY DEF SettleBegin
<1> HIDE DEF q
<1>5. Gathered(q)
  BY <1>1, <1>3 DEF Gathered
<1>6. QED
  BY <1>3, <1>4, <1>5, RequestSums

LEMMA SumSucceededPaymentsSums ==
  ASSUME Inv, SumsInv, NEW h \in Settler, SumSucceededPayments(h)
  PROVE  SumsInv'
<1> DEFINE s == rq[h].stay
           q == [rq[h] EXCEPT !.pc = "damage", !.paid = Net(Succeeded(s))]
<1>1. rq[h] \in Request /\ rq[h].pc = "payments" /\ Gathered(rq[h]) /\ Sets(h, q)
  BY DEF SumSucceededPayments, SumsInv, SumsOK
<1>2. Succeeded(s) = PaidBy(s) /\ PaidBy(s) \in SUBSET Payment /\ IsFiniteSet(Succeeded(s))
  BY FS_Subset DEF Succeeded, PaidBy, Inv, TablesOK, SumsInv, SumsOK
<1>3. Net(Succeeded(s)) \in Int
  BY <1>2, NetIsInt
<1>4. q \in Request /\ q.pc = "damage" /\ q.stay = s /\ q.paid = Net(PaidBy(s))
      /\ q.knewPaid = rq[h].knewPaid /\ q.knewDamage = rq[h].knewDamage
  BY <1>1, <1>2, <1>3 DEF Request
<1> HIDE DEF q
<1>5. Gathered(q)
  BY <1>1, <1>4 DEF Gathered, PaidFrom
<1>6. QED
  BY <1>1, <1>4, <1>5, RequestSums

LEMMA SumAcceptedDamageSums ==
  ASSUME Inv, SumsInv, NEW h \in Settler, SumAcceptedDamage(h)
  PROVE  SumsInv'
<1> DEFINE s == rq[h].stay
           q == [rq[h] EXCEPT !.pc = "commit", !.damage = Damage(Accepted(s))]
<1>1. rq[h] \in Request /\ rq[h].pc = "damage" /\ Gathered(rq[h]) /\ Sets(h, q)
  BY DEF SumAcceptedDamage, SumsInv, SumsOK
<1>2. Accepted(s) \in SUBSET DamageClaim /\ IsFiniteSet(Accepted(s))
  BY FS_Subset DEF Accepted, SumsInv, SumsOK
<1>3. Damage(Accepted(s)) \in Int
  BY <1>2, DamageIsInt
<1>4. q \in Request /\ q.pc = "commit" /\ q.stay = s /\ q.damage = Damage(Accepted(s))
      /\ q.paid = rq[h].paid /\ q.knewPaid = rq[h].knewPaid /\ q.knewDamage = rq[h].knewDamage
  BY <1>1, <1>3 DEF Request
<1> HIDE DEF q
<1>5. Gathered(q)
  BY <1>1, <1>4 DEF Gathered, PaidFrom, DamageFrom
<1>6. QED
  BY <1>1, <1>4, <1>5, RequestSums

LEMMA SettleEndSums ==
  ASSUME SumsInv, NEW h \in Settler, SettleEnd(h)
  PROVE  SumsInv'
<1>1. Idle \in Request /\ Gathered(Idle)
  BY DEF Idle, Request, Gathered
<1>2. QED
  BY <1>1, RequestSums DEF SettleEnd

LEMMA CreateSettlementSums ==
  ASSUME SumsInv, NEW h \in Settler, CreateSettlement(h)
  PROVE  SumsInv'
<1> DEFINE x == NewSettlement(rq[h])
<1>1. rq[h] \in Request /\ Gathered(rq[h]) /\ rq[h].pc = "commit"
      /\ rq[h].paid >= 0 /\ rq[h].damage >= 0
  BY DEF CreateSettlement, SumsInv, SumsOK
<1>2. settlements' = settlements \cup {x} /\ rq' = [rq EXCEPT ![h] = Idle]
      /\ UNCHANGED <<payments, claims>>
  BY DEF CreateSettlement
<1>3. /\ x.stay = rq[h].stay /\ x.paid = rq[h].paid /\ x.damage = rq[h].damage
      /\ x.knewPaid = rq[h].knewPaid /\ x.knewDamage = rq[h].knewDamage
      /\ x \in Settlement /\ x.refund <= x.paid
  BY <1>1 DEF NewSettlement, Settlement, Request, Gathered
<1>4. PaidFrom(x) /\ DamageFrom(x)
  BY <1>1, <1>3 DEF Gathered, PaidFrom, DamageFrom
<1> HIDE DEF x
<1>5. Idle \in Request /\ Idle.pc = "idle"
  BY DEF Idle, Request
<1>6. SumsOK'
  BY <1>2, <1>3, <1>5 DEF SumsInv, SumsOK
<1>7. CountedStay
  BY <1>2 DEF CountedStay, Accepted
<1>8. \A g \in Settler : Gathered(rq[g])'
  <2>1. TAKE g \in Settler
  <2>2. rq'[g] \in Request /\ Gathered(rq'[g])
    BY <1>2, <1>5 DEF SumsInv, SumsOK, Gathered
  <2>3. QED
    BY <1>2, <2>2 DEF Gathered, PaidFrom, DamageFrom, PaidBy, Accepted
<1>9. SettlementCoversRequest'
  BY <1>2, <1>4 DEF SumsInv, SettlementCoversRequest, PaidFrom, DamageFrom, PaidBy, Accepted
<1>10. QED
  BY <1>2, <1>3, <1>6, <1>8, <1>9 DEF SumsInv

LEMMA NextSums == Inv /\ SumsInv /\ [Next]_vars => SumsInv'
<1> SUFFICES ASSUME Inv, SumsInv, [Next]_vars PROVE SumsInv'
  OBVIOUS
<1>1. ASSUME NEW s \in StayId, TransitionStay(s) PROVE SumsInv'
  BY <1>1, ElsewhereSums DEF TransitionStay
<1>2. CASE UNCHANGED vars
  BY <1>2, ElsewhereSums DEF vars
<1>3. QED
  BY <1>1, <1>2, GuaranteeStaySums, ReceivePaymentSums, AssessDamageSums, DecideSums,
     SettleBeginSums, SumSucceededPaymentsSums, SumAcceptedDamageSums, CreateSettlementSums,
     SettleEndSums DEF Next

-----------------------------------------------------------------------------
\* What requests have gathered and what settlements say is backed by rows.
THEOREM SumsInvariance == Spec => [](Inv /\ SumsInv)
<1>1. Init => Inv /\ SumsInv
  BY InitInv, InitSums
<1>2. Inv /\ SumsInv /\ [Next]_vars => Inv' /\ SumsInv'
  BY NextInv, NextSums
<1>3. QED
  BY <1>1, <1>2, PTL DEF Spec

\* settlement.Service.Start: the two sums, each read in a statement of its own while callbacks
\* and claims come in, count every row known when the request began and none that is not on
\* the books.
THEOREM SettlementsCoverRequests == Spec => []SettlementCoversRequest
<1>1. SumsInv => SettlementCoversRequest
  BY DEF SumsInv
<1>2. QED
  BY <1>1, SumsInvariance, PTL

\* NewSettlement: no refund is more than the guest has paid in, whatever refunds, charges and
\* damage come in between the statements.
THEOREM RefundsWithinPayments == Spec => []RefundWithinPayments
<1>1. Inv /\ SumsInv => RefundWithinPayments
  <2>1. SUFFICES ASSUME Inv, SumsInv, NEW x \in settlements
                 PROVE  /\ 0 <= x.refund
                        /\ x.refund <= Net({p \in PaidBy(x.stay) : p.kind # "refund"})
    BY DEF RefundWithinPayments
  <2>2. x \in Settlement /\ x.refund <= x.paid /\ PaidFrom(x)
    BY <2>1 DEF SumsInv, SumsOK, SettlementCoversRequest, PaidFrom
  <2>3. PICK P \in SUBSET PaidBy(x.stay) : x.paid = Net(P)
    BY <2>2 DEF PaidFrom
  <2>4. PaidBy(x.stay) \in SUBSET Payment /\ IsFiniteSet(PaidBy(x.stay))
    BY <2>1, FS_Subset DEF PaidBy, Inv, TablesOK, SumsInv, SumsOK
  <2> DEFINE R == {p \in PaidBy(x.stay) : p.kind # "refund"}
  <2>5. Net(P) <= Net(R)
    BY <2>3, <2>4, NetWithoutRefunds
  <2>6. R \in SUBSET Payment /\ IsFiniteSet(R)
    BY <2>4, FS_Subset
  <2>7. Net(R) \in Int
    BY <2>6, NetIsInt
  <2> HIDE DEF R
  <2>8. x.refund \in Nat /\ x.paid \in Nat
    BY <2>2 DEF Settlement
  <2>9. 0 <= x.refund /\ x.refund <= Net(R)
    BY <2>2, <2>3, <2>5, <2>7, <2>8
  <2>10. QED
    BY <2>9 DEF R
<1>2. QED
  BY <1>1, SumsInvariance, PTL
=============================================================================
