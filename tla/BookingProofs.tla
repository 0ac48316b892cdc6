--------------------------- MODULE BookingProofs ---------------------------
(***************************************************************************)
(* Proofs about Booking for every number of stays, resources, nights,      *)
(* requests, keys and payment events.                                      *)
(***************************************************************************)
EXTENDS BookingProperties, TLAPS

-----------------------------------------------------------------------------
(* Types                                                                   *)

\* A handler that replies, or goes on to its next statement, stays a request.
LEMMA ReplyType ==
    ASSUME rq \in [Handler -> Request], NEW h \in Handler, NEW request \in Request,
           NEW result \in {"ok", "conflict", "locked", "refused"}, Reply(h, request, result)
    PROVE  rq' \in [Handler -> Request]
<1> DEFINE replied == [request EXCEPT !.pc = "done", !.nights = {}, !.hosts = FALSE,
                             !.expires = NoExpiry, !.paid = {}, !.result = result]
<1>1. NoExpiry \in Int
  BY DEF NoExpiry
<1>2. replied \in Request
  <2>1. request \in RequestRow
    BY DEF Request
  <2>2. /\ replied.op = request.op /\ replied.stay = request.stay
        /\ replied.guest = request.guest /\ replied.resource = request.resource
        /\ replied.key = request.key
    BY <2>1 DEF RequestRow
  <2>3. replied \in RequestRow
    BY <1>1, <2>1 DEF RequestRow, Result
  <2> HIDE DEF replied
  <2>4. QED
    BY <2>2, <2>3 DEF Request
<1>3. rq' = [rq EXCEPT ![h] = replied]
  BY DEF Reply
<1> HIDE DEF replied
<1>4. QED
  BY <1>2, <1>3

LEMMA IdleType == Idle \in Request
BY DEF Idle, Request, RequestRow, Result, NoExpiry

LEMMA DateRangeType == \A ns \in DateRange : ns \subseteq Night
<1>1. ASSUME NEW lo \in Night, NEW hi \in Night, NEW n \in lo..hi
      PROVE  n \in Night
  BY BookingAssumption DEF Night
<1>2. ASSUME NEW ns \in DateRange
      PROVE  ns \subseteq Night
  <2>1. PICK lo \in Night, hi \in Night : ns = lo..hi
    BY DEF DateRange
  <2>2. QED
    BY <1>1, <2>1
<1>3. QED
  BY <1>2

LEMMA InitType == Init => TypeOK
BY BookingAssumption, IdleType
   DEF Init, TypeOK, NoStay, StayRow, Status, NoExpiry, NightStatus, PropertyStatus,
       ResourceStatus, Night

\* The four ways in which the tables of a stay change.
LEMMA MovedType ==
    ASSUME NEW stay \in StayRow, NEW to \in Status, NEW expires \in Int
    PROVE  Moved(stay, to, expires) \in StayRow
<1>1. stay.version + 1 \in Nat
  BY DEF StayRow
<1>2. QED
  BY <1>1 DEF Moved, StayRow

LEMMA SetStatusType ==
    ASSUME stays \in [StayId -> StayRow], NEW s \in StayId, NEW to \in Status,
           NEW expires \in Int, SetStatus(s, to, expires)
    PROVE  stays' \in [StayId -> StayRow]
BY MovedType DEF SetStatus

LEMMA SetNightsType ==
    ASSUME nights \in [StayId -> [Night -> NightStatus]], NEW S, NEW from,
           NEW to \in NightStatus, SetNights(S, from, to)
    PROVE  nights' \in [StayId -> [Night -> NightStatus]]
BY DEF SetNights

LEMMA AuditType ==
    ASSUME audits \in [StayId -> Nat], NEW s \in StayId, Audit(s)
    PROVE  audits' \in [StayId -> Nat]
BY DEF Audit

\* Steps that change the request of one handler and no table.
LEMMA RequestType ==
    ASSUME TypeOK, NEW h \in Handler, NEW request \in Request,
           rq' = [rq EXCEPT ![h] = request], UNCHANGED <<tables, catalog, now>>
    PROVE  TypeOK'
BY DEF TypeOK, tables, catalog

LEMMA RefuseType ==
    ASSUME TypeOK, NEW h \in Handler, NEW request \in Request,
           NEW result \in {"ok", "conflict", "locked", "refused"}, Refuse(h, request, result)
    PROVE  TypeOK'
BY ReplyType DEF TypeOK, Refuse, tables, catalog

-----------------------------------------------------------------------------
(* Every step keeps the types: one lemma per operation of the services     *)

LEMMA HoldType ==
    ASSUME TypeOK, NEW h \in Handler
    PROVE  /\ \A g \in Guest, r \in Resource, k \in Key, ns \in DateRange :
                 HoldCheckKey(h, g, r, k, ns) => TypeOK'
           /\ HoldGetResource(h) => TypeOK'
           /\ HoldGetProperty(h) => TypeOK'
           /\ HoldCreate(h) => TypeOK'
<1>0. rq[h] \in Request
  BY DEF TypeOK
<1>1. ASSUME NEW g \in Guest, NEW r \in Resource, NEW k \in Key, NEW ns \in DateRange,
             HoldCheckKey(h, g, r, k, ns)
      PROVE  TypeOK'
  <2> DEFINE request == [Idle EXCEPT !.op = "hold", !.guest = g, !.resource = r, !.key = k]
  <2>1. request \in Request
    BY IdleType DEF Request, RequestRow, Operations
  <2>2. CASE \E s \in StayId : Reply(h, [request EXCEPT !.stay = s], "ok")
    <3>1. PICK s \in StayId : Reply(h, [request EXCEPT !.stay = s], "ok")
      BY <2>2
    <3>2. [request EXCEPT !.stay = s] \in Request
      BY <2>1 DEF Request, RequestRow
    <3>3. QED
      BY <1>1, <3>1, <3>2, RefuseType DEF HoldCheckKey, Refuse
  <2>3. CASE rq' = [rq EXCEPT ![h] = [request EXCEPT !.pc = "resource", !.nights = ns]]
    <3>1. ns \in SUBSET Night
      BY DateRangeType
    <3>2. [request EXCEPT !.pc = "resource", !.nights = ns] \in Request
      BY <2>1, <3>1 DEF Request, RequestRow
    <3>3. QED
      BY <1>1, <2>3, <3>2, RequestType DEF HoldCheckKey
  <2>4. QED
    BY <1>1, <2>2, <2>3 DEF HoldCheckKey
<1>2. ASSUME HoldGetResource(h)
      PROVE  TypeOK'
  <2> DEFINE hosts == resources[rq[h].resource] \notin {"faulted", "closed"}
  <2>1. hosts \in BOOLEAN
    OBVIOUS
  <2>2. rq' = [rq EXCEPT ![h] = [rq[h] EXCEPT !.pc = "property", !.hosts = hosts]]
    BY <1>2 DEF HoldGetResource
  <2> HIDE DEF hosts
  <2>3. [rq[h] EXCEPT !.pc = "property", !.hosts = hosts] \in Request
    BY <1>0, <2>1 DEF Request, RequestRow
  <2>4. QED
    BY <1>2, <2>2, <2>3, RequestType DEF HoldGetResource
<1>3. ASSUME HoldGetProperty(h)
      PROVE  TypeOK'
  <2>1. CASE rq' = [rq EXCEPT ![h] = [@ EXCEPT !.pc = "commit", !.expires = now + HoldTTL]]
    <3>1. now + HoldTTL \in Int
      BY BookingAssumption DEF TypeOK
    <3>2. [rq[h] EXCEPT !.pc = "commit", !.expires = now + HoldTTL] \in Request
      BY <1>0, <3>1 DEF Request, RequestRow
    <3>3. QED
      BY <1>3, <2>1, <3>2, RequestType, RefuseType, <1>0 DEF HoldGetProperty
  <2>2. CASE Refuse(h, rq[h], "refused")
    BY <1>0, <2>2, RefuseType
  <2>3. QED
    BY <1>3, <2>1, <2>2 DEF HoldGetProperty
<1>4. ASSUME HoldCreate(h)
      PROVE  TypeOK'
  <2>1. ASSUME NEW s \in StayId, CreateHeldStay(h, s)
        PROVE  TypeOK'
    <3> DEFINE row == [status |-> "held", guest |-> rq[h].guest,
                       resource |-> rq[h].resource, key |-> rq[h].key,
                       expires |-> rq[h].expires, version |-> 1]
    <3>1. row \in StayRow
      BY <1>0 DEF Request, RequestRow, StayRow, Status
    <3>2. stays' = [stays EXCEPT ![s] = row]
      BY <2>1 DEF CreateHeldStay
    <3> HIDE DEF row
    <3>3. stays' \in [StayId -> StayRow]
      BY <3>1, <3>2 DEF TypeOK
    <3>4. nights' \in [StayId -> [Night -> NightStatus]]
      BY <2>1 DEF CreateHeldStay, TypeOK, NightStatus
    <3>5. [rq[h] EXCEPT !.stay = s] \in Request
      BY <1>0 DEF Request, RequestRow
    <3>6. rq' \in [Handler -> Request]
      BY <2>1, <3>5, ReplyType DEF CreateHeldStay, TypeOK
    <3>7. QED
      BY <2>1, <3>3, <3>4, <3>6, AuditType DEF CreateHeldStay, TypeOK, catalog
  <2>2. ASSUME HoldConflict(h)
        PROVE  TypeOK'
    BY <1>0, <2>2, RefuseType DEF HoldConflict, Refuse
  <2>3. QED
    BY <1>4, <2>1, <2>2 DEF HoldCreate
<1>5. QED
  BY <1>1, <1>2, <1>3, <1>4

LEMMA GuaranteeType ==
    ASSUME TypeOK, NEW h \in Handler
    PROVE  /\ \A s \in StayId, g \in Guest : GuaranteeRead(h, s, g) => TypeOK'
           /\ \A e \in Event : GuaranteeCommit(h, e) => TypeOK'
<1>0. rq[h] \in Request
  BY DEF TypeOK
<1>1. ASSUME NEW s \in StayId, NEW g \in Guest, GuaranteeRead(h, s, g)
      PROVE  TypeOK'
  <2> DEFINE request == [Idle EXCEPT !.op = "guarantee", !.stay = s, !.guest = g]
             version == TransitionVersion(stays[s], "guaranteed")
  <2>1. request \in Request
    BY IdleType DEF Request, RequestRow, Operations
  <2>2. version \in Nat
    BY DEF TypeOK, StayRow, TransitionVersion
  <2> HIDE DEF version
  <2>3. [request EXCEPT !.pc = "commit", !.version = version] \in Request
    BY <2>1, <2>2 DEF Request, RequestRow
  <2>4. CASE Refuse(h, request, "refused")
    BY <2>1, <2>4, RefuseType
  <2>5. CASE rq' = [rq EXCEPT ![h] = [request EXCEPT !.pc = "commit", !.version = version]]
             /\ UNCHANGED <<tables, catalog, now>>
    BY <2>3, <2>5, RequestType
  <2>6. QED
    BY <1>1, <2>4, <2>5 DEF GuaranteeRead, version
<1>2. ASSUME NEW e \in Event, GuaranteeCommit(h, e)
      PROVE  TypeOK'
  <2> DEFINE s == rq[h].stay
  <2>1. CASE GuaranteeStay(h, s, e)
    <3>1. s \in StayId /\ rq[h].guest \in Guest
      BY <1>0, <1>2 DEF GuaranteeCommit, At, Request
    <3>2. stays' \in [StayId -> StayRow]
      <4>1. "guaranteed" \in Status /\ NoExpiry \in Int
        BY DEF Status, NoExpiry
      <4>2. QED
        BY <2>1, <3>1, <4>1, SetStatusType DEF GuaranteeStay, TypeOK
    <3>3. nights' \in [StayId -> [Night -> NightStatus]]
      <4>1. "reserved" \in NightStatus
        BY DEF NightStatus
      <4>2. QED
        BY <2>1, <4>1, SetNightsType DEF GuaranteeStay, TypeOK
    <3>4. identities' \subseteq StayId \X Guest
      BY <2>1, <3>1 DEF GuaranteeStay, IdentityRow, TypeOK
    <3>5. payments' \subseteq PaymentRow
      BY <2>1, <3>1 DEF GuaranteeStay, PaymentRow, PaymentKind, PaymentStatus, TypeOK
    <3>6. audits' \in [StayId -> Nat] /\ rq' \in [Handler -> Request]
      BY <1>0, <2>1, <3>1, AuditType, ReplyType DEF GuaranteeStay, TypeOK
    <3>7. QED
      BY <2>1, <3>2, <3>3, <3>4, <3>5, <3>6 DEF GuaranteeStay, TypeOK, catalog
  <2>2. CASE GuaranteeConflict(h, s, e)
    BY <1>0, <2>2, RefuseType DEF GuaranteeConflict
  <2>3. QED
    BY <1>2, <2>1, <2>2 DEF GuaranteeCommit
<1>3. QED
  BY <1>1, <1>2

LEMMA TransitionType ==
    ASSUME TypeOK, NEW h \in Handler
    PROVE  /\ \A s \in StayId, op \in {"check_in", "cancel", "checkout"} :
                 TransitionRead(h, op, s) => TypeOK'
           /\ \A op \in {"check_in", "cancel"} : TransitionCommit(h, op) => TypeOK'
           /\ CheckoutCommit(h) => TypeOK'
<1>0. rq[h] \in Request /\ NoExpiry \in Int
  BY DEF TypeOK, NoExpiry
<1>1. ASSUME NEW s \in StayId, NEW op \in {"check_in", "cancel", "checkout"},
             TransitionRead(h, op, s)
      PROVE  TypeOK'
  <2> DEFINE request == [Idle EXCEPT !.op = op, !.stay = s]
             version == TransitionVersion(stays[s], Target(op))
  <2>1. request \in Request
    BY IdleType DEF Request, RequestRow, Operations
  <2>2. version \in Nat
    BY DEF TypeOK, StayRow, TransitionVersion
  <2> HIDE DEF version
  <2>3. [request EXCEPT !.pc = "commit", !.version = version] \in Request
    BY <2>1, <2>2 DEF Request, RequestRow
  <2>4. CASE Refuse(h, request, "refused")
    BY <2>1, <2>4, RefuseType
  <2>5. CASE rq' = [rq EXCEPT ![h] = [request EXCEPT !.pc = "commit", !.version = version]]
             /\ UNCHANGED <<tables, catalog, now>>
    BY <2>3, <2>5, RequestType
  <2>6. QED
    BY <1>1, <2>4, <2>5 DEF TransitionRead, version
<1>2. ASSUME NEW op \in {"check_in", "cancel"}, TransitionCommit(h, op)
      PROVE  TypeOK'
  <2> DEFINE s == rq[h].stay
  <2>1. CASE TransitionStay(h, op, s)
    <3>1. s \in StayId
      BY <1>0, <1>2 DEF TransitionCommit, At, Request
    <3>2. stays' \in [StayId -> StayRow]
      <4> DEFINE expires == IF op = "cancel" THEN NoExpiry ELSE stays[s].expires
      <4>1. expires \in Int
        BY <1>0, <3>1 DEF TypeOK, StayRow
      <4>2. Target(op) \in Status
        BY DEF Target, Status
      <4>3. SetStatus(s, Target(op), expires)
        BY <2>1 DEF TransitionStay
      <4> HIDE DEF expires
      <4>4. QED
        BY <3>1, <4>1, <4>2, <4>3, SetStatusType DEF TypeOK
    <3>3. nights' \in [StayId -> [Night -> NightStatus]]
      <4> DEFINE to == IF op = "cancel" THEN "released" ELSE "occupied"
      <4>1. to \in NightStatus
        BY DEF NightStatus
      <4>2. SetNights({s}, AnyNight, to)
        BY <2>1 DEF TransitionStay
      <4> HIDE DEF to
      <4>3. QED
        BY <4>1, <4>2, SetNightsType DEF TypeOK
    <3>4. audits' \in [StayId -> Nat] /\ rq' \in [Handler -> Request]
      BY <1>0, <2>1, <3>1, AuditType, ReplyType DEF TransitionStay, TypeOK
    <3>5. QED
      BY <2>1, <3>2, <3>3, <3>4 DEF TransitionStay, TypeOK, catalog
  <2>2. CASE Refuse(h, rq[h], "conflict")
    BY <1>0, <2>2, RefuseType
  <2>3. QED
    BY <1>2, <2>1, <2>2 DEF TransitionCommit
<1>3. ASSUME CheckoutCommit(h)
      PROVE  TypeOK'
  <2> DEFINE s == rq[h].stay
  <2>1. CASE CheckoutStay(h, s)
    <3>1. s \in StayId
      BY <1>0, <1>3 DEF CheckoutCommit, At, Request
    <3>2. stays' \in [StayId -> StayRow]
      <4>1. "checked_out" \in Status /\ stays[s].expires \in Int
        BY <3>1 DEF Status, TypeOK, StayRow
      <4>2. QED
        BY <2>1, <3>1, <4>1, SetStatusType DEF CheckoutStay, TypeOK
    <3>3. nights' \in [StayId -> [Night -> NightStatus]]
      <4>1. "released" \in NightStatus
        BY DEF NightStatus
      <4>2. QED
        BY <2>1, <4>1, SetNightsType DEF CheckoutStay, TypeOK
    <3>4. resources' \in [Resource -> ResourceStatus]
      BY <2>1 DEF CheckoutStay, TypeOK, ResourceStatus
    <3>5. cleanings' \in [StayId -> Nat]
      BY <2>1, <3>1 DEF CheckoutStay, TypeOK
    <3>6. audits' \in [StayId -> Nat] /\ rq' \in [Handler -> Request]
      BY <1>0, <2>1, <3>1, AuditType, ReplyType DEF CheckoutStay, TypeOK
    <3>7. QED
      BY <2>1, <3>2, <3>3, <3>4, <3>5, <3>6 DEF CheckoutStay, TypeOK
  <2>2. CASE Refuse(h, rq[h], "conflict")
    BY <1>0, <2>2, RefuseType
  <2>3. QED
    BY <1>3, <2>1, <2>2 DEF CheckoutCommit
<1>4. QED
  BY <1>1, <1>2, <1>3

LEMMA SettleType ==
    ASSUME TypeOK, NEW h \in Handler
    PROVE  /\ \A s \in StayId : SettleRead(h, s) => TypeOK'
           /\ SettleSum(h) => TypeOK'
           /\ SettleCommit(h) => TypeOK'
<1>0. rq[h] \in Request
  BY DEF TypeOK
<1>1. ASSUME NEW s \in StayId, SettleRead(h, s)
      PROVE  TypeOK'
  <2> DEFINE request == [Idle EXCEPT !.op = "settle", !.stay = s]
  <2>1. request \in Request
    BY IdleType DEF Request, RequestRow, Operations
  <2>2. [request EXCEPT !.pc = "sum"] \in Request
    BY <2>1 DEF Request, RequestRow
  <2>3. QED
    BY <1>1, <2>1, <2>2, RequestType, RefuseType DEF SettleRead
<1>2. ASSUME SettleSum(h)
      PROVE  TypeOK'
  <2> DEFINE paid == Succeeded(rq[h].stay)
  <2>1. paid \in SUBSET Event
    BY DEF Succeeded, TypeOK, PaymentRow
  <2>2. rq' = [rq EXCEPT ![h] = [rq[h] EXCEPT !.pc = "commit", !.paid = paid]]
    BY <1>2 DEF SettleSum
  <2> HIDE DEF paid
  <2>3. [rq[h] EXCEPT !.pc = "commit", !.paid = paid] \in Request
    BY <1>0, <2>1 DEF Request, RequestRow
  <2>4. QED
    BY <1>2, <2>2, <2>3, RequestType DEF SettleSum
<1>3. ASSUME SettleCommit(h)
      PROVE  TypeOK'
  <2> DEFINE s == rq[h].stay
  <2>1. CASE CreateSettlement(h, s)
    <3>1. s \in StayId /\ rq[h].paid \in SUBSET Event
      BY <1>0, <1>3 DEF SettleCommit, At, Request, RequestRow
    <3>2. stays' \in [StayId -> StayRow]
      <4>1. "settling" \in Status /\ stays[s].expires \in Int
        BY <3>1 DEF Status, TypeOK, StayRow
      <4>2. QED
        BY <2>1, <3>1, <4>1, SetStatusType DEF CreateSettlement, TypeOK
    <3>3. settlements' \subseteq [stay: StayId, paid: SUBSET Event]
      BY <2>1, <3>1 DEF CreateSettlement, TypeOK
    <3>4. audits' \in [StayId -> Nat] /\ rq' \in [Handler -> Request]
      BY <1>0, <2>1, <3>1, AuditType, ReplyType DEF CreateSettlement, TypeOK
    <3>5. QED
      BY <2>1, <3>2, <3>3, <3>4 DEF CreateSettlement, TypeOK, catalog
  <2>2. CASE SettleConflict(h, s)
    BY <1>0, <2>2, RefuseType DEF SettleConflict
  <2>3. QED
    BY <1>3, <2>1, <2>2 DEF SettleCommit
<1>4. QED
  BY <1>1, <1>2, <1>3

LEMMA SweepType == TypeOK /\ ExpireDueHolds => TypeOK'
<1> SUFFICES ASSUME TypeOK, ExpireDueHolds PROVE TypeOK'
  OBVIOUS
<1>1. PICK D \in SUBSET {s \in StayId : Due(s)} :
         /\ stays' = [s \in StayId |->
               IF s \in D THEN Moved(stays[s], "expired", NoExpiry) ELSE stays[s]]
         /\ SetNights(D, {"held"}, "released")
  BY DEF ExpireDueHolds
<1>2. "expired" \in Status /\ NoExpiry \in Int /\ "released" \in NightStatus
  BY DEF Status, NoExpiry, NightStatus
<1>3. stays' \in [StayId -> StayRow]
  BY <1>1, <1>2, MovedType DEF TypeOK
<1>4. nights' \in [StayId -> [Night -> NightStatus]]
  BY <1>1, <1>2, SetNightsType DEF TypeOK
<1>5. QED
  BY <1>3, <1>4 DEF ExpireDueHolds, TypeOK, catalog

LEMMA NextType == TypeOK /\ [Next]_vars => TypeOK'
<1> SUFFICES ASSUME TypeOK, [Next]_vars PROVE TypeOK'
  OBVIOUS
<1>1. ASSUME NEW h \in Handler, HandlerStep(h)
      PROVE  TypeOK'
  <2>1. CASE EndRequest(h)
    BY <2>1, IdleType, RequestType DEF EndRequest
  <2>2. QED
    BY <1>1, <2>1, HoldType, GuaranteeType, TransitionType, SettleType DEF HandlerStep
<1>2. ASSUME NEW e \in Event, NEW s \in StayId, NEW c \in Callback, ReceivePayment(e, s, c)
      PROVE  TypeOK'
  <2>1. c.kind \in PaymentKind /\ c.status \in PaymentStatus
    BY BookingAssumption
  <2>2. payments' \subseteq PaymentRow
    BY <1>2, <2>1 DEF ReceivePayment, PaymentRow, TypeOK
  <2>3. QED
    BY <1>2, <2>2 DEF ReceivePayment, TypeOK, catalog
<1>3. CASE ExpireDueHolds
  BY <1>3, SweepType
<1>4. ASSUME NEW p \in Property, NEW to \in PropertyStatus, UpdatePropertyStatus(p, to)
      PROVE  TypeOK'
  BY <1>4 DEF UpdatePropertyStatus, TypeOK, tables
<1>5. ASSUME NEW r \in Resource, NEW to \in ResourceStatus, UpdateResourceStatus(r, to)
      PROVE  TypeOK'
  BY <1>5 DEF UpdateResourceStatus, TypeOK, tables
<1>6. CASE AdvanceClock
  BY <1>6 DEF AdvanceClock, TypeOK, tables, catalog
<1>7. CASE UNCHANGED vars
  BY <1>7 DEF vars, TypeOK
<1>8. QED
  BY <1>1, <1>2, <1>3, <1>4, <1>5, <1>6, <1>7 DEF Next

\* Types hold in every reachable state, whatever the number of stays, requests, resources,
\* nights and payment events.
THEOREM TypeCorrect == Spec => []TypeOK
<1>1. QED
  BY InitType, NextType, PTL DEF Spec

-----------------------------------------------------------------------------
(* What a handler that is about to write knows about its stay              *)

Writers == {"guarantee", "check_in", "cancel", "checkout"}
TargetOf(op) == IF op = "guarantee" THEN "guaranteed" ELSE Target(op)

\* The stay a handler has read exists and still has the guest that was compared with the
\* request's; if the version still matches, the stay can still make the handler's move.
Snapshot ==
    \A h \in Handler :
        rq[h].op \in Writers /\ rq[h].pc = "commit" =>
            /\ stays[rq[h].stay].status # "none"
            /\ rq[h].op = "guarantee" => stays[rq[h].stay].guest = rq[h].guest
            /\ rq[h].version <= stays[rq[h].stay].version + 1
            /\ rq[h].version = stays[rq[h].stay].version + 1
               => <<stays[rq[h].stay].status, TargetOf(rq[h].op)>> \in Edge

\* The version a handler has written is in the table or has been passed.
Landed ==
    \A h \in Handler :
        rq[h].op \in Writers /\ rq[h].result = "ok"
        => rq[h].version <= stays[rq[h].stay].version

\* A row of stay_nights is never removed, so a night has one row for ever.
OneRowPerNight ==
    \A s, t \in StayId : \A n \in Night :
        s # t /\ stays[s].resource = stays[t].resource /\ nights[s][n] # "none"
        => nights[t][n] = "none"

KeysUnique ==
    \A s, t \in StayId : s # t /\ stays[s].key = stays[t].key => stays[s].key = None
RepliesCarryKey ==
    \A h \in Handler :
        rq[h].op = "hold" /\ rq[h].result = "ok"
        => rq[h].stay \in StayId /\ stays[rq[h].stay].key = rq[h].key

-----------------------------------------------------------------------------
(* What the writing transactions have in common                            *)

LEMMA MovedFields ==
    ASSUME NEW stay \in StayRow, NEW to, NEW expires
    PROVE  LET row == Moved(stay, to, expires)
           IN  /\ row.status = to /\ row.version = stay.version + 1
               /\ row.resource = stay.resource /\ row.key = stay.key /\ row.guest = stay.guest
BY DEF Moved, StayRow

\* The rows of stays keep their identity and the rows of stay_nights stay where they are.
RowsKept ==
    \A s \in StayId :
        /\ stays'[s].resource = stays[s].resource
        /\ stays'[s].key = stays[s].key
        /\ \A n \in Night : nights'[s][n] = "none" <=> nights[s][n] = "none"

LEMMA SetNightsKeepsRows ==
    ASSUME TypeOK, NEW S, NEW from \in SUBSET AnyNight, NEW to \in AnyNight,
           SetNights(S, from, to)
    PROVE  \A s \in StayId, n \in Night : nights'[s][n] = "none" <=> nights[s][n] = "none"
BY DEF SetNights, AnyNight

LEMMA SetStatusKeepsRows ==
    ASSUME TypeOK, NEW s \in StayId, NEW to, NEW expires, SetStatus(s, to, expires)
    PROVE  \A t \in StayId : stays'[t].resource = stays[t].resource
                             /\ stays'[t].key = stays[t].key
<1>1. stays[s] \in StayRow
  BY DEF TypeOK
<1>2. QED
  BY <1>1, MovedFields DEF SetStatus, TypeOK

\* Every step inserts one stay with its nights or keeps the rows.
LEMMA RowsStep ==
    ASSUME TypeOK, [Next]_vars
    PROVE  \/ \E h \in Handler, s \in StayId : At(h, "hold", "commit") /\ CreateHeldStay(h, s)
           \/ RowsKept
<1>0. {"held"} \in SUBSET AnyNight /\ AnyNight \in SUBSET AnyNight
      /\ {"reserved", "occupied", "released"} \subseteq AnyNight
  BY DEF AnyNight, NightStatus
<1>1. ASSUME UNCHANGED <<stays, nights>>
      PROVE  RowsKept
  BY <1>1 DEF RowsKept
<1>2. ASSUME NEW h \in Handler, HandlerStep(h)
      PROVE  \/ \E s \in StayId : At(h, "hold", "commit") /\ CreateHeldStay(h, s)
             \/ RowsKept
  <2>0. rq[h] \in Request
    BY DEF TypeOK
  <2>1. ASSUME NEW g \in Guest, NEW r \in Resource, NEW k \in Key, NEW ns \in DateRange,
               HoldCheckKey(h, g, r, k, ns)
        PROVE  RowsKept
    BY <1>1, <2>1 DEF HoldCheckKey, tables
  <2>2. CASE HoldGetResource(h) \/ HoldGetProperty(h) \/ SettleSum(h) \/ EndRequest(h)
    BY <1>1, <2>2 DEF HoldGetResource, HoldGetProperty, SettleSum, EndRequest, Refuse, tables
  <2>3. CASE HoldCreate(h)
    BY <1>1, <2>3 DEF HoldCreate, HoldConflict, Refuse, tables
  <2>4. ASSUME NEW s \in StayId, NEW g \in Guest, GuaranteeRead(h, s, g)
        PROVE  RowsKept
    BY <1>1, <2>4 DEF GuaranteeRead, Refuse, tables
  <2>5. ASSUME NEW e \in Event, GuaranteeCommit(h, e)
        PROVE  RowsKept
    <3>1. rq[h].stay \in StayId
      BY <2>0, <2>5 DEF GuaranteeCommit, At, Request
    <3>2. CASE GuaranteeStay(h, rq[h].stay, e)
      BY <1>0, <3>1, <3>2, SetStatusKeepsRows, SetNightsKeepsRows DEF GuaranteeStay, RowsKept
    <3>3. CASE GuaranteeConflict(h, rq[h].stay, e)
      BY <1>1, <3>3 DEF GuaranteeConflict, Refuse, tables
    <3>4. QED
      BY <2>5, <3>2, <3>3 DEF GuaranteeCommit
  <2>6. ASSUME NEW s \in StayId, NEW op \in {"check_in", "cancel", "checkout"},
               TransitionRead(h, op, s)
        PROVE  RowsKept
    BY <1>1, <2>6 DEF TransitionRead, Refuse, tables
  <2>7. ASSUME NEW op \in {"check_in", "cancel"}, TransitionCommit(h, op)
        PROVE  RowsKept
    <3>1. rq[h].stay \in StayId
      BY <2>0, <2>7 DEF TransitionCommit, At, Request
    <3>2. CASE TransitionStay(h, op, rq[h].stay)
      <4>1. (IF op = "cancel" THEN "released" ELSE "occupied") \in AnyNight
        BY <1>0
      <4>2. QED
        BY <1>0, <3>1, <3>2, <4>1, SetStatusKeepsRows, SetNightsKeepsRows
           DEF TransitionStay, RowsKept
    <3>3. CASE Refuse(h, rq[h], "conflict")
      BY <1>1, <3>3 DEF Refuse, tables
    <3>4. QED
      BY <2>7, <3>2, <3>3 DEF TransitionCommit
  <2>8. CASE CheckoutCommit(h)
    <3>1. rq[h].stay \in StayId
      BY <2>0, <2>8 DEF CheckoutCommit, At, Request
    <3>2. CASE CheckoutStay(h, rq[h].stay)
      BY <1>0, <3>1, <3>2, SetStatusKeepsRows, SetNightsKeepsRows DEF CheckoutStay, RowsKept
    <3>3. CASE Refuse(h, rq[h], "conflict")
      BY <1>1, <3>3 DEF Refuse, tables
    <3>4. QED
      BY <2>8, <3>2, <3>3 DEF CheckoutCommit
  <2>9. ASSUME NEW s \in StayId, SettleRead(h, s)
        PROVE  RowsKept
    BY <1>1, <2>9 DEF SettleRead, Refuse, tables
  <2>10. CASE SettleCommit(h)
    <3>1. rq[h].stay \in StayId
      BY <2>0, <2>10 DEF SettleCommit, At, Request
    <3>2. CASE CreateSettlement(h, rq[h].stay)
      BY <3>1, <3>2, SetStatusKeepsRows DEF CreateSettlement, RowsKept
    <3>3. CASE SettleConflict(h, rq[h].stay)
      BY <1>1, <3>3 DEF SettleConflict, Refuse, tables
    <3>4. QED
      BY <2>10, <3>2, <3>3 DEF SettleCommit
  <2>11. QED
    BY <1>2, <2>1, <2>2, <2>3, <2>4, <2>5, <2>6, <2>7, <2>8, <2>9, <2>10 DEF HandlerStep
<1>3. CASE ExpireDueHolds
  <2>1. PICK D \in SUBSET {s \in StayId : Due(s)} :
           /\ stays' = [s \in StayId |->
                 IF s \in D THEN Moved(stays[s], "expired", NoExpiry) ELSE stays[s]]
           /\ SetNights(D, {"held"}, "released")
    BY <1>3 DEF ExpireDueHolds
  <2>2. \A s \in StayId : stays[s] \in StayRow
    BY DEF TypeOK
  <2>3. QED
    BY <1>0, <2>1, <2>2, MovedFields, SetNightsKeepsRows DEF RowsKept
<1>4. CASE UNCHANGED vars
  BY <1>1, <1>4 DEF vars
<1>5. ASSUME NEW e \in Event, NEW s \in StayId, NEW c \in Callback, ReceivePayment(e, s, c)
      PROVE  RowsKept
  BY <1>1, <1>5 DEF ReceivePayment
<1>6. ASSUME NEW p \in Property, NEW to \in PropertyStatus, UpdatePropertyStatus(p, to)
      PROVE  RowsKept
  BY <1>1, <1>6 DEF UpdatePropertyStatus, tables
<1>7. ASSUME NEW r \in Resource, NEW to \in ResourceStatus, UpdateResourceStatus(r, to)
      PROVE  RowsKept
  BY <1>1, <1>7 DEF UpdateResourceStatus, tables
<1>8. CASE AdvanceClock
  BY <1>1, <1>8 DEF AdvanceClock, tables
<1>9. QED
  BY <1>2, <1>3, <1>4, <1>5, <1>6, <1>7, <1>8 DEF Next

-----------------------------------------------------------------------------
(* No night is sold twice                                                  *)

\* The hold transaction checks every night it inserts against the rows of every stay.
LEMMA HoldKeepsOneRowPerNight ==
    ASSUME TypeOK, OneRowPerNight, NEW h \in Handler, NEW u \in StayId, CreateHeldStay(h, u)
    PROVE  OneRowPerNight'
<1>1. \A t \in StayId : t # u => stays'[t] = stays[t] /\ nights'[t] = nights[t]
  BY DEF CreateHeldStay, TypeOK
<1>2. /\ stays'[u].resource = rq[h].resource
      /\ \A n \in Night : nights'[u][n] # "none" => n \in rq[h].nights
  BY DEF CreateHeldStay, TypeOK
<1>3. \A n \in rq[h].nights, t \in StayId :
         stays[t].resource = rq[h].resource => nights[t][n] = "none"
  BY DEF CreateHeldStay, NightTaken
<1> SUFFICES ASSUME NEW s \in StayId, NEW t \in StayId, NEW n \in Night,
                    s # t, stays'[s].resource = stays'[t].resource, nights'[s][n] # "none"
             PROVE  nights'[t][n] = "none"
  BY DEF OneRowPerNight
<1>4. CASE s = u
  BY <1>1, <1>2, <1>3, <1>4
<1>5. CASE t = u
  BY <1>1, <1>2, <1>3, <1>5
<1>6. CASE s # u /\ t # u
  BY <1>1, <1>6 DEF OneRowPerNight
<1>7. QED
  BY <1>4, <1>5, <1>6

LEMMA StepKeepsOneRowPerNight == TypeOK /\ OneRowPerNight /\ [Next]_vars => OneRowPerNight'
<1> SUFFICES ASSUME TypeOK, OneRowPerNight, [Next]_vars PROVE OneRowPerNight'
  OBVIOUS
<1>1. CASE RowsKept
  BY <1>1 DEF RowsKept, OneRowPerNight
<1>2. QED
  BY <1>1, RowsStep, HoldKeepsOneRowPerNight

\* In every reachable state each night of a resource has rows of one stay at most.
THEOREM OneRowPerNightHolds == Spec => []OneRowPerNight
<1>1. Init => OneRowPerNight
  BY DEF Init, OneRowPerNight
<1>2. QED
  BY <1>1, StepKeepsOneRowPerNight, TypeCorrect, PTL DEF Spec

\* No night of a resource belongs to two stays, for any number of stays, resources, nights
\* and concurrent requests: what CreateHeldStay and the unique index are there for.
THEOREM NoDoubleBookingHolds == Spec => []NoDoubleBooking
<1>1. OneRowPerNight => NoDoubleBooking
  BY DEF OneRowPerNight, NoDoubleBooking, Holding
<1>2. QED
  BY <1>1, OneRowPerNightHolds, PTL

-----------------------------------------------------------------------------
(* The lifecycle of a stay                                                 *)

\* What LifecycleRespected allows a step to do to a stay it changes.
StayMove(s) ==
    /\ stays'[s].version = stays[s].version + 1
    /\ \/ stays[s].status = "none" /\ stays'[s].status = "held"
       \/ /\ <<stays[s].status, stays'[s].status>> \in Edge
          /\ stays'[s].guest = stays[s].guest /\ stays'[s].resource = stays[s].resource
          /\ stays'[s].key = stays[s].key

\* Absent stays have version 0; no edge leads to or from them.
AbsentIsZero == \A s \in StayId : stays[s].status = "none" => stays[s].version = 0

StaysMove == \A s \in StayId : stays'[s] = stays[s] \/ StayMove(s)

LEMMA SetStatusMoves ==
    ASSUME TypeOK, NEW u \in StayId, NEW to, NEW expires,
           <<stays[u].status, to>> \in Edge, SetStatus(u, to, expires)
    PROVE  StaysMove
<1>1. stays[u] \in StayRow
  BY DEF TypeOK
<1>2. stays' = [stays EXCEPT ![u] = Moved(stays[u], to, expires)]
  BY DEF SetStatus
<1>3. /\ stays'[u] = Moved(stays[u], to, expires)
      /\ \A s \in StayId : s # u => stays'[s] = stays[s]
  BY <1>2 DEF TypeOK
<1>4. StayMove(u)
  BY <1>1, <1>3, MovedFields DEF StayMove
<1>5. QED
  BY <1>3, <1>4 DEF StaysMove

LEMMA MovesStep ==
    ASSUME TypeOK, Snapshot, AbsentIsZero, [Next]_vars
    PROVE  StaysMove
<1>1. ASSUME UNCHANGED stays
      PROVE  StaysMove
  BY <1>1 DEF StaysMove
<1>2. ASSUME NEW h \in Handler, HandlerStep(h)
      PROVE  StaysMove
  <2>0. rq[h] \in Request
    BY DEF TypeOK
  <2>1. ASSUME NEW g \in Guest, NEW r \in Resource, NEW k \in Key, NEW ns \in DateRange,
               HoldCheckKey(h, g, r, k, ns)
        PROVE  StaysMove
    BY <1>1, <2>1 DEF HoldCheckKey, tables
  <2>2. CASE HoldGetResource(h) \/ HoldGetProperty(h) \/ SettleSum(h) \/ EndRequest(h)
    BY <1>1, <2>2 DEF HoldGetResource, HoldGetProperty, SettleSum, EndRequest, Refuse, tables
  <2>3. CASE HoldCreate(h)
    <3>1. ASSUME NEW u \in StayId, CreateHeldStay(h, u)
          PROVE  StaysMove
      BY <3>1 DEF CreateHeldStay, StayMove, AbsentIsZero, TypeOK, StaysMove
    <3>2. QED
      BY <1>1, <2>3, <3>1 DEF HoldCreate, HoldConflict, Refuse, tables
  <2>4. ASSUME NEW s \in StayId, NEW g \in Guest, GuaranteeRead(h, s, g)
        PROVE  StaysMove
    BY <1>1, <2>4 DEF GuaranteeRead, Refuse, tables
  <2>5. ASSUME NEW e \in Event, GuaranteeCommit(h, e)
        PROVE  StaysMove
    <3>1. rq[h].stay \in StayId
      BY <2>0, <2>5 DEF GuaranteeCommit, At, Request
    <3>2. CASE GuaranteeStay(h, rq[h].stay, e)
      <4>1. <<stays[rq[h].stay].status, "guaranteed">> \in Edge
        BY <3>2 DEF GuaranteeStay, RowMatches, Edge
      <4>2. QED
        BY <3>1, <3>2, <4>1, SetStatusMoves DEF GuaranteeStay
    <3>3. CASE GuaranteeConflict(h, rq[h].stay, e)
      BY <1>1, <3>3 DEF GuaranteeConflict, Refuse, tables
    <3>4. QED
      BY <2>5, <3>2, <3>3 DEF GuaranteeCommit
  <2>6. ASSUME NEW s \in StayId, NEW op \in {"check_in", "cancel", "checkout"},
               TransitionRead(h, op, s)
        PROVE  StaysMove
    BY <1>1, <2>6 DEF TransitionRead, Refuse, tables
  <2>7. ASSUME NEW op \in {"check_in", "cancel"}, TransitionCommit(h, op)
        PROVE  StaysMove
    <3>1. rq[h].stay \in StayId
      BY <2>0, <2>7 DEF TransitionCommit, At, Request
    <3>2. CASE TransitionStay(h, op, rq[h].stay)
      <4>1. rq[h].version = stays[rq[h].stay].version + 1
        BY <2>0, <3>1, <3>2 DEF TransitionStay, RowMatches, TypeOK, StayRow, Request, RequestRow
      <4>2. <<stays[rq[h].stay].status, Target(op)>> \in Edge
        BY <2>7, <4>1 DEF TransitionCommit, At, Snapshot, Writers, TargetOf
      <4>3. QED
        BY <3>1, <3>2, <4>2, SetStatusMoves DEF TransitionStay
    <3>3. CASE Refuse(h, rq[h], "conflict")
      BY <1>1, <3>3 DEF Refuse, tables
    <3>4. QED
      BY <2>7, <3>2, <3>3 DEF TransitionCommit
  <2>8. CASE CheckoutCommit(h)
    <3>1. rq[h].stay \in StayId
      BY <2>0, <2>8 DEF CheckoutCommit, At, Request
    <3>2. CASE CheckoutStay(h, rq[h].stay)
      <4>1. <<stays[rq[h].stay].status, "checked_out">> \in Edge
        BY <3>2 DEF CheckoutStay, RowMatches, Edge
      <4>2. QED
        BY <3>1, <3>2, <4>1, SetStatusMoves DEF CheckoutStay
    <3>3. CASE Refuse(h, rq[h], "conflict")
      BY <1>1, <3>3 DEF Refuse, tables
    <3>4. QED
      BY <2>8, <3>2, <3>3 DEF CheckoutCommit
  <2>9. ASSUME NEW s \in StayId, SettleRead(h, s)
        PROVE  StaysMove
    BY <1>1, <2>9 DEF SettleRead, Refuse, tables
  <2>10. CASE SettleCommit(h)
    <3>1. rq[h].stay \in StayId
      BY <2>0, <2>10 DEF SettleCommit, At, Request
    <3>2. CASE CreateSettlement(h, rq[h].stay)
      <4>1. <<stays[rq[h].stay].status, "settling">> \in Edge
        BY <3>2 DEF CreateSettlement, Edge
      <4>2. QED
        BY <3>1, <3>2, <4>1, SetStatusMoves DEF CreateSettlement
    <3>3. CASE SettleConflict(h, rq[h].stay)
      BY <1>1, <3>3 DEF SettleConflict, Refuse, tables
    <3>4. QED
      BY <2>10, <3>2, <3>3 DEF SettleCommit
  <2>11. QED
    BY <1>2, <2>1, <2>2, <2>3, <2>4, <2>5, <2>6, <2>7, <2>8, <2>9, <2>10 DEF HandlerStep
<1>3. CASE ExpireDueHolds
  <2>1. PICK D \in SUBSET {s \in StayId : Due(s)} :
           stays' = [s \in StayId |->
              IF s \in D THEN Moved(stays[s], "expired", NoExpiry) ELSE stays[s]]
    BY <1>3 DEF ExpireDueHolds
  <2>2. \A s \in StayId : stays[s] \in StayRow
    BY DEF TypeOK
  <2>3. \A s \in D : <<stays[s].status, "expired">> \in Edge
    BY DEF Due, Edge
  <2>4. QED
    BY <2>1, <2>2, <2>3, MovedFields DEF StayMove, StaysMove
<1>4. CASE UNCHANGED vars
  BY <1>1, <1>4 DEF vars
<1>5. ASSUME NEW e \in Event, NEW s \in StayId, NEW c \in Callback, ReceivePayment(e, s, c)
      PROVE  StaysMove
  BY <1>1, <1>5 DEF ReceivePayment
<1>6. ASSUME NEW p \in Property, NEW to \in PropertyStatus, UpdatePropertyStatus(p, to)
      PROVE  StaysMove
  BY <1>1, <1>6 DEF UpdatePropertyStatus, tables
<1>7. ASSUME NEW r \in Resource, NEW to \in ResourceStatus, UpdateResourceStatus(r, to)
      PROVE  StaysMove
  BY <1>1, <1>7 DEF UpdateResourceStatus, tables
<1>8. CASE AdvanceClock
  BY <1>1, <1>8 DEF AdvanceClock, tables
<1>9. QED
  BY <1>2, <1>3, <1>4, <1>5, <1>6, <1>7, <1>8 DEF Next

-----------------------------------------------------------------------------
(* What a step does to a request that writes a stay                        *)

\* The handler has just read its stay and prepared the move.
Prepares(h) ==
    /\ UNCHANGED stays
    /\ rq'[h].stay \in StayId /\ rq'[h].result = "none"
    /\ stays[rq'[h].stay].status # "none"
    /\ rq'[h].op = "guarantee" => stays[rq'[h].stay].guest = rq'[h].guest
    /\ CanTransition(stays[rq'[h].stay], TargetOf(rq'[h].op))
    /\ rq'[h].version = TransitionVersion(stays[rq'[h].stay], TargetOf(rq'[h].op))

\* The handler has just written its stay.
Writes(h) ==
    /\ rq[h].op \in Writers /\ rq[h].pc = "commit" /\ rq[h].stay \in StayId
    /\ rq'[h].op = rq[h].op /\ rq'[h].pc = "done"
    /\ rq'[h].stay = rq[h].stay /\ rq'[h].version = rq[h].version
    /\ rq[h].version = stays[rq[h].stay].version + 1
    /\ stays'[rq[h].stay].version = rq[h].version

RequestMove(h) ==
    \/ rq'[h] = rq[h]
    \/ Prepares(h)
    \/ Writes(h)
    \/ rq'[h].op \notin Writers
    \/ rq'[h].pc = "done" /\ rq'[h].result # "ok"

LEMMA ReplyFields ==
    ASSUME TypeOK, NEW h \in Handler, NEW request \in Request, NEW result,
           Reply(h, request, result)
    PROVE  /\ \A g \in Handler : g # h => rq'[g] = rq[g]
           /\ rq'[h].pc = "done" /\ rq'[h].result = result
           /\ rq'[h].op = request.op /\ rq'[h].stay = request.stay
           /\ rq'[h].version = request.version /\ rq'[h].key = request.key
BY DEF Reply, TypeOK, Request, RequestRow

LEMMA SetStatusVersion ==
    ASSUME TypeOK, NEW u \in StayId, NEW to, NEW expires, SetStatus(u, to, expires)
    PROVE  stays'[u].version = stays[u].version + 1
<1>1. stays[u] \in StayRow /\ stays'[u] = Moved(stays[u], to, expires)
  BY DEF TypeOK, SetStatus
<1>2. QED
  BY <1>1, MovedFields

\* A writing transaction that succeeds: the WHERE clause matched the version that was read.
LEMMA CommitWrites ==
    ASSUME TypeOK, NEW h \in Handler, rq[h].op \in Writers, rq[h].pc = "commit",
           NEW from, RowMatches(rq[h].stay, rq[h].version, from),
           NEW to, NEW expires, SetStatus(rq[h].stay, to, expires), Reply(h, rq[h], "ok")
    PROVE  \A g \in Handler : RequestMove(g)
<1>1. rq[h] \in Request
  BY DEF TypeOK
<1>2. rq[h].stay \in StayId /\ rq[h].version \in Nat
  BY <1>1 DEF Request, RequestRow, Writers
<1>3. rq[h].version = stays[rq[h].stay].version + 1
  BY <1>2 DEF RowMatches, TypeOK, StayRow
<1>4. stays'[rq[h].stay].version = rq[h].version
  BY <1>2, <1>3, SetStatusVersion
<1>5. QED
  BY <1>1, <1>2, <1>3, <1>4, ReplyFields DEF RequestMove, Writes

LEMMA RefuseMoves ==
    ASSUME TypeOK, NEW h \in Handler, NEW request \in Request,
           NEW result \in {"conflict", "locked", "refused"}, Reply(h, request, result)
    PROVE  \A g \in Handler : RequestMove(g)
BY ReplyFields DEF RequestMove

\* A request that does not write a stay.
LEMMA OtherMoves ==
    ASSUME TypeOK, NEW h \in Handler, NEW request, request.op \notin Writers,
           rq' = [rq EXCEPT ![h] = request]
    PROVE  \A g \in Handler : RequestMove(g)
BY DEF RequestMove, TypeOK

LEMMA PreparedMoves ==
    ASSUME TypeOK, NEW h \in Handler, NEW s \in StayId, NEW op \in Writers,
           NEW request, request.op = op, request.stay = s, request.result = "none",
           request.version = TransitionVersion(stays[s], TargetOf(op)),
           stays[s].status # "none", op = "guarantee" => stays[s].guest = request.guest,
           CanTransition(stays[s], TargetOf(op)),
           rq' = [rq EXCEPT ![h] = request], UNCHANGED stays
    PROVE  \A g \in Handler : RequestMove(g)
BY DEF RequestMove, Prepares, TypeOK

RequestsMove == \A g \in Handler : RequestMove(g)

LEMMA HandlerMoves ==
    ASSUME TypeOK, NEW h \in Handler, HandlerStep(h)
    PROVE  RequestsMove
<1>0. rq[h] \in Request
  BY DEF TypeOK
<1>1. ASSUME NEW g \in Guest, NEW r \in Resource, NEW k \in Key, NEW ns \in DateRange,
             HoldCheckKey(h, g, r, k, ns)
      PROVE  RequestsMove
  <2> DEFINE request == [Idle EXCEPT !.op = "hold", !.guest = g, !.resource = r, !.key = k]
  <2>1. CASE \E s \in StayId : Reply(h, [request EXCEPT !.stay = s], "ok")
    <3>1. PICK s \in StayId : Reply(h, [request EXCEPT !.stay = s], "ok")
      BY <2>1
    <3>2. [request EXCEPT !.stay = s] \in Request
          /\ [request EXCEPT !.stay = s].op = "hold"
      BY IdleType DEF Request, RequestRow, Operations, Idle
    <3> HIDE DEF request
    <3>3. (\A f \in Handler : f # h => rq'[f] = rq[f]) /\ rq'[h].op = "hold"
      BY <3>1, <3>2, ReplyFields
    <3>4. QED
      BY <3>3 DEF RequestMove, RequestsMove, Writers
  <2>2. CASE rq' = [rq EXCEPT ![h] = [request EXCEPT !.pc = "resource", !.nights = ns]]
    <3>1. [request EXCEPT !.pc = "resource", !.nights = ns].op \notin Writers
      BY DEF Idle, Writers
    <3>2. QED
      BY <2>2, <3>1, OtherMoves DEF RequestsMove
  <2>3. QED
    BY <1>1, <2>1, <2>2 DEF HoldCheckKey
<1>2. CASE HoldGetResource(h) \/ HoldGetProperty(h) \/ SettleSum(h)
  <2>1. rq[h].op \notin Writers /\ rq'[h].op = rq[h].op
        /\ \A g \in Handler : g # h => rq'[g] = rq[g]
    <3>1. rq[h].op \notin Writers
      BY <1>2 DEF HoldGetResource, HoldGetProperty, SettleSum, At, Writers
    <3>2. CASE \E result : Reply(h, rq[h], result)
      BY <1>0, <3>1, <3>2, ReplyFields
    <3>3. CASE \E request : request.op = rq[h].op /\ rq' = [rq EXCEPT ![h] = request]
      BY <3>1, <3>3 DEF TypeOK
    <3>4. CASE HoldGetResource(h)
      <4> DEFINE request == [rq[h] EXCEPT !.pc = "property",
                                !.hosts = resources[rq[h].resource] \notin {"faulted", "closed"}]
      <4>1. request.op = rq[h].op
        BY <1>0 DEF Request, RequestRow
      <4>2. rq' = [rq EXCEPT ![h] = request]
        BY <3>4 DEF HoldGetResource
      <4> HIDE DEF request
      <4>3. QED
        BY <3>3, <4>1, <4>2
    <3>5. CASE HoldGetProperty(h)
      <4> DEFINE request == [rq[h] EXCEPT !.pc = "commit", !.expires = now + HoldTTL]
      <4>1. request.op = rq[h].op
        BY <1>0 DEF Request, RequestRow
      <4>2. rq' = [rq EXCEPT ![h] = request] \/ Reply(h, rq[h], "refused")
        BY <3>5 DEF HoldGetProperty, Refuse
      <4> HIDE DEF request
      <4>3. QED
        BY <3>2, <3>3, <4>1, <4>2
    <3>6. CASE SettleSum(h)
      <4> DEFINE request == [rq[h] EXCEPT !.pc = "commit", !.paid = Succeeded(rq[h].stay)]
      <4>1. request.op = rq[h].op
        BY <1>0 DEF Request, RequestRow
      <4>2. rq' = [rq EXCEPT ![h] = request]
        BY <3>6 DEF SettleSum
      <4> HIDE DEF request
      <4>3. QED
        BY <3>3, <4>1, <4>2
    <3>7. QED
      BY <1>2, <3>4, <3>5, <3>6
  <2>2. QED
    BY <2>1 DEF RequestMove, RequestsMove
<1>3. CASE HoldCreate(h)
  <2>1. ASSUME NEW s \in StayId, CreateHeldStay(h, s)
        PROVE  RequestsMove
    <3>1. [rq[h] EXCEPT !.stay = s] \in Request
          /\ [rq[h] EXCEPT !.stay = s].op = "hold"
      BY <1>0, <1>3 DEF Request, RequestRow, HoldCreate, At
    <3>2. QED
      BY <2>1, <3>1, ReplyFields DEF CreateHeldStay, RequestMove, RequestsMove, Writers
  <2>2. QED
    BY <1>0, <1>3, <2>1, RefuseMoves DEF HoldCreate, HoldConflict, Refuse, RequestsMove
<1>4. ASSUME NEW s \in StayId, NEW g \in Guest, GuaranteeRead(h, s, g)
      PROVE  RequestsMove
  <2> DEFINE request == [Idle EXCEPT !.op = "guarantee", !.stay = s, !.guest = g]
             version == TransitionVersion(stays[s], "guaranteed")
             ready == [request EXCEPT !.pc = "commit", !.version = version]
  <2>1. request \in Request
    BY IdleType DEF Request, RequestRow, Operations
  <2>2. CASE Refuse(h, request, "refused")
    BY <2>1, <2>2, RefuseMoves DEF Refuse, RequestsMove
  <2>3. CASE /\ stays[s].status = "held" /\ stays[s].guest = g
             /\ rq' = [rq EXCEPT ![h] = ready]
             /\ UNCHANGED stays
    <3>1. /\ ready.op = "guarantee" /\ ready.stay = s /\ ready.result = "none"
          /\ ready.version = version /\ ready.guest = g
      BY DEF Idle
    <3>2. CanTransition(stays[s], "guaranteed")
      BY <2>3 DEF CanTransition, Edge
    <3> HIDE DEF ready
    <3>3. QED
      BY <2>3, <3>1, <3>2, PreparedMoves DEF Writers, TargetOf, RequestsMove
  <2>4. QED
    BY <1>4, <2>2, <2>3 DEF GuaranteeRead, HoldActive, tables
<1>5. ASSUME NEW e \in Event, GuaranteeCommit(h, e)
      PROVE  RequestsMove
  <2>1. CASE GuaranteeStay(h, rq[h].stay, e)
    <3>1. rq[h].op \in Writers /\ rq[h].pc = "commit"
      BY <1>5 DEF GuaranteeCommit, At, Writers
    <3>2. QED
      BY <2>1, <3>1, CommitWrites DEF GuaranteeStay, RequestsMove
  <2>2. CASE GuaranteeConflict(h, rq[h].stay, e)
    BY <1>0, <2>2, RefuseMoves DEF GuaranteeConflict, Refuse, RequestsMove
  <2>3. QED
    BY <1>5, <2>1, <2>2 DEF GuaranteeCommit
<1>6. ASSUME NEW s \in StayId, NEW op \in {"check_in", "cancel", "checkout"},
             TransitionRead(h, op, s)
      PROVE  RequestsMove
  <2> DEFINE request == [Idle EXCEPT !.op = op, !.stay = s]
             version == TransitionVersion(stays[s], Target(op))
             ready == [request EXCEPT !.pc = "commit", !.version = version]
  <2>1. request \in Request
    BY IdleType DEF Request, RequestRow, Operations
  <2>2. CASE Refuse(h, request, "refused")
    BY <2>1, <2>2, RefuseMoves DEF Refuse, RequestsMove
  <2>3. CASE /\ CanTransition(stays[s], Target(op))
             /\ rq' = [rq EXCEPT ![h] = ready]
             /\ UNCHANGED stays
    <3>1. ready.op = op /\ ready.stay = s /\ ready.result = "none" /\ ready.version = version
      BY DEF Idle
    <3>2. stays[s].status # "none"
      BY <2>3 DEF CanTransition, Edge, Target
    <3>3. op \in Writers /\ TargetOf(op) = Target(op)
      BY DEF Writers, TargetOf
    <3> HIDE DEF ready
    <3>4. QED
      BY <2>3, <3>1, <3>2, <3>3, PreparedMoves DEF RequestsMove
  <2>4. QED
    BY <1>6, <2>2, <2>3 DEF TransitionRead, tables
<1>7. ASSUME NEW op \in {"check_in", "cancel"}, TransitionCommit(h, op)
      PROVE  RequestsMove
  <2>1. CASE TransitionStay(h, op, rq[h].stay)
    <3>1. rq[h].op \in Writers /\ rq[h].pc = "commit"
      BY <1>7 DEF TransitionCommit, At, Writers
    <3>2. QED
      BY <2>1, <3>1, CommitWrites DEF TransitionStay, RequestsMove
  <2>2. CASE Refuse(h, rq[h], "conflict")
    BY <1>0, <2>2, RefuseMoves DEF Refuse, RequestsMove
  <2>3. QED
    BY <1>7, <2>1, <2>2 DEF TransitionCommit
<1>8. CASE CheckoutCommit(h)
  <2>1. CASE CheckoutStay(h, rq[h].stay)
    <3>1. rq[h].op \in Writers /\ rq[h].pc = "commit"
      BY <1>8 DEF CheckoutCommit, At, Writers
    <3>2. QED
      BY <2>1, <3>1, CommitWrites DEF CheckoutStay, RequestsMove
  <2>2. CASE Refuse(h, rq[h], "conflict")
    BY <1>0, <2>2, RefuseMoves DEF Refuse, RequestsMove
  <2>3. QED
    BY <1>8, <2>1, <2>2 DEF CheckoutCommit
<1>9. ASSUME NEW s \in StayId, SettleRead(h, s)
      PROVE  RequestsMove
  <2> DEFINE request == [Idle EXCEPT !.op = "settle", !.stay = s]
  <2>1. request \in Request /\ request.op = "settle"
    BY IdleType DEF Request, RequestRow, Operations, Idle
  <2>2. [request EXCEPT !.pc = "sum"].op \notin Writers
    BY DEF Idle, Writers
  <2> HIDE DEF request
  <2>3. QED
    BY <1>9, <2>1, <2>2, OtherMoves, RefuseMoves DEF SettleRead, Refuse, RequestsMove, request
<1>10. CASE SettleCommit(h)
  BY <1>0, <1>10, ReplyFields
     DEF SettleCommit, SettleConflict, CreateSettlement, Refuse, At, RequestMove, RequestsMove, Writers
<1>11. CASE EndRequest(h)
  <2>1. Idle.op \notin Writers
    BY DEF Idle, Writers
  <2>2. QED
    BY <1>11, <2>1, OtherMoves DEF EndRequest, RequestsMove
<1>12. QED
  BY <1>1, <1>2, <1>3, <1>4, <1>5, <1>6, <1>7, <1>8, <1>9, <1>10, <1>11 DEF HandlerStep

LEMMA RequestsStep ==
    ASSUME TypeOK, [Next]_vars
    PROVE  RequestsMove
<1>1. ASSUME UNCHANGED rq
      PROVE  RequestsMove
  BY <1>1 DEF RequestMove, RequestsMove
<1>2. CASE UNCHANGED vars
  BY <1>1, <1>2 DEF vars
<1>3. CASE ExpireDueHolds
  BY <1>1, <1>3 DEF ExpireDueHolds
<1>4. CASE AdvanceClock
  BY <1>1, <1>4 DEF AdvanceClock
<1>5. ASSUME NEW e \in Event, NEW s \in StayId, NEW c \in Callback, ReceivePayment(e, s, c)
      PROVE  RequestsMove
  BY <1>1, <1>5 DEF ReceivePayment
<1>6. ASSUME NEW p \in Property, NEW to \in PropertyStatus, UpdatePropertyStatus(p, to)
      PROVE  RequestsMove
  BY <1>1, <1>6 DEF UpdatePropertyStatus
<1>7. ASSUME NEW r \in Resource, NEW to \in ResourceStatus, UpdateResourceStatus(r, to)
      PROVE  RequestsMove
  BY <1>1, <1>7 DEF UpdateResourceStatus
<1>8. QED
  BY <1>2, <1>3, <1>4, <1>5, <1>6, <1>7, HandlerMoves DEF Next

-----------------------------------------------------------------------------
(* The snapshot a handler has read, and the lifecycle                      *)

Versions == Snapshot /\ Landed /\ AbsentIsZero

LEMMA NoneHasNoEdge ==
    \A x \in Status : <<x, "none">> \notin Edge /\ <<"none", x>> \notin Edge
BY DEF Edge

\* Versions only grow, and a stay that is there stays there.
LEMMA StaysGrow ==
    ASSUME TypeOK, TypeOK', StaysMove, NEW s \in StayId
    PROVE  /\ stays'[s].version = stays[s].version \/ stays'[s].version = stays[s].version + 1
           /\ stays'[s].version = stays[s].version => stays'[s] = stays[s]
           /\ stays[s].status # "none"
              => stays'[s].status # "none" /\ stays'[s].guest = stays[s].guest
           /\ stays'[s].status = "none" => stays'[s] = stays[s]
<1>1. /\ stays[s].version \in Nat /\ stays'[s].version \in Nat
      /\ stays[s].status \in Status /\ stays'[s].status \in Status
  BY DEF TypeOK, StayRow
<1>2. CASE stays'[s] = stays[s]
  BY <1>2
<1>3. CASE StayMove(s)
  <2>1. stays'[s].version = stays[s].version + 1
    BY <1>3 DEF StayMove
  <2>2. /\ stays'[s].status # "none"
        /\ stays[s].status # "none" => stays'[s].guest = stays[s].guest
    BY <1>1, <1>3, NoneHasNoEdge DEF StayMove
  <2>3. QED
    BY <1>1, <2>1, <2>2
<1>4. QED
  BY <1>2, <1>3 DEF StaysMove

LEMMA StepKeepsSnapshot ==
    ASSUME TypeOK, TypeOK', Versions, StaysMove, RequestsMove
    PROVE  Snapshot'
<1> SUFFICES ASSUME NEW h \in Handler, rq'[h].op \in Writers, rq'[h].pc = "commit"
             PROVE  LET s == rq'[h].stay
                    IN  /\ stays'[s].status # "none"
                        /\ rq'[h].op = "guarantee" => stays'[s].guest = rq'[h].guest
                        /\ rq'[h].version <= stays'[s].version + 1
                        /\ rq'[h].version = stays'[s].version + 1
                           => <<stays'[s].status, TargetOf(rq'[h].op)>> \in Edge
  BY DEF Snapshot
<1> DEFINE s == rq'[h].stay
<1>1. rq[h] \in Request /\ rq'[h] \in Request
  BY DEF TypeOK
<1>2. s \in StayId /\ rq'[h].version \in Nat
  BY <1>1 DEF Request, RequestRow, Writers
<1>3. stays[s].version \in Nat /\ stays'[s].version \in Nat
  BY <1>2 DEF TypeOK, StayRow
<1>4. CASE rq'[h] = rq[h]
  <2>1. /\ stays[s].status # "none"
        /\ rq'[h].op = "guarantee" => stays[s].guest = rq'[h].guest
        /\ rq'[h].version <= stays[s].version + 1
        /\ rq'[h].version = stays[s].version + 1
           => <<stays[s].status, TargetOf(rq'[h].op)>> \in Edge
    BY <1>4 DEF Versions, Snapshot
  <2>2. QED
    BY <1>2, <1>3, <2>1, StaysGrow
<1>5. CASE Prepares(h)
  BY <1>2, <1>3, <1>5 DEF Prepares, CanTransition, TransitionVersion
<1>6. QED
  BY <1>4, <1>5 DEF RequestsMove, RequestMove, Writes

LEMMA StepKeepsLanded ==
    ASSUME TypeOK, TypeOK', Versions, StaysMove, RequestsMove
    PROVE  Landed'
<1> SUFFICES ASSUME NEW h \in Handler, rq'[h].op \in Writers, rq'[h].result = "ok"
             PROVE  rq'[h].version <= stays'[rq'[h].stay].version
  BY DEF Landed
<1>1. rq'[h] \in Request
  BY DEF TypeOK
<1>2. rq'[h].stay \in StayId /\ rq'[h].version \in Nat
  BY <1>1 DEF Request, RequestRow, Writers
<1>3. stays[rq'[h].stay].version \in Nat /\ stays'[rq'[h].stay].version \in Nat
  BY <1>2 DEF TypeOK, StayRow
<1>4. CASE rq'[h] = rq[h]
  <2>1. rq'[h].version <= stays[rq'[h].stay].version
    BY <1>4 DEF Versions, Landed
  <2>2. QED
    BY <1>2, <1>3, <2>1, StaysGrow
<1>5. CASE Writes(h)
  BY <1>2, <1>3, <1>5 DEF Writes
<1>6. QED
  BY <1>4, <1>5 DEF RequestsMove, RequestMove, Prepares

LEMMA StepKeepsVersions == TypeOK /\ Versions /\ [Next]_vars => Versions'
<1> SUFFICES ASSUME TypeOK, Versions, [Next]_vars PROVE Versions'
  OBVIOUS
<1>1. TypeOK'
  BY NextType
<1>2. StaysMove /\ RequestsMove
  BY MovesStep, RequestsStep DEF Versions
<1>3. AbsentIsZero'
  BY <1>1, <1>2, StaysGrow DEF Versions, AbsentIsZero
<1>4. QED
  BY <1>1, <1>2, <1>3, StepKeepsSnapshot, StepKeepsLanded DEF Versions

\* The optimistic versions work for any number of concurrent requests: a handler whose
\* version still matches has read the row it overwrites.
THEOREM VersionsHold == Spec => []Versions
<1>1. Init => Versions
  BY DEF Init, Versions, Snapshot, Landed, AbsentIsZero, Idle, NoStay
<1>2. QED
  BY <1>1, StepKeepsVersions, TypeCorrect, PTL DEF Spec

\* A stay only moves along the domain's table and its version counts the moves.
THEOREM LifecycleHolds == Spec => LifecycleRespected
<1>1. TypeOK /\ Versions /\ [Next]_vars =>
         [\A s \in StayId : stays'[s] # stays[s] =>
             /\ stays'[s].version = stays[s].version + 1
             /\ \/ stays[s].status = "none" /\ stays'[s].status = "held"
                \/ /\ <<stays[s].status, stays'[s].status>> \in Edge
                   /\ stays'[s].guest = stays[s].guest /\ stays'[s].resource = stays[s].resource
                   /\ stays'[s].key = stays[s].key]_vars
  BY MovesStep DEF Versions, StaysMove, StayMove
<1>2. QED
  BY <1>1, VersionsHold, TypeCorrect, PTL DEF Spec, LifecycleRespected
=============================================================================
