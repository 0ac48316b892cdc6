--------------------------- MODULE BookingTables ---------------------------
(***************************************************************************)
(* Proofs about Booking, continued: the tables agree with each other and   *)
(* with the replies, and Booking implements StayLedger, for every number   *)
(* of stays, resources, nights, requests and events.                       *)
(***************************************************************************)
EXTENDS BookingLedger, BookingProofs

-----------------------------------------------------------------------------
(* The steps that write a table                                            *)

\* A handler commits an operation on the stay it has read.
Commits(h, op) == At(h, op, "commit") /\ rq[h].stay \in StayId

HoldStep == \E h \in Handler, s \in StayId : At(h, "hold", "commit") /\ CreateHeldStay(h, s)
GuaranteeStep ==
    \E h \in Handler, e \in Event :
        /\ Commits(h, "guarantee") /\ rq[h].guest \in Guest
        /\ GuaranteeStay(h, rq[h].stay, e)
TransitionStep ==
    \E h \in Handler, op \in {"check_in", "cancel"} :
        /\ Commits(h, op)
        /\ <<stays[rq[h].stay].status, Target(op)>> \in Edge
        /\ TransitionStay(h, op, rq[h].stay)
CheckoutStep == \E h \in Handler : Commits(h, "checkout") /\ CheckoutStay(h, rq[h].stay)
SettleStep == \E h \in Handler : Commits(h, "settle") /\ CreateSettlement(h, rq[h].stay)
PaymentStep == \E e \in Event, s \in StayId, c \in Callback : ReceivePayment(e, s, c)

WriteStep ==
    \/ UNCHANGED tables
    \/ HoldStep
    \/ GuaranteeStep
    \/ TransitionStep
    \/ CheckoutStep
    \/ SettleStep
    \/ PaymentStep
    \/ ExpireDueHolds

\* Every step leaves the tables alone or is one of the writing transactions.
LEMMA NextWrites ==
    ASSUME TypeOK, Snapshot, [Next]_vars
    PROVE  WriteStep
<1>1. ASSUME NEW h \in Handler, HandlerStep(h)
      PROVE  WriteStep
  <2>0. rq[h] \in Request
    BY DEF TypeOK
  <2>1. ASSUME NEW g \in Guest, NEW r \in Resource, NEW k \in Key, NEW ns \in DateRange,
               HoldCheckKey(h, g, r, k, ns)
        PROVE  WriteStep
    BY <2>1 DEF HoldCheckKey, WriteStep
  <2>2. CASE HoldGetResource(h) \/ HoldGetProperty(h) \/ SettleSum(h) \/ EndRequest(h)
    BY <2>2 DEF HoldGetResource, HoldGetProperty, SettleSum, EndRequest, Refuse, WriteStep
  <2>3. CASE HoldCreate(h)
    BY <2>3 DEF HoldCreate, HoldConflict, Refuse, HoldStep, WriteStep
  <2>4. ASSUME NEW s \in StayId, NEW g \in Guest, GuaranteeRead(h, s, g)
        PROVE  WriteStep
    BY <2>4 DEF GuaranteeRead, Refuse, WriteStep
  <2>5. ASSUME NEW e \in Event, GuaranteeCommit(h, e)
        PROVE  WriteStep
    <3>1. rq[h].stay \in StayId /\ rq[h].guest \in Guest
      BY <2>0, <2>5 DEF GuaranteeCommit, At, Request
    <3>2. QED
      BY <2>5, <3>1
         DEF GuaranteeCommit, GuaranteeConflict, Refuse, GuaranteeStep, Commits, WriteStep
  <2>6. ASSUME NEW s \in StayId, NEW op \in {"check_in", "cancel", "checkout"},
               TransitionRead(h, op, s)
        PROVE  WriteStep
    BY <2>6 DEF TransitionRead, Refuse, WriteStep
  <2>7. ASSUME NEW op \in {"check_in", "cancel"}, TransitionCommit(h, op)
        PROVE  WriteStep
    <3>1. rq[h].stay \in StayId
      BY <2>0, <2>7 DEF TransitionCommit, At, Request
    <3>2. CASE TransitionStay(h, op, rq[h].stay)
      <4>1. rq[h].version = stays[rq[h].stay].version + 1
        BY <2>0, <3>1, <3>2 DEF TransitionStay, RowMatches, TypeOK, StayRow, Request, RequestRow
      <4>2. <<stays[rq[h].stay].status, Target(op)>> \in Edge
        BY <2>7, <4>1 DEF TransitionCommit, At, Snapshot, Writers, TargetOf
      <4>3. Commits(h, op)
        BY <2>7, <3>1 DEF TransitionCommit, Commits
      <4>4. QED
        BY <3>2, <4>2, <4>3 DEF TransitionStep, WriteStep
    <3>3. CASE Refuse(h, rq[h], "conflict")
      BY <3>3 DEF Refuse, WriteStep
    <3>4. QED
      BY <2>7, <3>2, <3>3 DEF TransitionCommit
  <2>8. CASE CheckoutCommit(h)
    <3>1. rq[h].stay \in StayId
      BY <2>0, <2>8 DEF CheckoutCommit, At, Request
    <3>2. QED
      BY <2>8, <3>1 DEF CheckoutCommit, Refuse, CheckoutStep, Commits, WriteStep
  <2>9. ASSUME NEW s \in StayId, SettleRead(h, s)
        PROVE  WriteStep
    BY <2>9 DEF SettleRead, Refuse, WriteStep
  <2>10. CASE SettleCommit(h)
    <3>1. rq[h].stay \in StayId
      BY <2>0, <2>10 DEF SettleCommit, SettleConflict, At, Request
    <3>2. QED
      BY <2>10, <3>1 DEF SettleCommit, SettleConflict, Refuse, SettleStep, Commits, WriteStep
  <2>11. QED
    BY <1>1, <2>1, <2>2, <2>3, <2>4, <2>5, <2>6, <2>7, <2>8, <2>9, <2>10 DEF HandlerStep
<1>2. ASSUME NEW e \in Event, NEW s \in StayId, NEW c \in Callback, ReceivePayment(e, s, c)
      PROVE  WriteStep
  BY <1>2 DEF WriteStep, PaymentStep
<1>3. ASSUME NEW p \in Property, NEW to \in PropertyStatus, UpdatePropertyStatus(p, to)
      PROVE  WriteStep
  BY <1>3 DEF UpdatePropertyStatus, WriteStep
<1>4. ASSUME NEW r \in Resource, NEW to \in ResourceStatus, UpdateResourceStatus(r, to)
      PROVE  WriteStep
  BY <1>4 DEF UpdateResourceStatus, WriteStep
<1>5. CASE AdvanceClock \/ UNCHANGED vars \/ ExpireDueHolds
  BY <1>5 DEF AdvanceClock, vars, tables, WriteStep
<1>6. QED
  BY <1>1, <1>2, <1>3, <1>4, <1>5 DEF Next
-----------------------------------------------------------------------------
(* What each of them does to the stays                                     *)

OnlyMoves(s, to) ==
    /\ \A t \in StayId : t # s => stays'[t] = stays[t]
    /\ stays'[s].status = to /\ stays'[s].version = stays[s].version + 1
    /\ stays'[s].guest = stays[s].guest /\ stays'[s].key = stays[s].key

LEMMA SetStatusOnlyMoves ==
    ASSUME TypeOK, NEW s \in StayId, NEW to, NEW expires, SetStatus(s, to, expires)
    PROVE  OnlyMoves(s, to)
<1>1. stays[s] \in StayRow
  BY DEF TypeOK
<1>2. /\ stays'[s] = Moved(stays[s], to, expires)
      /\ \A t \in StayId : t # s => stays'[t] = stays[t]
  BY DEF SetStatus, TypeOK
<1>3. QED
  BY <1>1, <1>2, MovedFields DEF OnlyMoves

\* The sweep moves stays from held to expired and leaves the others alone.
SweepMove(s) ==
    \/ stays'[s] = stays[s]
    \/ /\ stays[s].status = "held"
       /\ stays'[s].status = "expired" /\ stays'[s].version = stays[s].version + 1
       /\ stays'[s].guest = stays[s].guest /\ stays'[s].key = stays[s].key

LEMMA SweepMoves ==
    ASSUME TypeOK, ExpireDueHolds
    PROVE  \A s \in StayId : SweepMove(s)
<1>1. PICK D \in SUBSET {s \in StayId : Due(s)} :
         stays' = [s \in StayId |->
            IF s \in D THEN Moved(stays[s], "expired", NoExpiry) ELSE stays[s]]
  BY DEF ExpireDueHolds
<1>2. \A s \in StayId : stays[s] \in StayRow
  BY DEF TypeOK
<1>3. QED
  BY <1>1, <1>2, MovedFields DEF Due, SweepMove

\* The stay that h has read moves, along with no other.
Moves(h, from, to) ==
    /\ rq[h].stay \in StayId
    /\ stays[rq[h].stay].status \in from
    /\ OnlyMoves(rq[h].stay, to)

Leaves(op) == IF op = "cancel" THEN {"inquiry", "held", "guaranteed"}
              ELSE {"guaranteed", "relocated"}

LEMMA GuaranteeMoves ==
    ASSUME TypeOK, GuaranteeStep
    PROVE  \E h \in Handler, e \in Event :
              /\ Commits(h, "guarantee") /\ rq[h].guest \in Guest
              /\ GuaranteeStay(h, rq[h].stay, e)
              /\ Moves(h, {"held"}, "guaranteed")
<1>1. PICK h \in Handler, e \in Event :
         /\ Commits(h, "guarantee") /\ rq[h].guest \in Guest
         /\ GuaranteeStay(h, rq[h].stay, e)
  BY DEF GuaranteeStep
<1>2. Moves(h, {"held"}, "guaranteed")
  BY <1>1, SetStatusOnlyMoves DEF GuaranteeStay, RowMatches, Commits, Moves
<1>3. QED
  BY <1>1, <1>2

LEMMA TransitionMoves ==
    ASSUME TypeOK, TransitionStep
    PROVE  \E h \in Handler, op \in {"check_in", "cancel"} :
              TransitionStay(h, op, rq[h].stay) /\ Moves(h, Leaves(op), Target(op))
<1>1. PICK h \in Handler, op \in {"check_in", "cancel"} :
         /\ Commits(h, op)
         /\ <<stays[rq[h].stay].status, Target(op)>> \in Edge
         /\ TransitionStay(h, op, rq[h].stay)
  BY DEF TransitionStep
<1>2. stays[rq[h].stay].status \in Leaves(op)
  BY <1>1 DEF Edge, Target, Leaves
<1>3. OnlyMoves(rq[h].stay, Target(op))
  BY <1>1, SetStatusOnlyMoves DEF TransitionStay, Commits
<1>4. Moves(h, Leaves(op), Target(op))
  BY <1>1, <1>2, <1>3 DEF Commits, Moves
<1>5. QED
  BY <1>1, <1>4

LEMMA CheckoutMoves ==
    ASSUME TypeOK, CheckoutStep
    PROVE  \E h \in Handler :
              CheckoutStay(h, rq[h].stay) /\ Moves(h, {"checked_in"}, "checked_out")
<1>1. PICK h \in Handler : Commits(h, "checkout") /\ CheckoutStay(h, rq[h].stay)
  BY DEF CheckoutStep
<1>2. Moves(h, {"checked_in"}, "checked_out")
  BY <1>1, SetStatusOnlyMoves DEF CheckoutStay, RowMatches, Commits, Moves
<1>3. QED
  BY <1>1, <1>2

LEMMA SettleMoves ==
    ASSUME TypeOK, SettleStep
    PROVE  \E h \in Handler :
              CreateSettlement(h, rq[h].stay) /\ Moves(h, {"checked_out"}, "settling")
<1>1. PICK h \in Handler : Commits(h, "settle") /\ CreateSettlement(h, rq[h].stay)
  BY DEF SettleStep
<1>2. Moves(h, {"checked_out"}, "settling")
  BY <1>1, SetStatusOnlyMoves DEF CreateSettlement, Commits, Moves
<1>3. QED
  BY <1>1, <1>2

-----------------------------------------------------------------------------
(* Cleaning tasks                                                          *)

LEMMA StepKeepsCleaned ==
    ASSUME TypeOK, CleanedOnce, WriteStep
    PROVE  CleanedOnce'
<1>1. CASE UNCHANGED tables
  BY <1>1 DEF CleanedOnce, tables
<1>2. CASE HoldStep
  BY <1>2 DEF HoldStep, CreateHeldStay, CleanedOnce, TypeOK
<1>3. CASE GuaranteeStep
  BY <1>3, GuaranteeMoves DEF GuaranteeStay, Moves, OnlyMoves, CleanedOnce
<1>4. CASE TransitionStep
  <2>1. PICK h \in Handler, op \in {"check_in", "cancel"} :
           TransitionStay(h, op, rq[h].stay) /\ Moves(h, Leaves(op), Target(op))
    BY <1>4, TransitionMoves
  <2>2. UNCHANGED cleanings /\ Target(op) \in {"checked_in", "cancelled"}
    BY <2>1 DEF TransitionStay, Target
  <2>3. QED
    BY <2>1, <2>2 DEF Moves, OnlyMoves, Leaves, CleanedOnce
<1>5. CASE CheckoutStep
  <2>1. PICK h \in Handler :
           CheckoutStay(h, rq[h].stay) /\ Moves(h, {"checked_in"}, "checked_out")
    BY <1>5, CheckoutMoves
  <2> DEFINE s == rq[h].stay
  <2>2. /\ s \in StayId /\ stays[s].status = "checked_in" /\ stays'[s].status = "checked_out"
        /\ \A u \in StayId : u # s => stays'[u] = stays[u]
    BY <2>1 DEF Moves, OnlyMoves
  <2>3. cleanings' = [cleanings EXCEPT ![s] = cleanings[s] + 1]
    BY <2>1 DEF CheckoutStay
  <2> HIDE DEF s
  <2>4. cleanings'[s] = cleanings[s] + 1 /\ \A u \in StayId : u # s => cleanings'[u] = cleanings[u]
    BY <2>2, <2>3 DEF TypeOK
  <2>5. QED
    BY <2>2, <2>4 DEF CleanedOnce
<1>6. CASE SettleStep
  BY <1>6, SettleMoves DEF CreateSettlement, Moves, OnlyMoves, CleanedOnce
<1>7. CASE PaymentStep
  BY <1>7 DEF PaymentStep, ReceivePayment, CleanedOnce
<1>8. CASE ExpireDueHolds
  <2>1. UNCHANGED cleanings
    BY <1>8 DEF ExpireDueHolds
  <2>2. QED
    BY <1>8, <2>1, SweepMoves DEF SweepMove, CleanedOnce
<1>9. QED
  BY <1>1, <1>2, <1>3, <1>4, <1>5, <1>6, <1>7, <1>8 DEF WriteStep

-----------------------------------------------------------------------------
(* Settlements                                                             *)

LEMMA StepKeepsSettled ==
    ASSUME TypeOK, SettledOnce, WriteStep
    PROVE  SettledOnce'
<1>0. /\ \A x, y \in settlements : x.stay = y.stay => x = y
      /\ \A s \in StayId : stays[s].status = "settling" <=> \E x \in settlements : x.stay = s
      /\ \A x \in settlements : x.stay \in StayId
  BY DEF SettledOnce, TypeOK
<1>1. ASSUME UNCHANGED settlements,
             \A s \in StayId : stays'[s].status = "settling" <=> stays[s].status = "settling"
      PROVE  SettledOnce'
  <2>1. {s \in StayId : stays'[s].status = "settling"}
        = {s \in StayId : stays[s].status = "settling"}
    BY <1>1
  <2>2. QED
    BY <1>1, <2>1 DEF SettledOnce
<1>2. CASE UNCHANGED tables
  BY <1>1, <1>2 DEF tables
<1>3. CASE HoldStep
  BY <1>1, <1>3 DEF HoldStep, CreateHeldStay, TypeOK
<1>4. CASE GuaranteeStep
  BY <1>1, <1>4, GuaranteeMoves DEF GuaranteeStay, Moves, OnlyMoves
<1>5. CASE TransitionStep
  <2>1. PICK h \in Handler, op \in {"check_in", "cancel"} :
           TransitionStay(h, op, rq[h].stay) /\ Moves(h, Leaves(op), Target(op))
    BY <1>5, TransitionMoves
  <2>2. UNCHANGED settlements /\ Target(op) \in {"checked_in", "cancelled"}
    BY <2>1 DEF TransitionStay, Target
  <2>3. QED
    BY <1>1, <2>1, <2>2 DEF Moves, OnlyMoves, Leaves
<1>6. CASE CheckoutStep
  BY <1>1, <1>6, CheckoutMoves DEF CheckoutStay, Moves, OnlyMoves
<1>7. CASE SettleStep
  <2>1. PICK h \in Handler :
           CreateSettlement(h, rq[h].stay) /\ Moves(h, {"checked_out"}, "settling")
    BY <1>7, SettleMoves
  <2> DEFINE s == rq[h].stay
             x == [stay |-> s, paid |-> rq[h].paid]
  <2>2. /\ settlements' = settlements \cup {x} /\ x.stay = s
        /\ \A y \in settlements : y.stay # s
    BY <2>1 DEF CreateSettlement
  <2>3. /\ s \in StayId /\ stays'[s].status = "settling"
        /\ \A u \in StayId : u # s => stays'[u] = stays[u]
    BY <2>1 DEF Moves, OnlyMoves
  <2> HIDE DEF x, s
  <2>4. \A y, z \in settlements' : y.stay = z.stay => y = z
    BY <1>0, <2>2
  <2>5. {y.stay : y \in settlements'} = {u \in StayId : stays'[u].status = "settling"}
    BY <1>0, <2>2, <2>3
  <2>6. QED
    BY <2>4, <2>5 DEF SettledOnce
<1>8. CASE PaymentStep
  BY <1>1, <1>8 DEF PaymentStep, ReceivePayment
<1>9. CASE ExpireDueHolds
  <2>1. UNCHANGED settlements
    BY <1>9 DEF ExpireDueHolds
  <2>2. QED
    BY <1>1, <1>9, <2>1, SweepMoves DEF SweepMove
<1>10. QED
  BY <1>2, <1>3, <1>4, <1>5, <1>6, <1>7, <1>8, <1>9 DEF WriteStep
-----------------------------------------------------------------------------
(* Payments and identity checks                                            *)

\* The unique index on events, and the status GuaranteeStay gives its payment.
EventsUnique == \A p, q \in payments : p.event = q.event => p = q
GuaranteesSucceed == \A p \in payments : p.by = "guarantee" => p.status = "succeeded"

\* Every step keeps the payments or adds one for an event that has none.
PaymentAdded(q) ==
    /\ payments' = payments \cup {q} /\ ~EventTaken(q.event)
    /\ q.by = "guarantee" => q.status = "succeeded"

LEMMA PaymentsGrow ==
    ASSUME TypeOK, WriteStep
    PROVE  UNCHANGED payments \/ \E q : PaymentAdded(q)
<1>1. CASE GuaranteeStep
  <2>1. PICK h \in Handler, e \in Event : GuaranteeStay(h, rq[h].stay, e)
    BY <1>1 DEF GuaranteeStep
  <2> DEFINE q == [event |-> e, stay |-> rq[h].stay, kind |-> "guarantee",
                   status |-> "succeeded", by |-> "guarantee"]
  <2>2. PaymentAdded(q)
    BY <2>1 DEF GuaranteeStay, PaymentAdded
  <2> HIDE DEF q
  <2>3. QED
    BY <2>2
<1>2. CASE PaymentStep
  <2>1. PICK e \in Event, s \in StayId, c \in Callback : ReceivePayment(e, s, c)
    BY <1>2 DEF PaymentStep
  <2> DEFINE q == [event |-> e, stay |-> s, kind |-> c.kind, status |-> c.status,
                   by |-> "callback"]
  <2>2. PaymentAdded(q)
    BY <2>1 DEF ReceivePayment, PaymentAdded
  <2> HIDE DEF q
  <2>3. QED
    BY <2>2
<1>3. CASE UNCHANGED tables \/ HoldStep \/ TransitionStep \/ CheckoutStep \/ SettleStep
           \/ ExpireDueHolds
  BY <1>3 DEF tables, HoldStep, CreateHeldStay, TransitionStep, TransitionStay,
     CheckoutStep, CheckoutStay, SettleStep, CreateSettlement, ExpireDueHolds
<1>4. QED
  BY <1>1, <1>2, <1>3 DEF WriteStep

LEMMA StepKeepsEvents ==
    ASSUME TypeOK, EventsUnique, GuaranteesSucceed, WriteStep
    PROVE  EventsUnique' /\ GuaranteesSucceed'
BY PaymentsGrow DEF PaymentAdded, EventTaken, EventsUnique, GuaranteesSucceed

\* The edges of Transition have statuses that no service writes.
Reached == \A s \in StayId : stays[s].status \notin {"inquiry", "relocated", "settled"}

LEMMA StepKeepsReached ==
    ASSUME TypeOK, Reached, WriteStep
    PROVE  Reached'
<1>1. ASSUME NEW h \in Handler, NEW from, NEW to \in Status \ {"inquiry", "relocated", "settled"},
             Moves(h, from, to)
      PROVE  Reached'
  BY <1>1 DEF Moves, OnlyMoves, Reached
<1>2. CASE UNCHANGED stays
  BY <1>2 DEF Reached
<1>3. CASE HoldStep
  BY <1>3 DEF HoldStep, CreateHeldStay, Reached, TypeOK
<1>4. CASE TransitionStep
  <2>1. PICK h \in Handler, op \in {"check_in", "cancel"} : Moves(h, Leaves(op), Target(op))
    BY <1>4, TransitionMoves
  <2>2. Target(op) \in Status \ {"inquiry", "relocated", "settled"}
    BY <2>1 DEF Target, Status
  <2>3. QED
    BY <1>1, <2>1, <2>2
<1>5. CASE GuaranteeStep \/ CheckoutStep \/ SettleStep
  BY <1>1, <1>5, GuaranteeMoves, CheckoutMoves, SettleMoves DEF Status
<1>6. CASE ExpireDueHolds
  BY <1>6, SweepMoves DEF SweepMove, Reached
<1>7. QED
  BY <1>2, <1>3, <1>4, <1>5, <1>6 DEF WriteStep, PaymentStep, ReceivePayment, tables

\* GuaranteeIsBacked without the sets it builds.
GuaranteeRow(p, s) == p.stay = s /\ p.by = "guarantee"
Backed(s) ==
    /\ \E p \in payments : GuaranteeRow(p, s) /\ \A q \in payments : GuaranteeRow(q, s) => q = p
    /\ stays[s].guest \in Guest
    /\ \A g \in Guest : <<s, g>> \in identities <=> g = stays[s].guest
Bare(s) ==
    /\ \A p \in payments : ~GuaranteeRow(p, s)
    /\ \A g \in Guest : <<s, g>> \notin identities
BackedOrBare ==
    \A s \in StayId :
        /\ stays[s].status \in {"guaranteed", "checked_in", "checked_out", "settling"} => Backed(s)
        /\ stays[s].status \in {"none", "held", "expired"} => Bare(s)

LEMMA BackedOrBareIsProperty == BackedOrBare => GuaranteeIsBacked
<1> SUFFICES ASSUME BackedOrBare, NEW s \in StayId
             PROVE  LET paid == {p \in payments : p.stay = s /\ p.by = "guarantee"}
                        checked == {g \in Guest : <<s, g>> \in identities}
                    IN  /\ stays[s].status \in {"guaranteed", "checked_in", "checked_out", "settling"}
                           => (\E p \in payments : paid = {p}) /\ checked = {stays[s].guest}
                        /\ stays[s].status \in {"none", "held", "expired"}
                           => paid = {} /\ checked = {}
  BY DEF GuaranteeIsBacked
<1> DEFINE paid == {p \in payments : p.stay = s /\ p.by = "guarantee"}
           checked == {g \in Guest : <<s, g>> \in identities}
<1>1. ASSUME Backed(s)
      PROVE  (\E p \in payments : paid = {p}) /\ checked = {stays[s].guest}
  <2>1. PICK p \in payments :
           GuaranteeRow(p, s) /\ \A q \in payments : GuaranteeRow(q, s) => q = p
    BY <1>1 DEF Backed
  <2>2. paid = {p}
    BY <2>1 DEF GuaranteeRow
  <2>3. checked = {stays[s].guest}
    BY <1>1 DEF Backed
  <2>4. QED
    BY <2>2, <2>3
<1>2. ASSUME Bare(s)
      PROVE  paid = {} /\ checked = {}
  BY <1>2 DEF Bare, GuaranteeRow
<1>3. QED
  BY <1>1, <1>2 DEF BackedOrBare

LEMMA StepKeepsBacked ==
    ASSUME TypeOK, Snapshot, Reached, BackedOrBare, WriteStep
    PROVE  BackedOrBare'
<1>1. ASSUME UNCHANGED <<payments, identities>>,
             \A s \in StayId :
                /\ Backed(s) => stays'[s].guest = stays[s].guest
                /\ stays'[s].status \in {"guaranteed", "checked_in", "checked_out", "settling"}
                   => stays[s].status \in {"guaranteed", "checked_in", "checked_out", "settling"}
                /\ stays'[s].status \in {"none", "held", "expired"}
                   => stays[s].status \in {"none", "held", "expired"}
      PROVE  BackedOrBare'
  <2>1. \A s \in StayId : (Backed(s) => Backed(s)') /\ (Bare(s) => Bare(s)')
    BY <1>1 DEF Backed, Bare
  <2>2. QED
    BY <1>1, <2>1 DEF BackedOrBare
<1>2. CASE UNCHANGED tables
  BY <1>1, <1>2 DEF tables
<1>3. CASE HoldStep
  <2>1. PICK h \in Handler, s \in StayId : CreateHeldStay(h, s)
    BY <1>3 DEF HoldStep
  <2>2. /\ stays[s].status = "none" /\ stays'[s].status = "held"
        /\ \A u \in StayId : u # s => stays'[u] = stays[u]
        /\ UNCHANGED <<payments, identities>>
    BY <2>1 DEF CreateHeldStay, TypeOK
  <2>3. \A u \in StayId : (Bare(u) => Bare(u)') /\ (u # s /\ Backed(u) => Backed(u)')
    BY <2>2 DEF Bare, Backed
  <2>4. QED
    BY <2>2, <2>3 DEF BackedOrBare
<1>4. CASE GuaranteeStep
  <2>1. PICK h \in Handler, e \in Event :
           /\ Commits(h, "guarantee") /\ rq[h].guest \in Guest
           /\ GuaranteeStay(h, rq[h].stay, e)
           /\ Moves(h, {"held"}, "guaranteed")
    BY <1>4, GuaranteeMoves
  <2>0. PICK s \in StayId, g \in Guest : s = rq[h].stay /\ g = rq[h].guest
    BY <2>1 DEF Commits
  <2> DEFINE q == [event |-> e, stay |-> s, kind |-> "guarantee", status |-> "succeeded",
                   by |-> "guarantee"]
  <2>2. /\ s \in StayId /\ stays[s].status = "held" /\ stays'[s].status = "guaranteed"
        /\ stays'[s].guest = stays[s].guest
        /\ \A u \in StayId : u # s => stays'[u] = stays[u]
    BY <2>0, <2>1 DEF Moves, OnlyMoves
  <2>3. payments' = payments \cup {q} /\ GuaranteeRow(q, s) /\ q.stay = s
    BY <2>0, <2>1 DEF GuaranteeStay, GuaranteeRow
  <2>4. identities' = identities \cup {<<s, g>>}
    BY <2>0, <2>1 DEF GuaranteeStay, IdentityRow
  <2>5. stays[s].guest = g
    BY <2>0, <2>1 DEF Commits, At, Snapshot, Writers
  <2> HIDE DEF q
  <2>6. Bare(s)
    BY <2>2 DEF BackedOrBare
  <2>7. Backed(s)'
    <3>1. \A p \in payments' : GuaranteeRow(p, s) => p = q
      BY <2>3, <2>6 DEF Bare
    <3>2. \A x \in Guest : <<s, x>> \in identities' <=> x = g
      BY <2>4, <2>6 DEF Bare
    <3>3. QED
      BY <2>2, <2>3, <2>5, <3>1, <3>2 DEF Backed
  <2>8. \A u \in StayId : u # s => (Backed(u) => Backed(u)') /\ (Bare(u) => Bare(u)')
    <3>1. \A u \in StayId : u # s => \A p \in payments' :
             GuaranteeRow(p, u) <=> p \in payments /\ GuaranteeRow(p, u)
      BY <2>3 DEF GuaranteeRow
    <3>2. \A u \in StayId : u # s => \A x \in Guest :
             <<u, x>> \in identities' <=> <<u, x>> \in identities
      BY <2>4
    <3>3. payments \subseteq payments'
      BY <2>3
    <3>4. ASSUME NEW u \in StayId, u # s
          PROVE  (Backed(u) => Backed(u)') /\ (Bare(u) => Bare(u)')
      BY <2>2, <3>1, <3>2, <3>3, <3>4 DEF Backed, Bare
    <3>5. QED
      BY <3>4
  <2>9. QED
    BY <2>2, <2>7, <2>8 DEF BackedOrBare
<1>5. CASE TransitionStep
  <2>1. PICK h \in Handler, op \in {"check_in", "cancel"} :
           TransitionStay(h, op, rq[h].stay) /\ Moves(h, Leaves(op), Target(op))
    BY <1>5, TransitionMoves
  <2>2. /\ UNCHANGED <<payments, identities>>
        /\ \/ Target(op) = "checked_in" /\ Leaves(op) = {"guaranteed", "relocated"}
           \/ Target(op) = "cancelled"
    BY <2>1 DEF TransitionStay, Target, Leaves
  <2>3. QED
    BY <1>1, <2>1, <2>2 DEF Moves, OnlyMoves, Reached
<1>6. CASE CheckoutStep
  BY <1>1, <1>6, CheckoutMoves DEF CheckoutStay, Moves, OnlyMoves
<1>7. CASE SettleStep
  BY <1>1, <1>7, SettleMoves DEF CreateSettlement, Moves, OnlyMoves
<1>8. CASE PaymentStep
  <2>1. PICK e \in Event, s \in StayId, c \in Callback : ReceivePayment(e, s, c)
    BY <1>8 DEF PaymentStep
  <2> DEFINE q == [event |-> e, stay |-> s, kind |-> c.kind, status |-> c.status,
                   by |-> "callback"]
  <2>2. payments' = payments \cup {q} /\ UNCHANGED <<stays, identities>> /\ q.by # "guarantee"
    BY <2>1 DEF ReceivePayment
  <2> HIDE DEF q
  <2>3. \A u \in StayId : (Backed(u) => Backed(u)') /\ (Bare(u) => Bare(u)')
    BY <2>2 DEF Backed, Bare, GuaranteeRow
  <2>4. QED
    BY <2>2, <2>3 DEF BackedOrBare
<1>9. CASE ExpireDueHolds
  <2>1. UNCHANGED <<payments, identities>>
    BY <1>9 DEF ExpireDueHolds
  <2>2. QED
    BY <1>1, <1>9, <2>1, SweepMoves DEF SweepMove
<1>10. QED
  BY <1>2, <1>3, <1>4, <1>5, <1>6, <1>7, <1>8, <1>9 DEF WriteStep
-----------------------------------------------------------------------------
(* Hold requests                                                           *)

\* A hold on its way has a night at least and has no result; one that has succeeded names
\* the stay that has its key.
HoldRequest(h) ==
    rq[h].op = "hold" =>
        /\ rq[h].pc \in {"resource", "property", "commit"}
           => rq[h].nights # {} /\ rq[h].result = "none"
        /\ rq[h].result = "ok"
           => rq[h].stay \in StayId /\ stays[rq[h].stay].key = rq[h].key

\* What a step does to a hold request.
HoldGoesOn(q) == q.nights # {} /\ q.result = "none"
HoldMove(h) ==
    \/ rq'[h] = rq[h]
    \/ rq'[h].op # "hold"
    \/ HoldGoesOn(rq'[h])
    \/ rq'[h].pc = "done" /\ rq'[h].result # "ok"
    \/ /\ rq'[h].pc = "done"
       /\ rq'[h].stay \in StayId /\ stays'[rq'[h].stay].key = rq'[h].key

\* The step of a handler that leaves the other handlers alone.
LEMMA OneHandler ==
    ASSUME TypeOK, NEW h \in Handler, HandlerStep(h), NEW g \in Handler, g # h
    PROVE  rq'[g] = rq[g]
<1>1. ASSUME NEW request, NEW result, Reply(h, request, result)
      PROVE  rq'[g] = rq[g]
  BY <1>1 DEF Reply, TypeOK
<1>2. ASSUME NEW request, rq' = [rq EXCEPT ![h] = request]
      PROVE  rq'[g] = rq[g]
  BY <1>2 DEF TypeOK
<1>3. ASSUME NEW x \in Guest, NEW r \in Resource, NEW k \in Key, NEW ns \in DateRange,
             HoldCheckKey(h, x, r, k, ns)
      PROVE  rq'[g] = rq[g]
  BY <1>1, <1>2, <1>3 DEF HoldCheckKey
<1>4. CASE HoldGetResource(h) \/ HoldGetProperty(h) \/ HoldCreate(h)
  BY <1>1, <1>2, <1>4
     DEF HoldGetResource, HoldGetProperty, HoldCreate, CreateHeldStay, HoldConflict, Refuse
<1>5. ASSUME NEW s \in StayId, NEW x \in Guest, GuaranteeRead(h, s, x)
      PROVE  rq'[g] = rq[g]
  BY <1>1, <1>2, <1>5 DEF GuaranteeRead, Refuse
<1>6. ASSUME NEW e \in Event, GuaranteeCommit(h, e)
      PROVE  rq'[g] = rq[g]
  BY <1>1, <1>6 DEF GuaranteeCommit, GuaranteeStay, GuaranteeConflict, Refuse
<1>7. ASSUME NEW s \in StayId, NEW op \in {"check_in", "cancel", "checkout"},
             TransitionRead(h, op, s)
      PROVE  rq'[g] = rq[g]
  BY <1>1, <1>2, <1>7 DEF TransitionRead, Refuse
<1>8. ASSUME NEW op \in {"check_in", "cancel"}, TransitionCommit(h, op)
      PROVE  rq'[g] = rq[g]
  BY <1>1, <1>8 DEF TransitionCommit, TransitionStay, Refuse
<1>9. CASE CheckoutCommit(h) \/ SettleSum(h) \/ SettleCommit(h) \/ EndRequest(h)
  BY <1>1, <1>2, <1>9
     DEF CheckoutCommit, CheckoutStay, SettleSum, SettleCommit, SettleConflict, CreateSettlement, Refuse,
         EndRequest
<1>10. ASSUME NEW s \in StayId, SettleRead(h, s)
       PROVE  rq'[g] = rq[g]
  BY <1>1, <1>2, <1>10 DEF SettleRead, Refuse
<1>11. QED
  BY <1>3, <1>4, <1>5, <1>6, <1>7, <1>8, <1>9, <1>10 DEF HandlerStep

LEMMA HandlerMovesHold ==
    ASSUME TypeOK, NEW h \in Handler, HandlerStep(h), HoldRequest(h)
    PROVE  HoldMove(h)
<1>0. rq[h] \in Request
  BY DEF TypeOK
<1>1. ASSUME NEW request \in Request, request.op # "hold", rq' = [rq EXCEPT ![h] = request]
      PROVE  HoldMove(h)
  BY <1>1 DEF HoldMove, TypeOK
<1>2. ASSUME NEW request \in Request, NEW result, Reply(h, request, result),
             request.op # "hold" \/ result # "ok"
      PROVE  HoldMove(h)
  BY <1>2, ReplyFields DEF HoldMove
<1>3. ASSUME NEW request, HoldGoesOn(request), rq' = [rq EXCEPT ![h] = request]
      PROVE  HoldMove(h)
  BY <1>3 DEF HoldMove, TypeOK
<1>4. ASSUME NEW g \in Guest, NEW r \in Resource, NEW k \in Key, NEW ns \in DateRange,
             HoldCheckKey(h, g, r, k, ns)
      PROVE  HoldMove(h)
  <2> DEFINE request == [Idle EXCEPT !.op = "hold", !.guest = g, !.resource = r, !.key = k]
             next == [request EXCEPT !.pc = "resource", !.nights = ns]
  <2>1. ASSUME NEW s \in StayId, stays[s].key = k, Reply(h, [request EXCEPT !.stay = s], "ok")
        PROVE  HoldMove(h)
    <3> DEFINE found == [request EXCEPT !.stay = s]
    <3>1. found \in Request /\ found.stay = s /\ found.key = k
      BY IdleType DEF Request, RequestRow, Operations, Idle
    <3>2. Reply(h, found, "ok") /\ UNCHANGED stays
      BY <1>4, <2>1 DEF HoldCheckKey, tables
    <3> HIDE DEF found
    <3>3. QED
      BY <2>1, <3>1, <3>2, ReplyFields DEF HoldMove
  <2>2. CASE rq' = [rq EXCEPT ![h] = next]
    <3>1. ns # {}
      BY DEF DateRange
    <3>2. HoldGoesOn(next)
      BY <3>1 DEF HoldGoesOn, Idle
    <3> HIDE DEF next
    <3>3. QED
      BY <1>3, <2>2, <3>2
  <2>3. QED
    BY <1>4, <2>1, <2>2 DEF HoldCheckKey
<1>5. CASE HoldGetResource(h)
  <2> DEFINE hosts == resources[rq[h].resource] \notin {"faulted", "closed"}
             request == [rq[h] EXCEPT !.pc = "property", !.hosts = hosts]
  <2>1. HoldGoesOn(rq[h])
    BY <1>5 DEF HoldGetResource, At, HoldRequest, HoldGoesOn
  <2>2. HoldGoesOn(request)
    BY <1>0, <2>1 DEF HoldGoesOn, Request, RequestRow
  <2>3. rq' = [rq EXCEPT ![h] = request]
    BY <1>5 DEF HoldGetResource
  <2> HIDE DEF request
  <2>4. QED
    BY <1>3, <2>2, <2>3
<1>6. CASE HoldGetProperty(h)
  <2> DEFINE request == [rq[h] EXCEPT !.pc = "commit", !.expires = now + HoldTTL]
  <2>1. HoldGoesOn(rq[h])
    BY <1>6 DEF HoldGetProperty, At, HoldRequest, HoldGoesOn
  <2>2. HoldGoesOn(request)
    BY <1>0, <2>1 DEF HoldGoesOn, Request, RequestRow
  <2>3. rq' = [rq EXCEPT ![h] = request] \/ Reply(h, rq[h], "refused")
    BY <1>6 DEF HoldGetProperty, Refuse
  <2> HIDE DEF request
  <2>4. QED
    BY <1>0, <1>2, <1>3, <2>2, <2>3
<1>7. CASE HoldCreate(h)
  <2>1. ASSUME NEW s \in StayId, CreateHeldStay(h, s)
        PROVE  HoldMove(h)
    <3> DEFINE made == [rq[h] EXCEPT !.stay = s]
    <3>1. made \in Request /\ made.stay = s /\ made.key = rq[h].key
      BY <1>0 DEF Request, RequestRow
    <3>2. Reply(h, made, "ok") /\ stays'[s].key = rq[h].key
      BY <2>1 DEF CreateHeldStay, TypeOK
    <3> HIDE DEF made
    <3>3. QED
      BY <3>1, <3>2, ReplyFields DEF HoldMove
  <2>2. QED
    BY <1>0, <1>2, <1>7, <2>1 DEF HoldCreate, HoldConflict, Refuse
<1>8. ASSUME NEW s \in StayId, NEW g \in Guest, GuaranteeRead(h, s, g)
      PROVE  HoldMove(h)
  <2> DEFINE request == [Idle EXCEPT !.op = "guarantee", !.stay = s, !.guest = g]
             ready == [request EXCEPT !.pc = "commit",
                                      !.version = TransitionVersion(stays[s], "guaranteed")]
  <2>1. request \in Request /\ request.op = "guarantee" /\ ready.op = "guarantee"
    BY IdleType DEF Request, RequestRow, Operations, Idle
  <2>2. Reply(h, request, "refused") \/ rq' = [rq EXCEPT ![h] = ready]
    BY <1>8 DEF GuaranteeRead, Refuse
  <2> HIDE DEF request, ready
  <2>3. CASE Reply(h, request, "refused")
    BY <1>2, <2>1, <2>3
  <2>4. CASE rq' = [rq EXCEPT ![h] = ready]
    BY <2>1, <2>4 DEF HoldMove, TypeOK
  <2>5. QED
    BY <2>2, <2>3, <2>4
<1>9. ASSUME NEW e \in Event, GuaranteeCommit(h, e)
      PROVE  HoldMove(h)
  BY <1>0, <1>2, <1>9 DEF GuaranteeCommit, GuaranteeStay, GuaranteeConflict, Refuse, At
<1>10. ASSUME NEW s \in StayId, NEW op \in {"check_in", "cancel", "checkout"},
              TransitionRead(h, op, s)
       PROVE  HoldMove(h)
  BY <1>10 DEF TransitionRead, Refuse, Reply, HoldMove, TypeOK, Idle
<1>11. ASSUME NEW op \in {"check_in", "cancel"}, TransitionCommit(h, op)
       PROVE  HoldMove(h)
  BY <1>0, <1>2, <1>11 DEF TransitionCommit, TransitionStay, Refuse, At
<1>12. CASE CheckoutCommit(h) \/ SettleCommit(h)
  BY <1>0, <1>2, <1>12
     DEF CheckoutCommit, CheckoutStay, SettleCommit, SettleConflict, CreateSettlement, Refuse, At
<1>13. CASE SettleSum(h)
  <2> DEFINE request == [rq[h] EXCEPT !.pc = "commit", !.paid = Succeeded(rq[h].stay)]
  <2>1. request.op # "hold"
    BY <1>0, <1>13 DEF SettleSum, At, Request, RequestRow
  <2>2. rq' = [rq EXCEPT ![h] = request]
    BY <1>13 DEF SettleSum
  <2> HIDE DEF request
  <2>3. QED
    BY <2>1, <2>2 DEF HoldMove, TypeOK
<1>14. ASSUME NEW s \in StayId, SettleRead(h, s)
       PROVE  HoldMove(h)
  BY <1>14 DEF SettleRead, Refuse, Reply, HoldMove, TypeOK, Idle
<1>15. CASE EndRequest(h)
  BY <1>1, <1>15, IdleType DEF EndRequest, Idle
<1>16. QED
  BY <1>4, <1>5, <1>6, <1>7, <1>8, <1>9, <1>10, <1>11, <1>12, <1>13, <1>14, <1>15
     DEF HandlerStep
\* An absent stay has no key.
NoKeyWhenAbsent == \A s \in StayId : stays[s].status = "none" => stays[s].key = None

LEMMA StepKeepsHoldRequests ==
    ASSUME TypeOK, NoKeyWhenAbsent, StaysMove, [Next]_vars, \A h \in Handler : HoldRequest(h)
    PROVE  (\A h \in Handler : HoldRequest(h))'
<1>1. \A h \in Handler : HoldMove(h)
  <2>1. ASSUME NEW h \in Handler, HandlerStep(h)
        PROVE  \A g \in Handler : HoldMove(g)
    <3>1. \A g \in Handler : g # h => rq'[g] = rq[g]
      BY <2>1, OneHandler
    <3>2. QED
      BY <2>1, <3>1, HandlerMovesHold DEF HoldMove
  <2>2. ASSUME UNCHANGED rq
        PROVE  \A g \in Handler : HoldMove(g)
    BY <2>2 DEF HoldMove
  <2>3. QED
    BY <2>1, <2>2 DEF Next, ReceivePayment, ExpireDueHolds, UpdatePropertyStatus,
       UpdateResourceStatus, AdvanceClock, vars
<1>2. \A s \in StayId, k \in Key : stays[s].key = k => stays'[s].key = k
  BY BookingAssumption DEF StaysMove, StayMove, NoKeyWhenAbsent
<1> SUFFICES ASSUME NEW h \in Handler
             PROVE  HoldRequest(h)'
  OBVIOUS
<1>3. CASE rq'[h] = rq[h]
  <2>1. rq[h] \in Request
    BY DEF TypeOK
  <2>2. rq[h].op = "hold" => rq[h].key \in Key
    BY <2>1 DEF Request
  <2>3. QED
    BY <1>2, <1>3, <2>2 DEF HoldRequest
<1>4. CASE rq'[h] # rq[h]
  BY <1>1, <1>4 DEF HoldMove, HoldGoesOn, HoldRequest
<1>5. QED
  BY <1>3, <1>4

\* The unique idempotency key: the hold transaction inserts a key no stay has.
LEMMA StepKeepsKeys ==
    ASSUME TypeOK, KeysUnique, [Next]_vars
    PROVE  KeysUnique'
<1>1. CASE RowsKept
  BY <1>1 DEF RowsKept, KeysUnique
<1>2. ASSUME NEW h \in Handler, NEW u \in StayId, CreateHeldStay(h, u)
      PROVE  KeysUnique'
  <2>1. /\ stays'[u].key = rq[h].key
        /\ \A t \in StayId : t # u => stays'[t] = stays[t] /\ stays[t].key # rq[h].key
    BY <1>2 DEF CreateHeldStay, KeyTaken, TypeOK
  <2>2. QED
    BY <2>1 DEF KeysUnique
<1>3. QED
  BY <1>1, <1>2, RowsStep

\* Of the handlers that have written a stay each has written a version of its own.
LEMMA StepKeepsOneWriter ==
    ASSUME TypeOK, TypeOK', Versions, OneWriterPerVersion, [Next]_vars
    PROVE  OneWriterPerVersion'
<1>1. StaysMove /\ RequestsMove
  BY MovesStep, RequestsStep DEF Versions
<1> SUFFICES ASSUME NEW g \in Handler, NEW h \in Handler, g # h,
                    rq'[g].op \in Writers, rq'[h].op \in Writers,
                    rq'[g].result = "ok", rq'[h].result = "ok", rq'[g].stay = rq'[h].stay
             PROVE  rq'[g].version # rq'[h].version
  BY DEF OneWriterPerVersion, Writers
<1>2. ASSUME NEW f \in Handler, rq'[f].op \in Writers, rq'[f].result = "ok"
      PROVE  rq'[f] = rq[f] \/ Writes(f)
  BY <1>1, <1>2 DEF RequestsMove, RequestMove, Prepares
<1>3. rq'[g] = rq[g] \/ rq'[h] = rq[h]
  <2>1. ASSUME NEW f \in Handler, HandlerStep(f)
        PROVE  rq'[g] = rq[g] \/ rq'[h] = rq[h]
    BY <2>1, OneHandler
  <2>2. QED
    BY <2>1 DEF Next, ReceivePayment, ExpireDueHolds, UpdatePropertyStatus,
       UpdateResourceStatus, AdvanceClock, vars
<1>4. ASSUME NEW e \in Handler, NEW f \in Handler, rq'[e] = rq[e], Writes(f),
             rq'[e].op \in Writers, rq'[e].result = "ok", rq'[e].stay = rq'[f].stay
      PROVE  rq'[e].version # rq'[f].version
  <2>1. rq[e] \in Request /\ rq[f] \in Request
    BY DEF TypeOK
  <2>2. rq[e].version \in Nat /\ rq[f].stay \in StayId
    BY <1>4, <2>1 DEF Request, RequestRow, Writes
  <2>3. stays[rq[f].stay].version \in Nat
    BY <2>2 DEF TypeOK, StayRow
  <2>4. rq[e].version <= stays[rq[f].stay].version
    BY <1>4 DEF Versions, Landed, Writes
  <2>5. QED
    BY <1>4, <2>2, <2>3, <2>4 DEF Writes
<1>5. CASE rq'[g] = rq[g] /\ rq'[h] = rq[h]
  BY <1>5 DEF OneWriterPerVersion, Writers
<1>6. QED
  BY <1>2, <1>3, <1>4, <1>5
-----------------------------------------------------------------------------
(* Settlement requests and the payments they have summed                   *)

\* E holds the event of the guarantee's payment and those of other succeeded payments of s.
Covers(s, E) ==
    /\ \A e \in E : EventTaken(e)
    /\ \A p \in payments : p.event \in E => p.stay = s /\ p.status = "succeeded"
    /\ \E p \in payments : p.by = "guarantee" /\ p.event \in E

CoveredSettlements == \A x \in settlements : Covers(x.stay, x.paid)

\* A settlement on its way is about a stay that has checked out and, once it has read the
\* payments, carries the guarantee.
SettleRequest(h) ==
    rq[h].op = "settle" =>
        /\ rq[h].pc \in {"sum", "commit"}
           => stays[rq[h].stay].status \in {"checked_out", "settling"}
        /\ rq[h].pc = "commit" => Covers(rq[h].stay, rq[h].paid)

\* What a step does to a settlement request.
SettleMove(h) ==
    \/ rq'[h] = rq[h]
    \/ rq'[h].op # "settle"
    \/ rq'[h].pc = "done"
    \/ /\ rq'[h].pc = "sum" /\ UNCHANGED stays
       /\ stays[rq'[h].stay].status = "checked_out"
    \/ /\ rq[h].op = "settle" /\ rq[h].pc = "sum" /\ UNCHANGED <<stays, payments>>
       /\ rq'[h].stay = rq[h].stay /\ rq'[h].paid = Succeeded(rq[h].stay)

LEMMA CoversGrows ==
    ASSUME TypeOK, WriteStep, NEW s, NEW E, Covers(s, E)
    PROVE  Covers(s, E)'
BY PaymentsGrow DEF PaymentAdded, EventTaken, Covers

\* SumSucceededPayments of a stay that was guaranteed.
LEMMA SucceededCovers ==
    ASSUME TypeOK, EventsUnique, GuaranteesSucceed, NEW s \in StayId, Backed(s)
    PROVE  Covers(s, Succeeded(s))
<1>1. \A e \in Succeeded(s) :
         \E p \in payments : p.event = e /\ p.stay = s /\ p.status = "succeeded"
  BY DEF Succeeded
<1>2. \A p \in payments : p.stay = s /\ p.status = "succeeded" => p.event \in Succeeded(s)
  BY DEF Succeeded
<1>3. QED
  BY <1>1, <1>2 DEF Covers, EventTaken, EventsUnique, GuaranteesSucceed, Backed, GuaranteeRow

LEMMA HandlerMovesSettle ==
    ASSUME TypeOK, NEW h \in Handler, HandlerStep(h)
    PROVE  SettleMove(h)
<1>0. rq[h] \in Request
  BY DEF TypeOK
<1>1. ASSUME NEW request \in Request, NEW result, Reply(h, request, result)
      PROVE  SettleMove(h)
  BY <1>1, ReplyFields DEF SettleMove
<1>2. ASSUME NEW request, request.op # "settle", rq' = [rq EXCEPT ![h] = request]
      PROVE  SettleMove(h)
  BY <1>2 DEF SettleMove, TypeOK
<1>3. ASSUME NEW g \in Guest, NEW r \in Resource, NEW k \in Key, NEW ns \in DateRange,
             HoldCheckKey(h, g, r, k, ns)
      PROVE  SettleMove(h)
  <2> DEFINE request == [Idle EXCEPT !.op = "hold", !.guest = g, !.resource = r, !.key = k]
             next == [request EXCEPT !.pc = "resource", !.nights = ns]
  <2>1. \A s \in StayId : [request EXCEPT !.stay = s] \in Request
    BY IdleType DEF Request, RequestRow, Operations, Idle
  <2>2. next.op # "settle"
    BY DEF Idle
  <2>3. rq' = [rq EXCEPT ![h] = next]
        \/ \E s \in StayId : Reply(h, [request EXCEPT !.stay = s], "ok")
    BY <1>3 DEF HoldCheckKey
  <2> HIDE DEF request, next
  <2>4. QED
    BY <1>1, <1>2, <2>1, <2>2, <2>3
<1>4. CASE HoldGetResource(h)
  <2> DEFINE hosts == resources[rq[h].resource] \notin {"faulted", "closed"}
             request == [rq[h] EXCEPT !.pc = "property", !.hosts = hosts]
  <2>1. request.op # "settle" /\ rq' = [rq EXCEPT ![h] = request]
    BY <1>0, <1>4 DEF HoldGetResource, At, Request, RequestRow
  <2> HIDE DEF request
  <2>2. QED
    BY <1>2, <2>1
<1>5. CASE HoldGetProperty(h)
  <2> DEFINE request == [rq[h] EXCEPT !.pc = "commit", !.expires = now + HoldTTL]
  <2>1. request.op # "settle"
    BY <1>0, <1>5 DEF HoldGetProperty, At, Request, RequestRow
  <2>2. rq' = [rq EXCEPT ![h] = request] \/ Reply(h, rq[h], "refused")
    BY <1>5 DEF HoldGetProperty, Refuse
  <2> HIDE DEF request
  <2>3. QED
    BY <1>0, <1>1, <1>2, <2>1, <2>2
<1>6. CASE HoldCreate(h)
  <2>1. \A s \in StayId : [rq[h] EXCEPT !.stay = s] \in Request
    BY <1>0, <1>6 DEF HoldCreate, At, Request, RequestRow
  <2>2. QED
    BY <1>0, <1>1, <1>6, <2>1 DEF HoldCreate, CreateHeldStay, HoldConflict, Refuse
<1>7. ASSUME NEW s \in StayId, NEW g \in Guest, GuaranteeRead(h, s, g)
      PROVE  SettleMove(h)
  <2> DEFINE request == [Idle EXCEPT !.op = "guarantee", !.stay = s, !.guest = g]
             ready == [request EXCEPT !.pc = "commit",
                                      !.version = TransitionVersion(stays[s], "guaranteed")]
  <2>1. request \in Request /\ ready.op # "settle"
    BY IdleType DEF Request, RequestRow, Operations, Idle
  <2>2. Reply(h, request, "refused") \/ rq' = [rq EXCEPT ![h] = ready]
    BY <1>7 DEF GuaranteeRead, Refuse
  <2> HIDE DEF request, ready
  <2>3. QED
    BY <1>1, <1>2, <2>1, <2>2
<1>8. ASSUME NEW s \in StayId, NEW op \in {"check_in", "cancel", "checkout"},
             TransitionRead(h, op, s)
      PROVE  SettleMove(h)
  <2> DEFINE request == [Idle EXCEPT !.op = op, !.stay = s]
             ready == [request EXCEPT !.pc = "commit",
                                      !.version = TransitionVersion(stays[s], Target(op))]
  <2>1. request \in Request /\ ready.op # "settle"
    BY IdleType DEF Request, RequestRow, Operations, Idle
  <2>2. Reply(h, request, "refused") \/ rq' = [rq EXCEPT ![h] = ready]
    BY <1>8 DEF TransitionRead, Refuse
  <2> HIDE DEF request, ready
  <2>3. QED
    BY <1>1, <1>2, <2>1, <2>2
<1>9. ASSUME NEW s \in StayId, SettleRead(h, s)
      PROVE  SettleMove(h)
  <2> DEFINE request == [Idle EXCEPT !.op = "settle", !.stay = s]
             ready == [request EXCEPT !.pc = "sum"]
  <2>1. request \in Request /\ ready.pc = "sum" /\ ready.stay = s
    BY IdleType DEF Request, RequestRow, Operations, Idle
  <2>2. \/ Reply(h, request, "refused")
        \/ stays[s].status = "checked_out" /\ rq' = [rq EXCEPT ![h] = ready] /\ UNCHANGED stays
    BY <1>9 DEF SettleRead, Refuse, tables
  <2> HIDE DEF request, ready
  <2>3. CASE rq' = [rq EXCEPT ![h] = ready]
    BY <1>1, <2>1, <2>2, <2>3 DEF SettleMove, TypeOK
  <2>4. QED
    BY <1>1, <2>1, <2>2, <2>3
<1>10. CASE SettleSum(h)
  <2> DEFINE request == [rq[h] EXCEPT !.pc = "commit", !.paid = Succeeded(rq[h].stay)]
  <2>1. request.stay = rq[h].stay /\ request.paid = Succeeded(rq[h].stay)
    BY <1>0 DEF Request, RequestRow
  <2>2. /\ rq' = [rq EXCEPT ![h] = request] /\ UNCHANGED <<stays, payments>>
        /\ rq[h].op = "settle" /\ rq[h].pc = "sum"
    BY <1>10 DEF SettleSum, At, tables
  <2> HIDE DEF request
  <2>3. QED
    BY <2>1, <2>2 DEF SettleMove, TypeOK
<1>11. CASE \/ \E e \in Event : GuaranteeCommit(h, e)
            \/ \E op \in {"check_in", "cancel"} : TransitionCommit(h, op)
            \/ CheckoutCommit(h) \/ SettleCommit(h)
  BY <1>0, <1>1, <1>11
     DEF GuaranteeCommit, GuaranteeStay, GuaranteeConflict, TransitionCommit, TransitionStay,
         CheckoutCommit, CheckoutStay, SettleCommit, SettleConflict, CreateSettlement, Refuse
<1>12. CASE EndRequest(h)
  BY <1>2, <1>12 DEF EndRequest, Idle
<1>13. QED
  BY <1>3, <1>4, <1>5, <1>6, <1>7, <1>8, <1>9, <1>10, <1>11, <1>12 DEF HandlerStep
LEMMA StepKeepsSettleRequests ==
    ASSUME TypeOK, TypeOK', StaysMove, Reached', EventsUnique, GuaranteesSucceed,
           BackedOrBare, WriteStep, [Next]_vars, \A h \in Handler : SettleRequest(h)
    PROVE  (\A h \in Handler : SettleRequest(h))'
<1>1. \A h \in Handler : SettleMove(h)
  <2>1. ASSUME NEW h \in Handler, HandlerStep(h)
        PROVE  \A g \in Handler : SettleMove(g)
    <3>1. \A g \in Handler : g # h => rq'[g] = rq[g]
      BY <2>1, OneHandler
    <3>2. QED
      BY <2>1, <3>1, HandlerMovesSettle DEF SettleMove
  <2>2. ASSUME UNCHANGED rq
        PROVE  \A g \in Handler : SettleMove(g)
    BY <2>2 DEF SettleMove
  <2>3. QED
    BY <2>1, <2>2 DEF Next, ReceivePayment, ExpireDueHolds, UpdatePropertyStatus,
       UpdateResourceStatus, AdvanceClock, vars
<1>2. \A s \in StayId : stays[s].status \in {"checked_out", "settling"}
                        => stays'[s].status \in {"checked_out", "settling"}
  BY DEF StaysMove, StayMove, Reached, Edge
<1> SUFFICES ASSUME NEW h \in Handler
             PROVE  SettleRequest(h)'
  OBVIOUS
<1>3. rq[h] \in Request /\ rq'[h] \in Request
  BY DEF TypeOK
<1>4. /\ rq[h].op = "settle" => rq[h].stay \in StayId
      /\ rq'[h].op = "settle" => rq'[h].stay \in StayId
  BY <1>3 DEF Request
<1>5. CASE rq'[h] = rq[h]
  <2>1. rq[h].pc = "commit" /\ rq[h].op = "settle" => Covers(rq[h].stay, rq[h].paid)
    BY DEF SettleRequest
  <2>2. PICK s, E : s = rq[h].stay /\ E = rq[h].paid
    OBVIOUS
  <2>3. rq[h].pc = "commit" /\ rq[h].op = "settle" => Covers(s, E)'
    BY <2>1, <2>2, CoversGrows
  <2>4. rq[h].pc = "commit" /\ rq[h].op = "settle" => Covers(rq[h].stay, rq[h].paid)'
    BY <1>5, <2>2, <2>3 DEF Covers
  <2>5. QED
    BY <1>2, <1>4, <1>5, <2>4 DEF SettleRequest
<1>6. CASE /\ rq[h].op = "settle" /\ rq[h].pc = "sum" /\ UNCHANGED <<stays, payments>>
           /\ rq'[h].stay = rq[h].stay /\ rq'[h].paid = Succeeded(rq[h].stay)
  <2>1. stays[rq[h].stay].status \in {"checked_out", "settling"}
    BY <1>6 DEF SettleRequest
  <2>2. Covers(rq[h].stay, Succeeded(rq[h].stay))
    BY <1>4, <1>6, <2>1, SucceededCovers DEF BackedOrBare
  <2>3. Covers(rq[h].stay, rq[h].paid)'
    BY <1>6, <2>2 DEF Covers, EventTaken
  <2>4. QED
    BY <1>6, <2>1, <2>3 DEF SettleRequest
<1>7. CASE rq'[h].op # "settle" \/ rq'[h].pc = "done"
  BY <1>7 DEF SettleRequest
<1>8. CASE /\ rq'[h].pc = "sum" /\ UNCHANGED stays
           /\ stays[rq'[h].stay].status = "checked_out"
  BY <1>8 DEF SettleRequest
<1>9. QED
  BY <1>1, <1>5, <1>6, <1>7, <1>8 DEF SettleMove

LEMMA StepKeepsCoverage ==
    ASSUME TypeOK, WriteStep, CoveredSettlements, \A h \in Handler : SettleRequest(h)
    PROVE  CoveredSettlements'
<1>1. CASE UNCHANGED settlements
  BY <1>1, CoversGrows DEF CoveredSettlements
<1>2. CASE SettleStep
  <2>1. PICK h \in Handler : Commits(h, "settle") /\ CreateSettlement(h, rq[h].stay)
    BY <1>2 DEF SettleStep
  <2>2. PICK s, E : s = rq[h].stay /\ E = rq[h].paid
    OBVIOUS
  <2>3. Covers(s, E)
    BY <2>1, <2>2 DEF Commits, At, SettleRequest
  <2>4. settlements' = settlements \cup {[stay |-> s, paid |-> E]}
    BY <2>1, <2>2 DEF CreateSettlement
  <2>5. Covers(s, E)' /\ \A x \in settlements : Covers(x.stay, x.paid)'
    BY <2>3, CoversGrows DEF CoveredSettlements
  <2>6. QED
    BY <2>4, <2>5 DEF CoveredSettlements
<1>3. QED
  BY <1>1, <1>2 DEF WriteStep, tables, HoldStep, CreateHeldStay, GuaranteeStep, GuaranteeStay,
     TransitionStep, TransitionStay, CheckoutStep, CheckoutStay, PaymentStep, ReceivePayment,
     ExpireDueHolds

-----------------------------------------------------------------------------
(* The nights of a stay follow its status                                  *)

NightsAs(status) ==
    CASE status = "held" -> "held"
      [] status = "guaranteed" -> "reserved"
      [] status = "checked_in" -> "occupied"
      [] OTHER -> "released"

\* NightsFollowStay for one stay, and without the set it builds.
Follows(s) ==
    /\ stays[s].status = "none" <=> \A n \in Night : nights[s][n] = "none"
    /\ \A n \in Night : nights[s][n] # "none" => nights[s][n] = NightsAs(stays[s].status)
NightsFollow == \A s \in StayId : Follows(s)

LEMMA NightsFollowIsProperty == NightsFollow => NightsFollowStay
BY DEF NightsFollow, Follows, NightsAs, NightsFollowStay, NightsOf

LEMMA SetNightsPointwise ==
    ASSUME NEW S, NEW from, NEW to, SetNights(S, from, to)
    PROVE  \A s \in StayId, n \in Night :
              nights'[s][n] = IF s \in S /\ nights[s][n] \in from THEN to ELSE nights[s][n]
BY DEF SetNights

\* A stay that is there moves, and its nights, which are all there is of it, move too.
LEMMA StayAndNightsMove ==
    ASSUME TypeOK, NEW h \in Handler, NEW from \in SUBSET (Status \ {"none"}),
           NEW to \in Status \ {"none"}, Moves(h, from, to), Follows(rq[h].stay),
           NEW filter, SetNights({rq[h].stay}, filter, NightsAs(to)),
           filter = AnyNight \/ \A x \in from : filter = {NightsAs(x)}
    PROVE  /\ \A n \in Night : nights'[rq[h].stay][n] # "none"
                => nights'[rq[h].stay][n] = NightsAs(stays'[rq[h].stay].status)
           /\ stays'[rq[h].stay].status # "none"
           /\ \E n \in Night : nights'[rq[h].stay][n] # "none"
<1>1. PICK s \in StayId : s = rq[h].stay
  BY DEF Moves
<1>2. stays[s].status \in from /\ stays'[s].status = to
  BY <1>1 DEF Moves, OnlyMoves
<1>3. \A n \in Night :
         nights'[s][n] = IF nights[s][n] \in filter THEN NightsAs(to) ELSE nights[s][n]
  BY <1>1, SetNightsPointwise
<1>4. \A n \in Night : nights[s][n] \in NightStatus
  BY DEF TypeOK
<1>5. /\ \E n \in Night : nights[s][n] # "none"
      /\ \A n \in Night : nights[s][n] # "none" => nights[s][n] = NightsAs(stays[s].status)
  BY <1>1, <1>2 DEF Follows
<1>6. \A x : NightsAs(x) \in AnyNight
  BY DEF NightsAs, AnyNight, NightStatus
<1>7. \A n \in Night : nights[s][n] # "none" <=> nights[s][n] \in filter
  <2>1. CASE filter = AnyNight
    BY <1>4, <2>1 DEF AnyNight
  <2>2. CASE filter = {NightsAs(stays[s].status)}
    BY <1>5, <1>6, <2>2 DEF AnyNight
  <2>3. QED
    BY <1>2, <2>1, <2>2
<1>8. \A n \in Night : nights'[s][n] # "none" <=> nights[s][n] # "none"
  BY <1>3, <1>6, <1>7 DEF AnyNight
<1>9. QED
  BY <1>1, <1>2, <1>3, <1>5, <1>7, <1>8

LEMMA StepKeepsNights ==
    ASSUME TypeOK, NightsFollow, Reached, \A h \in Handler : HoldRequest(h), WriteStep
    PROVE  NightsFollow'
<1>1. ASSUME NEW h \in Handler, NEW from \in SUBSET (Status \ {"none"}),
             NEW to \in Status \ {"none"}, Moves(h, from, to), NEW filter,
             SetNights({rq[h].stay}, filter, NightsAs(to)),
             filter = AnyNight \/ \A x \in from : filter = {NightsAs(x)}
      PROVE  NightsFollow'
  <2>1. PICK s \in StayId : s = rq[h].stay
    BY <1>1 DEF Moves
  <2>2. /\ \A n \in Night : nights'[s][n] # "none" => nights'[s][n] = NightsAs(stays'[s].status)
        /\ stays'[s].status # "none"
        /\ \E n \in Night : nights'[s][n] # "none"
    BY <1>1, <2>1, StayAndNightsMove DEF NightsFollow
  <2>3. \A u \in StayId : u # s =>
           stays'[u] = stays[u] /\ \A n \in Night : nights'[u][n] = nights[u][n]
    BY <1>1, <2>1, SetNightsPointwise DEF Moves, OnlyMoves
  <2>4. QED
    BY <2>2, <2>3 DEF NightsFollow, Follows
<1>2. CASE UNCHANGED <<stays, nights>>
  BY <1>2 DEF NightsFollow, Follows
<1>3. CASE HoldStep
  <2>1. PICK h \in Handler, s \in StayId : At(h, "hold", "commit") /\ CreateHeldStay(h, s)
    BY <1>3 DEF HoldStep
  <2>2. rq[h].nights # {} /\ rq[h].nights \subseteq Night
    BY <2>1 DEF At, HoldRequest, TypeOK, Request, RequestRow
  <2>3. /\ stays'[s].status = "held"
        /\ \A n \in Night : nights'[s][n] = IF n \in rq[h].nights THEN "held" ELSE "none"
        /\ \A u \in StayId : u # s => stays'[u] = stays[u] /\ nights'[u] = nights[u]
    BY <2>1 DEF CreateHeldStay, TypeOK
  <2>4. Follows(s)'
    BY <2>2, <2>3 DEF Follows, NightsAs
  <2>5. QED
    BY <2>3, <2>4 DEF NightsFollow, Follows
<1>4. CASE GuaranteeStep
  <2>1. PICK h \in Handler, e \in Event :
           GuaranteeStay(h, rq[h].stay, e) /\ Moves(h, {"held"}, "guaranteed")
    BY <1>4, GuaranteeMoves
  <2>2. /\ NightsAs("guaranteed") = "reserved" /\ NightsAs("held") = "held"
        /\ {"held"} \in SUBSET (Status \ {"none"}) /\ "guaranteed" \in Status \ {"none"}
    BY DEF NightsAs, Status
  <2>3. SetNights({rq[h].stay}, {"held"}, NightsAs("guaranteed"))
    BY <2>1, <2>2 DEF GuaranteeStay
  <2>4. \A x \in {"held"} : {"held"} = {NightsAs(x)}
    BY <2>2
  <2>5. QED
    BY <1>1, <2>1, <2>2, <2>3, <2>4
<1>5. CASE TransitionStep
  <2>1. PICK h \in Handler, op \in {"check_in", "cancel"} :
           TransitionStay(h, op, rq[h].stay) /\ Moves(h, Leaves(op), Target(op))
    BY <1>5, TransitionMoves
  <2>2. Leaves(op) \in SUBSET (Status \ {"none"}) /\ Target(op) \in Status \ {"none"}
    BY <2>1 DEF Leaves, Target, Status
  <2>3. NightsAs(Target(op)) = IF op = "cancel" THEN "released" ELSE "occupied"
    BY <2>1 DEF NightsAs, Target
  <2>4. SetNights({rq[h].stay}, AnyNight, NightsAs(Target(op)))
    BY <2>1, <2>3 DEF TransitionStay
  <2>5. QED
    BY <1>1, <2>1, <2>2, <2>4
<1>6. CASE CheckoutStep
  <2>1. PICK h \in Handler :
           CheckoutStay(h, rq[h].stay) /\ Moves(h, {"checked_in"}, "checked_out")
    BY <1>6, CheckoutMoves
  <2>2. /\ NightsAs("checked_out") = "released"
        /\ {"checked_in"} \in SUBSET (Status \ {"none"}) /\ "checked_out" \in Status \ {"none"}
    BY DEF NightsAs, Status
  <2>3. SetNights({rq[h].stay}, AnyNight, NightsAs("checked_out"))
    BY <2>1, <2>2 DEF CheckoutStay
  <2>4. QED
    BY <1>1, <2>1, <2>2, <2>3
<1>7. CASE SettleStep
  <2>1. PICK h \in Handler :
           CreateSettlement(h, rq[h].stay) /\ Moves(h, {"checked_out"}, "settling")
    BY <1>7, SettleMoves
  <2>2. NightsAs("settling") = NightsAs("checked_out") /\ UNCHANGED nights
    BY <2>1 DEF NightsAs, CreateSettlement
  <2>3. QED
    BY <2>1, <2>2 DEF Moves, OnlyMoves, NightsFollow, Follows
<1>8. CASE ExpireDueHolds
  <2>1. PICK D \in SUBSET {s \in StayId : Due(s)} :
           /\ stays' = [s \in StayId |->
                 IF s \in D THEN Moved(stays[s], "expired", NoExpiry) ELSE stays[s]]
           /\ SetNights(D, {"held"}, "released")
    BY <1>8 DEF ExpireDueHolds
  <2>2. ASSUME NEW s \in StayId
        PROVE  Follows(s)'
    <3>1. \A n \in Night :
             nights'[s][n] = IF s \in D /\ nights[s][n] = "held" THEN "released" ELSE nights[s][n]
      BY <2>1, SetNightsPointwise
    <3>2. CASE s \in D
      <4>1. stays[s].status = "held" /\ stays'[s].status = "expired"
        BY <2>1, <3>2, MovedFields DEF Due, TypeOK
      <4>2. /\ NightsAs("held") = "held" /\ NightsAs("expired") = "released"
            /\ Follows(s)
        BY DEF NightsAs, NightsFollow
      <4>3. QED
        BY <3>1, <3>2, <4>1, <4>2 DEF Follows
    <3>3. CASE s \notin D
      BY <2>1, <3>1, <3>3 DEF NightsFollow, Follows
    <3>4. QED
      BY <3>2, <3>3
  <2>3. QED
    BY <2>2 DEF NightsFollow
<1>9. QED
  BY <1>2, <1>3, <1>4, <1>5, <1>6, <1>7, <1>8 DEF WriteStep, PaymentStep, ReceivePayment, tables
-----------------------------------------------------------------------------
(* The inductive invariant and the theorems                                *)

\* What holds of the rows, and of the requests together with the rows.
TablesAgree ==
    /\ Reached /\ NoKeyWhenAbsent /\ KeysUnique
    /\ BackedOrBare /\ NightsFollow
    /\ CleanedOnce /\ SettledOnce
    /\ EventsUnique /\ GuaranteesSucceed /\ CoveredSettlements
RequestsAgree ==
    /\ OneWriterPerVersion
    /\ \A h \in Handler : HoldRequest(h) /\ SettleRequest(h)

LEMMA InitTables == Init => TablesAgree /\ RequestsAgree
<1> SUFFICES ASSUME Init PROVE TablesAgree /\ RequestsAgree
  OBVIOUS
<1>1. /\ \A s \in StayId : stays[s] = NoStay /\ \A n \in Night : nights[s][n] = "none"
      /\ \A s \in StayId : cleanings[s] = 0
      /\ identities = {} /\ payments = {} /\ settlements = {}
      /\ \A h \in Handler : rq[h] = Idle
  BY DEF Init
<1>2. NoStay.status = "none" /\ NoStay.key = None /\ NoStay.version = 0
  BY DEF NoStay
<1>3. Idle.op = "none" /\ Idle.result = "none"
  BY DEF Idle
<1>4. Reached /\ NoKeyWhenAbsent /\ KeysUnique
  BY <1>1, <1>2 DEF Reached, NoKeyWhenAbsent, KeysUnique
<1>5. BackedOrBare /\ EventsUnique /\ GuaranteesSucceed /\ CoveredSettlements
  BY <1>1, <1>2 DEF BackedOrBare, Bare, EventsUnique, GuaranteesSucceed,
     CoveredSettlements
<1>6. NightsFollow
  BY <1>1, <1>2 DEF NightsFollow, Follows
<1>7. CleanedOnce
  BY <1>1, <1>2 DEF CleanedOnce
<1>8. SettledOnce
  <2>1. {s \in StayId : stays[s].status = "settling"} = {}
    BY <1>1, <1>2
  <2>2. QED
    BY <1>1, <2>1 DEF SettledOnce
<1>9. RequestsAgree
  BY <1>1, <1>3 DEF RequestsAgree, OneWriterPerVersion, HoldRequest, SettleRequest
<1>10. QED
  BY <1>4, <1>5, <1>6, <1>7, <1>8, <1>9 DEF TablesAgree

LEMMA StepKeepsTables ==
    TypeOK /\ Versions /\ TablesAgree /\ RequestsAgree /\ [Next]_vars
    => TablesAgree' /\ RequestsAgree'
<1> SUFFICES ASSUME TypeOK, Versions, TablesAgree, RequestsAgree, [Next]_vars
             PROVE  TablesAgree' /\ RequestsAgree'
  OBVIOUS
<1>1. TypeOK' /\ WriteStep /\ StaysMove
  BY NextType, NextWrites, MovesStep DEF Versions
<1>2. NoKeyWhenAbsent'
  BY <1>1, StaysGrow DEF TablesAgree, NoKeyWhenAbsent
<1>3. Reached' /\ KeysUnique' /\ BackedOrBare' /\ NightsFollow'
  BY <1>1, StepKeepsReached, StepKeepsKeys, StepKeepsBacked, StepKeepsNights
     DEF TablesAgree, RequestsAgree, Versions
<1>4. /\ CleanedOnce' /\ SettledOnce'
      /\ EventsUnique' /\ GuaranteesSucceed' /\ CoveredSettlements'
  BY <1>1, StepKeepsCleaned, StepKeepsSettled, StepKeepsEvents, StepKeepsCoverage
     DEF TablesAgree, RequestsAgree, Versions
<1>5. OneWriterPerVersion'
  BY <1>1, StepKeepsOneWriter DEF RequestsAgree
<1>6. (\A h \in Handler : HoldRequest(h))'
  BY <1>1, StepKeepsHoldRequests DEF TablesAgree, RequestsAgree
<1>7. (\A h \in Handler : SettleRequest(h))'
  BY <1>1, <1>3, StepKeepsSettleRequests DEF TablesAgree, RequestsAgree
<1>8. QED
  BY <1>2, <1>3, <1>4, <1>5, <1>6, <1>7 DEF TablesAgree, RequestsAgree

\* The tables agree with one another and with what the requests were told, in every
\* reachable state: the invariant from which the theorems below follow.
THEOREM TablesHold == Spec => [](TablesAgree /\ RequestsAgree)
<1>1. QED
  BY InitTables, StepKeepsTables, TypeCorrect, VersionsHold, PTL DEF Spec

\* The statements that update stays and stay_nights with different filters never leave
\* them disagreeing.
THEOREM NightsFollowStayHolds == Spec => []NightsFollowStay
<1>1. TablesAgree => NightsFollowStay
  BY NightsFollowIsProperty DEF TablesAgree
<1>2. QED
  BY <1>1, TablesHold, PTL

\* A stay past the hold has its guest's identity check and the one payment of its guarantee, a
\* stay that lapsed has neither, whatever sweeps, cancellations and callbacks of any kind and
\* status come between GetStay and GuaranteeStay, or before and after.
THEOREM GuaranteeIsBackedHolds == Spec => []GuaranteeIsBacked
<1>1. TablesAgree => GuaranteeIsBacked
  BY BackedOrBareIsProperty DEF TablesAgree
<1>2. QED
  BY <1>1, TablesHold, PTL

\* Any number of concurrent check-outs and settlements of a stay create one cleaning task and
\* one settlement.
THEOREM LeavesOnceHolds == Spec => []LeavesOnce
<1>1. TablesAgree => LeavesOnce
  BY DEF TablesAgree, LeavesOnce
<1>2. QED
  BY <1>1, TablesHold, PTL

\* A settlement counts the payment of the guarantee and only succeeded payments of its own stay,
\* although the sum is read outside the transaction that inserts the settlement and callbacks
\* of every kind and status go on.
THEOREM SettlementIsBackedHolds == Spec => []SettlementIsBacked
<1>1. TablesAgree => SettlementIsBacked
  BY DEF TablesAgree, CoveredSettlements, Covers, SettlementIsBacked
<1>2. QED
  BY <1>1, TablesHold, PTL

\* Of the requests that read one version of a stay at most one is told that it succeeded.
THEOREM OneWriterPerVersionHolds == Spec => []OneWriterPerVersion
<1>1. RequestsAgree => OneWriterPerVersion
  BY DEF RequestsAgree
<1>2. QED
  BY <1>1, TablesHold, PTL

\* Holds that succeed under one idempotency key return one stay: the key check answers with
\* the stay that has the key, and the transaction inserts a key that no stay has.
THEOREM HoldIsIdempotentHolds == Spec => []HoldIsIdempotent
<1>1. TypeOK /\ TablesAgree /\ RequestsAgree => HoldIsIdempotent
  <2> SUFFICES ASSUME TypeOK, TablesAgree, RequestsAgree, NEW g \in Handler, NEW h \in Handler,
                      rq[g].op = "hold", rq[h].op = "hold",
                      rq[g].result = "ok", rq[h].result = "ok", rq[g].key = rq[h].key
               PROVE  rq[g].stay = rq[h].stay
    BY DEF HoldIsIdempotent
  <2>1. /\ rq[g].stay \in StayId /\ stays[rq[g].stay].key = rq[g].key
        /\ rq[h].stay \in StayId /\ stays[rq[h].stay].key = rq[h].key
    BY DEF RequestsAgree, HoldRequest
  <2>2. rq[g].key # None
    BY BookingAssumption DEF TypeOK, Request
  <2>3. QED
    BY <2>1, <2>2 DEF TablesAgree, KeysUnique
<1>2. QED
  BY <1>1, TablesHold, TypeCorrect, PTL

-----------------------------------------------------------------------------
(* The refinement of StayLedger                                            *)

\* The stays that own their nights, by status.
InHouse == {"held", "guaranteed", "checked_in"}

Slot == Resource \X Night
Owns(s, x) == stays[s].resource = x[1] /\ nights[s][x[2]] \in Holding
\* Stay s has a row for the slot, which is released or not.
HasRow(s, x) == stays[s].resource = x[1] /\ nights[s][x[2]] # "none"

\* What the steps of Booking preserve, and all that the ledger's steps rest on.
Good == TypeOK /\ OneRowPerNight /\ Versions /\ TablesAgree /\ RequestsAgree

-----------------------------------------------------------------------------
(* Who owns a night                                                        *)

\* The statuses of a stay and of its nights agree, so that the first one decides.
LEMMA OwnsByStatus ==
    NightsFollow =>
        \A s \in StayId : \A x \in Slot :
            Owns(s, x) <=> HasRow(s, x) /\ stays[s].status \in InHouse
<1> SUFFICES ASSUME NightsFollow, NEW s \in StayId, NEW x \in Slot
             PROVE  Owns(s, x) <=> HasRow(s, x) /\ stays[s].status \in InHouse
  OBVIOUS
<1>1. x[2] \in Night /\ Follows(s)
  BY DEF Slot, NightsFollow
<1>2. QED
  BY <1>1 DEF Follows, NightsAs, Owns, HasRow, InHouse, Holding

\* At most one stay has a row for a slot, so ownerBar is its owner.
LEMMA OwnerValue ==
    OneRowPerNight =>
        \A x \in Slot :
            /\ ownerBar[x] \in StayId \cup {None}
            /\ \A s \in StayId : ownerBar[x] = s <=> Owns(s, x)
<1> SUFFICES ASSUME OneRowPerNight, NEW x \in Slot
             PROVE  /\ ownerBar[x] \in StayId \cup {None}
                    /\ \A s \in StayId : ownerBar[x] = s <=> Owns(s, x)
  OBVIOUS
<1>1. x[1] \in Resource /\ x[2] \in Night
  BY DEF Slot
<1>2. \A s \in StayId : s \in Owners(x[1], x[2]) <=> Owns(s, x)
  BY DEF Owners, Owns
<1>3. ownerBar[x] = IF Owners(x[1], x[2]) = {} THEN None
                    ELSE CHOOSE s \in Owners(x[1], x[2]) : TRUE
  BY DEF ownerBar, Slot
<1>4. None \notin StayId
  BY BookingAssumption
<1>5. Owners(x[1], x[2]) \subseteq StayId
  BY DEF Owners
<1>6. CASE Owners(x[1], x[2]) = {}
  BY <1>2, <1>3, <1>4, <1>6
<1>7. CASE Owners(x[1], x[2]) # {}
  <2>1. ownerBar[x] \in Owners(x[1], x[2])
    BY <1>3, <1>7
  <2>2. PICK o \in StayId : o = ownerBar[x] /\ Owns(o, x)
    BY <1>2, <1>5, <2>1
  <2>3. ASSUME NEW s \in StayId, Owns(s, x) PROVE s = o
    BY <1>1, <2>2, <2>3 DEF Owns, OneRowPerNight, Holding
  <2>4. QED
    BY <2>2, <2>3
<1>8. QED
  BY <1>6, <1>7

LEMMA OwnerValueNext ==
    (OneRowPerNight =>
        \A x \in Slot :
            /\ ownerBar[x] \in StayId \cup {None}
            /\ \A s \in StayId : ownerBar[x] = s <=> Owns(s, x))'
  BY OwnerValue, PTL

LEMMA OwnerIsFunction == ownerBar = [x \in Slot |-> ownerBar[x]]
  BY DEF ownerBar, Slot

\* A step that keeps the rows leaves a slot to its owner, unless the owner goes out.
LEMMA OwnersAfter ==
    ASSUME Good, Good', RowsKept, NEW S \in SUBSET StayId,
           \A s \in StayId :
               stays'[s].status \in InHouse <=> stays[s].status \in InHouse /\ s \notin S
    PROVE  ownerBar' = [x \in Slot |-> IF ownerBar[x] \in S THEN None ELSE ownerBar[x]]
<1>1. (NightsFollow /\ OneRowPerNight) /\ (NightsFollow /\ OneRowPerNight)'
  BY DEF Good, TablesAgree
<1>2. \A x \in Slot :
         /\ ownerBar[x] \in StayId \cup {None}
         /\ \A s \in StayId : ownerBar[x] = s <=> HasRow(s, x) /\ stays[s].status \in InHouse
  BY <1>1, OwnerValue, OwnsByStatus
<1>3. (\A x \in Slot :
         /\ ownerBar[x] \in StayId \cup {None}
         /\ \A s \in StayId : ownerBar[x] = s <=> HasRow(s, x) /\ stays[s].status \in InHouse)'
  <2>1. (NightsFollow =>
        \A s \in StayId : \A x \in Slot :
            Owns(s, x) <=> HasRow(s, x) /\ stays[s].status \in InHouse)'
    BY OwnsByStatus, PTL
  <2>2. QED
    BY <1>1, <2>1, OwnerValueNext
<1>4. \A s \in StayId : \A x \in Slot : HasRow(s, x)' <=> HasRow(s, x)
  BY DEF RowsKept, HasRow, Slot
<1>5. None \notin StayId
  BY BookingAssumption
<1>6. \A x \in Slot : ownerBar'[x] = IF ownerBar[x] \in S THEN None ELSE ownerBar[x]
  <2> SUFFICES ASSUME NEW x \in Slot
               PROVE  ownerBar'[x] = IF ownerBar[x] \in S THEN None ELSE ownerBar[x]
    OBVIOUS
  <2>1. ownerBar'[x] \in StayId \cup {None}
    BY <1>3
  <2>2. \A s \in StayId : ownerBar'[x] = s <=> ownerBar[x] = s /\ s \notin S
    BY <1>2, <1>3, <1>4
  <2>3. QED
    BY <1>2, <1>5, <2>1, <2>2
<1>7. ownerBar' = [x \in Slot |-> ownerBar'[x]]
  BY DEF ownerBar, Slot
<1>8. QED
  BY <1>6, <1>7

\* No slot changes hands when all stays remain in the house, or remain outside.
LEMMA OwnersStay ==
    ASSUME Good, Good', RowsKept,
           \A s \in StayId : stays'[s].status \in InHouse <=> stays[s].status \in InHouse
    PROVE  ownerBar' = ownerBar
<1>1. PICK S \in SUBSET StayId : S = {}
  OBVIOUS
<1>2. \A s \in StayId : stays'[s].status \in InHouse <=> stays[s].status \in InHouse /\ s \notin S
  BY <1>1
<1>3. ownerBar' = [x \in Slot |-> IF ownerBar[x] \in S THEN None ELSE ownerBar[x]]
  BY <1>2, OwnersAfter
<1>4. QED
  BY <1>1, <1>3, OwnerIsFunction
-----------------------------------------------------------------------------
(* The steps                                                               *)

\* The stays in S go from one phase to another, and no others move.
PhaseStep(S, to) ==
    \A s \in StayId : stays'[s].status = IF s \in S THEN to ELSE stays[s].status

LEMMA PhaseAfter ==
    ASSUME NEW S, NEW to, PhaseStep(S, to)
    PROVE  phaseBar' = [s \in StayId |-> IF s \in S THEN to ELSE phaseBar[s]]
  BY DEF PhaseStep, phaseBar

LEMMA MoveIsPhaseStep ==
    ASSUME NEW h \in Handler, NEW from, NEW to, Moves(h, from, to)
    PROVE  /\ PhaseStep({rq[h].stay}, to)
           /\ phaseBar[rq[h].stay] \in from
           /\ phaseBar' = [phaseBar EXCEPT ![rq[h].stay] = to]
<1>1. PhaseStep({rq[h].stay}, to) /\ phaseBar[rq[h].stay] \in from /\ rq[h].stay \in StayId
  BY DEF Moves, OnlyMoves, PhaseStep, phaseBar
<1>2. phaseBar' = [s \in StayId |-> IF s \in {rq[h].stay} THEN to ELSE phaseBar[s]]
  BY <1>1, PhaseAfter
<1>3. QED
  BY <1>1, <1>2 DEF phaseBar

\* A stay of the house moves within it: the owners remain.
LEMMA MoveWithin ==
    ASSUME Good, Good', RowsKept, NEW S \in SUBSET StayId, NEW to, PhaseStep(S, to),
           to \in InHouse, \A s \in S : stays[s].status \in InHouse
    PROVE  ownerBar' = ownerBar
<1>1. \A s \in StayId : stays'[s].status \in InHouse <=> stays[s].status \in InHouse
  BY DEF PhaseStep
<1>2. QED
  BY <1>1, OwnersStay

\* The stays in S leave the house, as Release does.
LEMMA MoveOut ==
    ASSUME Good, Good', RowsKept, NEW S \in SUBSET StayId, NEW to, PhaseStep(S, to),
           to \notin InHouse
    PROVE  ownerBar' = [x \in Slot |-> IF ownerBar[x] \in S THEN None ELSE ownerBar[x]]
<1>1. \A s \in StayId : stays'[s].status \in InHouse <=> stays[s].status \in InHouse /\ s \notin S
  BY DEF PhaseStep
<1>2. QED
  BY <1>1, OwnersAfter

LEMMA SecuredStays ==
    ASSUME UNCHANGED <<identities, payments>>
    PROVE  securedBar' = securedBar
  BY DEF securedBar

\* The insert of a hold takes free slots only, at least one, and all of one resource.
LEMMA HoldRefines ==
    ASSUME Good, Good', HoldStep
    PROVE  Ledger!LedgerNext
<1>1. PICK h \in Handler, s \in StayId : At(h, "hold", "commit") /\ CreateHeldStay(h, s)
  BY DEF HoldStep
<1>2. PICK r \in Resource, ns \in SUBSET Night : r = rq[h].resource /\ ns = rq[h].nights /\ ns # {}
  <2>1. rq[h] \in Request
    BY DEF Good, TypeOK
  <2>2. rq[h].resource \in Resource /\ rq[h].nights \in SUBSET Night
    BY <1>1, <2>1 DEF Request, RequestRow, At
  <2>3. rq[h].nights # {}
    BY <1>1 DEF Good, RequestsAgree, HoldRequest, At
  <2>4. QED
    BY <2>2, <2>3
<1>3. /\ \A t \in StayId : t # s => stays'[t] = stays[t] /\ nights'[t] = nights[t]
      /\ stays[s].status = "none" /\ stays'[s].status = "held" /\ stays'[s].resource = r
      /\ \A n \in Night : nights'[s][n] = IF n \in ns THEN "held" ELSE "none"
  BY <1>1, <1>2 DEF CreateHeldStay, Good, TypeOK
<1>4. /\ phaseBar[s] = "none"
      /\ phaseBar' = [phaseBar EXCEPT ![s] = "held"]
  BY <1>3 DEF phaseBar
<1>5. \A t \in StayId : \A x \in Slot :
         Owns(t, x)' <=> IF t = s THEN x[1] = r /\ x[2] \in ns ELSE Owns(t, x)
  BY <1>3 DEF Owns, Slot, Holding
<1>6. \A x \in Slot : ~Owns(s, x)
  BY <1>3 DEF Good, TablesAgree, NightsFollow, Follows, Owns, Slot, Holding
<1>7. \A x \in Slot : /\ ownerBar[x] \in StayId \cup {None}
                       /\ \A t \in StayId : ownerBar[x] = t <=> Owns(t, x)
  BY OwnerValue DEF Good
<1>8. \A x \in Slot : /\ ownerBar'[x] \in StayId \cup {None}
                       /\ \A t \in StayId : ownerBar'[x] = t <=> Owns(t, x)'
  BY OwnerValueNext DEF Good
<1>9. None \notin StayId
  BY BookingAssumption
<1>10. \A n \in ns : ownerBar[<<r, n>>] = None
  <2>1. \A n \in ns : \A t \in StayId : ~Owns(t, <<r, n>>)
    BY <1>1, <1>2 DEF CreateHeldStay, NightTaken, Owns, Holding
  <2>2. QED
    BY <1>2, <1>7, <2>1 DEF Slot
<1>11. \A x \in Slot : ownerBar'[x] = IF x[1] = r /\ x[2] \in ns THEN s ELSE ownerBar[x]
  BY <1>5, <1>6, <1>7, <1>8, <1>9
<1>12. ownerBar' = [x \in Resource \X Night |->
                       IF x[1] = r /\ x[2] \in ns THEN s ELSE ownerBar[x]]
  <2>1. ownerBar' = [x \in Slot |-> ownerBar'[x]]
    BY DEF ownerBar, Slot
  <2>2. QED
    BY <1>11, <2>1 DEF Slot
<1>13. securedBar' = securedBar
  BY <1>1, SecuredStays DEF CreateHeldStay
<1>14. Ledger!Hold(s, r, ns)
  BY <1>4, <1>10, <1>12, <1>13 DEF Ledger!Hold
<1>15. ns \in (SUBSET Night) \ {{}}
  BY <1>2
<1>16. QED
  BY <1>14, <1>15 DEF Ledger!LedgerNext

\* A stay is secured in the step that guarantees it, and no other stay is.
LEMMA GuaranteeRefines ==
    ASSUME Good, Good', RowsKept, GuaranteeStep
    PROVE  Ledger!LedgerNext
<1>1. PICK h \in Handler, e \in Event :
         /\ rq[h].guest \in Guest
         /\ GuaranteeStay(h, rq[h].stay, e)
         /\ Moves(h, {"held"}, "guaranteed")
  BY GuaranteeMoves DEF Good
<1>2. PICK s \in StayId : s = rq[h].stay
  BY <1>1 DEF Moves
<1>3. /\ phaseBar[s] = "held" /\ phaseBar' = [phaseBar EXCEPT ![s] = "guaranteed"]
      /\ PhaseStep({s}, "guaranteed")
  <2>1. /\ PhaseStep({rq[h].stay}, "guaranteed") /\ phaseBar[rq[h].stay] \in {"held"}
        /\ phaseBar' = [phaseBar EXCEPT ![rq[h].stay] = "guaranteed"]
    BY <1>1, MoveIsPhaseStep
  <2>2. QED
    BY <1>2, <2>1
<1>4. ownerBar' = ownerBar
  <2>1. \A t \in {s} : stays[t].status \in InHouse
    BY <1>2, <1>3 DEF phaseBar, InHouse
  <2>2. QED
    BY <1>3, <2>1, MoveWithin DEF InHouse
<1>5. securedBar' = securedBar \cup {s}
  <2>1. /\ identities' = identities \cup {<<s, rq[h].guest>>}
        /\ payments' = payments \cup
              {[event |-> e, stay |-> s, kind |-> "guarantee", status |-> "succeeded",
                by |-> "guarantee"]}
    BY <1>1, <1>2 DEF GuaranteeStay, IdentityRow
  <2>2. ASSUME NEW t \in StayId
        PROVE  t \in securedBar' <=> t \in securedBar \/ t = s
    <3>1. (\E g \in Guest : <<t, g>> \in identities')
          <=> (\E g \in Guest : <<t, g>> \in identities) \/ t = s
      BY <1>1, <2>1
    <3>2. (\E p \in payments' : p.stay = t /\ p.by = "guarantee")
          <=> (\E p \in payments : p.stay = t /\ p.by = "guarantee") \/ t = s
      <4>1. PICK q : /\ q = [event |-> e, stay |-> s, kind |-> "guarantee",
                             status |-> "succeeded", by |-> "guarantee"]
                     /\ payments' = payments \cup {q}
        BY <2>1
      <4>2. q.stay = s /\ q.by = "guarantee"
        BY <4>1
      <4>3. QED
        BY <4>1, <4>2
    <3>3. QED
      BY <3>1, <3>2 DEF securedBar
  <2>3. QED
    BY <2>2 DEF securedBar
<1>6. Ledger!Guarantee(s)
  BY <1>3, <1>4, <1>5 DEF Ledger!Guarantee
<1>7. QED
  BY <1>6 DEF Ledger!LedgerNext

\* Check-in keeps the nights of the stay, cancelling gives them back.
LEMMA TransitionRefines ==
    ASSUME Good, Good', RowsKept, TransitionStep
    PROVE  Ledger!LedgerNext
<1>1. PICK h \in Handler, op \in {"check_in", "cancel"} :
         TransitionStay(h, op, rq[h].stay) /\ Moves(h, Leaves(op), Target(op))
  BY TransitionMoves DEF Good
<1>2. PICK s \in StayId : s = rq[h].stay
  BY <1>1 DEF Moves
<1>3. /\ phaseBar[s] \in Leaves(op) /\ phaseBar' = [phaseBar EXCEPT ![s] = Target(op)]
      /\ PhaseStep({s}, Target(op))
  BY <1>1, <1>2, MoveIsPhaseStep
<1>4. phaseBar[s] \notin {"inquiry", "relocated"} /\ phaseBar[s] = stays[s].status
  BY DEF Good, TablesAgree, Reached, phaseBar
<1>5. securedBar' = securedBar
  BY <1>1, SecuredStays DEF TransitionStay
<1>6. CASE op = "check_in"
  <2>1. phaseBar[s] = "guaranteed" /\ Target(op) = "checked_in"
    BY <1>3, <1>4, <1>6 DEF Leaves, Target
  <2>2. ownerBar' = ownerBar
    <3>1. PhaseStep({s}, "checked_in") /\ \A t \in {s} : stays[t].status \in InHouse
      BY <1>3, <1>4, <2>1 DEF InHouse
    <3>2. QED
      BY <3>1, MoveWithin DEF InHouse
  <2>3. Ledger!Proceed(s, "guaranteed", "checked_in")
    BY <1>3, <1>5, <2>1, <2>2 DEF Ledger!Proceed
  <2>4. QED
    BY <2>3 DEF Ledger!LedgerNext
<1>7. CASE op = "cancel"
  <2>1. phaseBar[s] \in {"held", "guaranteed"} /\ Target(op) = "cancelled"
    BY <1>3, <1>4, <1>7 DEF Leaves, Target
  <2>2. ownerBar' = [x \in Slot |-> IF ownerBar[x] \in {s} THEN None ELSE ownerBar[x]]
    BY <1>3, <2>1, MoveOut DEF InHouse
  <2>3. phaseBar' = [t \in StayId |-> IF t \in {s} THEN "cancelled" ELSE phaseBar[t]]
    BY <1>3, <2>1, PhaseAfter
  <2>4. Ledger!Release({s}, {"held", "guaranteed"}, "cancelled")
    BY <1>5, <2>1, <2>2, <2>3 DEF Ledger!Release, Slot
  <2>5. QED
    BY <2>4 DEF Ledger!LedgerNext
<1>8. QED
  BY <1>6, <1>7

\* Check-out gives the nights of the stay back.
LEMMA CheckoutRefines ==
    ASSUME Good, Good', RowsKept, CheckoutStep
    PROVE  Ledger!LedgerNext
<1>1. PICK h \in Handler :
         CheckoutStay(h, rq[h].stay) /\ Moves(h, {"checked_in"}, "checked_out")
  BY CheckoutMoves DEF Good
<1>2. PICK s \in StayId : s = rq[h].stay
  BY <1>1 DEF Moves
<1>3. phaseBar[s] = "checked_in" /\ PhaseStep({s}, "checked_out")
  BY <1>1, <1>2, MoveIsPhaseStep
<1>4. ownerBar' = [x \in Slot |-> IF ownerBar[x] \in {s} THEN None ELSE ownerBar[x]]
  BY <1>3, MoveOut DEF InHouse
<1>5. phaseBar' = [t \in StayId |-> IF t \in {s} THEN "checked_out" ELSE phaseBar[t]]
  BY <1>3, PhaseAfter
<1>6. securedBar' = securedBar
  BY <1>1, SecuredStays DEF CheckoutStay
<1>7. Ledger!Release({s}, {"checked_in"}, "checked_out")
  BY <1>3, <1>4, <1>5, <1>6 DEF Ledger!Release, Slot
<1>8. QED
  BY <1>7 DEF Ledger!LedgerNext

\* A settlement touches no night.
LEMMA SettleRefines ==
    ASSUME Good, Good', RowsKept, SettleStep
    PROVE  Ledger!LedgerNext
<1>1. PICK h \in Handler :
         CreateSettlement(h, rq[h].stay) /\ Moves(h, {"checked_out"}, "settling")
  BY SettleMoves DEF Good
<1>2. PICK s \in StayId : s = rq[h].stay
  BY <1>1 DEF Moves
<1>3. /\ phaseBar[s] = "checked_out" /\ phaseBar' = [phaseBar EXCEPT ![s] = "settling"]
      /\ PhaseStep({s}, "settling")
  <2>1. /\ PhaseStep({rq[h].stay}, "settling") /\ phaseBar[rq[h].stay] \in {"checked_out"}
        /\ phaseBar' = [phaseBar EXCEPT ![rq[h].stay] = "settling"]
    BY <1>1, MoveIsPhaseStep
  <2>2. QED
    BY <1>2, <2>1
<1>4. ownerBar' = ownerBar
  <2>1. \A t \in StayId : stays'[t].status \in InHouse <=> stays[t].status \in InHouse
    BY <1>3 DEF PhaseStep, phaseBar, InHouse
  <2>2. QED
    BY <2>1, OwnersStay
<1>5. securedBar' = securedBar
  BY <1>1, SecuredStays DEF CreateSettlement
<1>6. Ledger!Proceed(s, "checked_out", "settling")
  BY <1>3, <1>4, <1>5 DEF Ledger!Proceed
<1>7. QED
  BY <1>6 DEF Ledger!LedgerNext

\* The holds a sweep takes end in one step.
LEMMA SweepRefines ==
    ASSUME Good, Good', RowsKept, ExpireDueHolds
    PROVE  Ledger!LedgerNext
<1>1. PICK D \in SUBSET {s \in StayId : Due(s)} :
         /\ D # {}
         /\ stays' = [s \in StayId |->
               IF s \in D THEN Moved(stays[s], "expired", NoExpiry) ELSE stays[s]]
         /\ UNCHANGED <<identities, payments>>
  BY DEF ExpireDueHolds
<1>2. D \in SUBSET StayId /\ \A s \in D : phaseBar[s] = "held"
  BY DEF Due, phaseBar
<1>3. PhaseStep(D, "expired")
  <2>1. \A s \in StayId : stays[s] \in StayRow
    BY DEF Good, TypeOK
  <2>2. QED
    BY <1>1, <2>1, MovedFields DEF PhaseStep
<1>4. ownerBar' = [x \in Slot |-> IF ownerBar[x] \in D THEN None ELSE ownerBar[x]]
  BY <1>2, <1>3, MoveOut DEF InHouse
<1>5. phaseBar' = [t \in StayId |-> IF t \in D THEN "expired" ELSE phaseBar[t]]
  BY <1>3, PhaseAfter
<1>6. securedBar' = securedBar
  BY <1>1, SecuredStays
<1>7. Ledger!Release(D, {"held"}, "expired")
  BY <1>1, <1>2, <1>4, <1>5, <1>6 DEF Ledger!Release, Slot
<1>8. QED
  BY <1>2, <1>7 DEF Ledger!LedgerNext

\* A callback secures no stay, whatever kind of payment it reports.
LEMMA PaymentStutters ==
    ASSUME PaymentStep
    PROVE  UNCHANGED <<phaseBar, ownerBar, securedBar>>
<1>1. PICK e \in Event, s \in StayId, c \in Callback : ReceivePayment(e, s, c)
  BY DEF PaymentStep
<1>2. PICK q : /\ UNCHANGED <<stays, nights, identities>>
               /\ payments' = payments \cup {q} /\ q.by = "callback"
  <2> DEFINE row == [event |-> e, stay |-> s, kind |-> c.kind, status |-> c.status,
                     by |-> "callback"]
  <2>1. UNCHANGED <<stays, nights, identities>> /\ payments' = payments \cup {row}
    BY <1>1 DEF ReceivePayment
  <2>2. row.by = "callback"
    OBVIOUS
  <2> HIDE DEF row
  <2>3. QED
    BY <2>1, <2>2
<1>3. \A t \in StayId : (\E p \in payments' : p.stay = t /\ p.by = "guarantee")
                       <=> (\E p \in payments : p.stay = t /\ p.by = "guarantee")
  BY <1>2
<1>4. securedBar' = securedBar
  BY <1>2, <1>3 DEF securedBar
<1>5. QED
  BY <1>2, <1>4 DEF phaseBar, ownerBar, Owners

-----------------------------------------------------------------------------
LEMMA InitRefines == Init => Ledger!LedgerInit
<1> SUFFICES ASSUME Init PROVE Ledger!LedgerInit
  OBVIOUS
<1>1. /\ \A s \in StayId : stays[s] = NoStay /\ \A n \in Night : nights[s][n] = "none"
      /\ identities = {}
  BY DEF Init
<1>2. phaseBar = [s \in StayId |-> "none"]
  BY <1>1 DEF phaseBar, NoStay
<1>3. \A x \in Resource \X Night : Owners(x[1], x[2]) = {}
  BY <1>1 DEF Owners, Holding
<1>4. ownerBar = [x \in Resource \X Night |-> None]
  BY <1>3 DEF ownerBar
<1>5. securedBar = {}
  BY <1>1 DEF securedBar
<1>6. QED
  BY <1>2, <1>4, <1>5 DEF Ledger!LedgerInit

LEMMA StepRefines ==
    Good /\ Good' /\ [Next]_vars => [Ledger!LedgerNext]_<<phaseBar, ownerBar, securedBar>>
<1> SUFFICES ASSUME Good, Good', [Next]_vars
             PROVE  [Ledger!LedgerNext]_<<phaseBar, ownerBar, securedBar>>
  OBVIOUS
<1>1. WriteStep
  BY NextWrites DEF Good, Versions
<1>2. HoldStep \/ RowsKept
  BY RowsStep DEF Good, HoldStep
<1>3. CASE UNCHANGED tables
  BY <1>3 DEF tables, phaseBar, ownerBar, Owners, securedBar
<1>4. CASE HoldStep
  BY <1>4, HoldRefines
<1>5. CASE RowsKept /\ GuaranteeStep
  BY <1>5, GuaranteeRefines
<1>6. CASE RowsKept /\ TransitionStep
  BY <1>6, TransitionRefines
<1>7. CASE RowsKept /\ CheckoutStep
  BY <1>7, CheckoutRefines
<1>8. CASE RowsKept /\ SettleStep
  BY <1>8, SettleRefines
<1>9. CASE RowsKept /\ ExpireDueHolds
  BY <1>9, SweepRefines
<1>10. CASE PaymentStep
  BY <1>10, PaymentStutters
<1>11. QED
  BY <1>1, <1>2, <1>3, <1>4, <1>5, <1>6, <1>7, <1>8, <1>9, <1>10 DEF WriteStep

\* The requests, the worker and the callbacks together do nothing but what the ledger of
\* allocations allows: nights are taken and given back as a whole, and a stay is secured in
\* the step that guarantees it.
THEOREM BookingImplementsLedger == Spec => ImplementsLedger
<1>1. Spec => []Good
  BY TypeCorrect, OneRowPerNightHolds, VersionsHold, TablesHold, PTL DEF Good
<1>2. QED
  BY <1>1, InitRefines, StepRefines, PTL DEF Spec, ImplementsLedger, Ledger!LedgerSpec, Ledger!lvars
=============================================================================
