------------------------------ MODULE Booking ------------------------------
(***************************************************************************)
(* The life of a stay, from the hold that allocates its nights to the      *)
(* settlement that follows check-out: the booking, operations and          *)
(* settlement services over the tables stays, stay_nights,                 *)
(* identity_checks, payments, operational_tasks, refund_settlements and    *)
(* audit_events, with the worker's sweep of overdue holds.                 *)
(*                                                                         *)
(* A request handler reads with separate SELECTs and writes with one       *)
(* transaction whose first statement is a write, so that SQLite runs the   *)
(* writing transactions one after the other.  Every SELECT and every       *)
(* transaction is an action; between two of them anything may happen.      *)
(***************************************************************************)
EXTENDS Integers, FiniteSets

CONSTANTS
    StayId,       \* identifiers identity.MustNew can return
    Guest,        \* guest ids that requests name
    Registered,   \* those among them that have a row in users
    Property, Resource,
    PropertyOf,   \* the property of each resource
    Key,          \* idempotency keys
    Event,        \* (provider, provider_event_id) pairs
    Callback,     \* what a payment callback may carry: [kind, status]
    Handler,      \* requests in flight at a time
    Operation,    \* the operations the clients of this instance use
    None,         \* no value
    LastNight,    \* nights are numbered 1..LastNight
    HoldTTL,      \* holdTTL of booking.NewService
    ExpireLimit,  \* the limit Tick passes to ExpireDueHolds
    MaxTime       \* bound: the clock stops here

Operations == {"hold", "guarantee", "check_in", "cancel", "checkout", "settle",
               "payment", "catalog"}

\* The CHECKs of the table payments, all that narrows what a callback carries.
PaymentKind == {"guarantee", "charge", "refund"}
PaymentStatus == {"pending", "succeeded", "failed"}

ASSUME BookingAssumption ==
    /\ Registered \subseteq Guest
    /\ PropertyOf \in [Resource -> Property]
    /\ Callback \subseteq [kind: PaymentKind, status: PaymentStatus]
    /\ Operation \subseteq Operations
    /\ LastNight \in Nat \ {0}
    /\ HoldTTL \in Nat \ {0}
    /\ ExpireLimit \in Nat \ {0}
    /\ MaxTime \in Nat
    /\ None \notin StayId \cup Guest \cup Resource \cup Key

Night == 1..LastNight
\* The ranges ParseDateRange accepts: check-out after check-in, every night between.
DateRange == {lo..hi : lo, hi \in Night} \ {{}}

Status == {"none", "inquiry", "held", "guaranteed", "checked_in", "checked_out", "settling",
           "settled", "cancelled", "expired", "relocated"}    \* "none": no row with this id
NightStatus == {"none", "held", "reserved", "occupied", "released"}
PropertyStatus == {"open", "weather_closed", "maintenance_closed"}
ResourceStatus == {"open", "held", "occupied", "cleaning", "faulted", "closed"}
NoExpiry == -1                              \* hold_expires_at IS NULL

VARIABLES
    stays,        \* table stays, by id
    nights,       \* table stay_nights, by stay and night
    identities,   \* table identity_checks: <<stay, guest>>
    payments,     \* table payments: [event, stay, kind, status] and, as history, who
                  \* inserted the row ("by"), which the table does not tell
    cleanings,    \* number of cleaning tasks created for each stay
    settlements,  \* table refund_settlements: [stay, paid]
    audits,       \* number of audit_events about each stay
    properties,   \* status of each property
    resources,    \* status of each resource
    now,          \* the clock
    rq            \* what each request handler holds in its local variables

vars == <<stays, nights, identities, payments, cleanings, settlements, audits,
          properties, resources, now, rq>>
tables == <<stays, nights, identities, payments, cleanings, settlements, audits>>
catalog == <<properties, resources>>

StayRow == [status: Status, guest: Guest \cup {None}, resource: Resource \cup {None},
            key: Key \cup {None}, expires: Int, version: Nat]
NoStay == [status |-> "none", guest |-> None, resource |-> None, key |-> None,
           expires |-> NoExpiry, version |-> 0]

PaymentRow == [event: Event, stay: StayId, kind: PaymentKind, status: PaymentStatus,
               by: {"guarantee", "callback"}]

Result == {"none", "ok", "conflict", "locked", "refused"}

\* A request: the operation, the statement it runs next (pc), its input and what it read.
\* "version" is the version the handler will write, "paid" the payments it has summed.  An
\* insert that finds the database locked is answered as a conflict, like one that a
\* constraint refuses; the result "locked" keeps the two apart.
RequestRow ==
    [op: Operations \cup {"none"},
     pc: {"idle", "resource", "property", "sum", "commit", "done"},
     stay: StayId \cup {None}, guest: Guest \cup {None},
     resource: Resource \cup {None}, key: Key \cup {None},
     nights: SUBSET Night, hosts: BOOLEAN, expires: Int, version: Nat,
     paid: SUBSET Event, result: Result]
Request ==
    {q \in RequestRow :
        /\ q.op = "hold" => q.guest \in Guest /\ q.resource \in Resource /\ q.key \in Key
        /\ q.op = "guarantee" => q.guest \in Guest
        /\ q.op \in {"guarantee", "check_in", "cancel", "checkout", "settle"}
              => q.stay \in StayId}
Idle == [op |-> "none", pc |-> "idle", stay |-> None, guest |-> None,
         resource |-> None, key |-> None, nights |-> {}, hosts |-> FALSE,
         expires |-> NoExpiry, version |-> 0, paid |-> {}, result |-> "none"]

Init ==
    /\ stays = [s \in StayId |-> NoStay]
    /\ nights = [s \in StayId |-> [n \in Night |-> "none"]]
    /\ identities = {}
    /\ payments = {}
    /\ cleanings = [s \in StayId |-> 0]
    /\ settlements = {}
    /\ audits = [s \in StayId |-> 0]
    /\ properties = [p \in Property |-> "open"]
    /\ resources = [r \in Resource |-> "open"]
    /\ now = 0
    /\ rq = [h \in Handler |-> Idle]

-----------------------------------------------------------------------------
(* The domain's state machine and the tables' constraints                  *)

\* The edges of Stay.Transition, those from statuses no service writes included.
Edge == {<<"inquiry", "held">>, <<"inquiry", "cancelled">>,
         <<"held", "guaranteed">>, <<"held", "cancelled">>, <<"held", "expired">>,
         <<"guaranteed", "checked_in">>, <<"guaranteed", "cancelled">>,
         <<"guaranteed", "relocated">>, <<"checked_in", "checked_out">>,
         <<"checked_in", "relocated">>, <<"checked_out", "settling">>,
         <<"settling", "settled">>, <<"relocated", "checked_in">>,
         <<"relocated", "checked_out">>}

\* Mutant: Transition does not look at the table.
CanTransitionAlways(stay, to) == stay.status # "none"
\* Mutant: asking for the same status counts as a move.
TransitionVersionAlways(stay, to) == stay.version + 1

\* Asking for the status the stay has already is accepted and leaves the version alone.
CanTransition(stay, to) == stay.status = to \/ <<stay.status, to>> \in Edge
TransitionVersion(stay, to) == IF stay.status = to THEN stay.version ELSE stay.version + 1

HoldActive(stay) == stay.status = "held" /\ stay.expires # NoExpiry /\ now < stay.expires

Target(op) == CASE op = "check_in" -> "checked_in"
                [] op = "cancel" -> "cancelled"
                [] op = "checkout" -> "checked_out"

\* Mutants: an index is missing, or a night in use does not count as taken.
KeyNotUnique(k) == FALSE
NightTakenUnlessOccupied(r, n) ==
    \E s \in StayId : stays[s].resource = r /\ nights[s][n] \in {"held", "reserved", "released"}

KeyTaken(k) == \E s \in StayId : stays[s].key = k
\* A row of stay_nights blocks its night whatever its status: UNIQUE(resource_id, night).
NightTaken(r, n) == \E s \in StayId : stays[s].resource = r /\ nights[s][n] # "none"
EventTaken(e) == \E p \in payments : p.event = e

\* Mutants: the WHERE clause of an update loses its version, or RowsAffected is not read.
RowMatchesAnyVersion(s, version, from) == stays[s].status \in from
RowMatchesAlways(s, version, from) == TRUE

\* The optimistic WHERE clause: id=? AND version=? with the version before the transition.
RowMatches(s, version, from) == stays[s].version = version - 1 /\ stays[s].status \in from

\* The row after a transition.
Moved(stay, to, expires) ==
    [stay EXCEPT !.status = to, !.expires = expires, !.version = stay.version + 1]
SetStatus(s, to, expires) == stays' = [stays EXCEPT ![s] = Moved(stays[s], to, expires)]
\* Mutant: every update of the nights has the filter of the first one.
SetHeldNights(S, from, to) ==
    nights' = [s \in StayId |-> [n \in Night |->
                  IF s \in S /\ nights[s][n] = "held" THEN to ELSE nights[s][n]]]

\* UPDATE stay_nights SET status=to WHERE stay_id IN S AND status IN from
SetNights(S, from, to) ==
    nights' = [s \in StayId |-> [n \in Night |->
                  IF s \in S /\ nights[s][n] \in from THEN to ELSE nights[s][n]]]
AnyNight == NightStatus \ {"none"}
\* Mutant: the columns of the row are swapped.
SwappedIdentityRow(s, g) == <<g, s>>

IdentityRow(s, g) == <<s, g>>
Audit(s) == audits' = [audits EXCEPT ![s] = @ + 1]

Begin(h, op) == rq[h].pc = "idle" /\ op \in Operation
At(h, op, pc) == rq[h].op = op /\ rq[h].pc = pc
Reply(h, request, result) ==
    rq' = [rq EXCEPT ![h] = [request EXCEPT !.pc = "done", !.nights = {}, !.hosts = FALSE,
                             !.expires = NoExpiry, !.paid = {}, !.result = result]]
Refuse(h, request, result) ==
    Reply(h, request, result) /\ UNCHANGED <<tables, catalog, now>>

-----------------------------------------------------------------------------
(* booking.Service.Hold                                                    *)

HoldCheckKey(h, g, r, k, ns) ==
    LET request == [Idle EXCEPT !.op = "hold", !.guest = g, !.resource = r, !.key = k]
    IN  /\ Begin(h, "hold")
        /\ \/ \E s \in StayId :
                 /\ stays[s].key = k
                 /\ Reply(h, [request EXCEPT !.stay = s], "ok")
           \/ /\ ~KeyTaken(k)
              /\ rq' = [rq EXCEPT ![h] = [request EXCEPT !.pc = "resource", !.nights = ns]]
        /\ UNCHANGED <<tables, catalog, now>>

HoldGetResource(h) ==
    /\ At(h, "hold", "resource")
    /\ rq' = [rq EXCEPT ![h] = [@ EXCEPT !.pc = "property",
                  !.hosts = resources[rq[h].resource] \notin {"faulted", "closed"}]]
    /\ UNCHANGED <<tables, catalog, now>>

\* Reads the property, checks both rows, prices the stay and takes the time of the hold.
\* The second disjunct is also a party, dates or price that the checks turn down.
HoldGetProperty(h) ==
    /\ At(h, "hold", "property")
    /\ \/ /\ rq[h].hosts /\ properties[PropertyOf[rq[h].resource]] = "open"
          /\ rq' = [rq EXCEPT ![h] = [@ EXCEPT !.pc = "commit", !.expires = now + HoldTTL]]
          /\ UNCHANGED <<tables, catalog, now>>
       \/ Refuse(h, rq[h], "refused")

\* The transaction that inserts the stay and one row per night, or nothing.
CreateHeldStay(h, s) ==
    /\ stays[s].status = "none"
    /\ ~KeyTaken(rq[h].key)
    /\ rq[h].guest \in Registered
    /\ \A n \in rq[h].nights : ~NightTaken(rq[h].resource, n)
    /\ stays' = [stays EXCEPT ![s] =
                    [status |-> "held", guest |-> rq[h].guest, resource |-> rq[h].resource,
                     key |-> rq[h].key, expires |-> rq[h].expires, version |-> 1]]
    /\ nights' = [nights EXCEPT ![s] =
                    [n \in Night |-> IF n \in rq[h].nights THEN "held" ELSE "none"]]
    /\ Audit(s)
    /\ Reply(h, [rq[h] EXCEPT !.stay = s], "ok")
    /\ UNCHANGED <<identities, payments, cleanings, settlements, catalog, now>>

HoldConflict(h) ==
    \/ /\ \/ KeyTaken(rq[h].key)
          \/ rq[h].guest \notin Registered
          \/ \E n \in rq[h].nights : NightTaken(rq[h].resource, n)
       /\ Refuse(h, rq[h], "conflict")
    \/ Refuse(h, rq[h], "locked")

HoldCreate(h) ==
    /\ At(h, "hold", "commit")
    /\ (\E s \in StayId : CreateHeldStay(h, s)) \/ HoldConflict(h)

-----------------------------------------------------------------------------
(* booking.Service.Guarantee                                               *)

\* The second disjunct is also a document digest that is too short.
GuaranteeRead(h, s, g) ==
    LET request == [Idle EXCEPT !.op = "guarantee", !.stay = s, !.guest = g]
    IN  /\ Begin(h, "guarantee")
        /\ \/ /\ stays[s].status # "none"
              /\ stays[s].guest = g
              /\ HoldActive(stays[s])
              /\ rq' = [rq EXCEPT ![h] = [request EXCEPT !.pc = "commit",
                            !.version = TransitionVersion(stays[s], "guaranteed")]]
              /\ UNCHANGED <<tables, catalog, now>>
           \/ Refuse(h, request, "refused")

GuaranteeStay(h, s, e) ==
    /\ RowMatches(s, rq[h].version, {"held"})
    /\ IdentityRow(s, rq[h].guest) \notin identities
    /\ ~EventTaken(e)
    /\ SetStatus(s, "guaranteed", NoExpiry)
    /\ identities' = identities \cup {IdentityRow(s, rq[h].guest)}
    /\ payments' = payments \cup
          {[event |-> e, stay |-> s, kind |-> "guarantee", status |-> "succeeded",
            by |-> "guarantee"]}
    /\ SetNights({s}, {"held"}, "reserved")
    /\ Audit(s)
    /\ Reply(h, rq[h], "ok")
    /\ UNCHANGED <<cleanings, settlements, catalog, now>>

\* The foreign keys of the identity check hold: its guest is the guest of the stay, and
\* verified_by the user the request was authenticated as; rows of users are never deleted.
GuaranteeConflict(h, s, e) ==
    /\ \/ ~RowMatches(s, rq[h].version, {"held"})
       \/ IdentityRow(s, rq[h].guest) \in identities
       \/ EventTaken(e)
    /\ Refuse(h, rq[h], "conflict")

GuaranteeCommit(h, e) ==
    /\ At(h, "guarantee", "commit")
    /\ GuaranteeStay(h, rq[h].stay, e) \/ GuaranteeConflict(h, rq[h].stay, e)

-----------------------------------------------------------------------------
(* booking.Service.CheckIn and Cancel, operations.Service.Checkout         *)

TransitionRead(h, op, s) ==
    LET request == [Idle EXCEPT !.op = op, !.stay = s]
    IN  /\ Begin(h, op)
        /\ \/ /\ CanTransition(stays[s], Target(op))
              /\ rq' = [rq EXCEPT ![h] = [request EXCEPT !.pc = "commit",
                            !.version = TransitionVersion(stays[s], Target(op))]]
              /\ UNCHANGED <<tables, catalog, now>>
           \/ /\ ~CanTransition(stays[s], Target(op))
              /\ Refuse(h, request, "refused")

\* Store.TransitionStay.  The row it matches is the row that was read (same version), so
\* hold_expires_at keeps its value except where Transition clears it.
TransitionStay(h, op, s) ==
    /\ RowMatches(s, rq[h].version, Status)
    /\ SetStatus(s, Target(op), IF op = "cancel" THEN NoExpiry ELSE stays[s].expires)
    /\ SetNights({s}, AnyNight, IF op = "cancel" THEN "released" ELSE "occupied")
    /\ Audit(s)
    /\ Reply(h, rq[h], "ok")
    /\ UNCHANGED <<identities, payments, cleanings, settlements, catalog, now>>

TransitionCommit(h, op) ==
    /\ op \in {"check_in", "cancel"}
    /\ At(h, op, "commit")
    /\ \/ TransitionStay(h, op, rq[h].stay)
       \/ /\ ~RowMatches(rq[h].stay, rq[h].version, Status)
          /\ Refuse(h, rq[h], "conflict")

\* Store.CheckoutAndCreateCleaning
CheckoutStay(h, s) ==
    /\ RowMatches(s, rq[h].version, {"checked_in"})
    /\ SetStatus(s, "checked_out", stays[s].expires)
    /\ SetNights({s}, AnyNight, "released")
    /\ resources' = [resources EXCEPT ![stays[s].resource] =
                        IF @ = "occupied" THEN "cleaning" ELSE @]
    /\ cleanings' = [cleanings EXCEPT ![s] = @ + 1]
    /\ Audit(s)
    /\ Reply(h, rq[h], "ok")
    /\ UNCHANGED <<identities, payments, settlements, properties, now>>

CheckoutCommit(h) ==
    /\ At(h, "checkout", "commit")
    /\ \/ CheckoutStay(h, rq[h].stay)
       \/ /\ ~RowMatches(rq[h].stay, rq[h].version, {"checked_in"})
          /\ Refuse(h, rq[h], "conflict")

-----------------------------------------------------------------------------
(* settlement.Service.Start and booking.Service.ReceivePayment             *)

SettleRead(h, s) ==
    LET request == [Idle EXCEPT !.op = "settle", !.stay = s]
    IN  /\ Begin(h, "settle")
        /\ \/ /\ stays[s].status = "checked_out"
              /\ rq' = [rq EXCEPT ![h] = [request EXCEPT !.pc = "sum"]]
              /\ UNCHANGED <<tables, catalog, now>>
           \/ /\ stays[s].status # "checked_out"
              /\ Refuse(h, request, "refused")

\* Mutant: the sum forgets the filter on status.
PaidInAnyStatus(s) == {p.event : p \in {q \in payments : q.stay = s}}

\* SumSucceededPayments; the amount is a function of the rows it adds up.
Succeeded(s) == {p.event : p \in {q \in payments : q.stay = s /\ q.status = "succeeded"}}

SettleSum(h) ==
    /\ At(h, "settle", "sum")
    /\ rq' = [rq EXCEPT ![h] = [@ EXCEPT !.pc = "commit", !.paid = Succeeded(rq[h].stay)]]
    /\ UNCHANGED <<tables, catalog, now>>

CreateSettlement(h, s) ==
    /\ \A x \in settlements : x.stay # s
    /\ stays[s].status = "checked_out"
    /\ settlements' = settlements \cup {[stay |-> s, paid |-> rq[h].paid]}
    /\ SetStatus(s, "settling", stays[s].expires)
    /\ Audit(s)
    /\ Reply(h, rq[h], "ok")
    /\ UNCHANGED <<nights, identities, payments, cleanings, catalog, now>>

\* One settlement per stay, the first statement; then the update of the stay, refused as
\* NewSettlement refuses a negative sum of payments before either of them.
SettleConflict(h, s) ==
    \/ (\E x \in settlements : x.stay = s) /\ Refuse(h, rq[h], "conflict")
    \/ Refuse(h, rq[h], "locked")
    \/ Refuse(h, rq[h], "refused")

SettleCommit(h) ==
    /\ At(h, "settle", "commit")
    /\ CreateSettlement(h, rq[h].stay) \/ SettleConflict(h, rq[h].stay)

\* RecordPayment: one INSERT.  A callback for an event that has a row changes nothing.
ReceivePayment(e, s, c) ==
    /\ "payment" \in Operation
    /\ stays[s].status # "none"
    /\ ~EventTaken(e)
    /\ payments' = payments \cup
          {[event |-> e, stay |-> s, kind |-> c.kind, status |-> c.status,
            by |-> "callback"]}
    /\ UNCHANGED <<stays, nights, identities, cleanings, settlements, audits, catalog, now, rq>>

-----------------------------------------------------------------------------
(* The worker, the catalogue, the clock and the end of a request           *)

\* Mutant: the sweep looks for the holds that expire now and misses the older ones.
DueNow(s) == stays[s].status = "held" /\ stays[s].expires = now

Due(s) == stays[s].status = "held" /\ stays[s].expires <= now

\* One transaction: the due holds in order of expiry, at most ExpireLimit of them.
ExpireDueHolds ==
    \E D \in SUBSET {s \in StayId : Due(s)} :
        /\ D # {}
        /\ Cardinality(D) <= ExpireLimit
        /\ \A s \in StayId : Due(s) /\ s \notin D =>
              Cardinality(D) = ExpireLimit /\ \A d \in D : stays[d].expires <= stays[s].expires
        /\ stays' = [s \in StayId |->
              IF s \in D THEN Moved(stays[s], "expired", NoExpiry) ELSE stays[s]]
        /\ SetNights(D, {"held"}, "released")
        /\ UNCHANGED <<identities, payments, cleanings, settlements, audits, catalog, now, rq>>

UpdatePropertyStatus(p, to) ==
    /\ "catalog" \in Operation
    /\ properties' = [properties EXCEPT ![p] = to]
    /\ UNCHANGED <<tables, resources, now, rq>>

UpdateResourceStatus(r, to) ==
    /\ "catalog" \in Operation
    /\ resources' = [resources EXCEPT ![r] = to]
    /\ UNCHANGED <<tables, properties, now, rq>>

AdvanceClock ==
    /\ now < MaxTime
    /\ now' = now + 1
    /\ UNCHANGED <<tables, catalog, rq>>

\* The response is written, or the request is lost before its transaction: its context is
\* cancelled, SQLite stays locked past the busy timeout, or the process is killed.
EndRequest(h) ==
    /\ rq[h].pc # "idle"
    /\ rq' = [rq EXCEPT ![h] = Idle]
    /\ UNCHANGED <<tables, catalog, now>>

-----------------------------------------------------------------------------
HandlerStep(h) ==
    \/ \E g \in Guest, r \in Resource, k \in Key, ns \in DateRange : HoldCheckKey(h, g, r, k, ns)
    \/ HoldGetResource(h)
    \/ HoldGetProperty(h)
    \/ HoldCreate(h)
    \/ \E s \in StayId, g \in Guest : GuaranteeRead(h, s, g)
    \/ \E e \in Event : GuaranteeCommit(h, e)
    \/ \E s \in StayId, op \in {"check_in", "cancel", "checkout"} : TransitionRead(h, op, s)
    \/ \E op \in {"check_in", "cancel"} : TransitionCommit(h, op)
    \/ CheckoutCommit(h)
    \/ \E s \in StayId : SettleRead(h, s)
    \/ SettleSum(h)
    \/ SettleCommit(h)
    \/ EndRequest(h)

Next ==
    \/ \E h \in Handler : HandlerStep(h)
    \/ \E e \in Event, s \in StayId, c \in Callback : ReceivePayment(e, s, c)
    \/ ExpireDueHolds
    \/ \E p \in Property, to \in PropertyStatus : UpdatePropertyStatus(p, to)
    \/ \E r \in Resource, to \in ResourceStatus : UpdateResourceStatus(r, to)
    \/ AdvanceClock

Spec == Init /\ [][Next]_vars

\* The worker ticks for as long as the process runs.
FairSpec == Spec /\ WF_vars(ExpireDueHolds)

-----------------------------------------------------------------------------
(* Type invariant                                                          *)

\* Every variable holds a value of the table or local variable it stands for.
TypeOK ==
    /\ stays \in [StayId -> StayRow]
    /\ nights \in [StayId -> [Night -> NightStatus]]
    /\ identities \subseteq StayId \X Guest
    /\ payments \subseteq PaymentRow
    /\ cleanings \in [StayId -> Nat]
    /\ settlements \subseteq [stay: StayId, paid: SUBSET Event]
    /\ audits \in [StayId -> Nat]
    /\ properties \in [Property -> PropertyStatus]
    /\ resources \in [Resource -> ResourceStatus]
    /\ now \in Nat
    /\ rq \in [Handler -> Request]
=============================================================================
