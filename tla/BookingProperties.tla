------------------------- MODULE BookingProperties -------------------------
(* What Booking keeps true, and what the repository says that it does not. *)
EXTENDS Booking

Holding == {"held", "reserved", "occupied"}

\* No night of a resource belongs to two stays, whatever holds, guarantees, cancellations
\* and sweeps interleave: the UNIQUE index and the all-or-nothing hold transaction.
NoDoubleBooking ==
    \A s, t \in StayId : \A n \in Night :
        s # t /\ stays[s].resource = stays[t].resource /\ nights[s][n] \in Holding
        => nights[t][n] \notin Holding

NightsOf(s) == {n \in Night : nights[s][n] # "none"}

\* The status of a stay and of its nights always agree, although one statement updates the
\* first and another, with a filter of its own, the second; a stay has at least one night,
\* and all its nights move together.
NightsFollowStay ==
    \A s \in StayId :
        LET to == CASE stays[s].status = "held" -> "held"
                    [] stays[s].status = "guaranteed" -> "reserved"
                    [] stays[s].status = "checked_in" -> "occupied"
                    [] OTHER -> "released"
        IN  /\ stays[s].status = "none" <=> NightsOf(s) = {}
            /\ \A n \in NightsOf(s) : nights[s][n] = to

\* A stay that went past the hold was guaranteed once, in full: it has the identity check of
\* its own guest and the one payment that its guarantee recorded; a stay that lapsed in the
\* hold has neither.  Callbacks may put payments of every kind and status beside them, for
\* stays in every status: none of them makes a hold a guaranteed stay or is taken for the
\* payment of one.
GuaranteeIsBacked ==
    \A s \in StayId :
        LET paid == {p \in payments : p.stay = s /\ p.by = "guarantee"}
            checked == {g \in Guest : <<s, g>> \in identities}
        IN  /\ stays[s].status \in {"guaranteed", "checked_in", "checked_out", "settling"}
                => (\E p \in payments : paid = {p}) /\ checked = {stays[s].guest}
            /\ stays[s].status \in {"none", "held", "expired"} => paid = {} /\ checked = {}

\* A settlement counts the payment that its stay's guarantee recorded and nothing but succeeded
\* payments of that stay, for ever: not even an event that is delivered again with another
\* status, or that came as a "guarantee" before the guarantee did, changes that.
SettlementIsBacked ==
    \A x \in settlements :
        /\ \A p \in payments : p.event \in x.paid => p.stay = x.stay /\ p.status = "succeeded"
        /\ \E p \in payments : p.by = "guarantee" /\ p.event \in x.paid

\* A stay that left the house has exactly one cleaning task and every other stay none, so
\* two desks that check out the same stay do not send two cleaners.
CleanedOnce ==
    \A s \in StayId :
        cleanings[s] = IF stays[s].status \in {"checked_out", "settling"} THEN 1 ELSE 0

\* A stay is settled once, and exactly the stays that are settling have a settlement.
SettledOnce ==
    /\ \A x, y \in settlements : x.stay = y.stay => x = y
    /\ {x.stay : x \in settlements} = {s \in StayId : stays[s].status = "settling"}

\* Nothing that leads out of the house is done twice or left out: several requests that check
\* out and settle one stay give it one cleaning task and one settlement, in step with its
\* status.
LeavesOnce == CleanedOnce /\ SettledOnce

\* Two holds that both succeeded under one idempotency key returned the same stay.
HoldIsIdempotent ==
    \A g, h \in Handler :
        rq[g].op = "hold" /\ rq[h].op = "hold" /\ rq[g].result = "ok" /\ rq[h].result = "ok"
        /\ rq[g].key = rq[h].key => rq[g].stay = rq[h].stay

\* Of the requests that read the same version of a stay at most one succeeds.
OneWriterPerVersion ==
    \A g, h \in Handler :
        /\ g # h
        /\ {rq[g].op, rq[h].op} \subseteq {"guarantee", "check_in", "cancel", "checkout"}
        /\ rq[g].result = "ok" /\ rq[h].result = "ok"
        /\ rq[g].stay = rq[h].stay
        => rq[g].version # rq[h].version

\* A stay only moves along an edge of the domain's table and its version counts the moves,
\* also in the updates that do not go through Stay.Transition (the sweep, the settlement).
LifecycleRespected ==
    [][\A s \in StayId : stays'[s] # stays[s] =>
          /\ stays'[s].version = stays[s].version + 1
          /\ \/ stays[s].status = "none" /\ stays'[s].status = "held"
             \/ /\ <<stays[s].status, stays'[s].status>> \in Edge
                /\ stays'[s].guest = stays[s].guest /\ stays'[s].resource = stays[s].resource
                /\ stays'[s].key = stays[s].key]_vars

\* A hold whose time is over does not keep its nights: the sweep releases it even when every
\* sweep takes at most ExpireLimit holds, unless it was guaranteed or cancelled before.
OverdueHoldsEnd ==
    \A s \in StayId :
        stays[s].status = "held" /\ stays[s].expires <= now ~> stays[s].status # "held"

\* service.go says of a refused hold "one or more nights are already allocated".
ConflictMeansAllocated ==
    [][\A h \in Handler :
          rq[h].op = "hold" /\ rq[h].result # "conflict" /\ rq'[h].result = "conflict"
          => \/ KeyTaken(rq[h].key) \/ rq[h].guest \notin Registered
             \/ \E s \in StayId : \E n \in rq[h].nights :
                   stays[s].resource = rq[h].resource /\ nights[s][n] \in Holding]_vars

\* README: the hold gives an idempotent result.  A hold whose key has a stay never conflicts.
RetryGetsTheStay ==
    [][\A h \in Handler :
          rq[h].op = "hold" /\ rq[h].result # "conflict" /\ rq'[h].result = "conflict"
          => ~KeyTaken(rq[h].key)]_vars
=============================================================================
