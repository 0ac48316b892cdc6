--------------------------- MODULE BookingLedger ---------------------------
(* Booking implements StayLedger under the mapping below.                  *)
EXTENDS BookingProperties

Owners(r, n) == {s \in StayId : stays[s].resource = r /\ nights[s][n] \in Holding}

phaseBar == [s \in StayId |-> stays[s].status]
ownerBar == [x \in Resource \X Night |->
                IF Owners(x[1], x[2]) = {} THEN None
                ELSE CHOOSE s \in Owners(x[1], x[2]) : TRUE]
securedBar == {s \in StayId :
                  /\ \E g \in Guest : <<s, g>> \in identities
                  /\ \E p \in payments : p.stay = s /\ p.by = "guarantee"}

Ledger == INSTANCE StayLedger
             WITH phase <- phaseBar, owner <- ownerBar, secured <- securedBar, Free <- None

\* Every step of the requests, the worker and the callbacks is a step of the ledger or
\* leaves it as it is: the nights of a stay are taken and given back as a whole, and it is
\* secured in the very step that guarantees it.
ImplementsLedger == Ledger!LedgerSpec
=============================================================================
