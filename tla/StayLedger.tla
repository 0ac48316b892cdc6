----------------------------- MODULE StayLedger -----------------------------
(***************************************************************************)
(* What the booking service promises about allocation, without requests,   *)
(* tables or versions: every night of a resource has at most one owner, a  *)
(* stay gets all its nights in one step and keeps exactly those until it   *)
(* ends, and it is secured (identity and guarantee payment) in the step    *)
(* that guarantees it.  Booking implements it (see BookingLedger).         *)
(***************************************************************************)
EXTENDS Integers

CONSTANTS StayId, Resource, Night, Free

VARIABLES
    phase,      \* how far each stay is
    owner,      \* who owns each night of each resource
    secured     \* the stays with an identity check and a guarantee payment

lvars == <<phase, owner, secured>>

Phase == {"none", "held", "guaranteed", "checked_in", "checked_out", "settling",
          "cancelled", "expired"}

LedgerTypeOK ==
    /\ phase \in [StayId -> Phase]
    /\ owner \in [Resource \X Night -> StayId \cup {Free}]
    /\ secured \subseteq StayId

LedgerInit ==
    /\ phase = [s \in StayId |-> "none"]
    /\ owner = [x \in Resource \X Night |-> Free]
    /\ secured = {}

Hold(s, r, ns) ==
    /\ phase[s] = "none"
    /\ \A n \in ns : owner[<<r, n>>] = Free
    /\ phase' = [phase EXCEPT ![s] = "held"]
    /\ owner' = [x \in Resource \X Night |->
                    IF x[1] = r /\ x[2] \in ns THEN s ELSE owner[x]]
    /\ UNCHANGED secured

Guarantee(s) ==
    /\ phase[s] = "held"
    /\ phase' = [phase EXCEPT ![s] = "guaranteed"]
    /\ secured' = secured \cup {s}
    /\ UNCHANGED owner

\* Steps that keep the nights the stay has.
Proceed(s, from, to) ==
    /\ phase[s] = from
    /\ phase' = [phase EXCEPT ![s] = to]
    /\ UNCHANGED <<owner, secured>>

\* The stays in S end; their nights, and no others, are free again.
Release(S, from, to) ==
    /\ S # {} /\ \A s \in S : phase[s] \in from
    /\ phase' = [s \in StayId |-> IF s \in S THEN to ELSE phase[s]]
    /\ owner' = [x \in Resource \X Night |-> IF owner[x] \in S THEN Free ELSE owner[x]]
    /\ UNCHANGED secured

LedgerNext ==
    \/ \E s \in StayId, r \in Resource, ns \in (SUBSET Night) \ {{}} : Hold(s, r, ns)
    \/ \E s \in StayId : Guarantee(s)
    \/ \E s \in StayId : Proceed(s, "guaranteed", "checked_in")
    \/ \E s \in StayId : Proceed(s, "checked_out", "settling")
    \/ \E s \in StayId : Release({s}, {"held", "guaranteed"}, "cancelled")
    \/ \E s \in StayId : Release({s}, {"checked_in"}, "checked_out")
    \/ \E S \in SUBSET StayId : Release(S, {"held"}, "expired")

LedgerSpec == LedgerInit /\ [][LedgerNext]_lvars
=============================================================================
