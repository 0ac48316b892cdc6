------------------------------- MODULE Server -------------------------------
(***************************************************************************)
(* The life of server processes over one database file: Open and Migrate,  *)
(* SeedCatalog, then requests and the worker's sweep of overdue holds,     *)
(* with crashes and refused statements anywhere.                           *)
(*                                                                         *)
(* The sweep's transaction is deferred and begins with a SELECT: it works  *)
(* on a snapshot, and SQLite refuses its first write when another commit   *)
(* came after the snapshot.  Every other transaction begins with a write   *)
(* and is one step.                                                        *)
(***************************************************************************)
EXTENDS Catalog

CONSTANTS
    Process,
    LastMigration,  \* migration files are numbered 1..LastMigration
    Hold,           \* stays on hold
    MaxFaults       \* bound: crashes and refused statements during a start

ASSUME ServerAssumption == LastMigration \in Nat \ {0} /\ MaxFaults \in Nat

Migration == 1..LastMigration

VARIABLES
    applied,   \* table schema_migrations
    bodies,    \* how often the statements of each migration were committed
    ps,        \* each process: where it is, and the holds its sweep has read
    fresh,     \* processes whose open snapshot is still the last commit
    holds,     \* status of each stay on hold
    faults

vars == <<rows, edits, applied, bodies, ps, fresh, holds, faults>>

ProcessRow == [pc: {"down", "check", "apply", "look", "create", "serving", "sweeping"},
               migration: Migration, item: Item, batch: SUBSET Hold]
\* Mutant: the resources are seeded before the property they refer to.
DownAtResources == [pc |-> "down", migration |-> 1, item |-> LastResource, batch |-> {}]

Down == [pc |-> "down", migration |-> 1, item |-> House, batch |-> {}]
HoldStatus == {"active", "overdue", "guaranteed", "expired"}

Init ==
    /\ CatalogInit
    /\ applied = {}
    /\ bodies = [v \in Migration |-> 0]
    /\ ps = [p \in Process |-> Down]
    /\ fresh = {}
    /\ holds = [h \in Hold |-> "active"]
    /\ faults = 0

Serving(p) == ps[p].pc \in {"serving", "sweeping"}
Commit == fresh' = {}
Goes(p, to) == ps' = [ps EXCEPT ![p].pc = to]
Exit(p) == ps' = [ps EXCEPT ![p] = Down]

-----------------------------------------------------------------------------
(* Open, Migrate and SeedCatalog; an error ends the process                *)

Start(p) ==
    /\ ps[p].pc = "down"
    /\ Goes(p, "check")
    /\ UNCHANGED <<catalogVars, applied, bodies, fresh, holds, faults>>

\* Mutant: the ledger has no primary key.
NeverRecorded(v) == FALSE
\* Mutant: seeding stops before the last resource.
AfterSeedShort(p) ==
    IF ps[p].item + 1 >= LastResource THEN [ps[p] EXCEPT !.pc = "serving"]
    ELSE [ps[p] EXCEPT !.pc = "look", !.item = @ + 1]
\* Mutant: the loop goes on behind the last file.
AfterMigrationPast(p) == [ps[p] EXCEPT !.pc = "check", !.migration = @ + 1]

Recorded(v) == v \in applied
\* A start goes through the migrations, then the property, then its resources.
AfterMigration(p) ==
    IF ps[p].migration = LastMigration THEN [ps[p] EXCEPT !.pc = "look"]
    ELSE [ps[p] EXCEPT !.pc = "check", !.migration = @ + 1]
AfterSeed(p) ==
    IF ps[p].item = LastResource THEN [ps[p] EXCEPT !.pc = "serving"]
    ELSE [ps[p] EXCEPT !.pc = "look", !.item = @ + 1]

\* SELECT COUNT(*), before and outside the migration's transaction.
CheckMigration(p) ==
    /\ ps[p].pc = "check"
    /\ ps' = [ps EXCEPT ![p] =
          IF ps[p].migration \in applied THEN AfterMigration(p) ELSE [@ EXCEPT !.pc = "apply"]]
    /\ UNCHANGED <<catalogVars, applied, bodies, fresh, holds, faults>>

\* The statements of the file and the row of the ledger in one transaction; when another
\* process recorded the version meanwhile the insert fails and all is rolled back.
ApplyMigration(p) ==
    LET v == ps[p].migration
    IN  /\ ps[p].pc = "apply"
        /\ \/ /\ ~Recorded(v)
              /\ applied' = applied \cup {v}
              /\ bodies' = [bodies EXCEPT ![v] = @ + 1]
              /\ ps' = [ps EXCEPT ![p] = AfterMigration(p)]
              /\ Commit
           \/ /\ Recorded(v)
              /\ Exit(p)
              /\ UNCHANGED <<applied, bodies, fresh>>
        /\ UNCHANGED <<catalogVars, holds, faults>>

\* GetProperty or GetResource, then CreateProperty or CreateResource when there is no row.
LookForSeed(p) ==
    /\ ps[p].pc = "look"
    /\ ps' = [ps EXCEPT ![p] =
          IF rows[ps[p].item].status # "none" THEN AfterSeed(p) ELSE [@ EXCEPT !.pc = "create"]]
    /\ UNCHANGED <<catalogVars, applied, bodies, fresh, holds, faults>>

CreateSeed(p) ==
    LET i == ps[p].item
    IN  /\ ps[p].pc = "create"
        /\ \/ /\ CanCreate(i)
              /\ Create(i)
              /\ ps' = [ps EXCEPT ![p] = AfterSeed(p)]
              /\ Commit
           \/ /\ ~CanCreate(i)
              /\ Exit(p)
              /\ UNCHANGED <<rows, fresh>>
        /\ UNCHANGED <<edits, applied, bodies, holds, faults>>

\* A signal, a crash, or during the start a statement that fails; an open transaction is
\* rolled back.
Stop(p) ==
    /\ ps[p].pc # "down" /\ faults < MaxFaults
    /\ faults' = faults + 1
    /\ Exit(p)
    /\ fresh' = fresh \ {p}
    /\ UNCHANGED <<catalogVars, applied, bodies, holds>>

-----------------------------------------------------------------------------
(* The worker's sweep and the requests beside it                           *)

\* Mutant: the sweep looks at the time and not at the status.
OverdueInAnyStatus(h) == holds[h] # "active"

Overdue(h) == holds[h] = "overdue"

SweepRead(p) ==
    /\ ps[p].pc = "serving"
    /\ ps' = [ps EXCEPT ![p].pc = "sweeping", ![p].batch = {h \in Hold : Overdue(h)}]
    /\ fresh' = fresh \cup {p}
    /\ UNCHANGED <<catalogVars, applied, bodies, holds, faults>>

\* Mutant: a refused sweep is not tried again.
TickEndsWorker(p) == [ps[p] EXCEPT !.batch = {}, !.pc = IF p \in fresh THEN "serving" ELSE @]

NextTick(p) == [ps[p] EXCEPT !.batch = {}, !.pc = "serving"]

\* A sweep that has nothing to write commits nothing; one that is refused waits for the
\* next tick.  The limit of a sweep is left to module Booking.
SweepWrite(p) ==
    /\ ps[p].pc = "sweeping"
    /\ ps' = [ps EXCEPT ![p] = NextTick(p)]
    /\ IF ps[p].batch # {} /\ p \in fresh
       THEN /\ holds' = [h \in Hold |->
                  IF h \in ps[p].batch /\ Overdue(h) THEN "expired" ELSE holds[h]]
            /\ Commit
       ELSE fresh' = fresh \ {p} /\ UNCHANGED holds
    /\ UNCHANGED <<catalogVars, applied, bodies, faults>>

\* The clock passes hold_expires_at; no statement runs.
Lapse(h) ==
    /\ holds[h] = "active"
    /\ holds' = [holds EXCEPT ![h] = "overdue"]
    /\ UNCHANGED <<catalogVars, applied, bodies, ps, fresh, faults>>

\* GuaranteeStay's transaction: HoldActive was read before, so the hold may be overdue now.
GuaranteeStay(h) ==
    /\ \E p \in Process : Serving(p)
    /\ holds[h] \in {"active", "overdue"}
    /\ holds' = [holds EXCEPT ![h] = "guaranteed"]
    /\ Commit
    /\ UNCHANGED <<catalogVars, applied, bodies, ps, faults>>

\* An update that matches no row writes no page of the file.
ManagerStep(m) ==
    /\ \/ (\E i \in Item : ReadForUpdate(m, i)) /\ UNCHANGED fresh
       \/ \E to \in ToStatus : UpdateStatus(m, to) /\ fresh' = IF rows' = rows THEN fresh ELSE {}
    /\ UNCHANGED <<applied, bodies, ps, holds, faults>>

-----------------------------------------------------------------------------
ProcessStep(p) ==
    \/ Start(p)
    \/ CheckMigration(p)
    \/ ApplyMigration(p)
    \/ LookForSeed(p)
    \/ CreateSeed(p)
    \/ SweepRead(p)
    \/ SweepWrite(p)

Next ==
    \/ \E p \in Process : ProcessStep(p) \/ Stop(p)
    \/ \E h \in Hold : Lapse(h) \/ GuaranteeStay(h)
    \/ \E m \in Manager : ManagerStep(m)

Spec == Init /\ [][Next]_vars

\* A process that is down is started again, by whoever runs the service; one that runs goes
\* on to its next statement, and its worker ticks.
FairSpec == Spec /\ \A p \in Process : WF_vars(ProcessStep(p))

-----------------------------------------------------------------------------
\* Every variable holds a value of the table or local variable it stands for.
TypeOK ==
    /\ CatalogTypeOK
    /\ applied \subseteq Migration
    /\ bodies \in [Migration -> Nat]
    /\ ps \in [Process -> ProcessRow]
    /\ fresh \subseteq Process
    /\ holds \in [Hold -> HoldStatus]
    /\ faults \in 0..MaxFaults
=============================================================================
