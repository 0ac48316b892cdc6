---------------------------- MODULE ServerProofs ----------------------------
(***************************************************************************)
(* Proofs about Server and Catalog, for any processes, migrations,         *)
(* resources, managers, holds and bounds.                                  *)
(***************************************************************************)
EXTENDS ServerProperties, TLAPS

\* What a process has found where it stands: the migrations before its own, then all of them,
\* and the rows before its own, then all of them.
Ready(p) ==
    /\ ps[p].pc = "down" => ps[p].migration = 1
    /\ ps[p].pc \in {"down", "check", "apply"} => ps[p].item = House
    /\ ps[p].pc \in {"check", "apply"} =>
          \A v \in Migration : v < ps[p].migration => v \in applied
    /\ ps[p].pc \in {"look", "create", "serving", "sweeping"} => applied = Migration
    /\ ps[p].pc \in {"look", "create"} => \A i \in Item : i < ps[p].item => ~Absent(i)
    /\ ps[p].pc \in {"serving", "sweeping"} => \A i \in Item : ~Absent(i)

\* A successful update went out from a row that was there and whose version is history.
EditSound(m) ==
    edits[m].result = "ok" =>
        /\ edits[m].pc = "done"
        /\ edits[m].from.version < rows[edits[m].item].version

\* A row that is not there has no version.
AbsentAtZero == \A i \in Item : Absent(i) => rows[i].version = 0

Inv ==
    /\ TypeOK /\ MigrationsOnceInOrder /\ OneUpdatePerVersion /\ AbsentAtZero
    /\ \A p \in Process : Ready(p)
    /\ \A m \in Manager : EditSound(m)

\* A step takes nothing out of the tables, and versions only grow.
TablesGrow ==
    /\ applied \subseteq applied'
    /\ \A i \in Item : ~Absent(i) => ~Absent(i)'
    /\ \A i \in Item : rows[i].version <= rows'[i].version

-----------------------------------------------------------------------------
\* The sets that the constants span.
LEMMA Ranges ==
    /\ LastMigration \in Nat /\ LastMigration >= 1 /\ 1 \in Migration
    /\ LastResource \in Nat /\ House \in Item /\ LastResource \in Item
    /\ Migration \subseteq Int /\ Item \subseteq Int
  BY ServerAssumption, CatalogAssumption DEF Migration, Item, House

LEMMA RowTypes ==
    /\ NoRow \in Row /\ IdleEdit \in Edit /\ Down \in ProcessRow
    /\ [status |-> "open", version |-> 1] \in Row
<1>1. NoRow \in Row /\ [status |-> "open", version |-> 1] \in Row
  BY DEF NoRow, Row, Status, PropertyStatus, ResourceStatus
<1>2. IdleEdit \in Edit
  BY <1>1, Ranges DEF IdleEdit, Edit
<1>3. Down \in ProcessRow
  BY Ranges DEF Down, ProcessRow
<1>4. QED
  BY <1>1, <1>2, <1>3

LEMMA InitInv == Init => Inv
<1> SUFFICES ASSUME Init PROVE Inv
  OBVIOUS
<1>1. TypeOK
  BY RowTypes, ServerAssumption DEF Init, CatalogInit, TypeOK, CatalogTypeOK, HoldStatus
<1>2. MigrationsOnceInOrder /\ OneUpdatePerVersion /\ AbsentAtZero
  BY DEF Init, CatalogInit, MigrationsOnceInOrder, OneUpdatePerVersion, IdleEdit, AbsentAtZero,
         NoRow
<1>3. (\A p \in Process : Ready(p)) /\ \A m \in Manager : EditSound(m)
  BY DEF Init, CatalogInit, Ready, EditSound, IdleEdit, Down
<1>4. QED
  BY <1>1, <1>2, <1>3 DEF Inv

\* A process that does not move stays ready, and an edit that does not move sound.
LEMMA GrowthKeeps ==
    ASSUME Inv, TablesGrow, applied' \subseteq Migration
    PROVE  /\ \A p \in Process : ps'[p] = ps[p] => Ready(p)'
           /\ \A m \in Manager : rows' \in [Item -> Row] /\ edits'[m] = edits[m] => EditSound(m)'
<1>1. ASSUME NEW p \in Process, ps'[p] = ps[p] PROVE Ready(p)'
  <2>1. Ready(p)
    BY DEF Inv
  <2>2. QED
    BY <1>1, <2>1 DEF Ready, TablesGrow
<1>2. ASSUME NEW m \in Manager, rows' \in [Item -> Row], edits'[m] = edits[m] PROVE EditSound(m)'
  <2>1. EditSound(m) /\ edits[m].item \in Item /\ edits[m].from.version \in Nat
    BY DEF Inv, TypeOK, CatalogTypeOK, Edit, Row
  <2>2. /\ rows[edits[m].item].version \in Nat /\ rows'[edits[m].item].version \in Nat
        /\ rows[edits[m].item].version <= rows'[edits[m].item].version
    BY <1>2, <2>1 DEF Inv, TypeOK, CatalogTypeOK, Row, TablesGrow
  <2>3. QED
    BY <1>2, <2>1, <2>2 DEF EditSound
<1>3. QED
  BY <1>1, <1>2

-----------------------------------------------------------------------------
(* The steps of a start                                                    *)

\* Where a process goes after a migration that is recorded.
LEMMA AfterMigrationReady ==
    ASSUME Inv, NEW p \in Process, ps[p].pc \in {"check", "apply"}
    PROVE  LET next == AfterMigration(p)
               done == applied \cup {ps[p].migration}
           IN  /\ next \in ProcessRow /\ next.pc \in {"check", "look"}
               /\ next.pc = "check" =>
                     \A v \in Migration : v < next.migration => v \in done
               /\ next.pc = "look" => done = Migration
               /\ next.item = House
  <1> DEFINE next == AfterMigration(p)
             done == applied \cup {ps[p].migration}
  <1>1. ps[p] \in ProcessRow /\ ps[p].migration \in Migration /\ applied \subseteq Migration
    BY DEF Inv, TypeOK, ProcessRow
  <1>2. ps[p].item = House /\ \A v \in Migration : v < ps[p].migration => v \in applied
    BY DEF Inv, Ready
  <1>3. CASE ps[p].migration = LastMigration
    <2>0. \A v \in Migration : v < LastMigration \/ v = LastMigration
      BY Ranges DEF Migration
    <2>1. done = Migration
      BY <1>1, <1>2, <1>3, <2>0
    <2>2. next = [ps[p] EXCEPT !.pc = "look"]
      BY <1>3 DEF AfterMigration
    <2>3. QED
      BY <1>1, <1>2, <2>1, <2>2 DEF ProcessRow
  <1>4. CASE ps[p].migration # LastMigration
    <2>1. next = [ps[p] EXCEPT !.pc = "check", !.migration = ps[p].migration + 1]
      BY <1>4 DEF AfterMigration
    <2>2. ps[p].migration + 1 \in Migration
      BY <1>1, <1>4, Ranges DEF Migration
    <2>3. /\ next \in ProcessRow /\ next.pc = "check" /\ next.item = House
          /\ next.migration = ps[p].migration + 1
      BY <1>1, <1>2, <2>1, <2>2 DEF ProcessRow
    <2>4. \A v \in Migration : v < next.migration => v \in done
      BY <1>1, <1>2, <2>3, Ranges DEF Migration
    <2>5. QED
      BY <2>3, <2>4
  <1>5. QED
    BY <1>3, <1>4

\* Where a process goes after a row that is there.
LEMMA AfterSeedReady ==
    ASSUME Inv, NEW p \in Process, ps[p].pc \in {"look", "create"}
    PROVE  LET next == AfterSeed(p)
           IN  /\ next \in ProcessRow /\ next.pc \in {"look", "serving"}
               /\ next.pc = "look" =>
                     \A i \in Item : i < next.item => ~Absent(i) \/ i = ps[p].item
               /\ next.pc = "serving" => \A i \in Item : ~Absent(i) \/ i = ps[p].item
  <1> DEFINE next == AfterSeed(p)
  <1>1. ps[p] \in ProcessRow /\ ps[p].item \in Item
    BY DEF Inv, TypeOK, ProcessRow
  <1>2. \A i \in Item : i < ps[p].item => ~Absent(i)
    BY DEF Inv, Ready
  <1>3. CASE ps[p].item = LastResource
    <2>1. next = [ps[p] EXCEPT !.pc = "serving"]
      BY <1>3 DEF AfterSeed
    <2>2. \A i \in Item : i < ps[p].item \/ i = ps[p].item
      BY <1>3, Ranges DEF Item, House
    <2>3. QED
      BY <1>1, <1>2, <2>1, <2>2 DEF ProcessRow
  <1>4. CASE ps[p].item # LastResource
    <2>1. next = [ps[p] EXCEPT !.pc = "look", !.item = ps[p].item + 1]
      BY <1>4 DEF AfterSeed
    <2>2. ps[p].item + 1 \in Item
      BY <1>1, <1>4, Ranges DEF Item, House
    <2>3. next \in ProcessRow /\ next.pc = "look" /\ next.item = ps[p].item + 1
      BY <1>1, <2>1, <2>2 DEF ProcessRow
    <2>4. \A i \in Item : i < next.item => i < ps[p].item \/ i = ps[p].item
      BY <1>1, <2>3, Ranges DEF Item
    <2>5. QED
      BY <1>2, <2>3, <2>4
  <1>5. QED
    BY <1>3, <1>4

\* One process moves to "next", and the tables keep what they have.
LEMMA ProcessMoves ==
    ASSUME Inv, NEW p \in Process, NEW next \in ProcessRow,
           ps' = [ps EXCEPT ![p] = next],
           TablesGrow, applied' \subseteq Migration, rows' \in [Item -> Row],
           UNCHANGED edits, fresh' \subseteq Process, holds' \in [Hold -> HoldStatus],
           faults' \in 0..MaxFaults, bodies' \in [Migration -> Nat], MigrationsOnceInOrder',
           AbsentAtZero',
           next.pc = "down" => next.migration = 1,
           next.pc \in {"down", "check", "apply"} => next.item = House,
           next.pc \in {"check", "apply"} =>
               \A v \in Migration : v < next.migration => v \in applied',
           next.pc \in {"look", "create", "serving", "sweeping"} => applied' = Migration,
           next.pc \in {"look", "create"} => \A i \in Item : i < next.item => ~Absent(i)',
           next.pc \in {"serving", "sweeping"} => \A i \in Item : ~Absent(i)'
    PROVE  Inv'
<1>1. ps' \in [Process -> ProcessRow]
  BY DEF Inv, TypeOK
<1>2. TypeOK'
  BY <1>1 DEF Inv, TypeOK, CatalogTypeOK
<1>3. OneUpdatePerVersion'
  BY DEF Inv, OneUpdatePerVersion
<1>4. ASSUME NEW q \in Process PROVE Ready(q)'
  <2>1. CASE q = p
    <3>1. ps'[q] = next
      BY <2>1 DEF Inv, TypeOK
    <3>2. QED
      BY <3>1 DEF Ready
  <2>2. CASE q # p
    BY <2>2, GrowthKeeps DEF Inv, TypeOK
  <2>3. QED
    BY <2>1, <2>2
<1>5. \A m \in Manager : EditSound(m)'
  BY GrowthKeeps
<1>6. QED
  BY <1>2, <1>3, <1>4, <1>5 DEF Inv

LEMMA CheckMigrationInv ==
    ASSUME Inv, NEW p \in Process, CheckMigration(p) PROVE Inv'
  <1> DEFINE next == IF ps[p].migration \in applied THEN AfterMigration(p)
                     ELSE [ps[p] EXCEPT !.pc = "apply"]
  <1>1. ps[p].pc = "check" /\ ps' = [ps EXCEPT ![p] = next]
    BY DEF CheckMigration, Inv, TypeOK
  <1>2. UNCHANGED <<rows, edits, applied, bodies, fresh, holds, faults>>
    BY DEF CheckMigration, catalogVars
  <1>3. ps[p] \in ProcessRow
    BY DEF Inv, TypeOK
  <1>4. /\ next \in ProcessRow
        /\ next.pc \in {"check", "apply"} =>
              \A v \in Migration : v < next.migration => v \in applied
        /\ next.pc = "look" => applied = Migration /\ \A i \in Item : i < next.item => ~Absent(i)
        /\ next.pc \in {"check", "apply", "look"} /\ next.item = House
    <2>1. CASE ps[p].migration \notin applied
      <3>1. next = [ps[p] EXCEPT !.pc = "apply"]
        BY <2>1
      <3>2. /\ next \in ProcessRow /\ next.pc = "apply" /\ next.migration = ps[p].migration
            /\ next.item = ps[p].item
        BY <1>3, <3>1 DEF ProcessRow
      <3>3. QED
        BY <1>1, <3>2 DEF Inv, Ready
    <2>2. CASE ps[p].migration \in applied
      <3>1. next = AfterMigration(p) /\ applied \cup {ps[p].migration} = applied
        BY <2>2
      <3>2. \A i \in Item : ~(i < House)
        BY Ranges DEF Item, House
      <3>3. QED
        BY <1>1, <3>1, <3>2, AfterMigrationReady
    <2>3. QED
      BY <2>1, <2>2
  <1> HIDE DEF next
  <1>5. TablesGrow /\ MigrationsOnceInOrder' /\ AbsentAtZero'
    BY <1>2 DEF TablesGrow, Absent, Inv, TypeOK, CatalogTypeOK, Row, MigrationsOnceInOrder,
           AbsentAtZero
  <1>6. QED
    BY <1>1, <1>2, <1>4, <1>5, ProcessMoves DEF Inv, TypeOK, CatalogTypeOK, Absent

LEMMA StartInv ==
    ASSUME Inv, NEW p \in Process, Start(p) PROVE Inv'
  <1> DEFINE next == [ps[p] EXCEPT !.pc = "check"]
  <1>1. ps[p].pc = "down" /\ ps' = [ps EXCEPT ![p] = next]
    BY DEF Start, Goes, Inv, TypeOK
  <1>2. UNCHANGED <<rows, edits, applied, bodies, fresh, holds, faults>>
    BY DEF Start, catalogVars
  <1>3. ps[p] \in ProcessRow /\ ps[p].migration = 1 /\ ps[p].item = House
    BY <1>1 DEF Inv, TypeOK, Ready
  <1>4. next \in ProcessRow /\ next.pc = "check" /\ next.migration = 1 /\ next.item = House
    BY <1>3 DEF ProcessRow
  <1>5. \A v \in Migration : ~(v < 1)
    BY Ranges DEF Migration
  <1>6. TablesGrow /\ MigrationsOnceInOrder' /\ AbsentAtZero'
    BY <1>2 DEF TablesGrow, Absent, Inv, TypeOK, CatalogTypeOK, Row, MigrationsOnceInOrder,
           AbsentAtZero
  <1> HIDE DEF next
  <1>7. QED
    BY <1>1, <1>2, <1>4, <1>5, <1>6, ProcessMoves DEF Inv, TypeOK, CatalogTypeOK

\* A process ends: it knows nothing any more, and the tables stay.
LEMMA ExitInv ==
    ASSUME Inv, NEW p \in Process, Exit(p),
           UNCHANGED <<rows, edits, applied, bodies, holds>>,
           fresh' \subseteq Process, faults' \in 0..MaxFaults
    PROVE  Inv'
<1>1. ps' = [ps EXCEPT ![p] = Down] /\ Down \in ProcessRow
  BY RowTypes DEF Exit
<1>2. Down.pc = "down" /\ Down.migration = 1 /\ Down.item = House
  BY DEF Down
<1>3. TablesGrow /\ MigrationsOnceInOrder' /\ AbsentAtZero'
  BY DEF TablesGrow, Absent, Inv, TypeOK, CatalogTypeOK, Row, MigrationsOnceInOrder,
           AbsentAtZero
<1>4. QED
  BY <1>1, <1>2, <1>3, ProcessMoves DEF Inv, TypeOK, CatalogTypeOK

LEMMA ApplyMigrationInv ==
    ASSUME Inv, NEW p \in Process, ApplyMigration(p) PROVE Inv'
  <1> DEFINE v == ps[p].migration
             next == AfterMigration(p)
  <1>1. /\ ps[p].pc = "apply" /\ v \in Migration
        /\ UNCHANGED <<rows, edits, holds, faults>>
    BY DEF ApplyMigration, catalogVars, Inv, TypeOK, ProcessRow
  <1>2. CASE Recorded(v)
    <2>1. Exit(p) /\ UNCHANGED <<applied, bodies, fresh>>
      BY <1>2 DEF ApplyMigration
    <2>2. QED
      BY <1>1, <2>1, ExitInv DEF Inv, TypeOK
  <1>3. CASE ~Recorded(v)
    <2>1. /\ v \notin applied /\ applied' = applied \cup {v}
          /\ bodies' = [bodies EXCEPT ![v] = @ + 1]
          /\ ps' = [ps EXCEPT ![p] = next] /\ fresh' = {}
      BY <1>3 DEF ApplyMigration, Recorded, Commit
    <2>2. /\ next \in ProcessRow /\ next.pc \in {"check", "look"} /\ next.item = House
          /\ next.pc = "check" => \A w \in Migration : w < next.migration => w \in applied'
          /\ next.pc = "look" => applied' = Migration
      BY <1>1, <2>1, AfterMigrationReady
    <2>3. \A w \in Migration : w < v => w \in applied
      BY <1>1 DEF Inv, Ready
    <2>4. applied' \subseteq Migration /\ bodies' \in [Migration -> Nat]
      BY <1>1, <2>1 DEF Inv, TypeOK
    <2>5. \A w \in applied' : \A u \in Migration : u < w => u \in applied'
      BY <1>1, <2>1, <2>3 DEF Inv, MigrationsOnceInOrder
    <2>6. \A w \in Migration : bodies'[w] = IF w \in applied' THEN 1 ELSE 0
      <3>1. \A w \in Migration : bodies'[w] = IF w = v THEN bodies[v] + 1 ELSE bodies[w]
        BY <1>1, <2>1 DEF Inv, TypeOK
      <3>2. bodies[v] = 0 /\ \A w \in Migration : bodies[w] = IF w \in applied THEN 1 ELSE 0
        BY <1>1, <2>1 DEF Inv, MigrationsOnceInOrder
      <3> HIDE DEF v
      <3>3. QED
        BY <2>1, <3>1, <3>2
    <2>7. MigrationsOnceInOrder'
      BY <2>5, <2>6 DEF MigrationsOnceInOrder
    <2>8. TablesGrow /\ AbsentAtZero'
      BY <1>1, <2>1 DEF TablesGrow, Absent, Inv, TypeOK, CatalogTypeOK, Row, AbsentAtZero
    <2>9. \A i \in Item : ~(i < House)
      BY Ranges DEF Item, House
    <2> HIDE DEF next, v
    <2>10. QED
      BY <1>1, <2>1, <2>2, <2>4, <2>7, <2>8, <2>9, ProcessMoves DEF Inv, TypeOK, CatalogTypeOK
  <1>4. QED
    BY <1>2, <1>3

LEMMA LookForSeedInv ==
    ASSUME Inv, NEW p \in Process, LookForSeed(p) PROVE Inv'
  <1> DEFINE next == IF rows[ps[p].item].status # "none" THEN AfterSeed(p)
                     ELSE [ps[p] EXCEPT !.pc = "create"]
  <1>1. ps[p].pc = "look" /\ ps' = [ps EXCEPT ![p] = next]
    BY DEF LookForSeed, Inv, TypeOK
  <1>2. UNCHANGED <<rows, edits, applied, bodies, fresh, holds, faults>>
    BY DEF LookForSeed, catalogVars
  <1>3. ps[p] \in ProcessRow /\ ps[p].item \in Item /\ applied = Migration
    BY <1>1 DEF Inv, TypeOK, Ready, ProcessRow
  <1>4. /\ next \in ProcessRow /\ next.pc \in {"look", "create", "serving"}
        /\ next.pc \in {"look", "create"} => \A i \in Item : i < next.item => ~Absent(i)
        /\ next.pc = "serving" => \A i \in Item : ~Absent(i)
    <2>1. CASE Absent(ps[p].item)
      <3>1. next = [ps[p] EXCEPT !.pc = "create"]
        BY <2>1 DEF Absent
      <3>2. next \in ProcessRow /\ next.pc = "create" /\ next.item = ps[p].item
        BY <1>3, <3>1 DEF ProcessRow
      <3>3. QED
        BY <1>1, <3>2 DEF Inv, Ready
    <2>2. CASE ~Absent(ps[p].item)
      <3>1. next = AfterSeed(p)
        BY <2>2 DEF Absent
      <3>2. QED
        BY <1>1, <2>2, <3>1, AfterSeedReady
    <2>3. QED
      BY <2>1, <2>2
  <1>5. TablesGrow /\ MigrationsOnceInOrder' /\ AbsentAtZero'
    BY <1>2 DEF TablesGrow, Absent, Inv, TypeOK, CatalogTypeOK, Row, MigrationsOnceInOrder,
           AbsentAtZero
  <1> HIDE DEF next
  <1>6. QED
    BY <1>1, <1>2, <1>3, <1>4, <1>5, ProcessMoves DEF Inv, TypeOK, CatalogTypeOK, Absent

LEMMA CreateSeedInv ==
    ASSUME Inv, NEW p \in Process, CreateSeed(p) PROVE Inv'
  <1>0. PICK i \in Item : i = ps[p].item
    BY DEF Inv, TypeOK, ProcessRow
  <1> DEFINE next == AfterSeed(p)
  <1>1. ps[p].pc = "create" /\ applied = Migration
    BY DEF CreateSeed, Inv, TypeOK, ProcessRow, Ready
  <1>2. UNCHANGED <<edits, applied, bodies, holds, faults>>
    BY DEF CreateSeed
  <1>3. CASE ~CanCreate(i)
    <2>1. Exit(p) /\ UNCHANGED <<rows, fresh>>
      BY <1>0, <1>3 DEF CreateSeed
    <2>2. QED
      BY <1>2, <2>1, ExitInv DEF Inv, TypeOK
  <1>4. CASE CanCreate(i)
    <2>1. /\ Absent(i) /\ fresh' = {}
          /\ rows' = [rows EXCEPT ![i] = [status |-> "open", version |-> 1]]
          /\ ps' = [ps EXCEPT ![p] = next]
      BY <1>0, <1>4 DEF CreateSeed, CanCreate, Create, Commit
    <2>2. \A j \in Item : rows[j].version \in Nat
      BY DEF Inv, TypeOK, CatalogTypeOK, Row
    <2>3. rows' \in [Item -> Row]
      BY <1>1, <2>1, RowTypes DEF Inv, TypeOK, CatalogTypeOK
    <2>4. \A j \in Item : rows'[j] = IF j = i THEN [status |-> "open", version |-> 1] ELSE rows[j]
      BY <1>1, <2>1 DEF Inv, TypeOK, CatalogTypeOK
    <2>5. ~Absent(i)' /\ \A j \in Item : ~Absent(j) => ~Absent(j)'
      BY <1>1, <2>4 DEF Absent
    <2>6. rows[i].version = 0
      BY <1>1, <2>1 DEF Inv, AbsentAtZero
    <2>7. TablesGrow
      <3>1. \A j \in Item : rows[j].version <= rows'[j].version
        BY <2>2, <2>4, <2>6
      <3>2. QED
        BY <1>2, <2>5, <3>1 DEF TablesGrow
    <2>8. MigrationsOnceInOrder'
      BY <1>2 DEF Inv, MigrationsOnceInOrder
    <2>9. /\ next \in ProcessRow /\ next.pc \in {"look", "serving"}
          /\ next.pc = "look" => \A j \in Item : j < next.item => ~Absent(j)'
          /\ next.pc = "serving" => \A j \in Item : ~Absent(j)'
      BY <1>0, <1>1, <2>5, AfterSeedReady
    <2>10. AbsentAtZero'
      BY <2>4, <2>5 DEF Inv, AbsentAtZero, Absent
    <2> HIDE DEF next
    <2>11. QED
      BY <1>1, <1>2, <2>1, <2>3, <2>7, <2>8, <2>9, <2>10, ProcessMoves
      DEF Inv, TypeOK, CatalogTypeOK
  <1>5. QED
    BY <1>3, <1>4

LEMMA StopInv ==
    ASSUME Inv, NEW p \in Process, Stop(p) PROVE Inv'
<1>1. Exit(p) /\ UNCHANGED <<rows, edits, applied, bodies, holds>>
  BY DEF Stop, catalogVars
<1>2. fresh' \subseteq Process /\ faults' \in 0..MaxFaults
  BY ServerAssumption DEF Stop, Inv, TypeOK
<1>3. QED
  BY <1>1, <1>2, ExitInv

-----------------------------------------------------------------------------
(* The steps of a server                                                   *)

\* The worker moves and no table but the holds changes.
LEMMA WorkerMoves ==
    ASSUME Inv, NEW p \in Process, NEW next \in ProcessRow, Serving(p),
           ps' = [ps EXCEPT ![p] = next], next.pc \in {"serving", "sweeping"},
           UNCHANGED <<rows, edits, applied, bodies, faults>>,
           fresh' \subseteq Process, holds' \in [Hold -> HoldStatus]
    PROVE  Inv'
<1>1. applied = Migration /\ \A i \in Item : ~Absent(i)
  BY DEF Inv, Ready, Serving
<1>2. TablesGrow /\ MigrationsOnceInOrder' /\ AbsentAtZero'
  BY DEF TablesGrow, Absent, Inv, TypeOK, CatalogTypeOK, Row, MigrationsOnceInOrder, AbsentAtZero
<1>3. \A i \in Item : ~Absent(i)'
  BY <1>1, <1>2 DEF TablesGrow
<1>4. QED
  BY <1>1, <1>2, <1>3, ProcessMoves DEF Inv, TypeOK, CatalogTypeOK

LEMMA SweepReadInv ==
    ASSUME Inv, NEW p \in Process, SweepRead(p) PROVE Inv'
  <1> DEFINE next == [[ps[p] EXCEPT !.pc = "sweeping"] EXCEPT !.batch = {h \in Hold : Overdue(h)}]
  <1>1. ps[p] \in ProcessRow /\ Serving(p)
    BY DEF SweepRead, Serving, Inv, TypeOK
  <1>2. ps' = [ps EXCEPT ![p] = next]
    BY DEF SweepRead, Inv, TypeOK
  <1>3. next \in ProcessRow /\ next.pc = "sweeping"
    BY <1>1 DEF ProcessRow
  <1>4. UNCHANGED <<rows, edits, applied, bodies, holds, faults>> /\ fresh' \subseteq Process
    BY DEF SweepRead, catalogVars, Inv, TypeOK
  <1> HIDE DEF next
  <1>5. QED
    BY <1>1, <1>2, <1>3, <1>4, WorkerMoves DEF Inv, TypeOK

LEMMA SweepWriteInv ==
    ASSUME Inv, NEW p \in Process, SweepWrite(p) PROVE Inv'
  <1> DEFINE next == NextTick(p)
  <1>1. ps[p] \in ProcessRow /\ Serving(p) /\ ps' = [ps EXCEPT ![p] = next]
    BY DEF SweepWrite, Serving, Inv, TypeOK
  <1>2. next \in ProcessRow /\ next.pc = "serving"
    BY <1>1 DEF NextTick, ProcessRow
  <1>3. UNCHANGED <<rows, edits, applied, bodies, faults>> /\ fresh' \subseteq Process
    BY DEF SweepWrite, Commit, catalogVars, Inv, TypeOK
  <1>4. holds' \in [Hold -> HoldStatus]
    BY DEF SweepWrite, Inv, TypeOK, HoldStatus
  <1> HIDE DEF next
  <1>5. QED
    BY <1>1, <1>2, <1>3, <1>4, WorkerMoves

\* A step that moves no process and leaves the ledger of migrations alone.
LEMMA OthersMove ==
    ASSUME Inv, TypeOK', TablesGrow, OneUpdatePerVersion', AbsentAtZero',
           UNCHANGED <<applied, bodies, ps>>, \A m \in Manager : EditSound(m)'
    PROVE  Inv'
<1>1. MigrationsOnceInOrder'
  BY DEF Inv, MigrationsOnceInOrder
<1>2. \A p \in Process : Ready(p)'
  BY GrowthKeeps DEF Inv, TypeOK
<1>3. QED
  BY <1>1, <1>2 DEF Inv

LEMMA HoldStepInv ==
    ASSUME Inv, NEW h \in Hold, Lapse(h) \/ GuaranteeStay(h) PROVE Inv'
<1>1. UNCHANGED <<rows, edits, applied, bodies, ps, faults>>
  BY DEF Lapse, GuaranteeStay, catalogVars
<1>2. TypeOK'
  BY <1>1 DEF Lapse, GuaranteeStay, Commit, Inv, TypeOK, CatalogTypeOK, HoldStatus
<1>3. TablesGrow /\ OneUpdatePerVersion' /\ AbsentAtZero'
  BY <1>1 DEF TablesGrow, Absent, Inv, TypeOK, CatalogTypeOK, Row, OneUpdatePerVersion,
              AbsentAtZero
<1>4. \A m \in Manager : EditSound(m)'
  BY <1>1 DEF Inv, EditSound
<1>5. QED
  BY <1>1, <1>2, <1>3, <1>4, OthersMove

LEMMA ReadForUpdateInv ==
    ASSUME Inv, NEW m \in Manager, NEW i \in Item, ReadForUpdate(m, i),
           UNCHANGED <<applied, bodies, ps, fresh, holds, faults>>
    PROVE  Inv'
  <1> DEFINE edit == [IdleEdit EXCEPT !.pc = "write", !.item = i, !.from = rows[i]]
  <1>1. UNCHANGED rows /\ edits' = [edits EXCEPT ![m] = edit]
    BY DEF ReadForUpdate
  <1>2. edit \in Edit /\ edit.result = "none"
    BY RowTypes DEF Edit, IdleEdit, Inv, TypeOK, CatalogTypeOK
  <1> HIDE DEF edit
  <1>3. \A n \in Manager : edits'[n] = IF n = m THEN edit ELSE edits[n]
    BY <1>1 DEF Inv, TypeOK, CatalogTypeOK
  <1>4. TypeOK'
    BY <1>1, <1>2 DEF Inv, TypeOK, CatalogTypeOK
  <1>5. OneUpdatePerVersion' /\ \A n \in Manager : EditSound(n)'
    BY <1>1, <1>2, <1>3 DEF Inv, OneUpdatePerVersion, EditSound
  <1>6. TablesGrow /\ AbsentAtZero'
    BY <1>1 DEF TablesGrow, Absent, Inv, TypeOK, CatalogTypeOK, Row, AbsentAtZero
  <1>7. QED
    BY <1>4, <1>5, <1>6, OthersMove

LEMMA UpdateStatusInv ==
    ASSUME Inv, NEW m \in Manager, NEW to \in ToStatus, UpdateStatus(m, to),
           UNCHANGED <<applied, bodies, ps, holds, faults>>, fresh' \subseteq Process
    PROVE  Inv'
  <1>0. PICK i \in Item : i = edits[m].item
    BY DEF Inv, TypeOK, CatalogTypeOK, Edit
  <1>1. PICK from \in Row : from = edits[m].from
    BY DEF Inv, TypeOK, CatalogTypeOK, Edit
  <1>2. edits[m] \in Edit /\ edits[m].pc = "write" /\ to \in Status
    BY CatalogAssumption DEF UpdateStatus, Inv, TypeOK, CatalogTypeOK
  <1>3. CASE ~Matches(i, from)
    <2> DEFINE edit == [[edits[m] EXCEPT !.pc = "done"] EXCEPT !.result = "conflict"]
    <2>1. UNCHANGED rows /\ edits' = [edits EXCEPT ![m] = edit]
      BY <1>0, <1>1, <1>3 DEF UpdateStatus, Inv, TypeOK, CatalogTypeOK
    <2>2. edit \in Edit /\ edit.result = "conflict"
      BY <1>2 DEF Edit
    <2> HIDE DEF edit
    <2>3. \A n \in Manager : edits'[n] = IF n = m THEN edit ELSE edits[n]
      BY <2>1 DEF Inv, TypeOK, CatalogTypeOK
    <2>4. TypeOK'
      BY <2>1, <2>2 DEF Inv, TypeOK, CatalogTypeOK
    <2>5. OneUpdatePerVersion' /\ \A n \in Manager : EditSound(n)'
      BY <2>1, <2>2, <2>3 DEF Inv, OneUpdatePerVersion, EditSound
    <2>6. TablesGrow /\ AbsentAtZero'
      BY <2>1 DEF TablesGrow, Absent, Inv, TypeOK, CatalogTypeOK, Row, AbsentAtZero
    <2>7. QED
      BY <2>4, <2>5, <2>6, OthersMove
  <1>4. CASE Matches(i, from)
    <2> DEFINE edit == [[edits[m] EXCEPT !.pc = "done"] EXCEPT !.result = "ok"]
               row == [status |-> to, version |-> from.version + 1]
    <2>1. /\ rows[i] = from /\ from.status # "none"
          /\ rows' = [rows EXCEPT ![i] = row]
          /\ edits' = [edits EXCEPT ![m] = edit]
      BY <1>0, <1>1, <1>4 DEF UpdateStatus, Matches, Inv, TypeOK, CatalogTypeOK
    <2>2. edit \in Edit /\ edit.result = "ok" /\ edit.pc = "done" /\ edit.item = i /\ edit.from = from
      BY <1>0, <1>1, <1>2 DEF Edit
    <2>3. row \in Row /\ row.version = from.version + 1 /\ row.status # "none"
      BY <1>1, <1>2 DEF Row, Status, PropertyStatus, ResourceStatus
    <2> HIDE DEF edit, row
    <2>4. /\ \A n \in Manager : edits'[n] = IF n = m THEN edit ELSE edits[n]
          /\ \A j \in Item : rows'[j] = IF j = i THEN row ELSE rows[j]
      BY <2>1 DEF Inv, TypeOK, CatalogTypeOK
    <2>5. TypeOK'
      BY <2>1, <2>2, <2>3 DEF Inv, TypeOK, CatalogTypeOK
    <2>6. from.version \in Nat /\ \A j \in Item : rows[j].version \in Nat
      BY <1>1 DEF Row, Inv, TypeOK, CatalogTypeOK
    <2>7. TablesGrow
      <3>1. \A j \in Item : rows[j].version <= rows'[j].version
        BY <2>1, <2>3, <2>4, <2>6
      <3>2. \A j \in Item : ~Absent(j) => ~Absent(j)'
        BY <2>3, <2>4 DEF Absent
      <3>3. QED
        BY <3>1, <3>2 DEF TablesGrow
    <2>8. AbsentAtZero'
      BY <2>3, <2>4 DEF Inv, AbsentAtZero, Absent
    <2>9. ASSUME NEW n \in Manager, n # m, edits[n].result = "ok", edits[n].item = i
          PROVE  edits[n].from # from
      <3>1. edits[n].from.version < rows[i].version
        BY <2>9 DEF Inv, EditSound
      <3>2. QED
        BY <2>1, <2>6, <3>1
    <2>10. OneUpdatePerVersion'
      BY <2>2, <2>4, <2>9 DEF Inv, OneUpdatePerVersion
    <2>11. ASSUME NEW n \in Manager PROVE EditSound(n)'
      <3>1. CASE n = m
        <4>1. edits'[n] = edit /\ rows'[i] = row
          BY <2>4, <3>1
        <4>2. QED
          BY <2>2, <2>3, <2>6, <4>1 DEF EditSound
      <3>2. CASE n # m
        BY <2>4, <2>5, <2>7, <3>2, GrowthKeeps DEF Inv, TypeOK, CatalogTypeOK
      <3>3. QED
        BY <3>1, <3>2
    <2>12. QED
      BY <2>5, <2>7, <2>8, <2>10, <2>11, OthersMove
  <1>5. QED
    BY <1>3, <1>4

LEMMA ManagerStepInv ==
    ASSUME Inv, NEW m \in Manager, ManagerStep(m) PROVE Inv'
<1>1. UNCHANGED <<applied, bodies, ps, holds, faults>>
  BY DEF ManagerStep
<1>2. ASSUME NEW i \in Item, ReadForUpdate(m, i), UNCHANGED fresh PROVE Inv'
  BY <1>1, <1>2, ReadForUpdateInv
<1>3. ASSUME NEW to \in ToStatus, UpdateStatus(m, to), fresh' = IF rows' = rows THEN fresh ELSE {}
      PROVE  Inv'
  <2>1. fresh' \subseteq Process
    BY <1>3 DEF Inv, TypeOK
  <2>2. QED
    BY <1>1, <1>3, <2>1, UpdateStatusInv
<1>4. QED
  BY <1>2, <1>3 DEF ManagerStep

LEMMA NextInv == Inv /\ [Next]_vars => Inv'
<1> SUFFICES ASSUME Inv, [Next]_vars PROVE Inv'
  OBVIOUS
<1>1. ASSUME NEW p \in Process, ProcessStep(p) PROVE Inv'
  BY <1>1, StartInv, CheckMigrationInv, ApplyMigrationInv, LookForSeedInv, CreateSeedInv,
     SweepReadInv, SweepWriteInv DEF ProcessStep
<1>2. ASSUME NEW p \in Process, Stop(p) PROVE Inv'
  BY <1>2, StopInv
<1>3. CASE UNCHANGED vars
  <2>1. TypeOK' /\ OneUpdatePerVersion' /\ AbsentAtZero' /\ TablesGrow
    BY <1>3 DEF vars, Inv, TypeOK, CatalogTypeOK, OneUpdatePerVersion, AbsentAtZero, Absent,
                TablesGrow, Row
  <2>2. \A m \in Manager : EditSound(m)'
    BY <1>3 DEF vars, Inv, EditSound
  <2>3. QED
    BY <1>3, <2>1, <2>2, OthersMove DEF vars
<1>4. QED
  BY <1>1, <1>2, <1>3, HoldStepInv, ManagerStepInv DEF Next

-----------------------------------------------------------------------------
(* What follows for every behaviour                                        *)

\* The inductive invariant holds.
THEOREM ServerInvariance == Spec => []Inv
  BY InitInv, NextInv, PTL DEF Spec

\* The tables and local variables of Server keep their types.
THEOREM ServerTypeCorrect == Spec => []TypeOK
<1>1. Inv => TypeOK
  BY DEF Inv
<1>2. QED
  BY <1>1, ServerInvariance, PTL

\* Open, Migrate and SeedCatalog: a process serves only over a database that has every
\* migration and every seeded row, whatever other processes and crashes do.
THEOREM ServersAreReady == Spec => []ServingIsReady
<1>1. Inv => ServingIsReady
  BY DEF Inv, Ready, ServingIsReady, Serving, Absent
<1>2. QED
  BY <1>1, ServerInvariance, PTL

\* Migrate: every migration is committed at most once, and after those before it.
THEOREM MigrationsInOrder == Spec => []MigrationsOnceInOrder
<1>1. Inv => MigrationsOnceInOrder
  BY DEF Inv
<1>2. QED
  BY <1>1, ServerInvariance, PTL

\* UpdatePropertyStatus, UpdateResourceStatus: one successful update for each version read.
THEOREM UpdatesAreSerial == Spec => []OneUpdatePerVersion
<1>1. Inv => OneUpdatePerVersion
  BY DEF Inv
<1>2. QED
  BY <1>1, ServerInvariance, PTL

\* SeedCatalog: a start leaves the rows that exist alone, and updates count versions on.
THEOREM SeedingKeepsChanges == Spec => SeedKeepsChanges
<1>1. ASSUME Inv, [Next]_vars
      PROVE  [\A i \in Item : rows[i].status # "none" /\ rows'[i] # rows[i]
                                => rows'[i].version = rows[i].version + 1]_vars
  <2>1. ASSUME NEW p \in Process, CreateSeed(p), NEW i \in Item, rows[i].status # "none"
        PROVE  rows'[i] = rows[i]
    <3>1. rows' = rows \/ (Absent(ps[p].item)
                           /\ rows' = [rows EXCEPT ![ps[p].item] = [status |-> "open", version |-> 1]])
      BY <2>1 DEF CreateSeed, CanCreate, Create
    <3>2. QED
      BY <1>1, <2>1, <3>1 DEF Absent, Inv, TypeOK, CatalogTypeOK
  <2>2. ASSUME NEW m \in Manager, NEW to \in ToStatus, UpdateStatus(m, to), NEW i \in Item,
               rows'[i] # rows[i]
        PROVE  rows'[i].version = rows[i].version + 1
    <3>1. /\ rows' = [rows EXCEPT ![edits[m].item] =
                        [status |-> to, version |-> rows[edits[m].item].version + 1]]
      BY <2>2 DEF UpdateStatus
    <3>2. i = edits[m].item
      BY <1>1, <2>2, <3>1 DEF Inv, TypeOK, CatalogTypeOK
    <3>3. QED
      BY <1>1, <3>1, <3>2 DEF Inv, TypeOK, CatalogTypeOK
  <2>3. CASE rows' = rows
    BY <2>3
  <2>4. CASE Next /\ rows' # rows
    <3>1. \/ \E p \in Process : CreateSeed(p)
          \/ \E m \in Manager, to \in ToStatus : UpdateStatus(m, to)
      BY <2>4 DEF Next, ProcessStep, Start, CheckMigration, ApplyMigration, LookForSeed, SweepRead,
                  SweepWrite, Stop, Lapse, GuaranteeStay, ManagerStep, ReadForUpdate, catalogVars
    <3>2. QED
      BY <2>1, <2>2, <3>1
  <2>5. QED
    BY <1>1, <2>3, <2>4 DEF vars
<1>2. QED
  BY <1>1, ServerInvariance, PTL DEF Spec, SeedKeepsChanges

\* The sweep's transaction: no step takes a guarantee away.
THEOREM GuaranteesSurvive == Spec => GuaranteeSurvivesSweep
<1>1. ASSUME Inv, [Next]_vars
      PROVE  [\A h \in Hold : holds[h] = "guaranteed" => holds'[h] = "guaranteed"]_vars
  <2>1. ASSUME NEW p \in Process, SweepWrite(p), NEW h \in Hold, holds[h] = "guaranteed"
        PROVE  holds'[h] = "guaranteed"
    BY <2>1 DEF SweepWrite, Overdue
  <2>2. ASSUME NEW k \in Hold, Lapse(k) \/ GuaranteeStay(k), NEW h \in Hold,
               holds[h] = "guaranteed"
        PROVE  holds'[h] = "guaranteed"
    BY <1>1, <2>2 DEF Lapse, GuaranteeStay, Inv, TypeOK
  <2>3. CASE holds' = holds
    BY <2>3
  <2>4. CASE Next /\ holds' # holds
    <3>1. \/ \E p \in Process : SweepWrite(p)
          \/ \E k \in Hold : Lapse(k) \/ GuaranteeStay(k)
      BY <2>4 DEF Next, ProcessStep, Start, CheckMigration, ApplyMigration, LookForSeed, CreateSeed,
                  SweepRead, Stop, ManagerStep
    <3>2. QED
      BY <2>1, <2>2, <3>1
  <2>5. QED
    BY <1>1, <2>3, <2>4 DEF vars
<1>2. QED
  BY <1>1, ServerInvariance, PTL DEF Spec, GuaranteeSurvivesSweep
=============================================================================
