------------------------------ MODULE Catalog ------------------------------
(***************************************************************************)
(* The tables properties and resources: rows are created once, and change  *)
(* status under an optimistic version, from a row that was read before.    *)
(***************************************************************************)
EXTENDS Integers

CONSTANTS
    LastResource,  \* resources are numbered 1..LastResource, in the order of SeedCatalog
    ToStatus,      \* statuses that managers ask for
    Manager,       \* callers of UpdatePropertyStatus and UpdateResourceStatus
    MaxVersion     \* bound: managers stop here

PropertyStatus == {"open", "weather_closed", "maintenance_closed"}
ResourceStatus == {"open", "held", "occupied", "cleaning", "faulted", "closed"}
Status == PropertyStatus \cup ResourceStatus

ASSUME CatalogAssumption ==
    /\ LastResource \in Nat
    /\ ToStatus \subseteq Status
    /\ MaxVersion \in Nat

House == 0                \* the one property, which every resource refers to
Item == House..LastResource
StatusOf(i) == IF i = House THEN PropertyStatus ELSE ResourceStatus

VARIABLES
    rows,          \* both tables: status and version by id
    edits          \* what each manager read and what came of its update

catalogVars == <<rows, edits>>

Row == [status: {"none"} \cup Status, version: Nat]
NoRow == [status |-> "none", version |-> 0]
Edit == [pc: {"idle", "write", "done"}, item: Item, from: Row, result: {"none", "ok", "conflict"}]
IdleEdit == [pc |-> "idle", item |-> House, from |-> NoRow, result |-> "none"]

CatalogInit ==
    /\ rows = [i \in Item |-> NoRow]
    /\ edits = [m \in Manager |-> IdleEdit]

Absent(i) == rows[i].status = "none"

\* Mutants: the insert replaces a row, or the update loses its version.
CanReplace(i) == i # House => ~Absent(House)
MatchesAnyVersion(i, from) == from.status # "none" /\ rows[i].status = from.status

\* WHERE id=? AND status=? AND version=?
Matches(i, from) == from.status # "none" /\ rows[i] = from

\* CreateProperty, CreateResource: the primary key, and the property a resource refers to.
CanCreate(i) == Absent(i) /\ (i # House => ~Absent(House))
Create(i) == rows' = [rows EXCEPT ![i] = [status |-> "open", version |-> 1]]

ReadForUpdate(m, i) ==
    /\ edits[m].pc = "idle" /\ ~Absent(i)
    /\ edits' = [edits EXCEPT ![m] = [IdleEdit EXCEPT !.pc = "write", !.item = i, !.from = rows[i]]]
    /\ UNCHANGED rows

\* UpdatePropertyStatus, UpdateResourceStatus; no row matches, or one does.
UpdateStatus(m, to) ==
    LET i == edits[m].item
    IN  /\ edits[m].pc = "write" /\ to \in StatusOf(i)
        /\ \/ /\ Matches(i, edits[m].from) /\ rows[i].version < MaxVersion
              /\ rows' = [rows EXCEPT ![i] = [status |-> to, version |-> @.version + 1]]
              /\ edits' = [edits EXCEPT ![m].pc = "done", ![m].result = "ok"]
           \/ /\ ~Matches(i, edits[m].from)
              /\ edits' = [edits EXCEPT ![m].pc = "done", ![m].result = "conflict"]
              /\ UNCHANGED rows

-----------------------------------------------------------------------------
CatalogTypeOK ==
    /\ rows \in [Item -> Row]
    /\ edits \in [Manager -> Edit]
=============================================================================
