# Verification of the Lushan YouStay allocation service

This directory models the service in `src/` in TLA+, checks the models with TLC on small
instances and proves theorems about them with TLAPS. `PROJECT.json` says which lines of the
source each definition translates, what each run checks and where each hazard bites.

## 1. The system

A Go process with one SQLite database (WAL, `busy_timeout`, foreign keys on). Requests come
in over HTTP, each in a goroutine of its own; one worker goroutine ticks at an interval.
Nothing is kept in memory between requests: the tables are the shared state, and services
interact only through them. A service method runs separate `SELECT`s outside any transaction
and then one transaction (`withTx`) or one statement that writes.

| component | state it keeps | operations | what makes it correct |
|---|---|---|---|
| booking service (`internal/booking/service.go`) | local copies of the rows it read | `Hold`, `Guarantee`, `CheckIn`, `Cancel`, `ReceivePayment` | no night sold twice; a key yields one stay; of two writers of one version one wins |
| stay state machine (`internal/domain/stay.go`) | status, version, hold expiry of a stay | `Transition`, `HoldActive`, `Validate` | a stay only moves along the table of edges |
| stay store (`store/sqlite/stays.go`) | `stays`, `stay_nights`, `identity_checks`, `payments`, `audit_events` | `CreateHeldStay`, `GuaranteeStay`, `TransitionStay`, `RecordPayment`, `ExpireDueHolds` | nights and stay agree; guarantee is all or nothing |
| operations (`operations/service.go`, `store/sqlite/operations.go`) | `operational_tasks`, `damage_claims` | `Checkout`, `CompleteTask`, `FailTask`, `AssessDamage`, `ClaimDueTasks`, `SaveTask` | one cleaning task per check-out; no task lost or done twice |
| settlement (`settlement/service.go`) | `refund_settlements` | `Start` | one settlement per stay, covering its payments |
| catalogue (`store/sqlite/catalog.go`, `domain/resource.go`) | `properties`, `resources` | list, create, `UpdatePropertyStatus`, `UpdateResourceStatus` | a status change does not break an allocation |
| worker (`worker/runner.go`) | the tasks it has claimed | `Tick`: sweep holds, remove sessions, process tasks by role | every overdue hold ends; tasks retry at most four times |
| auth (`internal/auth`, `store/sqlite/auth.go`) | `users`, `sessions` | `Login`, `Authenticate`, `Logout`, `RemoveExpired` | a revoked or expired session authenticates nobody |
| dates and prices (`domain/time.go`, `booking/pricing.go`) | none | `ParseDateRange`, `Nights`, `NightCount`, `Quote` | the nights of a range, its price without overflow |
| database (`store/sqlite/database.go`, `migrations/`) | schema, text encoding of times | `Migrate`, `withTx`, `encodeTime` | migrations apply once; order of texts is order of times |
| bootstrap (`bootstrap/bootstrap.go`) | catalogue rows | `SeedCatalog` | a restart completes a half-seeded catalogue |
| HTTP API, process, configuration, clock, identifiers | none | routing, decoding, wiring | pure I/O around the services |

Hard behaviours: a request reads, other requests and the worker write, and the request then
writes from what it read; a client repeats a request that is still in flight; a provider
sends an event twice, before the guarantee that records it, or while the database is locked; a
process is killed between two statements; two processes migrate and seed one database
together; the worker takes a limited batch per tick, and its sweep is refused when another
transaction commits between its read and its write; times are compared as texts, days have 23
or 25 hours and integers wrap. `PROJECT.json` lists each under `hazards` with its line.

## 2. Modules

| module | role |
|---|---|
| `Booking` | the detailed model: booking, check-out, settlement, sweep and status changes over the tables; `TypeOK` |
| `BookingProperties` | invariants, action properties and liveness of `Booking`, and what the repository promises but the code does not keep |
| `StayLedger` | abstract specification: nights have at most one owner and stays own all their nights or none |
| `BookingLedger` | the refinement mapping from `Booking` to `StayLedger` |
| `BookingProofs` | TLAPS proofs: types, one owner per night, versions, lifecycle |
| `BookingTables` | TLAPS proofs: the tables agree with one another and with the replies; `Booking` implements `StayLedger` |
| `Tasks`, `TasksProperties` | operational tasks: claims, handlers, saves, stops and restarts of server processes, tasks completed and failed by hand; `TypeOK` and the properties |
| `WorkQueue` | abstract specification: who holds a task holds it alone, at one attempt, and writes how it ended |
| `TasksQueue` | the refinement mapping from `Tasks` to `WorkQueue` |
| `TasksProofs` | TLAPS proofs about `Tasks`, with and without saves by hand; `Tasks` implements `WorkQueue` |
| `Sessions`, `SessionsProperties` | login, authentication, logout and removal of sessions; `TypeOK` and the properties |
| `SessionsProofs` | TLAPS proofs about `Sessions` |
| `Catalog` | the tables `properties` and `resources`: creation and updates under a version |
| `Server`, `ServerProperties` | server processes over one database: migrations, seeding (of `Catalog`), crashes, and the sweep's refused transaction; `TypeOK` and the properties |
| `ServerProofs` | TLAPS proofs about `Server` and `Catalog` |
| `Payments`, `PaymentsProperties` | guarantees, callbacks, damage claims and settlements with amounts, and the properties |
| `PaymentsProofs` | TLAPS proofs about what is on the books and what a settlement adds up |
| `SumLemmas` | TLAPS proofs about sums over finite sets, by induction on the sets |
| `Calendar`, `Pricing`, `TimeText` | pure rules: the dates of a stay in zones whose clocks change, quotes in integers of fixed width, times as texts |
| `Listing` | the pages of a list while rows are created |
| `Rules` | the properties of the pure rules over chosen inputs, with `Listing` beside them |
| `RulesProofs` | TLAPS proofs about dates, quotes, texts of times and pages |
| `MCBooking`, `MCBookingLedger`, `MCTasks`, `MCSessions`, `MCServer`, `MCPayments`, `MCRules` | instances for TLC |

`Server` composes with `Catalog` (it extends it: seeding is `Catalog`'s `Create` inside the
start of a process), `BookingLedger` with `StayLedger` and `Booking`, `TasksQueue` with `WorkQueue` and `Tasks`, `Rules` with the three
modules of rules and `Listing`. `Booking`, `Tasks` and `Sessions` share no table but `operational_tasks`, of
which `Booking` counts the rows that check-out inserts and `Tasks` follows each row from there
on; and no control but the worker's tick, whose three parts fail and go on independently. Each
is therefore checked on its own, with the others' effects as actions of the environment
(`CreateTask`, `Deactivate`, `Lapse`). `Payments` looks at the transactions of `Booking` that
move money again, this time with amounts: what `Booking` says about the life of a stay is one
nondeterministic `TransitionStay` there.

### How Booking corresponds to the code

State: `stays`, `nights`, `identities`, `payments`, `settlements`, `properties`, `resources`
are the tables of those names; `cleanings` and `audits` count the rows of
`operational_tasks` and `audit_events` about each stay; a row of `payments` also has, as
history that no action reads, who inserted it (`by`: a guarantee or a callback, both of which
may write the kind `guarantee`); `now` is the clock; `rq[h]` holds the
local variables of request handler `h` and the statement it runs next. A stay identifier
without a row has status `"none"`.

Each `SELECT` of a handler and each transaction is one action:

| action | code |
|---|---|
| `HoldCheckKey`, `HoldGetResource`, `HoldGetProperty`, `HoldCreate` | `Service.Hold` and `CreateHeldStay` |
| `GuaranteeRead`, `GuaranteeCommit` | `Service.Guarantee` and `GuaranteeStay` |
| `TransitionRead`, `TransitionCommit` | `CheckIn`, `Cancel` and `TransitionStay` (and the read of `Checkout`) |
| `CheckoutCommit` | `CheckoutAndCreateCleaning` |
| `SettleRead`, `SettleSum`, `SettleCommit` | `settlement.Service.Start` and `CreateSettlement` |
| `ReceivePayment` | `RecordPayment` |
| `ExpireDueHolds` | the sweep of `Runner.Tick` |
| `UpdatePropertyStatus`, `UpdateResourceStatus` | the catalogue's updates |
| `AdvanceClock` | time passes |
| `EndRequest` | the reply is sent; or, before the transaction, the context is cancelled, the busy timeout runs out or the process is killed |

A transaction is one action because its first statement is a write (the sweep is the
exception, which `Server` looks into): SQLite then has one writer at a time and rolls back as a whole. A
crash has no action of its own: it ends every request, which is `EndRequest` for each of
them in turn, the tables being durable.

Abstractions. A range of dates is a non-empty interval of night numbers. Rows of `users`
matter only through the foreign key of `stays`, hence `Registered`. Amounts are those of
`Payments`: here the sum of payments is the set of events it adds up, and a price, party or
document that the code may turn down is a nondeterministic refusal. Results are `ok`, `conflict`
(`ErrConflict`, `ErrVersionConflict`), `locked` (the `ErrConflict` that `mapError` makes of
"database is locked" when a hold is inserted, kept apart so that the runs about conflicts
speak of the others) or `refused` (all other errors). `Cancel` and `ReceivePayment` have no HTTP route yet; they are
modelled as the service calls they are. Nights of all resources of a stay are those of one
resource, as in the schema. `UpdateResourceStatus` may set any status, since the code does
not use `Resource.Transition`.

Bounds, all constants: `LastNight`, `MaxTime` (the clock stops), `HoldTTL` in ticks of that
clock, `ExpireLimit`, and the sets of identifiers. Identifiers of stays do not recur, so a
run has at most as many stays as `StayId` has members; `Handler` bounds the requests in
flight, not their number over time.

### How Tasks corresponds to the code

State: `tasks` is the table; `workers[w]` holds the local variables of `Tick` and
`processRole` in server process `w` (role, claimed tasks still to be handled, the task and
row about to be saved); `desks[d]` those of a caller of `CompleteTask` or `FailTask`.
`handled` counts calls of the handler and is read by no action; `faults` counts stops and
refused statements.

| action | code |
|---|---|
| `CreateTask` | `Store.CreateTask` and the insert of `CheckoutAndCreateCleaning` |
| `BeginTick` | `Run`: the first tick of a process and every later one |
| `ClaimDueTasks` | `Store.ClaimDueTasks`, one transaction: query and guarded updates |
| `Handle`, `SaveHandled` | `DispatchHandler.Handle`, the outcome written to the local row, `SaveTask` |
| `StoreError` | the claim or the save fails; the error is collected and the loops go on |
| `Stop` | shutdown or crash: the local variables are lost, the table stays |
| `DeskGet`, `DeskSave` | `GetTask` with the check of the status, then `SaveTask` |
| `AdvanceClock` | due times come nearer |

The guard `status='pending' AND attempts=?` of the claim's update can only fail if another
transaction writes between the query and the update, which SQLite refuses (as `Server` shows of the
sweep, whose transaction has the same form), so it is not a branch of the action. A shutdown reaches handlers as a cancelled context and makes
their saves fail too; that is `Stop` before the save. A due time is kept as the
time left until it. `WorkerSpec` is what production runs: no route calls `CompleteTask` or
`FailTask`. `Spec` adds the desks. `AfterError` is the same code twice in the source,
`processRole` and `OperationalTask.Retry`.

### How Sessions corresponds to the code

State: `sessions` is the table, `active` the column of `users`, `issued` the identifiers that
were generated, `rq[h]` the local variables of request `h`. A token is the session it was
issued for; a wrong token finds no row, which is how a removed session looks too.

| action | code |
|---|---|
| `LoginFindUser`, `LoginCreateSession` | `Service.Login` |
| `FindSessionByTokenHash`, `FindUserByID`, `TouchSession` | `Service.Authenticate`, in front of every route but login |
| `LogoutFindSession`, `RevokeSession` | `Service.Logout`, after the authentication of its own request |
| `DeleteExpiredSessions` | `Service.RemoveExpired` in the worker's tick |
| `Deactivate` | an account is switched off in the table (external) |
| `EndRequest` | the reply is sent |

`Readable` is the failure of `scanUser` on the users of migration 002. The clock that a
method reads after a `SELECT` is read in the same action. `Keep` is the day for which a
revoked session stays.

### How Server and Catalog correspond to the code

State: `rows[i]` is the row of item `i` (0 is the property, the rest its resources) and
`edits[m]` what manager `m` read of one; `applied` is `schema_migrations`, `bodies[v]` counts
the commits of the statements of migration `v`; `ps[p]` is where process `p` stands in `run`,
with the holds its sweep has read; `fresh` holds the processes whose open snapshot is still
the last commit; `holds` is what the sweep sees of the stays.

| action | code |
|---|---|
| `Start` | `run` opens the database |
| `CheckMigration`, `ApplyMigration` | `Migrate`: the look at the ledger, outside of any transaction, then the file and the ledger's row in one |
| `LookForSeed`, `CreateSeed` | `SeedCatalog`: each row is looked for and, if it is missing, inserted |
| `Stop` | a signal, a crash, or a statement of the start that fails |
| `SweepRead`, `SweepWrite` | `ExpireDueHolds`: the `SELECT` of its deferred transaction, then its updates |
| `Lapse`, `GuaranteeStay` | a hold runs out; a guarantee commits, overdue or not |
| `ManagerStep` (`ReadForUpdate`, `UpdateStatus`) | a manager reads a row; `UpdatePropertyStatus`, `UpdateResourceStatus` |

A process that fails during its start ends (`run` returns the error), as `Exit` does. SQLite
refuses to turn a snapshot into a write transaction when another commit came after it: then
`SweepWrite` writes nothing and the next tick tries again. Any statement that changes a row is
such a commit; one that matches no row is not. The limit of a sweep is in `Booking`. A property
and its resources stand for the two tables because `SeedCatalog` and the foreign key tie them in
the same way for all.

### How Payments corresponds to the code

State: `payments`, `claims`, `settlements` are tables with their amounts, `stays` the status of
each stay, `rq[h]` the two sums that a settlement request holds. The fields
`knew...` say what was on the books when a settlement began: history, which no action reads.

| action | code |
|---|---|
| `GuaranteeStay` | the transaction of `Guarantee`, whose insert fails when a callback has the event |
| `TransitionStay` | sweep, check-in and check-out |
| `ReceivePayment` | `RecordPayment`: a row, or nothing when a constraint fails or the database is locked, both of which the code answers as a duplicate |
| `AssessDamage` | the draft of a claim, for an inspection task of the stay |
| `Decide` | a claim is accepted, disputed or waived in the table (external: nothing in the program does it) |
| `SettleBegin`, `SumSucceededPayments`, `SumAcceptedDamage`, `CreateSettlement`, `SettleEnd` | `settlement.Service.Start`, statement by statement |

### How Rules and its modules correspond to the code

`Calendar` has `ParseDateRange`, `NewDateRange`, `midnight` and `Nights` in a zone whose clock
changes once by an hour: instants and wall times are hours, dates are numbers of days. Go's
`time.Date` and `AddDate` are external and modelled by what they do with a wall time that the clock
skips or repeats. `Pricing` has the hours that `NightCount` divides and `Quote` in integers that
wrap at `Word`; a range is what the two need: its nights, the weekday it begins on, its days of
23 and 25 hours, its holidays. `TimeText` has `encodeTime` and the comparison of texts in SQL.
Percent stand for basis points and 20 bits for 64: `Word` is a constant. `Rules` draws an input
and has no step about it. `Listing` beside it is a real system: one client that goes through
`ListResources` page by page, as `listResources` lets it, and a process that creates rows.

## 3. Runs

| run | instance | question | distinct states |
|---|---|---|---|
| `Allocation` | 2 stays, 2 nights, 2 handlers, all operations, callbacks of failed guarantee payments, sweep | no double booking, nights follow the stay, idempotent hold, guarantees backed by what they recorded, settlements by what succeeded, one writer per version, lifecycle, one cleaning task and one settlement; `Booking` implements `StayLedger` | 398,312 |
| `Sweep` | 2 stays, 1 handler, a registered and an unregistered guest, callbacks, status changes, `ExpireLimit` 1 | every overdue hold ends | 263,682 |
| `Tasks` | 2 processes, 2 roles, 3 tasks, 2 attempts, 2 faults | a claim is exclusive, a task is handled once per attempt, pending tasks end; `Tasks` implements `WorkQueue`, so a task that ended is never opened again | 94,833 |
| `TaskDesk` | 1 process, 2 desks, 2 tasks, 1 fault | status, attempts and recorded errors survive overwriting saves | 205,210 |
| `Sessions` | 2 requests, 1 session, an ordinary and a built-in account, clock to 3 | logout shuts out, revocation final, seen before expiry, expired and revoked sessions are removed | 127,562 |
| `Server` | 2 processes, 2 migrations, a property with 2 resources, 2 managers, 1 hold, 1 fault | a server finds everything in place, migrations once and in order, one update per version, a start undoes nothing, guarantees survive the sweep, refused sweeps catch up, the start completes | 145,228 |
| `Payments` | 1 stay, 3 events, 4 callbacks, 2 claims, 1 settlement | guarantees paid in full, sums cover what was known, refunds within what was paid | 3,281 |
| `Rules` | stays of 1 to 91 nights in 32 zones, and with every first day, time change and base price; all pairs of 243 times; lists of 4 rows | nights against dates, quotes against exact sums, longer stays cost more, order of texts, pages cover the list | 68,561 |
| `ReleasedNights`, `LateRetry`, `LostClaim`, `BuiltInLogin` | an instance like those above, or smaller | each finds one disagreement, section 5 | |

Why the bounds are enough: every property relates at most two stays, two handlers or two
nights of one resource, and every race in the code is between two writers of one row or one
night, with the sweep as a third. Two nights make partial overlaps possible (1..1 against
1..2); two events and two keys let a request use the same one as, or another one than, its
rival; `MaxTime` lets a hold be active and overdue; `Sweep` has a batch limit of one, so that
of two overdue holds the second must wait for the second sweep. In `Allocation` a callback that
names the kind `guarantee` and failed may come for either stay, under either event and between any
two statements of a stay's life: on a hold, before the guarantee that is about to record its
event, beside the guarantee, before and within a settlement. It differs from a guarantee's own row in
the one column each property looks at. In `Payments` there are callbacks of other kinds, amounts and
statuses, and the theorems have all of them at once and remove the bounds for what they cover.

In `Tasks` the two processes race for two tasks of one role, of which a claim takes one,
while the other role has a task of its own;
`MaxAttempts` 2 has a last attempt and one that is not; two faults stop a process, or refuse
it a save, twice. `TaskDesk` needs two desks and a worker to let three saves of one task
overwrite each other. In `Sessions` no two sessions meet in any statement, so one is enough, and two requests
make every pair of uses and logouts of it overlap; `TTL` 2 and `Keep` 1 with a clock to 3 let a session expire, be revoked,
and be removed for either reason while requests hold its identifier.

In `Server` two processes are every pair of a reader of the ledger and one that writes
between its two statements; two migrations and three rows have a first, a next and a last one;
two managers read one version; one crash can hit any statement of either start; `MaxVersion` 3
leaves two updates of a row, so that a snapshot can be outdated before each of several sweeps.
In `Payments` the callbacks include the guarantee's own event in advance and failed, a refund
larger than the charge and a payment for an unknown stay under the event of the charge; two
claims that can be accepted make one known when the settlement begins and one added between its
sums. In `Rules` the zones lie on both sides of Greenwich and near it, and their clocks go forward
or back an hour before midnight, at midnight, and one and two hours after it, on a day that is
before, at either end of, or inside the stay. The nights around every limit (1 and 2, the seventh, the ninetieth) meet every
first day, with a day of 23 hours or not, of 25 or not, and all nights holidays or none; base
prices go from one that rounds to one whose products wrap; three digits of fraction with zeros
inside and at the end make every way in which one text continues another; four rows and limits
from -1 to 4, of which 4 is above `MaxLimit`, make lists of several pages, and rows are created
before, inside and behind the page that is read.

Deadlock is checked in every run but `Sessions`, whose session identifiers run out, and
`Rules`, whose inputs have no step and whose lists end: elsewhere a request can always start or
end, and a worker can always tick.
Symmetry is used for identifiers that are only compared for equality (stays, keys, events,
handlers, processes, desks, claims), and in runs of safety properties only: `Sweep`, `Tasks`,
`Sessions` and `Server` use none. `ImplementsLedger` is a safety property, and its mapping treats the
members of these sets alike.

Fairness: `FairSpec` adds weak fairness of `ExpireDueHolds` only. `Runner.Run` ticks once at
start and then at every interval for as long as the process runs, the first thing a tick does
is the sweep, and an error of one tick does not stop the next. No request is assumed to make
progress. The assumption leaves out a database that refuses the sweep's transaction on every
tick. In `Sessions` it is weak fairness of `DeleteExpiredSessions`, the second part of the
same tick; the clock is not assumed to go on, so `ExpiredSessionsRemoved` and `RevokedSessionsRemoved`
speak of sessions whose time has come, one for each half of the removal's filter. In `Tasks` it is weak fairness of `WorkerStep(w)` (the goroutine goes on and handlers return, as
those registered in `main` do; a stopped process is started again) and of the clock, without
which a backoff would never end. `PendingTasksEnd` allows a task to be left claimed after a fault,
since `LostClaim` shows that it may be. In `Server` it is weak fairness of `ProcessStep(p)`: a
process that is down is started again by whoever runs the service, one that starts goes on to its
next statement, and one that serves ticks. Neither managers nor guests are assumed to do
anything. `RefusedSweepsCatchUp` holds because each refusal takes a commit of somebody else, of
which `MaxVersion` and the holds allow finitely many; a service on which another transaction
commits inside every sweep, for ever, is left out. `StartCompletes` holds for finitely many
crashes (`MaxFaults`); that two processes make each other fail is not bounded but takes a
commit each time.

## 4. Proofs

Each theorem holds for every value of the constants that satisfies the assumption of its
component (`BookingAssumption`, `TasksAssumption`, `SessionsAssumption`, `CatalogAssumption` and
`ServerAssumption`, `PaymentsAssumption`, `ListingAssumption`, `PricingAssumption`,
`PolicyAssumption`, `TimeTextAssumption`, `RulesAssumption`); no other assumption is made. Only
`PolicyAssumption` says more than what kind of value a constant is (`BookingAssumption` lets
callbacks carry whatever the `CHECK`s of `payments` let through): factors are ordered as in
`DefaultPricePolicy`, the one policy the program builds its service with
(`cmd/server/main.go:56`), and the discount of the shortest long stay, seven nights of holidays,
is not worth more than a plain night (800 * 7 * 13500 <= 9200 * 10000 basis points).

| theorem | statement |
|---|---|
| `TypeCorrect` | `Spec => []TypeOK` |
| `OneRowPerNightHolds` | `Spec => []OneRowPerNight`: the UNIQUE index is never bypassed |
| `NoDoubleBookingHolds` | `Spec => []NoDoubleBooking` |
| `VersionsHold` | `Spec => []Versions`: a handler whose version matches overwrites the row it read |
| `LifecycleHolds` | `Spec => LifecycleRespected` |
| `TablesHold` | `Spec => [](TablesAgree /\ RequestsAgree)`, the inductive invariant of the rest |
| `NightsFollowStayHolds`, `GuaranteeIsBackedHolds`, `LeavesOnceHolds`, `SettlementIsBackedHolds`, `OneWriterPerVersionHolds`, `HoldIsIdempotentHolds` | `Spec => []P` for the property of that name |
| `TasksTypeCorrect`, `OutcomesAreRecorded` | `Spec => []P` for `TypeOK`, `OutcomesRecorded` of `Tasks`, desks included |
| `ClaimsAreExclusive`, `HandlingsAreCharged` | `WorkerSpec => []P` for `ClaimIsExclusive`, `HandledOncePerAttempt` |
| `FinishedTasksAreFinal` | `WorkerSpec => FinishedIsFinal`: the row of a task that ended is never written again, its error included, which `WorkQueue` does not follow |
| `TasksImplementQueue` | `WorkerSpec => ImplementsQueue`: `Tasks` implements `WorkQueue` under the mapping of `TasksQueue` |
| `SessionsInvariant` | `Spec => []Inv`, the inductive invariant of `SessionsProofs` |
| `SessionsTypeCorrect`, `SeenWithinLifetime`, `LogoutIsLasting` | `Spec => []P` for `TypeOK`, `SeenBeforeExpiry`, `LogoutHolds` of `Sessions` |
| `RevocationsAreFinal`, `LogoutShutsRequestsOut` | `Spec => RevocationIsFinal`, `Spec => LogoutShutsOut` |
| `BookingImplementsLedger` | `Spec => ImplementsLedger`: `Booking` implements `StayLedger` under the mapping of `BookingLedger` |
| `ServerInvariance` | `Spec => []Inv`, the inductive invariant of `ServerProofs` |
| `ServerTypeCorrect`, `ServersAreReady`, `MigrationsInOrder`, `UpdatesAreSerial` | `Spec => []P` for `TypeOK`, `ServingIsReady`, `MigrationsOnceInOrder`, `OneUpdatePerVersion` of `Server` |
| `SeedingKeepsChanges`, `GuaranteesSurvive` | `Spec => SeedKeepsChanges`, `Spec => GuaranteeSurvivesSweep` |
| `GuaranteesAreFull` | `Spec => []GuaranteedByFullPayment` of `Payments` |
| `SumsInvariance` | `Spec => [](Inv /\ SumsInv)`, the inductive invariant of the sums of a settlement |
| `SettlementsCoverRequests`, `RefundsWithinPayments` | `Spec => []P` for `SettlementCoversRequest`, `RefundWithinPayments` of `Payments` |
| `PagingCovers`, `PagingCoversInRules` | `[]PagesCoverList` of `ListingSpec`, and of the `Spec` of `Rules` |
| `NightsFollowDates` | in every zone, the midnight of a date lies in that date and the next night in the next date, just when that midnight is not one that the clock skips west of Greenwich |
| `QuotesAreExact`, `LongerStaysCostMore`, `TextsOrderTimes` | `Spec => []P` for `QuoteIsExact`, `LongerStayCostsMore`, `TextOrderIsTimeOrder` of `Rules` |
| `TextsTellTimesApart` | two times with one text are one time |

`LogoutHolds` (`LogoutIsLasting`) is proved and not among the properties of the run, since
`LogoutShutsOut` says more.

The argument for `Booking`. `NoDoubleBooking` is not inductive: it says nothing of released nights, and
`NightTaken` tests rows of every status. `OneRowPerNight` (two different stays of a resource
share no row, whatever its status) is inductive together with `TypeOK`, because only a hold
adds rows, and it implies `NoDoubleBooking`. `LifecycleRespected` is not a fact about one
action either: the updates of guarantee, check-in, cancel and check-out set a status that was computed when the
row was read. Its invariant is `Versions`: of a handler that is about to
commit, the version it will write is at most one above the version of the row (`Snapshot`),
and when it is exactly one above, the row is the one that was read, so the edge checked then
is an edge now. The proof goes through two classifications of a step, `StaysMove` (each stay
keeps its row or moves along an edge with version + 1) and `RequestsMove` (each handler keeps
its request, prepares one from the current row, has just written, or does not write stays),
after which the invariants no longer need the thirteen actions.

`BookingTables` starts from a third classification, `WriteStep`: a step leaves the tables
alone or is one of seven writing transactions, and a transition among them goes along an edge
(from `Snapshot`). Most properties then need company to be inductive. `NightsFollowStay` needs
that a hold on its way has a night at least (`HoldRequest`). `GuaranteeIsBacked` needs that the
guest compared by `Guarantee` is still the guest of the row (a conjunct of `Snapshot`) and that
no stay is ever `relocated` (`Reached`), from where the table of edges would let it check in.
`HoldIsIdempotent` needs `KeysUnique` and that a successful reply names the stay with its key.
`SettlementIsBacked` needs that the sum a request carries between its `SELECT` and its
transaction covers the guarantee (`SettleRequest`), which in turn needs that events are unique,
that the rows a guarantee inserts (`by = "guarantee"`) are succeeded, and that stays stay checked
out or settling. Callbacks disturb neither: a row they insert has an event of its own and is never
one of a guarantee's, whatever kind it names.

For `Tasks`, the table's own properties hold with any number of desks because each row that
is ever written, and each local copy, satisfies them by itself: the local rows are part of the
invariant. The properties of `WorkerSpec` need the invariant `Exclusive`, which says of a task
in some worker's hands that it is claimed, in nobody else's, and charged with the attempts the
worker remembers. It fails with desks: a task that a worker holds may be completed by hand.

The refinement of `WorkQueue` adds to it where a worker stands (`Paced`): a worker has a task of
its own only at a save, and a batch only between a claim and the last save, so that a new tick
or claim drops nothing. Whoever holds a task is then its only holder (`HoldersMove`); a claim is
one `Take` by empty hands, or a stutter if nothing is due; the call of a handler is a `Start`, the
save a `Finish` by the holder with an outcome that fits the attempts charged, a refused statement and
a stop each a `Fault`. The queue has no action that takes what a fault left behind: that is the
promise the code makes, and `LostClaim` (section 5) the one it does not keep.

For `Sessions`, `SeenBeforeExpiry` needs to know that the time a request carries to its touch
is before the expiry of the session, if the session still exists (`Knows`); it does not matter
that time has passed since. `LogoutHolds` needs that an identifier that was generated is never
generated again, so a removed session stays gone. All actions are cases of one
classification, `RowsKept`: a session stays, keeps its expiry and its revocation, goes, or
appears under a new identifier.

The refinement of `StayLedger` comes last in `BookingTables`. A night has an owner exactly when a stay has a row for it and
the status of that stay is one of the house (`OwnsByStatus`, from `NightsFollow`), and there is one
such stay at most (`OwnerValue`, from `OneRowPerNight`). Rows stay where they are (`RowsKept`),
so a step that moves a set of stays out of the house frees exactly their nights (`OwnersAfter`),
and one that moves a stay within it, or outside, frees none (`OwnersStay`). Each of the writing
transactions is then one step of the ledger; a hold finds its slots free because `NightTaken`
asks for rows of every status. A callback is a stutter since it neither moves a stay nor inserts
a guarantee's row.

For `Server`, `ServingIsReady` says nothing of a process that is still starting. The invariant
says of each process what it has found where it stands (`Ready`): the migrations before its own, and
from the seeding on all of them; the rows before its own, and from serving on all of them. It survives the
other processes because a step takes nothing out of the tables (`TablesGrow`), and crashes
because a process that is down has found nothing. `MigrationsOnceInOrder` needs it too: whoever
applies a migration has found those before it, and the ledger's key admits it once.
`OneUpdatePerVersion` needs that the version a successful update went out from is history
(`EditSound`), and that versions never go back, also not by seeding (`AbsentAtZero`).

For `Payments`, rows are never deleted nor changed (`RowsStay`), so what was true of them when a
stay was guaranteed remains true; the guarantee's row is there
because the insert that met another row under its event failed with its transaction.

The properties of sums speak of a fold over a finite set of rows, that is of a recursive function.
`SumLemmas` proves what such sums do by induction on the set, and it does so without an
operator as a parameter: well-foundedness of the numbers (`NatLessThanWellFounded`, `WFMin`) speaks of
sets of numbers, so the least size of a subset for which a claim fails can be taken directly
(`LeastNumber`, `FiniteInduction`). From there: a sum over integers is an integer (`SumIsInt`),
one element can be taken out (`SumTakeOne`), terms that are at most others, on a subset of them, sum up to at
most theirs (`SumAtMost`), and terms within a bound to that bound times their number
(`SumWithin`). For `Payments` the invariant (`SumsInv`) says of what a settlement request
holds that it is the sum of rows that are in the table now and that include every row the request
knew of when it began (`Gathered`). It lasts because a row that was counted is never taken back
(`CountedStay`): payments are only inserted, and a claim that was accepted stays as it is.

For `Listing`, the invariant counts: the rows of a table in their order have the ranks 0 to n - 1,
without a gap, a creation only raises ranks, so every row that the client's list began with and that
stands before the client's offset has been seen; a page within the table is as large as it should be,
hence an empty page is behind the last row.

The rules have no steps, so their theorems are about every input: any instant in any zone, ranges of any number of
nights at any base price, words of any width, any number of digits. `NightsFollowDates` rests on what
`time.Date` answers for any wall time (`WallTimeFound`). That the nights of a whole stay are its
dates (`NightsAreDates`) follows by repeating it, but the loop of `Nights` is a recursive function,
about which nothing can be proved by induction here: that step stays with TLC. `QuotesAreExact` bounds each
night by the price of a holiday and the total by as many of them (`ExactTotalRange`), so that
`Safe` keeps every intermediate result within the word (`SafeTotal`, `WrapFits`).
`LongerStaysCostMore` follows from `OneMoreNight` (the sum grows by one more night) and, where the
longer stay is the first long one, from `DiscountWithinNight`, the place where
`PolicyAssumption` is needed. `TextsOrderTimes` looks at the first character that
differs (`FirstDifference`, `DecidedByFirst`): in the seconds it is the same one in the texts and in the
times; in the fractions it is too while both texts have a digit there; and where the
shorter one has ended, it has the letter, which is greater than any digit, although its next digit
would be the smaller one (`ContinuedTime`).

Only model-checked: liveness (`OverdueHoldsEnd`, `PendingTasksEnd`, `ExpiredSessionsRemoved`,
`RevokedSessionsRemoved`, `RefusedSweepsCatchUp`, `StartCompletes`), since neither fairness nor
`ENABLED` is within the prover's reach, and `NightsAreDates`, of which `NightsFollowDates` is the
step. Every other invariant and action property of a passing run is a theorem, and so are the two
refinements.

## 5. What the runs found

- `ReleasedNights`: `UNIQUE(resource_id, night)` (`001_initial.sql:12`) covers rows of every
  status and no statement deletes a row, so a night that was cancelled, expired or checked
  out can never be held again. The refusal says "one or more nights are already allocated".
- `LateRetry`: when a client sends a hold again while the first attempt is in flight, both
  pass the key check and the second insert fails on the unique key, which is reported as a
  night conflict instead of returning the stay. A retry after the first attempt committed
  does get the stay (`HoldIsIdempotent` holds throughout).
- `LostClaim`: a process that stops between the claim of a task and its save leaves the task
  `claimed`, and no query selects claimed tasks, against "when it starts the worker recovers
  persisted operational tasks" in the README.
- `BuiltInLogin`: the accounts of migration 002 have times in SQLite's format, which
  `parseTime` rejects, so their login ends in an error.

Five more disagreements met while modelling. Each is one statement at odds with one sentence, so
that a run would show no more than the line does; the properties state what holds around them.

- `stays.go:161`: the sweep raises a stay's version and writes no audit event, where
  `src/README.md:26` says that every write path keeps one. Every other write of a stay does.
- `stays.go:105`: `RecordPayment` answers "not created", the answer the tests know for a
  duplicate (`store_test.go:334`), when the database is locked or any constraint fails: a payment
  that nobody wrote down is acknowledged. `ReceivePayment` in `Payments` may always do nothing.
- `time.go:77`: where the clock skips a midnight west of Greenwich (Santiago, Havana, the Azores),
  `midnight` answers 23:00 of the day before. A stay that ends on that day loses its last night,
  which another stay may then take; one that goes on over it lists a date twice and is always
  refused as "already allocated", where `src/README.md:21` says that a hold occupies all its nights.
  Everywhere else the nights are the dates: that is `NightsAreDates`, whose exception
  `SkipsMidnight` names, and `NightsFollowDates` proves the exception to be the only one for each night.
- `time.go:24`: the limit of ninety nights is on hours, so ninety nights with a day of 25 hours are
  turned away with "stay cannot exceed 90 nights" (`time.go:25`). No stay of more nights is let
  through (`NightsAreDates`).
- `pricing.go:45`: the check for an overflow sees a negative total only, and a total may wrap past
  the sign. `QuoteIsExact` says below which prices nothing wraps.

Three more things are in the models and are no disagreements, because no line of the repository
promises otherwise or no route reaches them yet. A payment recorded between the settlement's
sums and its transaction is not settled: `SettlementCoversRequest` says how old the sums may be.
`SaveTask`, which updates by identifier whatever the row holds, lets the worker's save reopen a
task that was completed by hand. And a stay of one night of 23 hours is accepted by `NewDateRange`
and refused by `Quote` (`pricing.go:30`), for which its hours come to no night.

## 6. Not modelled

Out of scope: HTTP decoding and encoding, configuration, wiring, logging, password hashing,
identifier generation (identifiers are unique by construction of the model, 128 random bits
in the code), and code without a caller but tests: `CreateUser`, `CountTable`, `Overlaps`,
`Contains`, `Resource.Transition`. `outbox_events` is a table no statement touches.

Left for later, in this order:

1. `ClaimDueTasks` with a read and a write of its own. Its transaction can be refused as the
   sweep's is in `Server`; `Tasks` has the refusal (`StoreError`) but not its cause.
2. Zones whose clocks change twice during a stay, or by other than an hour.
3. The percentage of the guarantee, which `Payments` takes as a constant.
4. Lists filtered by status: the code pages by offset, so a row that leaves the filter hides
   another one from the client; a property would need a promise to state. The total of a
   page comes from a statement of its own and may be out of date, which is why the client
   of `Listing` goes on until a page is empty.
