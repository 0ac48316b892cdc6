------------------------------- MODULE Tasks -------------------------------
(***************************************************************************)
(* Operational tasks: the worker of each server process claims due tasks   *)
(* role by role, hands each to its handler and saves the outcome, while    *)
(* the operations service completes or fails tasks by hand.                *)
(*                                                                         *)
(* ClaimDueTasks is one transaction.  SaveTask is one UPDATE by id: it     *)
(* writes a row that was read at claim time, or by GetTask, over whatever  *)
(* the table holds by then.  Stopping a process loses its local variables. *)
(*                                                                         *)
(* A due time is kept as the time that is left until it (0: due), which    *)
(* the clock counts down.  Which of the due tasks come first (ORDER BY     *)
(* available_at,id) is left open.                                          *)
(***************************************************************************)
EXTENDS Integers, FiniteSets

CONSTANTS
    TaskId,
    Worker,        \* server processes, one worker in each
    Desk,          \* callers of operations.Service.CompleteTask and FailTask
    RoleCount,     \* Runner.roles, numbered in the order of processRole
    RoleOf,        \* assigned_role of each task; 0: a role no worker serves
    ClaimLimit,    \* the limit processRole passes to ClaimDueTasks
    MaxAttempts,   \* Runner.maxAttempts, and what FailTask's callers pass
    Backoff,       \* Runner.backoff, in ticks of the clock
    Outcome,       \* what the handlers of this instance may return
    MaxFaults,     \* bound: process stops and store errors
    None           \* no task

ASSUME TasksAssumption ==
    /\ RoleCount \in Nat \ {0}
    /\ RoleOf \in [TaskId -> 0..RoleCount]
    /\ ClaimLimit \in Nat \ {0}
    /\ MaxAttempts \in Nat \ {0}
    /\ Backoff \in Nat
    /\ Outcome \subseteq {"ok", "error"}
    /\ MaxFaults \in Nat
    /\ None \notin TaskId

VARIABLES
    tasks,      \* table operational_tasks
    workers,    \* local variables of Tick and processRole in each process
    desks,      \* local variables of CompleteTask and FailTask
    handled,    \* how often each task went to a handler
    faults      \* faults so far

vars == <<tasks, workers, desks, handled, faults>>

TaskStatus == {"none", "pending", "claimed", "completed", "failed"}  \* "none": no row
TaskRow == [status: TaskStatus, attempts: Nat, wait: Nat, error: BOOLEAN]
NoTask == [status |-> "none", attempts |-> 0, wait |-> 0, error |-> FALSE]

NewTask == [status |-> "pending", attempts |-> 0, wait |-> 0, error |-> FALSE]

\* A claimed task as processRole holds it: the id and the attempts it read, plus one.
Claim == [task: TaskId, attempts: Nat]
WorkerRow == [pc: {"down", "sleep", "claim", "handle", "save"}, role: 1..RoleCount,
              batch: SUBSET Claim, task: TaskId \cup {None}, row: TaskRow]
At(pc, role, batch) ==
    [pc |-> pc, role |-> role, batch |-> batch, task |-> None, row |-> NoTask]
Down == At("down", 1, {})
DeskRow == [task: TaskId \cup {None}, row: TaskRow]
IdleDesk == [task |-> None, row |-> NoTask]

Init ==
    /\ tasks = [t \in TaskId |-> NoTask]
    /\ workers = [w \in Worker |-> Down]
    /\ desks = [d \in Desk |-> IdleDesk]
    /\ handled = [t \in TaskId |-> 0]
    /\ faults = 0

-----------------------------------------------------------------------------
(* The rows that are written                                               *)

\* Mutant: the limit is looked at one attempt late.
AfterErrorLate(attempts) ==
    IF attempts > MaxAttempts
    THEN [status |-> "failed", attempts |-> attempts, wait |-> 0, error |-> TRUE]
    ELSE [status |-> "pending", attempts |-> attempts, wait |-> Backoff * attempts,
          error |-> TRUE]
\* Mutants: the query forgets the status; the update counts from one too many.
DueInAnyStatus(role) ==
    {t \in TaskId : tasks[t].status # "none" /\ RoleOf[t] = role /\ tasks[t].wait = 0}
DueAtFirst(role) ==
    {t \in TaskId : /\ tasks[t].status = "pending" /\ RoleOf[t] = role
                    /\ tasks[t].wait = 0 /\ tasks[t].attempts = 0}
ClaimedUncounted(row) ==
    [status |-> "claimed", attempts |-> row.attempts, wait |-> row.wait, error |-> row.error]
\* Mutant: a success keeps the error of the attempt before.
AfterSuccessAsFailure(attempts) ==
    [status |-> "completed", attempts |-> attempts, wait |-> 0, error |-> attempts > 1]

\* WHERE status='pending' AND assigned_role=? AND available_at<=?
Due(role) ==
    {t \in TaskId : tasks[t].status = "pending" /\ RoleOf[t] = role /\ tasks[t].wait = 0}
Claimed(row) ==
    [status |-> "claimed", attempts |-> row.attempts + 1, wait |-> row.wait,
     error |-> row.error]

AfterSuccess(attempts) ==
    [status |-> "completed", attempts |-> attempts, wait |-> 0, error |-> FALSE]
\* A claimed task is due, so a task that fails for good keeps a due time in the past.
AfterError(attempts) ==
    IF attempts >= MaxAttempts
    THEN [status |-> "failed", attempts |-> attempts, wait |-> 0, error |-> TRUE]
    ELSE [status |-> "pending", attempts |-> attempts, wait |-> Backoff * attempts,
          error |-> TRUE]
After(outcome, attempts) ==
    IF outcome = "ok" THEN AfterSuccess(attempts) ELSE AfterError(attempts)

\* UPDATE operational_tasks SET ... WHERE id=?, whatever the row holds.
SaveTask(t, row) == tasks' = [tasks EXCEPT ![t] = row]

\* CreateTask, and the insert of CheckoutAndCreateCleaning.
CreateTask(t) ==
    /\ tasks[t].status = "none"
    /\ SaveTask(t, NewTask)
    /\ UNCHANGED <<workers, desks, handled, faults>>

-----------------------------------------------------------------------------
(* The worker: Run, Tick and processRole                                   *)

\* Run ticks at once, then at every interval; both are the same loop over the roles.
BeginTick(w) ==
    /\ workers[w].pc \in {"down", "sleep"}
    /\ workers' = [workers EXCEPT ![w] = At("claim", 1, {})]
    /\ UNCHANGED <<tasks, desks, handled, faults>>

\* Mutant: the loop over the roles runs one too far.
ContinuePastLast(me, rest) ==
    IF rest # {} THEN At("handle", me.role, rest)
    ELSE IF me.role <= RoleCount THEN At("claim", me.role + 1, {})
    ELSE At("sleep", 1, {})

\* Where the loops go when "rest" is left of the batch: the next task, role or tick.
Continue(me, rest) ==
    IF rest # {} THEN At("handle", me.role, rest)
    ELSE IF me.role < RoleCount THEN At("claim", me.role + 1, {})
    ELSE At("sleep", 1, {})

ClaimDueTasks(w) ==
    LET due == Due(workers[w].role)
    IN  /\ workers[w].pc = "claim"
        /\ \E S \in SUBSET due :
              /\ Cardinality(S) <= ClaimLimit
              /\ Cardinality(S) = ClaimLimit \/ S = due
              /\ tasks' = [t \in TaskId |-> IF t \in S THEN Claimed(tasks[t]) ELSE tasks[t]]
              /\ workers' = [workers EXCEPT ![w] =
                    Continue(@, {[task |-> t, attempts |-> tasks[t].attempts + 1] : t \in S})]
        /\ UNCHANGED <<desks, handled, faults>>

\* The outcome is written to the local copy of the row; "handled" stops past the limit.
Handle(w) ==
    /\ workers[w].pc = "handle"
    /\ \E c \in workers[w].batch, outcome \in Outcome :
          /\ workers' = [workers EXCEPT ![w] =
                [pc |-> "save", role |-> @.role, batch |-> @.batch \ {c}, task |-> c.task,
                 row |-> After(outcome, c.attempts)]]
          /\ handled' = [handled EXCEPT ![c.task] = IF @ <= MaxAttempts THEN @ + 1 ELSE @]
    /\ UNCHANGED <<tasks, desks, faults>>

SaveHandled(w) ==
    /\ workers[w].pc = "save"
    /\ SaveTask(workers[w].task, workers[w].row)
    /\ workers' = [workers EXCEPT ![w] = Continue(@, @.batch)]
    /\ UNCHANGED <<desks, handled, faults>>

\* The store refuses a claim or a save: the error is collected and the loops go on.
StoreError(w) ==
    /\ faults < MaxFaults
    /\ workers[w].pc \in {"claim", "save"}
    /\ workers' = [workers EXCEPT ![w] = Continue(@, @.batch)]
    /\ faults' = faults + 1
    /\ UNCHANGED <<tasks, desks, handled>>

\* A signal or a crash ends the process between two statements.
Stop(w) ==
    /\ faults < MaxFaults
    /\ workers[w].pc # "down"
    /\ workers' = [workers EXCEPT ![w] = Down]
    /\ faults' = faults + 1
    /\ UNCHANGED <<tasks, desks, handled>>

-----------------------------------------------------------------------------
(* operations.Service.CompleteTask and FailTask                            *)

DeskGet(d) ==
    /\ desks[d].task = None
    /\ \E t \in TaskId, outcome \in {"ok", "error"} :
          /\ tasks[t].status = "claimed"
          /\ desks' = [desks EXCEPT ![d] =
                [task |-> t, row |-> After(outcome, tasks[t].attempts)]]
    /\ UNCHANGED <<tasks, workers, handled, faults>>

DeskSave(d) ==
    /\ desks[d].task # None
    /\ SaveTask(desks[d].task, desks[d].row)
    /\ desks' = [desks EXCEPT ![d] = IdleDesk]
    /\ UNCHANGED <<workers, handled, faults>>

-----------------------------------------------------------------------------
Later(row) == [row EXCEPT !.wait = IF @ > 0 THEN @ - 1 ELSE 0]

\* Due times in the table and in local rows come nearer.
AdvanceClock ==
    /\ \/ \E t \in TaskId : tasks[t].wait > 0
       \/ \E w \in Worker : workers[w].row.wait > 0
       \/ \E d \in Desk : desks[d].row.wait > 0
    /\ tasks' = [t \in TaskId |-> Later(tasks[t])]
    /\ workers' = [w \in Worker |-> [workers[w] EXCEPT !.row = Later(@)]]
    /\ desks' = [d \in Desk |-> [desks[d] EXCEPT !.row = Later(@)]]
    /\ UNCHANGED <<handled, faults>>

WorkerStep(w) == BeginTick(w) \/ ClaimDueTasks(w) \/ Handle(w) \/ SaveHandled(w)

\* What runs in production: no route of the HTTP API reaches CompleteTask or FailTask.
WorkerNext ==
    \/ \E t \in TaskId : CreateTask(t)
    \/ \E w \in Worker : WorkerStep(w) \/ StoreError(w) \/ Stop(w)
    \/ AdvanceClock

Next ==
    \/ WorkerNext
    \/ \E d \in Desk : DeskGet(d) \/ DeskSave(d)

WorkerSpec == Init /\ [][WorkerNext]_vars
Spec == Init /\ [][Next]_vars

\* The worker's goroutine and the clock go on, handlers return, and a stopped process is
\* started again.
FairSpec == WorkerSpec /\ (\A w \in Worker : WF_vars(WorkerStep(w))) /\ WF_vars(AdvanceClock)

\* Every variable holds a value of the table or local variable it stands for.
TypeOK ==
    /\ tasks \in [TaskId -> TaskRow]
    /\ workers \in [Worker -> WorkerRow]
    /\ desks \in [Desk -> DeskRow]
    /\ handled \in [TaskId -> Nat]
    /\ faults \in Nat
=============================================================================
