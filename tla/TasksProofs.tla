---------------------------- MODULE TasksProofs ----------------------------
(***************************************************************************)
(* Proofs about Tasks, for any numbers of tasks, processes, desks, roles,  *)
(* attempts and faults.  What holds of every row, saved or about to be     *)
(* saved, holds with desks too; exclusive claims need their absence.       *)
(***************************************************************************)
EXTENDS TasksQueue, TLAPS

-----------------------------------------------------------------------------
(* The rows                                                                *)

\* What every row satisfies, in the table or in a local variable.
GoodRow(row) ==
    /\ row.attempts <= MaxAttempts
    /\ row.status = "pending" => row.attempts < MaxAttempts
    /\ row.status = "failed" => row.attempts = MaxAttempts
    /\ row.status = "completed" => ~row.error
    /\ row.status = "failed" => row.error
    /\ row.status = "pending" => (row.error <=> row.attempts > 0)
    /\ row.status \in {"claimed", "completed", "failed"} => row.wait = 0
    /\ row.status = "claimed" => row.attempts > 0
    /\ row.status = "none" => row.attempts = 0

RowsInv ==
    /\ \A t \in TaskId : GoodRow(tasks[t])
    /\ \A w \in Worker : GoodRow(workers[w].row)
    /\ \A w \in Worker : \A c \in workers[w].batch : c.attempts \in 1..MaxAttempts
    /\ \A d \in Desk : GoodRow(desks[d].row)

\* The row that a handler's or a desk's outcome leads to is a good one.
LEMMA AfterIsGood ==
    ASSUME NEW outcome, NEW a \in 1..MaxAttempts
    PROVE  After(outcome, a) \in TaskRow /\ GoodRow(After(outcome, a))
<1>1. MaxAttempts \in Nat \ {0} /\ Backoff \in Nat
  BY TasksAssumption
<1>2. a \in Nat /\ Backoff * a \in Nat
  BY <1>1
<1>3. AfterSuccess(a) \in TaskRow /\ GoodRow(AfterSuccess(a))
  BY <1>1, <1>2 DEF AfterSuccess, TaskRow, TaskStatus, GoodRow
<1>4. AfterError(a) \in TaskRow /\ GoodRow(AfterError(a))
  <2>1. CASE a >= MaxAttempts
    BY <1>1, <1>2, <2>1 DEF AfterError, TaskRow, TaskStatus, GoodRow
  <2>2. CASE ~(a >= MaxAttempts)
    BY <1>1, <1>2, <2>2 DEF AfterError, TaskRow, TaskStatus, GoodRow
  <2>3. QED
    BY <2>1, <2>2
<1>5. QED
  BY <1>3, <1>4 DEF After

\* A row that does not exist yet is a good one.
LEMMA NoTaskIsGood == NoTask \in TaskRow /\ GoodRow(NoTask)
  BY TasksAssumption DEF NoTask, TaskRow, TaskStatus, GoodRow

\* A pending row that is claimed stays a good one.
LEMMA ClaimIsGood ==
    ASSUME NEW row \in TaskRow, GoodRow(row), row.status = "pending", row.wait = 0
    PROVE  /\ Claimed(row) \in TaskRow /\ GoodRow(Claimed(row))
           /\ Claimed(row).status = "claimed" /\ Claimed(row).attempts = row.attempts + 1
           /\ row.attempts + 1 \in 1..MaxAttempts
  BY TasksAssumption DEF Claimed, GoodRow, TaskRow, TaskStatus

\* The clock keeps a row good and changes nothing but its due time.
LEMMA ClockIsGood ==
    ASSUME NEW row \in TaskRow, GoodRow(row)
    PROVE  /\ Later(row) \in TaskRow /\ GoodRow(Later(row))
           /\ Later(row).status = row.status /\ Later(row).attempts = row.attempts
           /\ row.status \in {"completed", "failed"} => Later(row) = row
<1>1. PICK left \in Nat : /\ left = IF row.wait > 0 THEN row.wait - 1 ELSE 0
                          /\ row.wait = 0 => left = 0
  BY DEF TaskRow
<1>2. Later(row) = [row EXCEPT !.wait = left]
  BY <1>1 DEF Later
<1>3. Later(row) \in TaskRow /\ GoodRow(Later(row))
  BY <1>1, <1>2 DEF GoodRow, TaskRow
<1>4. QED
  BY <1>1, <1>2, <1>3 DEF GoodRow, TaskRow

\* A worker that goes on holds nothing but what is left of its batch.
LEMMA ContinueHolds ==
    ASSUME NEW me \in WorkerRow, NEW rest \in SUBSET Claim
    PROVE  /\ Continue(me, rest) \in WorkerRow
           /\ Continue(me, rest).batch = rest
           /\ Continue(me, rest).task = None
           /\ Continue(me, rest).row = NoTask
           /\ Continue(me, rest).pc # "save"
           /\ Continue(me, rest).pc # "handle" => rest = {}
<1>1. RoleCount \in Nat \ {0} /\ me.role \in 1..RoleCount
  BY TasksAssumption DEF WorkerRow
<1>2. Down \in WorkerRow
  BY <1>1, NoTaskIsGood DEF Down, At, WorkerRow
<1>3. QED
  BY <1>1, <1>2, NoTaskIsGood DEF Continue, At, WorkerRow

-----------------------------------------------------------------------------
(* Types and rows of every behaviour, desks included                       *)

StateOK == TypeOK /\ RowsInv

\* There are no tasks at first.
LEMMA InitOK == Init => StateOK
<1> SUFFICES ASSUME Init PROVE StateOK
  OBVIOUS
<1>1. RoleCount \in Nat \ {0}
  BY TasksAssumption
<1>2. TypeOK
  BY <1>1, NoTaskIsGood DEF Init, TypeOK, Down, At, WorkerRow, IdleDesk, DeskRow
<1>3. RowsInv
  BY NoTaskIsGood DEF Init, RowsInv, Down, At, IdleDesk
<1>4. QED
  BY <1>2, <1>3 DEF StateOK

\* A step that saves one good row and changes no local row keeps the table good.
LEMMA SaveKeeps ==
    ASSUME StateOK, NEW t \in TaskId, NEW row \in TaskRow, GoodRow(row), SaveTask(t, row)
    PROVE  tasks' \in [TaskId -> TaskRow] /\ \A u \in TaskId : GoodRow(tasks'[u])
  BY DEF SaveTask, StateOK, TypeOK, RowsInv

\* Every step keeps the rows in their range and their outcomes sound.
LEMMA NextOK == StateOK /\ [Next]_vars => StateOK'
<1> SUFFICES ASSUME StateOK, [Next]_vars PROVE StateOK'
  OBVIOUS
<1> USE DEF StateOK
<1>0. MaxAttempts \in Nat \ {0} /\ RoleCount \in Nat \ {0}
  BY TasksAssumption
<1>1. ASSUME NEW t \in TaskId, CreateTask(t) PROVE StateOK'
  <2>1. NewTask \in TaskRow /\ GoodRow(NewTask)
    BY <1>0 DEF NewTask, TaskRow, TaskStatus, GoodRow
  <2>2. SaveTask(t, NewTask)
    BY <1>1 DEF CreateTask
  <2>3. tasks' \in [TaskId -> TaskRow] /\ \A u \in TaskId : GoodRow(tasks'[u])
    BY <2>1, <2>2, SaveKeeps
  <2>4. QED
    BY <1>1, <2>3 DEF CreateTask, TypeOK, RowsInv
<1>2. ASSUME NEW w \in Worker, BeginTick(w) PROVE StateOK'
  <2>1. At("claim", 1, {}) \in WorkerRow
    BY <1>0, NoTaskIsGood DEF At, WorkerRow
  <2>2. workers' \in [Worker -> WorkerRow]
    BY <1>2, <2>1 DEF BeginTick, TypeOK
  <2>3. \A v \in Worker : GoodRow(workers'[v].row)
    BY <1>2, NoTaskIsGood DEF BeginTick, TypeOK, RowsInv, At
  <2>4. \A v \in Worker : \A c \in workers'[v].batch : c.attempts \in 1..MaxAttempts
    BY <1>2 DEF BeginTick, TypeOK, RowsInv, At
  <2>5. QED
    BY <1>2, <2>2, <2>3, <2>4 DEF BeginTick, TypeOK, RowsInv
<1>3. ASSUME NEW w \in Worker, ClaimDueTasks(w) PROVE StateOK'
  <2>1. PICK S \in SUBSET Due(workers[w].role) :
           /\ tasks' = [t \in TaskId |-> IF t \in S THEN Claimed(tasks[t]) ELSE tasks[t]]
           /\ workers' = [workers EXCEPT ![w] =
                 Continue(@, {[task |-> t, attempts |-> tasks[t].attempts + 1] : t \in S})]
    BY <1>3 DEF ClaimDueTasks
  <2> DEFINE new == {[task |-> t, attempts |-> tasks[t].attempts + 1] : t \in S}
  <2>2. \A t \in S : /\ t \in TaskId /\ tasks[t] \in TaskRow /\ GoodRow(tasks[t])
                     /\ tasks[t].status = "pending" /\ tasks[t].wait = 0
    BY DEF Due, TypeOK, RowsInv
  <2>3. \A t \in S : /\ Claimed(tasks[t]) \in TaskRow /\ GoodRow(Claimed(tasks[t]))
                     /\ tasks[t].attempts + 1 \in 1..MaxAttempts
    BY <2>2, ClaimIsGood
  <2>4. tasks' \in [TaskId -> TaskRow] /\ \A t \in TaskId : GoodRow(tasks'[t])
    BY <2>1, <2>3 DEF TypeOK, RowsInv
  <2>5. new \in SUBSET Claim /\ \A c \in new : c.attempts \in 1..MaxAttempts
    BY <1>0, <2>2, <2>3 DEF Claim
  <2>6. workers' = [workers EXCEPT ![w] = Continue(workers[w], new)]
    BY <2>1 DEF TypeOK
  <2> HIDE DEF new
  <2>7. /\ Continue(workers[w], new) \in WorkerRow
        /\ Continue(workers[w], new).batch = new /\ Continue(workers[w], new).row = NoTask
    BY <2>5, ContinueHolds DEF TypeOK
  <2>8. workers' \in [Worker -> WorkerRow]
    BY <2>6, <2>7 DEF TypeOK
  <2>9. \A v \in Worker : /\ GoodRow(workers'[v].row)
                          /\ \A c \in workers'[v].batch : c.attempts \in 1..MaxAttempts
    BY <2>5, <2>6, <2>7, NoTaskIsGood DEF TypeOK, RowsInv
  <2>10. QED
    BY <1>3, <2>4, <2>8, <2>9 DEF ClaimDueTasks, TypeOK, RowsInv
<1>4. ASSUME NEW w \in Worker, Handle(w) PROVE StateOK'
  <2>1. PICK c \in workers[w].batch, outcome \in Outcome :
           /\ workers' = [workers EXCEPT ![w] =
                 [pc |-> "save", role |-> @.role, batch |-> @.batch \ {c}, task |-> c.task,
                  row |-> After(outcome, c.attempts)]]
           /\ handled' = [handled EXCEPT ![c.task] = IF @ <= MaxAttempts THEN @ + 1 ELSE @]
    BY <1>4 DEF Handle
  <2>2. c \in Claim /\ c.attempts \in 1..MaxAttempts
    BY DEF TypeOK, WorkerRow, RowsInv
  <2>3. After(outcome, c.attempts) \in TaskRow /\ GoodRow(After(outcome, c.attempts))
    BY <2>2, AfterIsGood
  <2>4. workers' \in [Worker -> WorkerRow]
    BY <2>1, <2>2, <2>3 DEF TypeOK, WorkerRow, Claim
  <2>5. \A v \in Worker : /\ GoodRow(workers'[v].row)
                          /\ \A e \in workers'[v].batch : e.attempts \in 1..MaxAttempts
    BY <2>1, <2>3 DEF TypeOK, WorkerRow, RowsInv
  <2>6. handled' \in [TaskId -> Nat]
    BY <2>1, <2>2 DEF TypeOK, Claim
  <2>7. QED
    BY <1>4, <2>4, <2>5, <2>6 DEF Handle, TypeOK, RowsInv
<1>5. ASSUME NEW w \in Worker, SaveHandled(w) \/ StoreError(w)
      PROVE  /\ workers' \in [Worker -> WorkerRow]
             /\ \A v \in Worker : /\ GoodRow(workers'[v].row)
                                  /\ \A e \in workers'[v].batch : e.attempts \in 1..MaxAttempts
  <2>1. workers' = [workers EXCEPT ![w] = Continue(workers[w], workers[w].batch)]
    BY <1>5 DEF SaveHandled, StoreError, TypeOK
  <2>2. workers[w] \in WorkerRow /\ workers[w].batch \in SUBSET Claim
    BY DEF TypeOK, WorkerRow
  <2>3. LET next == Continue(workers[w], workers[w].batch)
        IN  next \in WorkerRow /\ next.batch = workers[w].batch /\ next.row = NoTask
    BY <2>2, ContinueHolds
  <2>4. QED
    BY <2>1, <2>3, NoTaskIsGood DEF TypeOK, RowsInv
<1>6. ASSUME NEW w \in Worker, SaveHandled(w) PROVE StateOK'
  <2>1. workers[w].row \in TaskRow /\ GoodRow(workers[w].row)
    BY DEF TypeOK, WorkerRow, RowsInv
  <2>2. CASE workers[w].task \in TaskId
    <3>1. tasks' \in [TaskId -> TaskRow] /\ \A u \in TaskId : GoodRow(tasks'[u])
      BY <1>6, <2>1, <2>2, SaveKeeps DEF SaveHandled
    <3>2. QED
      BY <1>5, <1>6, <3>1 DEF SaveHandled, TypeOK, RowsInv
  <2>3. CASE workers[w].task \notin TaskId
    <3>1. tasks' = tasks
      BY <1>6, <2>3 DEF SaveHandled, SaveTask, TypeOK
    <3>2. QED
      BY <1>5, <1>6, <3>1 DEF SaveHandled, TypeOK, RowsInv
  <2>4. QED
    BY <2>2, <2>3
<1>7. ASSUME NEW w \in Worker, StoreError(w) PROVE StateOK'
  <2>1. /\ workers' \in [Worker -> WorkerRow]
        /\ \A v \in Worker : /\ GoodRow(workers'[v].row)
                             /\ \A e \in workers'[v].batch : e.attempts \in 1..MaxAttempts
    BY <1>5, <1>7
  <2>2. faults' = faults + 1 /\ UNCHANGED <<tasks, desks, handled>>
    BY <1>7 DEF StoreError
  <2>3. TypeOK'
    BY <2>1, <2>2 DEF TypeOK
  <2>4. RowsInv'
    BY <2>1, <2>2 DEF RowsInv
  <2>5. QED
    BY <2>3, <2>4
<1>8. ASSUME NEW w \in Worker, Stop(w) PROVE StateOK'
  <2>1. Down \in WorkerRow /\ Down.row = NoTask /\ Down.batch = {}
    BY <1>0, NoTaskIsGood DEF Down, At, WorkerRow
  <2>2. workers' = [workers EXCEPT ![w] = Down]
    BY <1>8 DEF Stop
  <2>3. workers' \in [Worker -> WorkerRow]
    BY <2>1, <2>2 DEF TypeOK
  <2>4. \A v \in Worker : /\ GoodRow(workers'[v].row)
                          /\ \A e \in workers'[v].batch : e.attempts \in 1..MaxAttempts
    BY <2>1, <2>2, NoTaskIsGood DEF TypeOK, RowsInv
  <2>5. QED
    BY <1>8, <2>3, <2>4 DEF Stop, TypeOK, RowsInv
<1>9. ASSUME NEW d \in Desk, DeskGet(d) PROVE StateOK'
  <2>1. PICK t \in TaskId, outcome \in {"ok", "error"} :
           /\ tasks[t].status = "claimed"
           /\ desks' = [desks EXCEPT ![d] =
                 [task |-> t, row |-> After(outcome, tasks[t].attempts)]]
    BY <1>9 DEF DeskGet
  <2>2. tasks[t].attempts \in 1..MaxAttempts
    BY <1>0, <2>1 DEF TypeOK, RowsInv, GoodRow, TaskRow
  <2>3. /\ After(outcome, tasks[t].attempts) \in TaskRow
        /\ GoodRow(After(outcome, tasks[t].attempts))
    BY <2>2, AfterIsGood
  <2>4. QED
    BY <1>9, <2>1, <2>3 DEF DeskGet, TypeOK, RowsInv, DeskRow
<1>10. ASSUME NEW d \in Desk, DeskSave(d) PROVE StateOK'
  <2>1. desks[d].task \in TaskId /\ desks[d].row \in TaskRow /\ GoodRow(desks[d].row)
    BY <1>10 DEF DeskSave, TypeOK, DeskRow, RowsInv
  <2>2. tasks' \in [TaskId -> TaskRow] /\ \A u \in TaskId : GoodRow(tasks'[u])
    BY <1>10, <2>1, SaveKeeps DEF DeskSave
  <2>3. QED
    BY <1>10, <2>2, NoTaskIsGood DEF DeskSave, TypeOK, RowsInv, DeskRow, IdleDesk
<1>11. CASE AdvanceClock
  <2>1. /\ tasks' = [t \in TaskId |-> Later(tasks[t])]
        /\ workers' = [w \in Worker |-> [workers[w] EXCEPT !.row = Later(@)]]
        /\ desks' = [d \in Desk |-> [desks[d] EXCEPT !.row = Later(@)]]
        /\ UNCHANGED <<handled, faults>>
    BY <1>11 DEF AdvanceClock
  <2>2. \A t \in TaskId : tasks'[t] \in TaskRow /\ GoodRow(tasks'[t])
    BY <2>1, ClockIsGood DEF TypeOK, RowsInv
  <2>3. ASSUME NEW w \in Worker
        PROVE  /\ workers'[w] \in WorkerRow /\ GoodRow(workers'[w].row)
               /\ workers'[w].batch = workers[w].batch
    <3>1. workers[w] \in WorkerRow /\ workers[w].row \in TaskRow /\ GoodRow(workers[w].row)
      BY DEF TypeOK, WorkerRow, RowsInv
    <3>2. Later(workers[w].row) \in TaskRow /\ GoodRow(Later(workers[w].row))
      BY <3>1, ClockIsGood
    <3>3. QED
      BY <2>1, <3>1, <3>2 DEF WorkerRow
  <2>4. ASSUME NEW d \in Desk
        PROVE  desks'[d] \in DeskRow /\ GoodRow(desks'[d].row)
    <3>1. desks[d] \in DeskRow /\ desks[d].row \in TaskRow /\ GoodRow(desks[d].row)
      BY DEF TypeOK, DeskRow, RowsInv
    <3>2. Later(desks[d].row) \in TaskRow /\ GoodRow(Later(desks[d].row))
      BY <3>1, ClockIsGood
    <3>3. QED
      BY <2>1, <3>1, <3>2 DEF DeskRow
  <2>5. TypeOK'
    BY <2>1, <2>2, <2>3, <2>4 DEF TypeOK
  <2>6. RowsInv'
    BY <2>2, <2>3, <2>4 DEF RowsInv
  <2>7. QED
    BY <2>5, <2>6
<1>12. CASE UNCHANGED vars
  BY <1>12 DEF vars, TypeOK, RowsInv
<1>13. QED
  BY <1>1, <1>2, <1>3, <1>4, <1>6, <1>7, <1>8, <1>9, <1>10, <1>11, <1>12
     DEF Next, WorkerNext, WorkerStep

\* Every behaviour, desks included, keeps the types of the table and of the local rows.
THEOREM TasksTypeCorrect == Spec => []TypeOK
<1>1. StateOK => TypeOK
  BY DEF StateOK
<1>2. QED
  BY InitOK, NextOK, <1>1, PTL DEF Spec

\* Saves that overwrite each other never leave a row whose status, attempts and last_error
\* disagree.
THEOREM OutcomesAreRecorded == Spec => []OutcomesRecorded
<1>1. StateOK => OutcomesRecorded
  BY DEF StateOK, RowsInv, GoodRow, AttemptsBounded, ErrorTellsOutcome, OutcomesRecorded
<1>2. QED
  BY InitOK, NextOK, <1>1, PTL DEF Spec

-----------------------------------------------------------------------------
(* Exclusive claims, without desks                                         *)

\* What worker w holds agrees with the table: each task is claimed at the attempt w counted
\* and has not yet been handled at that attempt; the task being saved is not in the batch.
HoldsClaims(w) ==
    /\ \A c \in workers[w].batch :
          /\ tasks[c.task].status = "claimed" /\ tasks[c.task].attempts = c.attempts
          /\ handled[c.task] < c.attempts /\ c.task # workers[w].task
    /\ workers[w].task # None => /\ tasks[workers[w].task].status = "claimed"
                                 /\ tasks[workers[w].task].attempts = workers[w].row.attempts
    /\ workers[w].pc = "save" => workers[w].task # None

Disjoint == \A v, w \in Worker : v # w => InHand(v) \cap InHand(w) = {}
ChargedOnce == \A t \in TaskId : handled[t] <= tasks[t].attempts

Exclusive ==
    /\ \A w \in Worker : HoldsClaims(w)
    /\ Disjoint
    /\ ChargedOnce

\* What a worker holds are tasks.
LEMMA HandsAreTasks ==
    ASSUME StateOK, NEW w \in Worker
    PROVE  InHand(w) \subseteq TaskId
  BY DEF StateOK, TypeOK, WorkerRow, Claim, InHand

\* What a worker holds is claimed.
LEMMA HandsAreClaimed ==
    ASSUME StateOK, Exclusive, NEW w \in Worker, NEW t \in InHand(w)
    PROVE  t \in TaskId /\ tasks[t].status = "claimed"
<1>1. t \in TaskId
  BY HandsAreTasks
<1>2. CASE \E c \in workers[w].batch : t = c.task
  BY <1>1, <1>2 DEF Exclusive, HoldsClaims
<1>3. CASE t = workers[w].task
  BY <1>1, <1>3, TasksAssumption DEF Exclusive, HoldsClaims
<1>4. QED
  BY <1>2, <1>3 DEF InHand

\* One worker moves; the tasks in the hands of the others keep status, attempts and count,
\* and it takes none of them.  Then it only remains to look at that worker.
LEMMA OneWorkerMoves ==
    ASSUME StateOK, Exclusive, NEW w \in Worker, NEW me,
           workers' = [workers EXCEPT ![w] = me],
           \A v \in Worker \ {w} : \A t \in InHand(v) :
              /\ tasks'[t].status = tasks[t].status /\ tasks'[t].attempts = tasks[t].attempts
              /\ handled'[t] = handled[t] /\ t \notin InHand(w)',
           HoldsClaims(w)', ChargedOnce'
    PROVE  Exclusive'
<1>1. \A v \in Worker \ {w} : workers'[v] = workers[v]
  BY DEF StateOK, TypeOK
<1>2. \A v \in Worker \ {w} : InHand(v)' = InHand(v)
  BY <1>1 DEF InHand
<1>3. ASSUME NEW v \in Worker \ {w} PROVE HoldsClaims(v)'
  <2>1. /\ workers'[v] = workers[v] /\ HoldsClaims(v)
        /\ workers[v].task \in TaskId \cup {None}
    BY <1>1 DEF Exclusive, StateOK, TypeOK, WorkerRow
  <2>2. \A c \in workers[v].batch : c.task \in InHand(v)
    BY DEF InHand
  <2>3. workers[v].task # None => workers[v].task \in InHand(v)
    BY DEF InHand
  <2>4. \A c \in workers'[v].batch :
           /\ tasks'[c.task].status = "claimed" /\ tasks'[c.task].attempts = c.attempts
           /\ handled'[c.task] < c.attempts /\ c.task # workers'[v].task
    BY <2>1, <2>2 DEF HoldsClaims
  <2>5. workers'[v].task # None =>
           /\ tasks'[workers'[v].task].status = "claimed"
           /\ tasks'[workers'[v].task].attempts = workers'[v].row.attempts
    BY <2>1, <2>3 DEF HoldsClaims
  <2>6. QED
    BY <2>1, <2>4, <2>5 DEF HoldsClaims
<1>4. Disjoint'
  <2>1. \A v \in Worker \ {w} : InHand(v)' \cap InHand(w)' = {}
    BY <1>2
  <2>2. \A u, v \in Worker \ {w} : u # v => InHand(u)' \cap InHand(v)' = {}
    BY <1>2 DEF Exclusive, Disjoint
  <2>3. QED
    BY <2>1, <2>2 DEF Disjoint
<1>5. QED
  BY <1>3, <1>4 DEF Exclusive

\* At first nobody holds a task.
LEMMA InitExclusive == Init => Exclusive
  BY NoTaskIsGood DEF Init, Exclusive, HoldsClaims, Disjoint, ChargedOnce, InHand, Down, At, NoTask

\* What a step of the workers does to tasks that have ended: nothing.
Final == \A t \in TaskId : tasks[t].status \in {"completed", "failed"} => tasks'[t] = tasks[t]

\* Without saves by hand every step keeps the hands apart and ended tasks as they are.
LEMMA WorkerNextExclusive ==
    StateOK /\ Exclusive /\ [WorkerNext]_vars => Exclusive' /\ Final
<1> SUFFICES ASSUME StateOK, Exclusive, [WorkerNext]_vars PROVE Exclusive' /\ Final
  OBVIOUS
<1>0. /\ workers \in [Worker -> WorkerRow] /\ tasks \in [TaskId -> TaskRow]
      /\ handled \in [TaskId -> Nat] /\ None \notin TaskId
  BY TasksAssumption DEF StateOK, TypeOK
<1>1. \A w \in Worker : HoldsClaims(w)
  BY DEF Exclusive
<1>2. \A v, w \in Worker : \A t : v # w /\ t \in InHand(v) => t \notin InHand(w)
  BY DEF Exclusive, Disjoint
<1>3. \A t \in TaskId : handled[t] <= tasks[t].attempts
  BY DEF Exclusive, ChargedOnce
<1>4. \A w \in Worker : \A t \in InHand(w) : t \in TaskId /\ tasks[t].status = "claimed"
  BY HandsAreClaimed
<1>5. ASSUME NEW t \in TaskId, CreateTask(t) PROVE Exclusive' /\ Final
  <2>1. /\ tasks[t].status = "none" /\ tasks' = [tasks EXCEPT ![t] = NewTask]
        /\ UNCHANGED <<workers, handled>>
    BY <1>5 DEF CreateTask, SaveTask
  <2>2. \A u \in TaskId : u # t => tasks'[u] = tasks[u]
    BY <1>0, <2>1
  <2>3. Final
    BY <2>1, <2>2 DEF Final
  <2>4. tasks[t].attempts = 0 /\ NewTask.attempts = 0
    BY <2>1 DEF StateOK, RowsInv, GoodRow, NewTask
  <2>5. ChargedOnce'
    BY <1>0, <1>3, <2>1, <2>2, <2>4 DEF ChargedOnce
  <2>6. \A w \in Worker : InHand(w)' = InHand(w) /\ t \notin InHand(w)
    BY <1>4, <2>1 DEF InHand
  <2>7. ASSUME NEW w \in Worker PROVE HoldsClaims(w)'
    <3>1. \A c \in workers[w].batch : c.task \in InHand(w) /\ c.task \in TaskId /\ c.task # t
      BY <1>4, <2>6 DEF InHand
    <3>2. workers[w].task # None => workers[w].task \in TaskId /\ workers[w].task # t
      BY <1>4, <2>6 DEF InHand
    <3>3. QED
      BY <1>1, <2>1, <2>2, <3>1, <3>2 DEF HoldsClaims
  <2>8. Disjoint'
    BY <1>2, <2>6 DEF Disjoint
  <2>9. QED
    BY <2>3, <2>5, <2>7, <2>8 DEF Exclusive
\* The worker that moves to "me" with an unchanged table, and with no new task.
<1>6. ASSUME NEW w \in Worker, NEW me, workers' = [workers EXCEPT ![w] = me],
             UNCHANGED tasks, handled' = handled,
             InHand(w)' \subseteq InHand(w), HoldsClaims(w)'
      PROVE  Exclusive' /\ Final
  <2>1. ChargedOnce'
    BY <1>3, <1>6 DEF ChargedOnce
  <2>2. \A v \in Worker \ {w} : \A t \in InHand(v) :
           /\ tasks'[t].status = tasks[t].status /\ tasks'[t].attempts = tasks[t].attempts
           /\ handled'[t] = handled[t] /\ t \notin InHand(w)'
    BY <1>2, <1>6
  <2>3. Exclusive'
    BY <1>6, <2>1, <2>2, OneWorkerMoves
  <2>4. QED
    BY <1>6, <2>3 DEF Final
<1>7. ASSUME NEW w \in Worker, BeginTick(w) \/ Stop(w) PROVE Exclusive' /\ Final
  <2>0. PICK me \in {At("claim", 1, {}), Down} : workers' = [workers EXCEPT ![w] = me]
    BY <1>7 DEF BeginTick, Stop
  <2>1. /\ workers' = [workers EXCEPT ![w] = me]
        /\ me.batch = {} /\ me.task = None /\ me.pc # "save"
    BY <2>0 DEF Down, At
  <2>2. workers'[w] = me
    BY <1>0, <2>1
  <2>3. InHand(w)' = {} /\ HoldsClaims(w)'
    BY <2>1, <2>2 DEF InHand, HoldsClaims
  <2>4. UNCHANGED tasks /\ handled' = handled
    BY <1>7 DEF BeginTick, Stop
  <2>5. QED
    BY <1>6, <2>1, <2>3, <2>4
<1>8. ASSUME NEW w \in Worker, ClaimDueTasks(w) PROVE Exclusive' /\ Final
  <2>1. PICK S \in SUBSET Due(workers[w].role) :
           /\ tasks' = [t \in TaskId |-> IF t \in S THEN Claimed(tasks[t]) ELSE tasks[t]]
           /\ workers' = [workers EXCEPT ![w] =
                 Continue(@, {[task |-> t, attempts |-> tasks[t].attempts + 1] : t \in S})]
           /\ handled' = handled
    BY <1>8 DEF ClaimDueTasks
  <2>2. PICK new : new = {[task |-> t, attempts |-> tasks[t].attempts + 1] : t \in S}
    OBVIOUS
  <2>3. \A t \in S : t \in TaskId /\ tasks[t].status = "pending" /\ tasks[t].attempts \in Nat
    BY <1>0 DEF Due, TaskRow
  <2>4. new \in SUBSET Claim
    BY <2>2, <2>3 DEF Claim
  <2> DEFINE me == Continue(workers[w], new)
  <2>5. /\ workers' = [workers EXCEPT ![w] = me]
        /\ me.batch = new /\ me.task = None /\ me.pc # "save"
    <3>1. workers' = [workers EXCEPT ![w] = me]
      BY <1>0, <2>1, <2>2
    <3>2. workers[w] \in WorkerRow
      BY <1>0
    <3>3. QED
      BY <2>4, <3>1, <3>2, ContinueHolds
  <2> HIDE DEF me
  <2>6. workers'[w] = me
    BY <1>0, <2>5
  <2>7. \A t \in S : tasks'[t].status = "claimed" /\ tasks'[t].attempts = tasks[t].attempts + 1
    BY <2>1, <2>3 DEF Claimed
  <2>8. \A t \in TaskId \ S : tasks'[t] = tasks[t]
    BY <2>1
  <2>10. /\ \A c \in new : c.task \in S /\ c.attempts = tasks[c.task].attempts + 1
         /\ \A t \in S : \E c \in new : c.task = t
    <3>1. \A c \in new : c.task \in S /\ c.attempts = tasks[c.task].attempts + 1
      BY <2>2
    <3>2. ASSUME NEW t \in S PROVE \E c \in new : c.task = t
      <4>1. [task |-> t, attempts |-> tasks[t].attempts + 1] \in new
        BY <2>2
      <4>2. QED
        BY <4>1, Zenon
    <3>3. QED
      BY <3>1, <3>2
  <2>9. InHand(w)' = S
    <3>1. InHand(w)' = {c.task : c \in new}
      BY <2>5, <2>6 DEF InHand
    <3>2. QED
      BY <2>10, <3>1
  <2>11. HoldsClaims(w)'
    <3>1. \A c \in new : handled[c.task] < c.attempts /\ c.task # None
      BY <1>0, <1>3, <2>3, <2>10
    <3>2. QED
      BY <2>1, <2>5, <2>6, <2>7, <2>10, <3>1 DEF HoldsClaims
  <2>12. ChargedOnce'
    <3>1. ASSUME NEW t \in S PROVE handled'[t] <= tasks'[t].attempts
      <4>1. handled[t] <= tasks[t].attempts /\ handled[t] \in Nat /\ tasks[t].attempts \in Nat
        BY <1>0, <1>3, <2>3
      <4>2. QED
        BY <2>1, <2>7, <4>1
    <3>2. QED
      BY <1>3, <2>1, <2>8, <3>1 DEF ChargedOnce
  <2>13. \A v \in Worker \ {w} : \A t \in InHand(v) : t \in TaskId \ S
    BY <1>4, <2>3
  <2>14. Exclusive'
    BY <2>1, <2>5, <2>8, <2>9, <2>11, <2>12, <2>13, OneWorkerMoves
  <2>15. Final
    BY <2>3, <2>8 DEF Final
  <2>16. QED
    BY <2>14, <2>15
<1>9. ASSUME NEW w \in Worker, Handle(w) PROVE Exclusive' /\ Final
  <2>1. PICK c \in workers[w].batch, outcome \in Outcome :
           /\ workers' = [workers EXCEPT ![w] =
                 [pc |-> "save", role |-> @.role, batch |-> @.batch \ {c}, task |-> c.task,
                  row |-> After(outcome, c.attempts)]]
           /\ handled' = [handled EXCEPT ![c.task] = IF @ <= MaxAttempts THEN @ + 1 ELSE @]
           /\ tasks' = tasks
    BY <1>9 DEF Handle
  <2>2. c \in Claim /\ c.task \in TaskId /\ c.attempts \in Nat
    BY <1>0 DEF WorkerRow, Claim
  <2>3. After(outcome, c.attempts).attempts = c.attempts
    BY DEF After, AfterSuccess, AfterError
  <2> DEFINE me == [pc |-> "save", role |-> workers[w].role,
                    batch |-> workers[w].batch \ {c}, task |-> c.task,
                    row |-> After(outcome, c.attempts)]
  <2>4. /\ workers' = [workers EXCEPT ![w] = me]
        /\ me.batch = workers[w].batch \ {c} /\ me.task = c.task
        /\ me.row.attempts = c.attempts
    BY <2>1, <2>3
  <2> HIDE DEF me
  <2>5. workers'[w] = me
    BY <1>0, <2>4
  <2>6. /\ tasks[c.task].status = "claimed" /\ tasks[c.task].attempts = c.attempts
        /\ handled[c.task] < c.attempts /\ handled[c.task] \in Nat
    BY <1>0, <1>1, <2>2 DEF HoldsClaims
  <2>7. handled'[c.task] <= tasks[c.task].attempts
        /\ \A t \in TaskId \ {c.task} : handled'[t] = handled[t]
    BY <1>0, <2>1, <2>2, <2>6, TasksAssumption
  <2>8. \A e \in workers[w].batch \ {c} : e.task # c.task /\ e.task \in TaskId
    <3>1. \A e \in workers[w].batch :
             e \in Claim /\ e.task \in TaskId /\ e.attempts = tasks[e.task].attempts
      BY <1>0, <1>1 DEF HoldsClaims, WorkerRow, Claim
    <3>2. \A e \in Claim : e.task = c.task /\ e.attempts = c.attempts => e = c
      BY <2>2 DEF Claim
    <3>3. QED
      BY <2>6, <3>1, <3>2
  <2>9. HoldsClaims(w)'
    <3>1. \A e \in workers[w].batch \ {c} :
             /\ tasks[e.task].status = "claimed" /\ tasks[e.task].attempts = e.attempts
             /\ handled'[e.task] < e.attempts
      BY <1>1, <2>7, <2>8 DEF HoldsClaims
    <3>2. c.task # None
      BY <1>0, <2>2
    <3>3. QED
      BY <2>1, <2>4, <2>5, <2>6, <2>8, <3>1, <3>2 DEF HoldsClaims
  <2>10. ChargedOnce'
    BY <1>3, <2>1, <2>2, <2>7 DEF ChargedOnce
  <2>11. c.task \in InHand(w) /\ InHand(w)' \subseteq InHand(w)
    BY <1>0, <2>2, <2>4, <2>5 DEF InHand
  <2>12. \A v \in Worker \ {w} : \A t \in InHand(v) :
           /\ tasks'[t].status = tasks[t].status /\ tasks'[t].attempts = tasks[t].attempts
           /\ handled'[t] = handled[t] /\ t \notin InHand(w)'
    BY <1>2, <1>4, <2>1, <2>7, <2>11
  <2>13. Exclusive'
    BY <2>4, <2>9, <2>10, <2>12, OneWorkerMoves
  <2>14. QED
    BY <2>1, <2>13 DEF Final
\* SaveHandled and StoreError drop the task in hand and keep the batch.
<1>10. ASSUME NEW w \in Worker, SaveHandled(w) \/ StoreError(w)
       PROVE  /\ \E me : /\ workers' = [workers EXCEPT ![w] = me]
                         /\ me.batch = workers[w].batch /\ me.task = None /\ me.pc # "save"
              /\ handled' = handled
  <2>1. /\ workers' = [workers EXCEPT ![w] = Continue(workers[w], workers[w].batch)]
        /\ handled' = handled
    BY <1>0, <1>10 DEF SaveHandled, StoreError
  <2>2. workers[w] \in WorkerRow /\ workers[w].batch \in SUBSET Claim
    BY <1>0 DEF WorkerRow
  <2> DEFINE next == Continue(workers[w], workers[w].batch)
  <2>3. next.batch = workers[w].batch /\ next.task = None /\ next.pc # "save"
    BY <2>2, ContinueHolds
  <2>4. workers' = [workers EXCEPT ![w] = next]
    BY <2>1
  <2> HIDE DEF next
  <2>5. QED
    BY <2>1, <2>3, <2>4
<1>11. ASSUME NEW w \in Worker, SaveHandled(w) PROVE Exclusive' /\ Final
  <2>1. PICK me : /\ workers' = [workers EXCEPT ![w] = me]
                  /\ me.batch = workers[w].batch /\ me.task = None /\ me.pc # "save"
    BY <1>10, <1>11
  <2>2. workers'[w] = me /\ handled' = handled
    BY <1>0, <1>10, <1>11, <2>1
  <2>3. PICK s : s = workers[w].task
    OBVIOUS
  <2>4. /\ s \in InHand(w) /\ s \in TaskId /\ tasks[s].status = "claimed"
        /\ tasks' = [tasks EXCEPT ![s] = workers[w].row]
        /\ workers[w].row.attempts = tasks[s].attempts
    BY <1>1, <1>4, <1>11, <2>3 DEF SaveHandled, SaveTask, HoldsClaims, InHand
  <2>5. \A t \in TaskId \ {s} : tasks'[t] = tasks[t]
    BY <1>0, <2>4
  <2>6. tasks'[s].attempts = tasks[s].attempts
    BY <1>0, <2>4
  <2>7. InHand(w)' \subseteq InHand(w) /\ \A c \in workers[w].batch : c.task \in TaskId \ {s}
    <3>1. \A c \in workers[w].batch : c.task \in InHand(w) /\ c.task # workers[w].task
      BY <1>1 DEF HoldsClaims, InHand
    <3>2. QED
      BY <1>4, <2>1, <2>2, <2>3, <3>1 DEF InHand
  <2>8. HoldsClaims(w)'
    BY <1>0, <1>1, <2>1, <2>2, <2>3, <2>5, <2>7 DEF HoldsClaims
  <2>9. ChargedOnce'
    BY <1>3, <2>2, <2>4, <2>5, <2>6 DEF ChargedOnce
  <2>10. \A v \in Worker \ {w} : \A t \in InHand(v) :
           /\ tasks'[t].status = tasks[t].status /\ tasks'[t].attempts = tasks[t].attempts
           /\ handled'[t] = handled[t] /\ t \notin InHand(w)'
    BY <1>2, <1>4, <2>2, <2>4, <2>5, <2>7
  <2>11. Exclusive'
    BY <2>1, <2>8, <2>9, <2>10, OneWorkerMoves
  <2>12. QED
    BY <2>4, <2>5, <2>11 DEF Final
<1>12. ASSUME NEW w \in Worker, StoreError(w) PROVE Exclusive' /\ Final
  <2>1. PICK me : /\ workers' = [workers EXCEPT ![w] = me]
                  /\ me.batch = workers[w].batch /\ me.task = None /\ me.pc # "save"
    BY <1>10, <1>12
  <2>2. workers'[w] = me /\ handled' = handled /\ tasks' = tasks
    BY <1>0, <1>10, <1>12, <2>1 DEF StoreError
  <2>3. InHand(w)' \subseteq InHand(w)
    BY <2>1, <2>2 DEF InHand
  <2>4. \A c \in workers[w].batch : c.task # None
    BY <1>0, <1>4 DEF InHand
  <2>5. HoldsClaims(w)'
    BY <1>1, <2>1, <2>2, <2>4 DEF HoldsClaims
  <2>6. QED
    BY <1>6, <2>1, <2>2, <2>3, <2>5
<1>13. CASE AdvanceClock
  <2>1. /\ tasks' = [t \in TaskId |-> Later(tasks[t])]
        /\ workers' = [w \in Worker |-> [workers[w] EXCEPT !.row = Later(@)]]
        /\ handled' = handled
    BY <1>13 DEF AdvanceClock
  <2>2. \A t \in TaskId : /\ tasks'[t].status = tasks[t].status
                          /\ tasks'[t].attempts = tasks[t].attempts
                          /\ tasks[t].status \in {"completed", "failed"} => tasks'[t] = tasks[t]
    BY <1>0, <2>1, ClockIsGood DEF StateOK, RowsInv
  <2>3. ASSUME NEW w \in Worker
        PROVE  /\ workers'[w].pc = workers[w].pc /\ workers'[w].batch = workers[w].batch
               /\ workers'[w].task = workers[w].task
               /\ workers'[w].row.attempts = workers[w].row.attempts
    <3>1. workers[w] \in WorkerRow /\ workers[w].row \in TaskRow /\ GoodRow(workers[w].row)
      BY <1>0 DEF WorkerRow, StateOK, RowsInv
    <3>2. Later(workers[w].row).attempts = workers[w].row.attempts
      BY <3>1, ClockIsGood
    <3>3. QED
      BY <2>1, <3>1, <3>2 DEF WorkerRow
  <2>4. \A w \in Worker : InHand(w)' = InHand(w)
    BY <2>3 DEF InHand
  <2>5. ASSUME NEW w \in Worker PROVE HoldsClaims(w)'
    <3>1. \A c \in workers[w].batch : c.task \in TaskId
      BY <1>4 DEF InHand
    <3>2. workers[w].task # None => workers[w].task \in TaskId
      BY <1>4 DEF InHand
    <3>3. QED
      BY <1>1, <2>1, <2>2, <2>3, <3>1, <3>2 DEF HoldsClaims
  <2>6. Disjoint' /\ ChargedOnce'
    BY <1>2, <1>3, <2>1, <2>2, <2>4 DEF Disjoint, ChargedOnce
  <2>7. QED
    BY <2>2, <2>5, <2>6 DEF Exclusive, Final
<1>14. CASE UNCHANGED vars
  <2>1. UNCHANGED <<tasks, workers, handled>>
    BY <1>14 DEF vars
  <2>2. \A w \in Worker : HoldsClaims(w)' /\ InHand(w)' = InHand(w)
    BY <1>1, <2>1 DEF HoldsClaims, InHand
  <2>3. Disjoint' /\ ChargedOnce'
    BY <1>2, <1>3, <2>1, <2>2 DEF Disjoint, ChargedOnce
  <2>4. QED
    BY <2>1, <2>2, <2>3 DEF Exclusive, Final
<1>15. QED
  BY <1>5, <1>7, <1>8, <1>9, <1>11, <1>12, <1>13, <1>14 DEF WorkerNext, WorkerStep

\* The invariant of the workers' behaviours.
LEMMA WorkerInvariant == WorkerSpec => [](StateOK /\ Exclusive)
<1>1. Init => StateOK /\ Exclusive
  BY InitOK, InitExclusive
<1>2. StateOK /\ Exclusive /\ [WorkerNext]_vars => (StateOK /\ Exclusive)'
  <2>1. [WorkerNext]_vars => [Next]_vars
    BY DEF Next
  <2>2. QED
    BY <2>1, NextOK, WorkerNextExclusive
<1>3. QED
  BY <1>1, <1>2, PTL DEF WorkerSpec

\* However processes tick, stop and start, no two workers hold one task.
THEOREM ClaimsAreExclusive == WorkerSpec => []ClaimIsExclusive
<1>1. StateOK /\ Exclusive => ClaimIsExclusive
  <2> SUFFICES ASSUME StateOK, Exclusive, NEW w \in Worker, NEW t \in InHand(w)
               PROVE  tasks[t].status = "claimed" /\ \A v \in Worker : t \in InHand(v) => v = w
    BY DEF ClaimIsExclusive
  <2>1. tasks[t].status = "claimed"
    BY HandsAreClaimed
  <2>2. QED
    BY <2>1 DEF Exclusive, Disjoint
<1>2. QED
  BY WorkerInvariant, <1>1, PTL

\* A task is handled at most once per attempt, and never more often than the limit.
THEOREM HandlingsAreCharged == WorkerSpec => []HandledOncePerAttempt
<1>1. StateOK /\ Exclusive => HandledOncePerAttempt
  BY TasksAssumption DEF StateOK, TypeOK, TaskRow, RowsInv, GoodRow, Exclusive, ChargedOnce,
     HandledOncePerAttempt
<1>2. QED
  BY WorkerInvariant, <1>1, PTL

\* A task that completed or failed for good is never written again.
THEOREM FinishedTasksAreFinal == WorkerSpec => FinishedIsFinal
<1>1. StateOK /\ Exclusive /\ [WorkerNext]_vars
      => [\A t \in TaskId : tasks[t].status \in {"completed", "failed"}
                           => tasks[t]' = tasks[t]]_vars
  BY WorkerNextExclusive DEF Final
<1>2. QED
  BY WorkerInvariant, <1>1, PTL DEF WorkerSpec, FinishedIsFinal

-----------------------------------------------------------------------------
(* The refinement of WorkQueue                                             *)

\* Where a worker stands tells what it holds: only at a save a task of its own, only between
\* a claim and the last save of its batch any.
Pace(me) ==
    /\ me.pc # "save" => me.task = None
    /\ me.pc \notin {"handle", "save"} => me.batch = {}
    /\ me.pc = "save" => me.row.status \in {"pending", "completed", "failed"}

Paced == \A w \in Worker : Pace(workers[w])
QueueOK == StateOK /\ Exclusive /\ Paced

\* Every step leaves each worker holding what its next statement needs.
LEMMA PacedHolds == StateOK /\ Paced /\ [WorkerNext]_vars => Paced'
<1> SUFFICES ASSUME StateOK, Paced, [WorkerNext]_vars PROVE Paced'
  OBVIOUS
<1>0. workers \in [Worker -> WorkerRow] /\ \A w \in Worker : Pace(workers[w])
  BY DEF StateOK, TypeOK, Paced
<1>1. ASSUME NEW w \in Worker, NEW me, Pace(me), workers' = [workers EXCEPT ![w] = me]
      PROVE  Paced'
  BY <1>0, <1>1 DEF Paced
<1>2. ASSUME NEW w \in Worker, NEW rest \in SUBSET Claim PROVE Pace(Continue(workers[w], rest))
  BY <1>0, ContinueHolds DEF Pace
<1>3. ASSUME NEW w \in Worker, BeginTick(w) \/ Stop(w) PROVE Paced'
  <2>1. Pace(At("claim", 1, {})) /\ Pace(Down)
    BY DEF Pace, At, Down
  <2>2. QED
    BY <1>1, <1>3, <2>1 DEF BeginTick, Stop
<1>4. ASSUME NEW w \in Worker, ClaimDueTasks(w) PROVE Paced'
  <2>1. PICK S \in SUBSET Due(workers[w].role) :
           workers' = [workers EXCEPT ![w] =
              Continue(@, {[task |-> t, attempts |-> tasks[t].attempts + 1] : t \in S})]
    BY <1>4 DEF ClaimDueTasks
  <2>2. PICK rest : rest = {[task |-> t, attempts |-> tasks[t].attempts + 1] : t \in S}
    OBVIOUS
  <2>3. \A t \in S : t \in TaskId /\ tasks[t].attempts + 1 \in Nat
    BY DEF Due, StateOK, TypeOK, TaskRow
  <2>4. rest \in SUBSET Claim
    BY <2>2, <2>3 DEF Claim
  <2>5. workers' = [workers EXCEPT ![w] = Continue(workers[w], rest)]
    BY <1>0, <2>1, <2>2
  <2>6. QED
    BY <1>1, <1>2, <2>4, <2>5
<1>5. ASSUME NEW w \in Worker, Handle(w) PROVE Paced'
  <2>1. PICK c \in workers[w].batch, outcome \in Outcome :
           workers' = [workers EXCEPT ![w] =
              [pc |-> "save", role |-> @.role, batch |-> @.batch \ {c}, task |-> c.task,
               row |-> After(outcome, c.attempts)]]
    BY <1>5 DEF Handle
  <2> DEFINE me == [pc |-> "save", role |-> workers[w].role,
                    batch |-> workers[w].batch \ {c}, task |-> c.task,
                    row |-> After(outcome, c.attempts)]
  <2>2. After(outcome, c.attempts).status \in {"pending", "completed", "failed"}
    BY DEF After, AfterSuccess, AfterError
  <2>3. Pace(me)
    BY <2>2 DEF Pace
  <2>4. workers' = [workers EXCEPT ![w] = me]
    BY <1>0, <2>1
  <2> HIDE DEF me
  <2>5. QED
    BY <1>1, <2>3, <2>4
<1>6. ASSUME NEW w \in Worker, SaveHandled(w) \/ StoreError(w) PROVE Paced'
  <2>1. workers' = [workers EXCEPT ![w] = Continue(workers[w], workers[w].batch)]
    BY <1>0, <1>6 DEF SaveHandled, StoreError
  <2>2. workers[w].batch \in SUBSET Claim
    BY <1>0 DEF WorkerRow
  <2>3. QED
    BY <1>1, <1>2, <2>1, <2>2
<1>7. CASE AdvanceClock
  <2>1. ASSUME NEW w \in Worker PROVE Pace(workers'[w])
    <3>1. /\ workers[w] \in WorkerRow /\ Pace(workers[w])
          /\ workers[w].row \in TaskRow /\ GoodRow(workers[w].row)
      BY <1>0 DEF WorkerRow, StateOK, RowsInv
    <3>2. Later(workers[w].row).status = workers[w].row.status
      BY <3>1, ClockIsGood
    <3>3. workers'[w] = [workers[w] EXCEPT !.row = Later(workers[w].row)]
      BY <1>7 DEF AdvanceClock
    <3>4. QED
      BY <3>1, <3>2, <3>3 DEF WorkerRow, Pace
  <2>2. QED
    BY <2>1 DEF Paced
<1>8. CASE UNCHANGED workers
  BY <1>0, <1>8 DEF Paced
<1>9. QED
  BY <1>3, <1>4, <1>5, <1>6, <1>7, <1>8
     DEF WorkerNext, WorkerStep, CreateTask, vars

\* When one worker moves, it alone is added to, or taken from, the holders of tasks.
LEMMA HoldersMove ==
    ASSUME QueueOK, QueueOK', NEW w \in Worker,
           \A v \in Worker \ {w} : workers'[v] = workers[v]
    PROVE  /\ \A t \in TaskId : t \in InHand(w) => holdersBar[t] = {w}
           /\ \A t \in TaskId : holdersBar'[t] = IF t \in InHand(w)' THEN {w}
                                                  ELSE IF t \in InHand(w) THEN {}
                                                  ELSE holdersBar[t]
           /\ \A t \in TaskId : t \in startedBar' <=>
                (t = workers'[w].task \/ (t \in startedBar /\ t # workers[w].task))
<1>1. \A v \in Worker \ {w} : InHand(v)' = InHand(v)
  BY DEF InHand
<1>2. \A v \in Worker \ {w} : InHand(v) \cap InHand(w) = {} /\ InHand(v) \cap InHand(w)' = {}
  BY <1>1 DEF QueueOK, Exclusive, Disjoint
<1>3. /\ \A t \in TaskId : holdersBar[t] = {v \in Worker : t \in InHand(v)}
      /\ \A t \in TaskId : holdersBar'[t] = {v \in Worker : t \in InHand(v)'}
  BY DEF holdersBar
<1>4. \A t \in TaskId : t \in InHand(w) => holdersBar[t] = {w}
  BY <1>2, <1>3
<1>5. ASSUME NEW t \in TaskId
      PROVE  holdersBar'[t] = IF t \in InHand(w)' THEN {w}
                              ELSE IF t \in InHand(w) THEN {} ELSE holdersBar[t]
  <2>1. CASE t \in InHand(w)'
    BY <1>1, <1>2, <1>3, <2>1
  <2>2. CASE t \notin InHand(w)' /\ t \in InHand(w)
    BY <1>1, <1>2, <1>3, <2>2
  <2>3. CASE t \notin InHand(w)' /\ t \notin InHand(w)
    <3>1. \A v \in Worker : t \in InHand(v)' <=> t \in InHand(v)
      BY <1>1, <2>3
    <3>2. {v \in Worker : t \in InHand(v)'} = {v \in Worker : t \in InHand(v)}
      BY <3>1
    <3>3. QED
      BY <1>3, <2>3, <3>2
  <2>4. QED
    BY <2>1, <2>2, <2>3
<1>6. ASSUME NEW t \in TaskId
      PROVE  t \in startedBar' <=>
                (t = workers'[w].task \/ (t \in startedBar /\ t # workers[w].task))
  <2>1. t # None
    BY TasksAssumption
  <2>2. \A v \in Worker : workers[v].task = t => t \in InHand(v)
    BY <2>1 DEF InHand
  <2>3. \A v \in Worker \ {w} : workers[v].task = t => workers[w].task # t
    BY <1>2, <2>2
  <2>4. t \in startedBar <=> \E v \in Worker : workers[v].task = t
    BY DEF startedBar
  <2>5. t \in startedBar' <=> \E v \in Worker : workers'[v].task = t
    BY DEF startedBar
  <2>6. QED
    BY <2>3, <2>4, <2>5
<1>7. QED
  BY <1>4, <1>5, <1>6

\* The mapping is made of functions and sets of tasks.
LEMMA BarTypes ==
    /\ stageBar = [t \in TaskId |-> stageBar[t]] /\ triesBar = [t \in TaskId |-> triesBar[t]]
    /\ holdersBar = [t \in TaskId |-> holdersBar[t]]
    /\ \A t \in TaskId : stageBar[t] = tasks[t].status /\ triesBar[t] = tasks[t].attempts
    /\ startedBar \subseteq TaskId
  BY DEF stageBar, triesBar, holdersBar, startedBar

Stutter == UNCHANGED <<stageBar, triesBar, holdersBar, startedBar, faults>>

\* A step that leaves what the mapping looks at alone.
LEMMA SameHands ==
    ASSUME UNCHANGED faults,
           \A t \in TaskId : /\ tasks'[t].status = tasks[t].status
                             /\ tasks'[t].attempts = tasks[t].attempts,
           \A w \in Worker : InHand(w)' = InHand(w) /\ workers'[w].task = workers[w].task
    PROVE  Stutter
  BY DEF Stutter, stageBar, triesBar, holdersBar, startedBar

\* Initial states map to the initial state of the queue.
LEMMA QueueInitRefines == Init => Queue!QueueInit
<1> SUFFICES ASSUME Init PROVE Queue!QueueInit
  OBVIOUS
<1>1. /\ tasks = [t \in TaskId |-> NoTask] /\ faults = 0
      /\ \A w \in Worker : InHand(w) = {} /\ workers[w].task = None
  BY DEF Init, InHand, Down, At
<1>2. stageBar = [t \in TaskId |-> "none"] /\ triesBar = [t \in TaskId |-> 0]
  BY <1>1 DEF stageBar, triesBar, NoTask
<1>3. holdersBar = [t \in TaskId |-> {}]
  BY <1>1 DEF holdersBar
<1>4. startedBar = {}
  BY <1>1, TasksAssumption DEF startedBar
<1>5. QED
  BY <1>1, <1>2, <1>3, <1>4 DEF Queue!QueueInit

\* A created task is submitted.
LEMMA CreateRefines ==
    ASSUME QueueOK, NEW t \in TaskId, CreateTask(t)
    PROVE  Queue!Submit(t)
<1>1. /\ tasks \in [TaskId -> TaskRow] /\ tasks[t].status = "none" /\ tasks[t].attempts = 0
      /\ tasks' = [tasks EXCEPT ![t] = NewTask] /\ UNCHANGED <<workers, faults>>
  BY DEF QueueOK, StateOK, TypeOK, RowsInv, GoodRow, CreateTask, SaveTask
<1>2. /\ tasks'[t] = NewTask /\ NewTask.status = "pending" /\ NewTask.attempts = 0
      /\ \A u \in TaskId : u # t => tasks'[u] = tasks[u]
  BY <1>1 DEF NewTask
<1>3. stageBar[t] = "none" /\ stageBar' = [stageBar EXCEPT ![t] = "pending"]
  BY <1>1, <1>2 DEF stageBar
<1>4. triesBar' = triesBar
  BY <1>1, <1>2 DEF triesBar
<1>5. holdersBar' = holdersBar /\ startedBar' = startedBar
  BY <1>1 DEF holdersBar, startedBar, InHand
<1>6. QED
  BY <1>1, <1>3, <1>4, <1>5 DEF Queue!Submit

\* A tick begins with empty hands.
LEMMA BeginTickRefines ==
    ASSUME QueueOK, NEW w \in Worker, BeginTick(w)
    PROVE  Stutter
<1>1. /\ workers \in [Worker -> WorkerRow] /\ workers[w].pc \in {"down", "sleep"}
      /\ workers' = [workers EXCEPT ![w] = At("claim", 1, {})] /\ UNCHANGED <<tasks, faults>>
  BY DEF QueueOK, StateOK, TypeOK, BeginTick
<1>2. workers[w].batch = {} /\ workers[w].task = None
  BY <1>1 DEF QueueOK, Paced, Pace
<1>3. \A v \in Worker : workers'[v].batch = workers[v].batch /\ workers'[v].task = workers[v].task
  BY <1>1, <1>2 DEF At
<1>4. \A v \in Worker : InHand(v)' = InHand(v)
  BY <1>3 DEF InHand
<1>5. QED
  BY <1>1, <1>3, <1>4, SameHands

\* Time is no part of the queue.
LEMMA ClockRefines ==
    ASSUME QueueOK, AdvanceClock
    PROVE  Stutter
<1>1. /\ workers \in [Worker -> WorkerRow] /\ tasks \in [TaskId -> TaskRow]
      /\ tasks' = [t \in TaskId |-> Later(tasks[t])]
      /\ workers' = [w \in Worker |-> [workers[w] EXCEPT !.row = Later(@)]]
      /\ UNCHANGED faults
  BY DEF QueueOK, StateOK, TypeOK, AdvanceClock
<1>2. \A t \in TaskId : tasks'[t].status = tasks[t].status /\ tasks'[t].attempts = tasks[t].attempts
  BY <1>1, ClockIsGood DEF QueueOK, StateOK, RowsInv
<1>3. \A w \in Worker : workers'[w].batch = workers[w].batch /\ workers'[w].task = workers[w].task
  BY <1>1 DEF WorkerRow
<1>4. \A w \in Worker : InHand(w)' = InHand(w)
  BY <1>3 DEF InHand
<1>5. QED
  BY <1>1, <1>2, <1>3, <1>4, SameHands

\* A claim takes the tasks it found, or found none.
LEMMA ClaimRefines ==
    ASSUME QueueOK, QueueOK', NEW w \in Worker, ClaimDueTasks(w)
    PROVE  Stutter \/ \E S \in SUBSET TaskId : Cardinality(S) <= ClaimLimit /\ Queue!Take(w, S)
<1>0. /\ workers \in [Worker -> WorkerRow] /\ tasks \in [TaskId -> TaskRow]
      /\ workers[w].pc = "claim" /\ workers[w] \in WorkerRow /\ UNCHANGED faults
  BY DEF QueueOK, StateOK, TypeOK, ClaimDueTasks
<1>1. PICK S \in SUBSET Due(workers[w].role) :
         /\ Cardinality(S) <= ClaimLimit
         /\ tasks' = [t \in TaskId |-> IF t \in S THEN Claimed(tasks[t]) ELSE tasks[t]]
         /\ workers' = [workers EXCEPT ![w] =
               Continue(@, {[task |-> t, attempts |-> tasks[t].attempts + 1] : t \in S})]
  BY DEF ClaimDueTasks
<1>2. PICK new : new = {[task |-> t, attempts |-> tasks[t].attempts + 1] : t \in S}
  OBVIOUS
<1>3. /\ S \subseteq TaskId
      /\ \A t \in S : /\ tasks[t].status = "pending" /\ tasks[t].attempts \in Nat
                      /\ RoleOf[t] = workers[w].role /\ tasks[t].attempts < MaxAttempts
  BY <1>0 DEF Due, TaskRow, QueueOK, StateOK, RowsInv, GoodRow
<1>4. new \in SUBSET Claim
  BY <1>2, <1>3 DEF Claim
<1>5. workers[w].batch = {} /\ workers[w].task = None /\ InHand(w) = {}
  BY <1>0 DEF QueueOK, Paced, Pace, InHand
<1>6. workers'[w].batch = new /\ workers'[w].task = None
  BY <1>0, <1>1, <1>2, <1>4, ContinueHolds
<1>7. /\ \A c \in new : c.task \in S
      /\ \A t \in S : \E c \in new : c.task = t
  <2>1. \A c \in new : c.task \in S
    BY <1>2
  <2>2. ASSUME NEW t \in S PROVE \E c \in new : c.task = t
    <3>1. [task |-> t, attempts |-> tasks[t].attempts + 1] \in new
      BY <1>2
    <3>2. QED
      BY <3>1, Zenon
  <2>3. QED
    BY <2>1, <2>2
<1>8. InHand(w)' = S
  <2>1. InHand(w)' = {c.task : c \in new}
    BY <1>6 DEF InHand
  <2>2. QED
    BY <1>7, <2>1
<1>9. \A v \in Worker \ {w} : workers'[v] = workers[v]
  BY <1>0, <1>1
<1>10. /\ \A t \in TaskId : w \notin holdersBar[t]
       /\ \A t \in TaskId : holdersBar'[t] = IF t \in S THEN {w} ELSE holdersBar[t]
       /\ \A t \in TaskId : t \in startedBar' <=> t \in startedBar
  <2>1. \A t \in TaskId : w \notin holdersBar[t]
    BY <1>5 DEF holdersBar
  <2>2. \A t \in TaskId : t # None
    BY TasksAssumption
  <2>3. QED
    BY <1>5, <1>6, <1>8, <1>9, <2>1, <2>2, HoldersMove
<1>11. holdersBar' = [t \in TaskId |-> IF t \in S THEN {w} ELSE holdersBar[t]]
  BY <1>10 DEF holdersBar
<1>12. startedBar' = startedBar
  BY <1>10 DEF startedBar
<1>13. stageBar' = [t \in TaskId |-> IF t \in S THEN "claimed" ELSE stageBar[t]]
  BY <1>1 DEF stageBar, Claimed
<1>14. triesBar' = [t \in TaskId |-> IF t \in S THEN triesBar[t] + 1 ELSE triesBar[t]]
  BY <1>1 DEF triesBar, Claimed
<1>15. CASE S = {}
  <2>1. /\ stageBar' = [t \in TaskId |-> stageBar[t]] /\ triesBar' = [t \in TaskId |-> triesBar[t]]
        /\ holdersBar' = [t \in TaskId |-> holdersBar[t]]
    BY <1>11, <1>13, <1>14, <1>15
  <2>2. QED
    BY <1>0, <1>12, <2>1, BarTypes DEF Stutter
<1>16. CASE S # {}
  <2>1. /\ \A t \in S : stageBar[t] = "pending" /\ triesBar[t] < MaxAttempts
        /\ \A t, u \in S : RoleOf[t] = RoleOf[u]
    BY <1>3 DEF stageBar, triesBar
  <2>2. \A t \in TaskId : w \notin holdersBar[t]
    BY <1>10
  <2>3. UNCHANGED <<startedBar, faults>>
    BY <1>0, <1>12
  <2>4. Queue!Take(w, S)
    BY <1>11, <1>13, <1>14, <1>16, <2>1, <2>2, <2>3 DEF Queue!Take
  <2>5. QED
    BY <1>1, <1>3, <2>4
<1>17. QED
  BY <1>15, <1>16

\* The call of a handler starts the task.
LEMMA HandleRefines ==
    ASSUME QueueOK, QueueOK', NEW w \in Worker, Handle(w)
    PROVE  \E t \in TaskId : Queue!Start(w, t)
<1>0. /\ workers \in [Worker -> WorkerRow] /\ workers[w] \in WorkerRow /\ workers[w].task = None
      /\ UNCHANGED <<tasks, faults>>
  BY DEF QueueOK, StateOK, TypeOK, Handle, Paced, Pace
<1>1. PICK c \in workers[w].batch, outcome \in Outcome :
         workers' = [workers EXCEPT ![w] =
            [pc |-> "save", role |-> @.role, batch |-> @.batch \ {c}, task |-> c.task,
             row |-> After(outcome, c.attempts)]]
  BY DEF Handle
<1> DEFINE t == c.task
<1>2. t \in TaskId /\ t \in InHand(w) /\ t # None
  BY <1>0, TasksAssumption DEF WorkerRow, Claim, InHand
<1>3. /\ workers'[w].task = t /\ workers'[w].batch = workers[w].batch \ {c}
      /\ \A v \in Worker \ {w} : workers'[v] = workers[v]
  BY <1>0, <1>1
<1>4. InHand(w)' = InHand(w)
  <2>1. InHand(w) = {e.task : e \in workers[w].batch}
    BY <1>0 DEF InHand
  <2>2. InHand(w)' = {e.task : e \in workers[w].batch \ {c}} \cup {t}
    BY <1>2, <1>3 DEF InHand
  <2>3. QED
    BY <2>1, <2>2
<1>5. stageBar' = stageBar /\ triesBar' = triesBar
  BY <1>0 DEF stageBar, triesBar
<1> HIDE DEF t
<1>6. /\ holdersBar[t] = {w}
      /\ \A u \in TaskId : holdersBar'[u] = holdersBar[u]
      /\ \A u \in TaskId : u \in startedBar' <=> u = t \/ u \in startedBar
  <2>1. \A u \in TaskId : u # None
    BY TasksAssumption
  <2>2. \A u \in TaskId : u \in InHand(w) => holdersBar[u] = {w}
    BY <1>3, HoldersMove
  <2>3. ASSUME NEW u \in TaskId
        PROVE  holdersBar'[u] = IF u \in InHand(w) THEN {w} ELSE holdersBar[u]
    <3>1. holdersBar'[u] = IF u \in InHand(w)' THEN {w}
                           ELSE IF u \in InHand(w) THEN {} ELSE holdersBar[u]
      BY <1>3, HoldersMove
    <3>2. u \in InHand(w)' <=> u \in InHand(w)
      BY <1>4
    <3>3. QED
      BY <3>1, <3>2
  <2>4. \A u \in TaskId : u \in startedBar' <=> u = t \/ u \in startedBar
    BY <1>0, <1>3, <2>1, HoldersMove
  <2>5. \A u \in TaskId : holdersBar'[u] = holdersBar[u]
    BY <2>2, <2>3
  <2>6. QED
    BY <1>2, <2>2, <2>4, <2>5
<1>7. holdersBar' = holdersBar
  BY <1>6 DEF holdersBar
<1>8. startedBar' = startedBar \cup {t}
  <2>1. startedBar' \subseteq TaskId /\ startedBar \subseteq TaskId
    BY DEF startedBar
  <2>2. QED
    BY <1>2, <1>6, <2>1
<1>9. \A u \in startedBar : holdersBar[u] # {w}
  <2>1. SUFFICES ASSUME NEW u \in startedBar, holdersBar[u] = {w} PROVE FALSE
    OBVIOUS
  <2>2. PICK v \in Worker : workers[v].task = u
    BY DEF startedBar
  <2>3. u \in TaskId /\ u # None
    BY TasksAssumption DEF startedBar
  <2>4. v # w
    BY <1>0, <2>2, <2>3
  <2>5. v \in holdersBar[u]
    BY <2>2, <2>3 DEF holdersBar, InHand
  <2>6. QED
    BY <2>1, <2>4, <2>5
<1>10. t \notin startedBar
  BY <1>6, <1>9
<1>11. QED
  BY <1>0, <1>2, <1>5, <1>6, <1>7, <1>8, <1>9, <1>10 DEF Queue!Start

\* A save finishes the task it was started for.
LEMMA SaveRefines ==
    ASSUME QueueOK, QueueOK', NEW w \in Worker, SaveHandled(w)
    PROVE  \E t \in TaskId, to \in {"pending", "completed", "failed"} : Queue!Finish(w, t, to)
<1> DEFINE t == workers[w].task
           row == workers[w].row
<1>0. /\ workers \in [Worker -> WorkerRow] /\ workers[w] \in WorkerRow
      /\ tasks \in [TaskId -> TaskRow] /\ workers[w].pc = "save" /\ UNCHANGED faults
      /\ tasks' = [tasks EXCEPT ![t] = row]
      /\ workers' = [workers EXCEPT ![w] = Continue(workers[w], workers[w].batch)]
  BY DEF QueueOK, StateOK, TypeOK, SaveHandled, SaveTask
<1>1. /\ t # None /\ tasks[t].status = "claimed" /\ tasks[t].attempts = row.attempts
      /\ row.status \in {"pending", "completed", "failed"} /\ GoodRow(row)
      /\ \A c \in workers[w].batch : c.task # t
  BY <1>0 DEF QueueOK, Exclusive, HoldsClaims, Paced, Pace, StateOK, RowsInv
<1>2. t \in TaskId /\ t \in InHand(w)
  BY <1>0, <1>1 DEF WorkerRow, InHand
<1>3. /\ workers'[w].task = None /\ workers'[w].batch = workers[w].batch
      /\ \A v \in Worker \ {w} : workers'[v] = workers[v]
  <2>1. workers[w].batch \in SUBSET Claim
    BY <1>0 DEF WorkerRow
  <2>2. QED
    BY <1>0, <2>1, ContinueHolds
<1>4. InHand(w)' = InHand(w) \ {t}
  <2>1. InHand(w) = {e.task : e \in workers[w].batch} \cup {t}
    BY <1>1 DEF InHand
  <2>2. InHand(w)' = {e.task : e \in workers[w].batch}
    BY <1>3 DEF InHand
  <2>3. t \notin {e.task : e \in workers[w].batch}
    BY <1>1
  <2>4. QED
    BY <2>1, <2>2, <2>3
<1>5. tasks'[t] = row /\ \A u \in TaskId \ {t} : tasks'[u] = tasks[u]
  BY <1>0, <1>2
<1>6. t \in startedBar
  BY <1>2 DEF startedBar
<1> HIDE DEF t, row
<1>7. stageBar[t] = "claimed" /\ triesBar[t] = row.attempts
      /\ stageBar' = [stageBar EXCEPT ![t] = row.status] /\ triesBar' = triesBar
  BY <1>1, <1>2, <1>5 DEF stageBar, triesBar
<1>8. /\ holdersBar[t] = {w}
      /\ \A u \in TaskId : holdersBar'[u] = IF u = t THEN {} ELSE holdersBar[u]
      /\ \A u \in TaskId : u \in startedBar' <=> u \in startedBar /\ u # t
  <2>1. \A u \in TaskId : u # None
    BY TasksAssumption
  <2>2. \A u \in TaskId : u \in InHand(w) => holdersBar[u] = {w}
    BY <1>3, HoldersMove
  <2>3. \A u \in TaskId : u \in startedBar' <=> u \in startedBar /\ u # t
    BY <1>3, <2>1, HoldersMove DEF t
  <2>4. \A u \in TaskId : holdersBar'[u] = IF u = t THEN {} ELSE holdersBar[u]
    BY <1>2, <1>3, <1>4, <2>2, HoldersMove
  <2>5. QED
    BY <1>2, <2>2, <2>3, <2>4
<1>9. holdersBar' = [holdersBar EXCEPT ![t] = {}]
  BY <1>8 DEF holdersBar
<1>10. startedBar' = startedBar \ {t}
  <2>1. startedBar' \subseteq TaskId /\ startedBar \subseteq TaskId
    BY DEF startedBar
  <2>2. QED
    BY <1>8, <2>1
<1>11. /\ row.status = "pending" => triesBar[t] < MaxAttempts
       /\ row.status = "failed" => triesBar[t] = MaxAttempts
  BY <1>1, <1>7 DEF GoodRow
<1>12. Queue!Finish(w, t, row.status)
  BY <1>0, <1>6, <1>7, <1>8, <1>9, <1>10, <1>11 DEF Queue!Finish
<1>13. QED
  BY <1>1, <1>2, <1>12

\* A fault makes a worker lose what it holds of some tasks.
LEMMA FaultRefines ==
    ASSUME QueueOK, QueueOK', NEW w \in Worker, StoreError(w) \/ Stop(w)
    PROVE  \E S \in SUBSET TaskId : Queue!Fault(w, S)
<1> DEFINE S == InHand(w) \ InHand(w)'
<1>0. /\ workers \in [Worker -> WorkerRow] /\ workers[w] \in WorkerRow
      /\ UNCHANGED tasks /\ faults' = faults + 1
      /\ workers[w].batch \in SUBSET Claim
  BY DEF QueueOK, StateOK, TypeOK, StoreError, Stop, WorkerRow
<1>1. /\ \A v \in Worker \ {w} : workers'[v] = workers[v]
      /\ workers'[w].task = None
      /\ workers'[w].batch = {} \/ workers'[w].batch = workers[w].batch
  <2>1. CASE StoreError(w)
    <3>1. workers' = [workers EXCEPT ![w] = Continue(workers[w], workers[w].batch)]
      BY <1>0, <2>1 DEF StoreError
    <3>2. QED
      BY <1>0, <3>1, ContinueHolds
  <2>2. CASE Stop(w)
    BY <1>0, <2>2 DEF Stop, Down, At
  <2>3. QED
    BY <2>1, <2>2
<1>2. InHand(w)' \subseteq InHand(w) /\ S \subseteq TaskId
  BY <1>1, HandsAreTasks DEF InHand, QueueOK
<1>3. workers[w].task # None => workers[w].task \in S
  <2>1. SUFFICES ASSUME workers[w].task # None PROVE workers[w].task \in S
    OBVIOUS
  <2>2. workers[w].task \in InHand(w)
    BY <2>1 DEF InHand
  <2>3. \A c \in workers[w].batch : c.task # workers[w].task
    BY DEF QueueOK, Exclusive, HoldsClaims
  <2>4. workers[w].task \notin InHand(w)'
    BY <1>1, <2>3 DEF InHand
  <2>5. QED
    BY <2>2, <2>4
<1>4. \A t \in S : stageBar[t] = "claimed"
  BY <1>2, HandsAreClaimed DEF stageBar, QueueOK
<1> HIDE DEF S
<1>5. /\ \A t \in S : holdersBar[t] = {w}
      /\ \A t \in TaskId : holdersBar'[t] = IF t \in S THEN {} ELSE holdersBar[t]
  BY <1>1, <1>2, HoldersMove DEF S
<1>6. \A t \in TaskId : t \in startedBar' <=> t \in startedBar /\ t \notin S
  <2>1. TAKE t \in TaskId
  <2>2. t # None
    BY TasksAssumption
  <2>3. t \in startedBar' <=> t \in startedBar /\ t # workers[w].task
    BY <1>1, <2>2, HoldersMove
  <2>4. t \in startedBar /\ t \in S => t = workers[w].task
    <3>1. SUFFICES ASSUME t \in startedBar, t \in S PROVE t = workers[w].task
      OBVIOUS
    <3>2. PICK v \in Worker : workers[v].task = t
      BY <3>1 DEF startedBar
    <3>3. v \in holdersBar[t]
      BY <2>2, <3>2 DEF holdersBar, InHand
    <3>4. QED
      BY <1>5, <3>1, <3>2, <3>3
  <2>5. QED
    BY <1>3, <2>2, <2>3, <2>4
<1>7. holdersBar' = [t \in TaskId |-> IF t \in S THEN {} ELSE holdersBar[t]]
  BY <1>5 DEF holdersBar
<1>8. startedBar' = startedBar \ S
  <2>1. startedBar' \subseteq TaskId /\ startedBar \subseteq TaskId
    BY DEF startedBar
  <2>2. QED
    BY <1>6, <2>1
<1>9. stageBar' = stageBar /\ triesBar' = triesBar
  BY <1>0 DEF stageBar, triesBar
<1>10. Queue!Fault(w, S)
  BY <1>0, <1>4, <1>5, <1>7, <1>8, <1>9 DEF Queue!Fault
<1>11. QED
  BY <1>2, <1>10

\* Each step is a step of the queue or leaves it as it is.
LEMMA QueueStepRefines ==
    QueueOK /\ QueueOK' /\ [WorkerNext]_vars
    => [Queue!QueueNext]_<<stageBar, triesBar, holdersBar, startedBar, faults>>
<1> SUFFICES ASSUME QueueOK, QueueOK', [WorkerNext]_vars
             PROVE  Queue!QueueNext \/ Stutter
  BY DEF Stutter
<1>1. ASSUME NEW t \in TaskId, CreateTask(t) PROVE Queue!QueueNext
  BY <1>1, CreateRefines DEF Queue!QueueNext
<1>2. ASSUME NEW w \in Worker, BeginTick(w) PROVE Stutter
  BY <1>2, BeginTickRefines
<1>3. ASSUME NEW w \in Worker, ClaimDueTasks(w) PROVE Queue!QueueNext \/ Stutter
  BY <1>3, ClaimRefines DEF Queue!QueueNext
<1>4. ASSUME NEW w \in Worker, Handle(w) PROVE Queue!QueueNext
  BY <1>4, HandleRefines DEF Queue!QueueNext
<1>5. ASSUME NEW w \in Worker, SaveHandled(w) PROVE Queue!QueueNext
  BY <1>5, SaveRefines DEF Queue!QueueNext
<1>6. ASSUME NEW w \in Worker, StoreError(w) \/ Stop(w) PROVE Queue!QueueNext
  BY <1>6, FaultRefines DEF Queue!QueueNext
<1>7. CASE AdvanceClock
  BY <1>7, ClockRefines
<1>8. CASE UNCHANGED vars
  BY <1>8 DEF vars, Stutter, stageBar, triesBar, holdersBar, startedBar, InHand
<1>9. QED
  BY <1>1, <1>2, <1>3, <1>4, <1>5, <1>6, <1>7, <1>8 DEF WorkerNext, WorkerStep

\* The workers' statements, stops and starts do nothing but what the queue allows: an attempt
\* is made by the worker that claimed the task, written down by it, and lost only to a fault.
THEOREM TasksImplementQueue == WorkerSpec => ImplementsQueue
<1>1. Init => Paced
  BY DEF Init, Paced, Pace, Down, At
<1>2. WorkerSpec => []QueueOK
  <2>1. Init => QueueOK
    BY <1>1, InitOK, InitExclusive DEF QueueOK
  <2>2. QueueOK /\ [WorkerNext]_vars => QueueOK'
    <3>1. [WorkerNext]_vars => [Next]_vars
      BY DEF Next
    <3>2. QED
      BY <3>1, NextOK, WorkerNextExclusive, PacedHolds DEF QueueOK
  <2>3. QED
    BY <2>1, <2>2, PTL DEF WorkerSpec
<1>3. QED
  BY <1>2, QueueInitRefines, QueueStepRefines, PTL
     DEF WorkerSpec, ImplementsQueue, Queue!QueueSpec, Queue!qvars
=============================================================================
