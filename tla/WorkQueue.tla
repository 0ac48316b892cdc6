----------------------------- MODULE WorkQueue -----------------------------
(***************************************************************************)
(* What the worker promises about operational tasks, without batches in    *)
(* memory, due times or rows that are saved: who holds a task holds it     *)
(* alone and at one attempt, starts it once, and is the only one to write  *)
(* how it ended; a task is left behind by a fault and by nothing else, and *)
(* is tried as often as the limit says.  Tasks implements it (TasksQueue). *)
(***************************************************************************)
EXTENDS Integers

CONSTANTS
    TaskId, Worker, RoleOf, MaxAttempts,
    Batch       \* the sets of tasks that one claim may take

VARIABLES
    stage,      \* status of each task
    tries,      \* attempts each task is charged with
    holders,    \* the workers that hold each task
    started,    \* the tasks held whose handler has been called
    losses      \* faults so far

qvars == <<stage, tries, holders, started, losses>>

QueueInit ==
    /\ stage = [t \in TaskId |-> "none"]
    /\ tries = [t \in TaskId |-> 0]
    /\ holders = [t \in TaskId |-> {}]
    /\ started = {}
    /\ losses = 0

Submit(t) ==
    /\ stage[t] = "none"
    /\ stage' = [stage EXCEPT ![t] = "pending"]
    /\ UNCHANGED <<tries, holders, started, losses>>

\* Tasks of one role, by a worker with empty hands.
Take(w, S) ==
    /\ S # {}
    /\ \A t \in S : stage[t] = "pending" /\ tries[t] < MaxAttempts
    /\ \A t, u \in S : RoleOf[t] = RoleOf[u]
    /\ \A t \in TaskId : w \notin holders[t]
    /\ stage' = [t \in TaskId |-> IF t \in S THEN "claimed" ELSE stage[t]]
    /\ tries' = [t \in TaskId |-> IF t \in S THEN tries[t] + 1 ELSE tries[t]]
    /\ holders' = [t \in TaskId |-> IF t \in S THEN {w} ELSE holders[t]]
    /\ UNCHANGED <<started, losses>>

\* One after the other.
Start(w, t) ==
    /\ holders[t] = {w} /\ t \notin started
    /\ \A u \in started : holders[u] # {w}
    /\ started' = started \cup {t}
    /\ UNCHANGED <<stage, tries, holders, losses>>

Finish(w, t, to) ==
    /\ holders[t] = {w} /\ t \in started /\ stage[t] = "claimed"
    /\ to = "pending" => tries[t] < MaxAttempts
    /\ to = "failed" => tries[t] = MaxAttempts
    /\ stage' = [stage EXCEPT ![t] = to]
    /\ holders' = [holders EXCEPT ![t] = {}]
    /\ started' = started \ {t}
    /\ UNCHANGED <<tries, losses>>

\* What a worker loses stays claimed, and no action takes it again.
Fault(w, S) ==
    /\ \A t \in S : holders[t] = {w} /\ stage[t] = "claimed"
    /\ holders' = [t \in TaskId |-> IF t \in S THEN {} ELSE holders[t]]
    /\ started' = started \ S
    /\ losses' = losses + 1
    /\ UNCHANGED <<stage, tries>>

QueueNext ==
    \/ \E t \in TaskId : Submit(t)
    \/ \E w \in Worker, S \in Batch : Take(w, S)
    \/ \E w \in Worker, S \in SUBSET TaskId : Fault(w, S)
    \/ \E w \in Worker, t \in TaskId :
          Start(w, t) \/ \E to \in {"pending", "completed", "failed"} : Finish(w, t, to)

QueueSpec == QueueInit /\ [][QueueNext]_qvars
=============================================================================
