-------------------------- MODULE TasksProperties --------------------------
(* What Tasks keeps true, with and without the desks, and what it does not. *)
EXTENDS Tasks

\* The tasks a worker still has to hand over or to save.
InHand(w) == {c.task : c \in workers[w].batch} \cup ({workers[w].task} \ {None})

\* A task in the hands of a worker is claimed and in nobody else's hands, so that no two
\* workers clean the same room at once: the guarded update inside the claim transaction.
ClaimIsExclusive ==
    \A w \in Worker : \A t \in InHand(w) :
        /\ tasks[t].status = "claimed"
        /\ \A v \in Worker : t \in InHand(v) => v = w

\* A task goes to its handler at most once for each attempt it is charged with, and never
\* more often than the limit, whatever is stopped or refused on the way.
HandledOncePerAttempt ==
    \A t \in TaskId : handled[t] <= tasks[t].attempts /\ handled[t] <= MaxAttempts

\* A task that completed or failed for good is never opened again.
FinishedIsFinal ==
    [][\A t \in TaskId : tasks[t].status \in {"completed", "failed"}
                         => tasks[t]' = tasks[t]]_vars

\* Even if saves overwrite each other, a task that waits has an attempt left, no task is
\* charged with more attempts than the limit, and one that failed has used them up.
AttemptsBounded ==
    \A t \in TaskId :
        /\ tasks[t].attempts <= MaxAttempts
        /\ tasks[t].status = "pending" => tasks[t].attempts < MaxAttempts
        /\ tasks[t].status = "failed" => tasks[t].attempts = MaxAttempts

\* last_error tells how the last attempt ended: a completed task has none, a task that
\* failed, or waits for another attempt, has one.
ErrorTellsOutcome ==
    \A t \in TaskId :
        /\ tasks[t].status = "completed" => ~tasks[t].error
        /\ tasks[t].status = "failed" => tasks[t].error
        /\ tasks[t].status = "pending" => (tasks[t].error <=> tasks[t].attempts > 0)

\* Whatever save of a row comes last, its status, attempts and last_error fit one another.
OutcomesRecorded == AttemptsBounded /\ ErrorTellsOutcome

\* Every pending task of a role that some worker serves completes, fails for good, or is
\* left claimed in nobody's hands, which takes a fault.
PendingTasksEnd ==
    \A t \in TaskId : RoleOf[t] # 0 =>
        (tasks[t].status = "pending" ~>
            \/ tasks[t].status \in {"completed", "failed"}
            \/ /\ faults > 0 /\ tasks[t].status = "claimed"
               /\ \A w \in Worker : t \notin InHand(w))

\* README.md:26: the worker recovers persisted operational tasks when it starts, so a task
\* that a stopped process had claimed does not stay claimed.
PersistedTasksRecovered ==
    \A t \in TaskId : tasks[t].status = "claimed" ~> tasks[t].status # "claimed"
=============================================================================
