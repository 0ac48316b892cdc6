----------------------------- MODULE TasksQueue -----------------------------
(* Tasks implements WorkQueue under the mapping below. *)
EXTENDS TasksProperties

stageBar == [t \in TaskId |-> tasks[t].status]
triesBar == [t \in TaskId |-> tasks[t].attempts]
holdersBar == [t \in TaskId |-> {w \in Worker : t \in InHand(w)}]
startedBar == {t \in TaskId : \E w \in Worker : workers[w].task = t}

Queue == INSTANCE WorkQueue
            WITH stage <- stageBar, tries <- triesBar, holders <- holdersBar,
                 started <- startedBar, losses <- faults,
                 Batch <- {S \in SUBSET TaskId : Cardinality(S) <= ClaimLimit}

\* Every statement of every process is a step of the queue or leaves it as it is: who saves an
\* outcome is the one who claimed the task, for the attempt it is charged with, after its
\* handler was called for that attempt; nothing but a fault leaves a task behind.
ImplementsQueue == Queue!QueueSpec
=============================================================================
