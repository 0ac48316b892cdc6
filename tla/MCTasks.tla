------------------------------ MODULE MCTasks ------------------------------
(* Instances of Tasks small enough for TLC.                                *)
EXTENDS TasksQueue, TLC

CONSTANTS t1, t2, t3, w1, w2, d1, d2

\* The third task belongs to the second role.
Roles == [t \in TaskId |-> IF t = t3 THEN 2 ELSE 1]
AnyOutcome == {"ok", "error"}

\* Workers and desks are opaque.
Symmetry == Permutations(Worker) \cup Permutations(Desk)
=============================================================================
