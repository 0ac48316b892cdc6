-------------------------- MODULE ServerProperties --------------------------
(* What Server and Catalog keep true.                                      *)
EXTENDS Server

\* A process that serves found every migration and every seeded row, whatever crashed or
\* raced during its own start and those of the others.
ServingIsReady ==
    \A p \in Process : Serving(p) => applied = Migration /\ \A i \in Item : rows[i].status # "none"

\* Migrations are committed in order and each exactly once, although the look at the ledger
\* is not part of the transaction that writes it.
MigrationsOnceInOrder ==
    /\ \A v \in applied : \A w \in Migration : w < v => w \in applied
    /\ \A v \in Migration : bodies[v] = IF v \in applied THEN 1 ELSE 0

\* A start never undoes what a manager changed: a row that exists changes only by an update
\* that counts its version on.
SeedKeepsChanges ==
    [][\A i \in Item : rows[i].status # "none" /\ rows'[i] # rows[i]
                       => rows'[i].version = rows[i].version + 1]_vars

\* Of the managers that read the same version of a row at most one changes it.
OneUpdatePerVersion ==
    \A m, n \in Manager :
        /\ m # n /\ edits[m].result = "ok" /\ edits[n].result = "ok"
        /\ edits[m].item = edits[n].item
        => edits[m].from # edits[n].from

\* A guaranteed stay stays guaranteed: a sweep that read it as overdue does not expire it.
GuaranteeSurvivesSweep ==
    [][\A h \in Hold : holds[h] = "guaranteed" => holds'[h] = "guaranteed"]_vars

\* The sweep gets rid of an overdue hold although its transaction is refused whenever
\* another one commits between its SELECT and its UPDATE.
RefusedSweepsCatchUp == \A h \in Hold : holds[h] = "overdue" ~> holds[h] # "overdue"

\* The database is migrated and seeded in the end, however often processes fail on the way
\* or make each other fail.
StartCompletes == <>[](applied = Migration /\ \A i \in Item : rows[i].status # "none")
=============================================================================
