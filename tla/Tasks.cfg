\* Two processes, two roles, one with two tasks of which a claim takes one, two faults;
\* nobody completes tasks by hand.
CONSTANTS
    t1 = t1  t2 = t2  t3 = t3  w1 = w1  w2 = w2  d1 = d1  d2 = d2
    TaskId = {t1, t2, t3}
    Worker = {w1, w2}
    Desk = {}
    RoleCount = 2
    RoleOf <- Roles
    ClaimLimit = 1
    MaxAttempts = 2
    Backoff = 1
    Outcome <- AnyOutcome
    MaxFaults = 2
    None = None
SPECIFICATION FairSpec
INVARIANTS TypeOK ClaimIsExclusive HandledOncePerAttempt
PROPERTIES PendingTasksEnd ImplementsQueue
