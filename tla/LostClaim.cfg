\* A process that stops once and is started again.
CONSTANTS
    t1 = t1  t2 = t2  t3 = t3  w1 = w1  w2 = w2  d1 = d1  d2 = d2
    TaskId = {t1}
    Worker = {w1}
    Desk = {}
    RoleCount = 1
    RoleOf <- Roles
    ClaimLimit = 1
    MaxAttempts = 2
    Backoff = 1
    Outcome <- AnyOutcome
    MaxFaults = 1
    None = None
SPECIFICATION FairSpec
PROPERTY PersistedTasksRecovered
