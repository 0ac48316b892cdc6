\* One process and two desks whose saves overwrite each other.
CONSTANTS
    t1 = t1  t2 = t2  t3 = t3  w1 = w1  w2 = w2  d1 = d1  d2 = d2
    TaskId = {t1, t2}
    Worker = {w1}
    Desk = {d1, d2}
    RoleCount = 1
    RoleOf <- Roles
    ClaimLimit = 2
    MaxAttempts = 2
    Backoff = 1
    Outcome <- AnyOutcome
    MaxFaults = 1
    None = None
SPECIFICATION Spec
SYMMETRY Symmetry
INVARIANT OutcomesRecorded
