\* A built-in account logs in.
CONSTANTS
    u1 = u1  u2 = u2  s1 = s1  s2 = s2  h1 = h1  h2 = h2
    User = {u1}
    Seeded = {u1}
    SessionId = {s1}
    Handler = {h1}
    TTL = 2
    Keep = 1
    None = None
    MaxTime = 1
SPECIFICATION Spec
INVARIANT RightPasswordLogsIn
