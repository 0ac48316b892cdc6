\* Two requests over one session of an ordinary account; the second account is a built-in
\* one; a revoked session is kept for one tick.
CONSTANTS
    u1 = u1  u2 = u2  s1 = s1  s2 = s2  h1 = h1  h2 = h2
    User = {u1, u2}
    Seeded = {u2}
    SessionId = {s1}
    Handler = {h1, h2}
    TTL = 2
    Keep = 1
    None = None
    MaxTime = 3
SPECIFICATION FairSpec
INVARIANTS TypeOK SeenBeforeExpiry
PROPERTIES LogoutShutsOut RevocationIsFinal ExpiredSessionsRemoved
           RevokedSessionsRemoved
\* The session ids of the instance run out.
CHECK_DEADLOCK FALSE
