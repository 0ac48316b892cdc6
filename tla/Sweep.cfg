\* Two holds, a sweep that takes one at a time, one request in flight, payments and a
\* catalogue that changes beside them.
CONSTANTS
    s1 = s1  s2 = s2  r1 = r1  p1 = p1  g1 = g1  g2 = g2
    k1 = k1  k2 = k2  e1 = e1  e2 = e2  h1 = h1  h2 = h2
    StayId = {s1, s2}
    Guest = {g1, g2}
    Registered = {g1}
    Property = {p1}
    Resource = {r1}
    PropertyOf <- OneProperty
    Key = {k1, k2}
    Event = {e1}
    Callback <- OneCallback
    Handler = {h1}
    Operation <- SweepOperations
    None = None
    LastNight = 2
    HoldTTL = 1
    ExpireLimit = 1
    MaxTime = 2
SPECIFICATION FairSpec
PROPERTY OverdueHoldsEnd
