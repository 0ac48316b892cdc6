\* The Allocation instance: a hold sent again while the first attempt is in flight.
CONSTANTS
    s1 = s1  s2 = s2  r1 = r1  p1 = p1  g1 = g1  g2 = g2
    k1 = k1  k2 = k2  e1 = e1  e2 = e2  h1 = h1  h2 = h2
    StayId = {s1, s2}
    Guest = {g1}
    Registered = {g1}
    Property = {p1}
    Resource = {r1}
    PropertyOf <- OneProperty
    Key = {k1, k2}
    Event = {e1, e2}
    Callback <- NoCallback
    Handler = {h1, h2}
    Operation <- StayOperations
    None = None
    LastNight = 2
    HoldTTL = 1
    ExpireLimit = 1
    MaxTime = 2
SPECIFICATION Spec
SYMMETRY Symmetry
PROPERTY RetryGetsTheStay
