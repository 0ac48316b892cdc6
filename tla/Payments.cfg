\* One stay, three provider events, four callbacks, two claims and a settlement request.
CONSTANTS
    s1 = s1  e1 = e1  e2 = e2  e3 = e3  c1 = c1  c2 = c2  h1 = h1
    StayId = {s1}
    Event = {e1, e2, e3}
    Delivery <- Callbacks
    Claim = {c1, c2}
    Task <- Tasks
    Amount = {3}
    Guarantee = 4
    Settler = {h1}
    None = None
SPECIFICATION Spec
SYMMETRY Symmetry
INVARIANTS GuaranteedByFullPayment SettlementCoversRequest RefundWithinPayments
