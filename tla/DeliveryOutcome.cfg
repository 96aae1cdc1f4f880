SPECIFICATION DeliveryFairSpec
CONSTANTS
    o1 = o1
    c1 = c1
    i1 = i1
    Records = {r1}
    Requesters = {p1, p2, p3}
    Orders = {o1}
    Cards = {c1}
    Items = {i1}
    Paths = {"conversation", "order"}
    Payloads <- ByOrderOrCard
    CardTarget <- FullCard
    OrderItem <- ItemOfOrder
    MaxFailures = 2
    NoRecord = NoRecord
    NoKey = NoKey
INVARIANTS OutcomeHonest TaskSuccessIsSent
PROPERTIES SendingEnds
