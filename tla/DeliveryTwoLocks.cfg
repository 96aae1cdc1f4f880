SPECIFICATION DeliverySpec
CONSTANTS
    o1 = o1
    c1 = c1
    i1 = i1
    Records = {r1, r2}
    Requesters = {p1, p2}
    Orders = {o1}
    Cards = {c1}
    Items = {i1}
    Paths = {"conversation", "order"}
    Payloads <- ByOrder
    CardTarget <- FullCard
    OrderItem <- ItemOfOrder
    MaxFailures = 0
    NoRecord = NoRecord
    NoKey = NoKey
PROPERTY NoDuplicateGeneration
