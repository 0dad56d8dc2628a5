\* A user orders a seat again after the first order lapsed.
CONSTANTS
    Users = {u1}
    Seats = {s1}
    LockReqs = {r1}
    OrderIds = {o1, o2}
    Keys = {k1, k2}
    Processes = {p1}
    Handlers = {h1}
    NoUser = NoUser
    NoKey = NoKey
    NoOrder = NoOrder
    MaxPerUser = 1
    LockTTL = 2
    BookingWindow = 2
    MaxRows = 1
    Faults = {}
    Clients = {"reorder"}
SPECIFICATION Spec
INVARIANTS OrderKeepsHold
