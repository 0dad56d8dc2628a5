\* Ordinary clients, two seats and two keys: orders of several seats, orders that
\* overlap, requests repeated with their key.
CONSTANTS
    Users = {u1, u2}
    Seats = {s1, s2}
    LockReqs = {r1}
    OrderIds = {o1, o2}
    Keys = {k1, k2}
    Processes = {p1}
    Handlers = {h1}
    NoUser = NoUser
    NoKey = NoKey
    NoOrder = NoOrder
    MaxPerUser = 2
    LockTTL = 2
    BookingWindow = 2
    MaxRows = 1
    Faults = {}
    Clients = {}
SPECIFICATION Spec
SYMMETRY Interchangeable
INVARIANTS OrderKeepsHold LiveOrdersDisjoint
