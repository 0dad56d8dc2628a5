\* Every fault and every client behaviour, on one seat: two users compete for it
\* and each may order it twice; one process handles both timers at a time, so
\* that an answer can go astray.
CONSTANTS
    Users = {u1, u2}
    Seats = {s1}
    LockReqs = {r1}
    OrderIds = {o1, o2}
    Keys = {k1}
    Processes = {p1}
    Handlers = {h1, h2}
    NoUser = NoUser
    NoKey = NoKey
    NoOrder = NoOrder
    MaxPerUser = 1
    LockTTL = 2
    BookingWindow = 2
    MaxRows = 1
    Faults = {"audit", "publish", "request", "handler", "crash", "connection"}
    Clients = {"release", "reorder"}
SPECIFICATION Spec
SYMMETRY Interchangeable
INVARIANTS TypeOK OneCleanup
PROPERTIES OrdersAreBooked HoldEndsForAReason TimersEndForAReason
