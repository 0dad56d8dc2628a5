\* Liveness: no symmetry.  Requests fail and processes crash, so timers
\* are redelivered; no fault loses one.
CONSTANTS
    Users = {u1}
    Seats = {s1}
    LockReqs = {r1}
    OrderIds = {o1, o2}
    Keys = {k1, k2}
    Processes = {p1, p2}
    Handlers = {h1, h2}
    NoUser = NoUser
    NoKey = NoKey
    NoOrder = NoOrder
    MaxPerUser = 1
    LockTTL = 1
    BookingWindow = 1
    MaxRows = 1
    Faults = {"request", "crash"}
    Clients = {"release", "reorder"}
SPECIFICATION FairSpec
INVARIANTS PendingIsTimed
PROPERTIES OrdersSettle TimersAreQueued
