\* The publish after the commit fails.
CONSTANTS
    Users = {u1}
    Seats = {s1}
    LockReqs = {r1}
    OrderIds = {o1}
    Keys = {k1}
    Processes = {p1}
    Handlers = {h1}
    NoUser = NoUser
    NoKey = NoKey
    NoOrder = NoOrder
    MaxPerUser = 1
    LockTTL = 1
    BookingWindow = 1
    MaxRows = 1
    Faults = {"publish"}
    Clients = {}
SPECIFICATION FairSpec
PROPERTIES OrdersSettle
