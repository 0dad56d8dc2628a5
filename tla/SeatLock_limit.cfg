\* The quota against the holds, one user and one seat.
CONSTANTS
    Users = {u1}
    Seats = {s1}
    LockReqs = {r1}
    NoUser = NoUser
    MaxPerUser = 1
    LockTTL = 1
    BookingWindow = 1
    MaxRows = 1
    Faults = {}
SPECIFICATION SLSpec
INVARIANTS LimitIsReal
