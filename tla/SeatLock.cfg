\* Two users compete for two seats with a quota of one, so that SEAT_TAKEN and
\* LIMIT both happen, with two requests in progress.  Two ticks of TTL: a
\* re-hold can come before and after the first of them.  No symmetry, for the
\* liveness property.
CONSTANTS
    Users = {u1, u2}
    Seats = {s1, s2}
    LockReqs = {r1, r2}
    NoUser = NoUser
    MaxPerUser = 1
    LockTTL = 2
    BookingWindow = 2
    MaxRows = 2
    Faults = {"audit"}
SPECIFICATION SLFairSpec
INVARIANTS SLTypeOK StoreInv
PROPERTIES SeatsAreHeld OnlyOwnerEndsHold HoldReclaimed
