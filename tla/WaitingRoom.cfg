\* Three users for two slots, or none when an operator says so; two pods whose cycles
\* overlap.  A window of two ticks lets tokens of different age coexist.
CONSTANTS
    Users = {u1, u2, u3}
    NoUser = NoUser
    JoinReqs = {r1}
    Pods = {p1, p2}
    MaxCap = 2
    Caps = {0, 2}
    Windows = {2}
SPECIFICATION RoomFairSpec
INVARIANTS RoomTypeOK TurnsAreCounted
PROPERTIES RoomIsATurnstile TurnsWithinCap EveryoneGetsATurn
