\* Two events, two requests at a time; types are removed while seats are written and
\* ordered, names are changed while they are reviewed.  Three rows: a first layout,
\* an addition and another event's.
CONSTANTS
    Events = {e1, e2}
    TicketTypes = {t1, t2}
    Rows = {i1, i2, i3}
    Reqs = {r1, r2}
    Versions = {v1, v2}
    None = None
SPECIFICATION MCSpec
SYMMETRY Interchangeable
CHECK_DEADLOCK FALSE
INVARIANTS
    CatTypeOK SeatsOwnTypes EveryRowIsShown OrdersMatchSeats
PROPERTIES LayoutOnlyGrows DecisionsStand
