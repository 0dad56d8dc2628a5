----------------------------- MODULE OrderBook -----------------------------
(***************************************************************************)
(* What UC10 promises of orders, with transactions, Redis, the broker and  *)
(* the workers left out: an idempotency key gives its user at most one     *)
(* order, an order is settled once and for good, and it is expired only    *)
(* after its window has passed.                                            *)
(***************************************************************************)
EXTENDS Naturals

CONSTANTS OrderIds,   \* the orders that may ever be created
          Users, Keys,
          NoOrder,    \* an order id not in use
          Window      \* BOOKING_WINDOW_SECONDS

VARIABLES book,       \* book[o]: NoOrder, or its status, user and key
          left        \* left[o]: time until o may be expired

Init ==
    /\ book = [o \in OrderIds |-> NoOrder]
    /\ left \in [OrderIds -> 0..Window]

Taken(u, k) ==
    \E o \in OrderIds : book[o] # NoOrder /\ book[o].user = u /\ book[o].key = k

Place(o, u, k) ==
    /\ book[o] = NoOrder
    /\ ~Taken(u, k)
    /\ book' = [book EXCEPT ![o] = [status |-> "PENDING", user |-> u, key |-> k]]
    /\ UNCHANGED left

Settle(o, status) ==
    /\ book[o] # NoOrder
    /\ book[o].status = "PENDING"
    /\ book' = [book EXCEPT ![o].status = status]
    /\ UNCHANGED left

Expire(o) == left[o] = 0 /\ Settle(o, "EXPIRED")
Pay(o) == Settle(o, "PAID")

\* Time passes, and an id that is not in use has no window yet.
Pass ==
    /\ left' \in [OrderIds -> 0..Window]
    /\ \A o \in OrderIds : book[o] # NoOrder => left'[o] \in {left[o], left[o] - 1}
    /\ UNCHANGED book

Next ==
    \/ \E o \in OrderIds, u \in Users, k \in Keys : Place(o, u, k)
    \/ \E o \in OrderIds : Expire(o) \/ Pay(o)
    \/ Pass

Spec == Init /\ [][Next]_<<book, left>>

\* Every order is settled in the end: none stays PENDING for ever.
EveryOrderSettles ==
    \A o \in OrderIds :
        (book[o] # NoOrder /\ book[o].status = "PENDING")
            ~> (book[o] # NoOrder /\ book[o].status # "PENDING")

=============================================================================
