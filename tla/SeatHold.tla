------------------------------ MODULE SeatHold ------------------------------
(***************************************************************************)
(* What the seat lock of UC09 promises, with Redis, the two held sets and  *)
(* the audit table left out: a seat has at most one owner, it is granted   *)
(* only while it is free and only to a user below the quota, it never      *)
(* passes from one user to another without being free in between, and no   *)
(* hold lasts for ever.                                                    *)
(***************************************************************************)
EXTENDS FiniteSets, Naturals

CONSTANTS Users,      \* customers
          Seats,      \* the seats of one event
          NoUser,     \* the owner of a free seat
          MaxPerUser  \* MAX_SEATS_PER_USER

VARIABLE owner        \* owner[s]: who holds s

Holds(u) == {s \in Seats : owner[s] = u}

Init == owner = [s \in Seats |-> NoUser]

\* A free seat is given to a user who holds fewer than MaxPerUser seats.
Grant(s, u) ==
    /\ owner[s] = NoUser
    /\ Cardinality(Holds(u)) < MaxPerUser
    /\ owner' = [owner EXCEPT ![s] = u]

\* Some holds end, by release or because their lease ran out.  Several may
\* end together: leases taken in the same second run out in the same second.
End(S) ==
    /\ S # {}
    /\ \A s \in S : owner[s] # NoUser
    /\ owner' = [s \in Seats |-> IF s \in S THEN NoUser ELSE owner[s]]

Next ==
    \/ \E s \in Seats, u \in Users : Grant(s, u)
    \/ \E S \in SUBSET Seats : End(S)

Spec == Init /\ [][Next]_owner

\* Every hold comes to an end: nobody can keep a seat off sale for ever.
EveryHoldEnds == \A s \in Seats : owner[s] # NoUser ~> owner[s] = NoUser

=============================================================================
