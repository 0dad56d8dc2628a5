------------------------------ MODULE MCBooking ------------------------------
(***************************************************************************)
(* Booking for TLC.  Everything that has no order of its own is            *)
(* interchangeable.                                                        *)
(***************************************************************************)
EXTENDS Booking, TLC

Interchangeable ==
    UNION {Permutations(S) :
              S \in {Users, Seats, OrderIds, Keys, Processes, Handlers, LockReqs}}

=============================================================================
