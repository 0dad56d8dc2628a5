------------------------------ MODULE SeatLock ------------------------------
(***************************************************************************)
(* UC09, holding and releasing a seat.  A request is one HTTP call to the  *)
(* seat-lock controller: the Lua script first, then the audit table in     *)
(* PostgreSQL.  Nothing ties the two together, so other requests, the      *)
(* expiry of a TTL and a crash of the process can come between them.       *)
(***************************************************************************)
EXTENDS SeatStore

CONSTANTS LockReqs,   \* lock and release requests in progress at a time
          MaxRows,    \* bound: ACTIVE audit rows of one seat and user are counted
                      \* up to here, and MaxRows stands for so many or more
          Faults      \* the faults that may happen, a subset of FaultKinds

\* "audit"       an audit statement fails, or the process dies before it
\* the others belong to the order side, see Booking.tla
FaultKinds == {"audit", "publish", "request", "handler", "crash", "connection"}

ASSUME LockAssumption == MaxRows \in Nat \ {0} /\ Faults \subseteq FaultKinds

VARIABLES lockReq,   \* lockReq[r]: where a request stands after its script
          active     \* active[s][u]: seat_locks rows with status ACTIVE

lockVars == <<lockReq, active>>
slVars == <<lock, ttl, held, eventHeld, lockReq, active>>

Idle == [pc |-> "idle"]
AuditSteps == {"findActive", "recordAcquired", "recordReleased"}
LockRequests == {Idle} \cup [pc : AuditSteps, seat : Seats, user : Users]

LockTypeOK ==
    /\ lockReq \in [LockReqs -> LockRequests]
    /\ active \in [Seats -> [Users -> 0..MaxRows]]

SLTypeOK == StoreTypeOK /\ LockTypeOK

LockInit ==
    /\ lockReq = [r \in LockReqs |-> Idle]
    /\ active = [s \in Seats |-> [u \in Users |-> 0]]

SLInit == StoreInit /\ LockInit

\* A request that has run its script goes on to the audit step pc.
Continue(r, pc, s, u) ==
    lockReq' = [lockReq EXCEPT ![r] = [pc |-> pc, seat |-> s, user |-> u]]
Finish(r) == lockReq' = [lockReq EXCEPT ![r] = Idle]
At(r, pc) == lockReq[r].pc = pc

-----------------------------------------------------------------------------
(* POST /booking/seats/:id/lock.  SEAT_TAKEN and LIMIT end the request     *)
(* with nothing written.                                                   *)

LockSeat(r, s, u) ==
    /\ At(r, "idle")
    /\ Acquire(s, u)
    /\ Continue(r, "recordAcquired", s, u)
    /\ UNCHANGED active

\* Mutant of ReholdSeat: a re-hold refreshes the TTL.
ReholdRefreshes(r, s, u) ==
    /\ At(r, "idle")
    /\ Rehold(s, u)
    /\ ttl' = [ttl EXCEPT ![s] = LockTTL]
    /\ Continue(r, "findActive", s, u)
    /\ UNCHANGED <<lock, held, eventHeld, active>>

\* Mutant of ReholdSeat: a re-hold adds a TTL to the one that is left.
ReholdAdds(r, s, u) ==
    /\ At(r, "idle")
    /\ Rehold(s, u)
    /\ ttl' = [ttl EXCEPT ![s] = @ + LockTTL]
    /\ Continue(r, "findActive", s, u)
    /\ UNCHANGED <<lock, held, eventHeld, active>>

ReholdSeat(r, s, u) ==
    /\ At(r, "idle")
    /\ Rehold(s, u)
    /\ Continue(r, "findActive", s, u)
    /\ UNCHANGED <<storeVars, active>>

\* The answer is the row found; with no row the request falls through and
\* writes one.
FindActive(r) ==
    /\ At(r, "findActive")
    /\ LET s == lockReq[r].seat
           u == lockReq[r].user
       IN  IF active[s][u] > 0 THEN Finish(r)
                               ELSE Continue(r, "recordAcquired", s, u)
    /\ UNCHANGED <<storeVars, active>>

\* A row more, whatever rows there are.
RecordAcquired(r) ==
    /\ At(r, "recordAcquired")
    /\ active' = [active EXCEPT ![lockReq[r].seat][lockReq[r].user] =
                     IF @ < MaxRows THEN @ + 1 ELSE MaxRows]
    /\ Finish(r)
    /\ UNCHANGED storeVars

-----------------------------------------------------------------------------
(* DELETE /booking/seats/:id/lock.  A script that finds another owner, or  *)
(* none, ends the request with 403.                                        *)

ReleaseSeat(r, s, u) ==
    /\ At(r, "idle")
    /\ Release(s, u)
    /\ Continue(r, "recordReleased", s, u)
    /\ UNCHANGED active

\* Every ACTIVE row of the seat and user is closed, not the row of the hold
\* that was released.
RecordReleased(r) ==
    /\ At(r, "recordReleased")
    /\ active' = [active EXCEPT ![lockReq[r].seat][lockReq[r].user] = 0]
    /\ Finish(r)
    /\ UNCHANGED storeVars

\* A failed audit write is logged and the request still succeeds; a failed
\* look-up is an error answer, and a process that dies answers nothing.  The
\* store and the table stay as they are in all three cases.
AuditLost(r) ==
    /\ "audit" \in Faults
    /\ lockReq[r] # Idle
    /\ Finish(r)
    /\ UNCHANGED <<storeVars, active>>

-----------------------------------------------------------------------------

Tick == Elapse /\ UNCHANGED lockVars

LockStep(r) ==
    \/ \E s \in Seats, u \in Users : LockSeat(r, s, u) \/ ReholdSeat(r, s, u)
    \/ \E s \in Seats, u \in Users : ReleaseSeat(r, s, u)
    \/ FindActive(r)
    \/ RecordAcquired(r)
    \/ RecordReleased(r)
    \/ AuditLost(r)

SLNext == (\E r \in LockReqs : LockStep(r)) \/ Tick

SLSpec == SLInit /\ [][SLNext]_slVars

\* Time passes, whatever clients do.
SLFairSpec == SLSpec /\ WF_slVars(Tick)

-----------------------------------------------------------------------------
(* The store implements the abstract seat hold, TTLs, sets and audit being *)
(* the implementation's own business.                                      *)

Hold == INSTANCE SeatHold WITH owner <- lock

\* Whatever the requests and the clock do, seats are granted and freed as
\* SeatHold says: the lock scripts give mutual exclusion and the quota.
SeatsAreHeld == Hold!Spec

\* A hold ends even if its owner does nothing, and even if the owner asks for
\* it again and again: ACQUIRE_LUA does not refresh the TTL on a re-hold
\* (lock-seat.use-case.ts:99, "Redis TTL will reclaim").
HoldReclaimed == Hold!EveryHoldEnds

-----------------------------------------------------------------------------

Started(r, pc, s, u) ==
    /\ At(r, "idle")
    /\ lockReq'[r] = [pc |-> pc, seat |-> s, user |-> u]

\* A hold ends before its time only by its owner's own release request; a
\* release that arrives late, after the lease ran out and another user took
\* the seat, takes nothing away (RELEASE_LUA compares the owner).
OnlyOwnerEndsHold ==
    [][\A s \in Seats :
         lock[s] # NoUser /\ lock'[s] # lock[s] =>
            \/ ttl[s] = 1 /\ lock'[s] = NoUser
            \/ \E r \in LockReqs : Started(r, "recordReleased", s, lock[s])]_slVars

\* The owner of a seat cannot make a hold longer: asked for again it keeps the TTL
\* it has, and none is ever longer than DEFAULT_TTL_SECONDS.
HoldsRunDown ==
    [][\A s \in Seats :
          /\ lock[s] # NoUser /\ lock'[s] = lock[s] => ttl'[s] <= ttl[s]
          /\ ttl[s] <= LockTTL]_slVars

InProgress(r, s, u) == lockReq[r] # Idle /\ lockReq[r].seat = s /\ lockReq[r].user = u

\* A user waits for the answer before asking for the same seat once more.
OneAtATime ==
    \A r, q \in LockReqs, s \in Seats, u \in Users :
        InProgress(r, s, u) /\ InProgress(q, s, u) => r = q

\* Whoever holds a seat has an ACTIVE row for it in seat_locks, or a request that
\* is about to look for one and write it.
HoldsAreAudited ==
    \A s \in Seats, u \in Users :
        lock[s] = u =>
            \/ active[s][u] > 0
            \/ \E r \in LockReqs : /\ InProgress(r, s, u)
                                   /\ lockReq[r].pc \in {"findActive", "recordAcquired"}

=============================================================================
