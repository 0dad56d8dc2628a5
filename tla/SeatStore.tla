----------------------------- MODULE SeatStore -----------------------------
(***************************************************************************)
(* The Redis keys that hold seats (UC09, UC10) and the Lua scripts that    *)
(* change them.  One script is one operator: Redis runs a script alone, so *)
(* each is a single step of whichever component calls it.                  *)
(*                                                                         *)
(*   lock:event:E:seat:S   a string with the owner and a TTL               *)
(*   held:event:E:user:U   a set of seats, no TTL, read for the quota      *)
(*   held:event:E          a set of seats, no TTL, never read              *)
(*                                                                         *)
(* Every key carries the event, so events do not share keys and one event  *)
(* is modelled.  TTLs are countdowns in units of the tick: what a TTL      *)
(* promises does not depend on the date, and the state space stays finite. *)
(***************************************************************************)
EXTENDS FiniteSets, Naturals

CONSTANTS Users,          \* customers
          Seats,          \* the seats of the event
          NoUser,         \* GET of a missing lock key
          MaxPerUser,     \* MAX_SEATS_PER_USER
          LockTTL,        \* DEFAULT_TTL_SECONDS of lock-seat.use-case.ts
          BookingWindow   \* BOOKING_WINDOW_SECONDS

\* A window of 0 would make EXPIRE delete the lock it is meant to extend.
ASSUME StoreAssumption ==
    /\ NoUser \notin Users
    /\ IsFiniteSet(Seats)
    /\ MaxPerUser \in Nat
    /\ LockTTL \in Nat \ {0}
    /\ BookingWindow \in Nat \ {0}

VARIABLES lock,       \* lock[s]: the owner stored under the lock key
          ttl,        \* ttl[s]: ticks until the lock key goes, 0 when there is none
          held,       \* held[u]: the user's held set
          eventHeld   \* the event's held set

storeVars == <<lock, ttl, held, eventHeld>>

\* No lock is given more than the longer of the two times.
Longest == IF LockTTL > BookingWindow THEN LockTTL ELSE BookingWindow

StoreTypeOK ==
    /\ lock \in [Seats -> Users \cup {NoUser}]
    /\ ttl \in [Seats -> 0..Longest]
    /\ held \in [Users -> SUBSET Seats]
    /\ eventHeld \in SUBSET Seats

StoreInit ==
    /\ lock = [s \in Seats |-> NoUser]
    /\ ttl = [s \in Seats |-> 0]
    /\ held = [u \in Users |-> {}]
    /\ eventHeld = {}

-----------------------------------------------------------------------------
(* ACQUIRE_LUA.  Refusals (SEAT_TAKEN, LIMIT) write nothing, and neither   *)
(* does a re-hold: the owner's lock keeps the TTL it has.                  *)

\* Mutant of SeatTaken: the owner is not looked at before SET.
SeatNeverTaken(s, u) == FALSE
\* Mutant of LimitReached: off by one.
LimitPassed(u) == Cardinality(held[u]) > MaxPerUser

SeatTaken(s, u) == lock[s] \notin {NoUser, u}
Rehold(s, u) == lock[s] = u
LimitReached(u) == Cardinality(held[u]) >= MaxPerUser

Acquire(s, u) ==
    /\ ~SeatTaken(s, u)
    /\ ~Rehold(s, u)
    /\ ~LimitReached(u)
    /\ lock' = [lock EXCEPT ![s] = u]
    /\ ttl' = [ttl EXCEPT ![s] = LockTTL]
    /\ held' = [held EXCEPT ![u] = @ \cup {s}]
    /\ eventHeld' = eventHeld \cup {s}

-----------------------------------------------------------------------------
(* RELEASE_LUA, the same text in the seat-lock and in the order adapter:   *)
(* the owner's lock and both memberships go in one script.                 *)

\* Mutant of Release: DEL without comparing the owner.
ReleaseAnyones(s, u) ==
    /\ lock[s] # NoUser
    /\ lock' = [lock EXCEPT ![s] = NoUser]
    /\ ttl' = [ttl EXCEPT ![s] = 0]
    /\ held' = [held EXCEPT ![u] = @ \ {s}]
    /\ eventHeld' = eventHeld \ {s}

Release(s, u) ==
    /\ lock[s] = u
    /\ lock' = [lock EXCEPT ![s] = NoUser]
    /\ ttl' = [ttl EXCEPT ![s] = 0]
    /\ held' = [held EXCEPT ![u] = @ \ {s}]
    /\ eventHeld' = eventHeld \ {s}

\* The script that finds no lock of the caller's returns 0 and writes nothing,
\* the memberships included.
ReleaseRefused(s, u) == lock[s] # u /\ UNCHANGED storeVars

-----------------------------------------------------------------------------
(* VERIFY_LUA and EXTEND_LUA: all seats are checked before any TTL is set. *)

\* Mutant of OwnsAll: EXISTS instead of comparing the owner.
AllLocked(S, u) == \A s \in S : lock[s] # NoUser

OwnsAll(S, u) == \A s \in S : lock[s] = u

Extend(S, u) ==
    /\ OwnsAll(S, u)
    /\ ttl' = [s \in Seats |-> IF s \in S THEN BookingWindow ELSE ttl[s]]
    /\ UNCHANGED <<lock, held, eventHeld>>

-----------------------------------------------------------------------------
(* One unit of time passes in Redis.  A key whose TTL runs out is gone;    *)
(* the held sets have no TTL, so they do not notice.                       *)

Elapse ==
    /\ ttl' = [s \in Seats |-> IF ttl[s] = 0 THEN 0 ELSE ttl[s] - 1]
    /\ lock' = [s \in Seats |-> IF ttl[s] <= 1 THEN NoUser ELSE lock[s]]
    /\ UNCHANGED <<held, eventHeld>>

-----------------------------------------------------------------------------

\* A lock key exists exactly while its TTL runs: no lock without a TTL, which
\* nothing would ever reclaim.
LeaseInv == \A s \in Seats : lock[s] = NoUser <=> ttl[s] = 0

\* Every live lock is in both held sets.  The quota counts the user's set, so
\* a lock missing from it would be a seat held for free.
MembershipInv ==
    \A s \in Seats : lock[s] # NoUser => s \in held[lock[s]] /\ s \in eventHeld

\* No user's held set outgrows the quota.
QuotaInv == \A u \in Users : Cardinality(held[u]) <= MaxPerUser

\* The three scripts agree with each other about the keys they share: a lock
\* has a TTL, is counted in its owner's set, and the set stays in the quota.
StoreInv == LeaseInv /\ MembershipInv /\ QuotaInv

\* What TICKET_LIMIT_REACHED tells the user (seat-lock.errors.ts:17, "reached
\* the seat hold limit"): whoever is refused for the limit holds that many seats.
LimitIsReal ==
    \A u \in Users :
        LimitReached(u) => Cardinality({s \in Seats : lock[s] = u}) >= MaxPerUser

\* What is counted against u without being held: the seats a user is refused for
\* by mistake.
Phantoms(u) == {s \in held[u] : lock[s] # u}

\* A seat comes to be counted in vain only when its hold runs out by its TTL, and
\* is so until the same user holds it again: no script, no order of scripts and
\* no release does it (RELEASE_LUA takes lock and membership together).
QuotaDriftsByLapse ==
    [][\A u \in Users, s \in Seats :
          /\ s \in Phantoms(u)' \ Phantoms(u) => lock[s] = u /\ ttl[s] = 1
          /\ s \in Phantoms(u) \ Phantoms(u)' => lock[s] = NoUser /\ lock'[s] = u]_storeVars

\* No hold runs out: every holder gives back, or orders, in time.
NothingLapses == [][Elapse => \A s \in Seats : ttl[s] # 1]_storeVars

=============================================================================
