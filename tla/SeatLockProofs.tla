--------------------------- MODULE SeatLockProofs ---------------------------
(***************************************************************************)
(* For every set of users, seats and requests, every quota and every TTL:  *)
(* the seat lock is type correct, its Redis keys agree with each other,    *)
(* and it implements SeatHold.                                             *)
(*                                                                         *)
(* The argument is about the store: each script, and the passing of time,  *)
(* preserves StoreTypeOK and StoreInv, and is a step of SeatHold or none.  *)
(* StoreInv is inductive because the quota is checked against the held set *)
(* and the held set holds every live lock.  The requests only add which    *)
(* script runs when.                                                       *)
(***************************************************************************)
EXTENDS SeatLock, FiniteSetTheorems, TLAPS

\* What the store's invariants need to know to be preserved.
StoreOK == StoreTypeOK /\ StoreInv

\* A TTL that is given is within the bound of the type invariant.
LEMMA LongestBound ==
    /\ Longest \in Nat \ {0}
    /\ LockTTL <= Longest
    /\ BookingWindow <= Longest
BY StoreAssumption DEF Longest

-----------------------------------------------------------------------------

\* The empty store is consistent.
LEMMA StoreInitOK == StoreInit => StoreOK
<1> USE StoreAssumption
<1> SUFFICES ASSUME StoreInit PROVE StoreOK
  OBVIOUS
<1>1. StoreTypeOK
  BY LongestBound DEF StoreInit, StoreTypeOK
<1>2. LeaseInv /\ MembershipInv
  BY DEF StoreInit, LeaseInv, MembershipInv
<1>3. QuotaInv
  BY FS_EmptySet DEF StoreInit, QuotaInv
<1> QED
  BY <1>1, <1>2, <1>3 DEF StoreOK, StoreInv

\* Held sets are finite, so their cardinalities are numbers.
LEMMA HeldFinite ==
  ASSUME StoreTypeOK, NEW u \in Users
  PROVE  /\ IsFiniteSet(held[u])
         /\ Cardinality(held[u]) \in Nat
<1>1. held[u] \subseteq Seats
  BY DEF StoreTypeOK
<1> QED
  BY <1>1, StoreAssumption, FS_Subset, FS_CardinalityType

\* ACQUIRE_LUA keeps the store consistent.
LEMMA AcquireOK ==
  ASSUME StoreOK, NEW s \in Seats, NEW u \in Users, Acquire(s, u)
  PROVE  StoreOK'
<1> USE StoreAssumption
<1>1. StoreTypeOK'
  BY LongestBound DEF StoreOK, StoreTypeOK, Acquire
<1>2. lock[s] = NoUser
  BY DEF Acquire, SeatTaken, Rehold
<1>3. LeaseInv'
  BY DEF StoreOK, StoreTypeOK, StoreInv, LeaseInv, Acquire
<1>4. MembershipInv'
  BY <1>2 DEF StoreOK, StoreTypeOK, StoreInv, MembershipInv, Acquire
<1>5. QuotaInv'
  <2> SUFFICES ASSUME NEW v \in Users
               PROVE  Cardinality(held'[v]) <= MaxPerUser
    BY DEF QuotaInv
  <2>1. CASE v # u
    BY <2>1 DEF StoreOK, StoreTypeOK, StoreInv, QuotaInv, Acquire
  <2>2. CASE v = u
    <3>1. held'[u] = held[u] \cup {s}
      BY DEF StoreOK, StoreTypeOK, Acquire
    <3>2. IsFiniteSet(held[u]) /\ Cardinality(held[u]) \in Nat
      BY HeldFinite DEF StoreOK
    <3>3. Cardinality(held[u]) < MaxPerUser
      BY <3>2 DEF Acquire, LimitReached
    <3>4. Cardinality(held[u] \cup {s}) =
              IF s \in held[u] THEN Cardinality(held[u]) ELSE Cardinality(held[u]) + 1
      BY <3>2, FS_AddElement, Zenon
    <3> QED
      BY <2>2, <3>1, <3>2, <3>3, <3>4
  <2> QED
    BY <2>1, <2>2
<1> QED
  BY <1>1, <1>3, <1>4, <1>5 DEF StoreOK, StoreInv

\* RELEASE_LUA keeps the store consistent, whichever adapter runs it.
LEMMA ReleaseOK ==
  ASSUME StoreOK, NEW s \in Seats, NEW u \in Users, Release(s, u)
  PROVE  StoreOK'
<1> USE StoreAssumption
<1>1. StoreTypeOK'
  BY LongestBound DEF StoreOK, StoreTypeOK, Release
<1>2. LeaseInv'
  BY DEF StoreOK, StoreTypeOK, StoreInv, LeaseInv, Release
<1>3. MembershipInv'
  BY DEF StoreOK, StoreTypeOK, StoreInv, MembershipInv, Release
<1>4. QuotaInv'
  <2> SUFFICES ASSUME NEW v \in Users
               PROVE  Cardinality(held'[v]) <= MaxPerUser
    BY DEF QuotaInv
  <2>1. held'[v] \subseteq held[v]
    BY DEF StoreOK, StoreTypeOK, Release
  <2>2. IsFiniteSet(held[v]) /\ Cardinality(held[v]) \in Nat
    BY HeldFinite DEF StoreOK
  <2>3. Cardinality(held'[v]) \in Nat /\ Cardinality(held'[v]) <= Cardinality(held[v])
    BY <2>1, <2>2, FS_Subset, FS_CardinalityType
  <2>4. Cardinality(held[v]) <= MaxPerUser
    BY DEF StoreOK, StoreInv, QuotaInv
  <2> QED
    BY <2>2, <2>3, <2>4
<1> QED
  BY <1>1, <1>2, <1>3, <1>4 DEF StoreOK, StoreInv

\* EXTEND_LUA keeps the store consistent: it sets a TTL only where a lock is.
LEMMA ExtendOK ==
  ASSUME StoreOK, NEW S \in SUBSET Seats, NEW u \in Users, Extend(S, u)
  PROVE  StoreOK'
<1> USE StoreAssumption
<1>1. StoreTypeOK'
  BY LongestBound DEF StoreOK, StoreTypeOK, Extend
<1>2. LeaseInv'
  BY DEF StoreOK, StoreTypeOK, StoreInv, LeaseInv, Extend, OwnsAll
<1>3. MembershipInv' /\ QuotaInv'
  BY DEF StoreOK, StoreInv, MembershipInv, QuotaInv, Extend
<1> QED
  BY <1>1, <1>2, <1>3 DEF StoreOK, StoreInv

\* Time keeps the store consistent: the keys that go lose lock and TTL at once.
LEMMA ElapseOK ==
  ASSUME StoreOK, Elapse
  PROVE  StoreOK'
<1> USE StoreAssumption
<1>1. StoreTypeOK'
  BY LongestBound DEF StoreOK, StoreTypeOK, Elapse
<1>2. LeaseInv'
  BY DEF StoreOK, StoreTypeOK, StoreInv, LeaseInv, Elapse
<1>3. MembershipInv'
  BY DEF StoreOK, StoreTypeOK, StoreInv, MembershipInv, Elapse
<1>4. QuotaInv'
  BY DEF StoreOK, StoreInv, QuotaInv, Elapse
<1> QED
  BY <1>1, <1>2, <1>3, <1>4 DEF StoreOK, StoreInv

-----------------------------------------------------------------------------
(* Each script is a step of SeatHold, or none.                             *)

\* A granted lock is a grant: the seat is free, and the user's real holds are
\* no more than the members of the held set the script counts.
LEMMA AcquireRefines ==
  ASSUME StoreOK, NEW s \in Seats, NEW u \in Users, Acquire(s, u)
  PROVE  Hold!Grant(s, u)
<1> USE StoreAssumption
<1>1. lock[s] = NoUser
  BY DEF Acquire, SeatTaken, Rehold
<1>2. Cardinality(Hold!Holds(u)) < MaxPerUser
  <2>1. Hold!Holds(u) \subseteq held[u]
    BY DEF StoreOK, StoreInv, MembershipInv, Hold!Holds
  <2>2. IsFiniteSet(held[u]) /\ Cardinality(held[u]) \in Nat
    BY HeldFinite DEF StoreOK
  <2>3. /\ Cardinality(Hold!Holds(u)) \in Nat
        /\ Cardinality(Hold!Holds(u)) <= Cardinality(held[u])
    BY <2>1, <2>2, FS_Subset, FS_CardinalityType
  <2>4. Cardinality(held[u]) < MaxPerUser
    BY <2>2 DEF Acquire, LimitReached
  <2> QED
    BY <2>2, <2>3, <2>4
<1>3. lock' = [lock EXCEPT ![s] = u]
  BY DEF Acquire
<1>4. Hold!Cardinality(Hold!Holds(u)) = Cardinality(Hold!Holds(u))
  BY DEF Hold!Cardinality, Cardinality
<1> QED
  BY <1>1, <1>2, <1>3, <1>4 DEF Hold!Grant

\* A release ends one hold.
LEMMA ReleaseRefines ==
  ASSUME StoreOK, NEW s \in Seats, NEW u \in Users, Release(s, u)
  PROVE  Hold!End({s})
BY StoreAssumption DEF StoreOK, StoreTypeOK, Release, Hold!End

\* Time ends the holds whose TTL runs out, or none.
LEMMA ElapseRefines ==
  ASSUME StoreOK, Elapse
  PROVE  [Hold!Next]_lock
<1> DEFINE gone == {s \in Seats : lock[s] # NoUser /\ ttl[s] <= 1}
<1>1. lock' = [s \in Seats |-> IF s \in gone THEN NoUser ELSE lock[s]]
  BY DEF Elapse
<1>2. CASE gone = {}
  BY <1>1, <1>2 DEF StoreOK, StoreTypeOK
<1>3. CASE gone # {}
  <2>1. Hold!End(gone)
    BY <1>1, <1>3 DEF Hold!End
  <2>2. gone \in SUBSET Seats
    OBVIOUS
  <2> QED
    BY <2>1, <2>2 DEF Hold!Next
<1> QED
  BY <1>2, <1>3

\* Initially every seat is free.
LEMMA InitRefines == StoreInit => Hold!Init
BY DEF StoreInit, Hold!Init

-----------------------------------------------------------------------------
(* The seat lock component.                                                *)

SLOK == SLTypeOK /\ StoreInv

\* The start of the component.
LEMMA SLInitOK == SLInit => SLOK
<1> SUFFICES ASSUME SLInit PROVE SLOK
  OBVIOUS
<1>1. StoreOK
  BY StoreInitOK DEF SLInit
<1>2. LockTypeOK
  BY LockAssumption DEF SLInit, LockInit, LockTypeOK, LockRequests
<1> QED
  BY <1>1, <1>2 DEF SLOK, SLTypeOK, StoreOK

\* The steps of a request leave the request table and the audit table typed.
LEMMA LockStepTyped ==
  ASSUME LockTypeOK, NEW r \in LockReqs, LockStep(r)
  PROVE  LockTypeOK'
<1> USE DEF LockTypeOK, LockRequests, AuditSteps, At, Continue, Finish
<1>1. ASSUME NEW s \in Seats, NEW u \in Users, LockSeat(r, s, u)
      PROVE  LockTypeOK'
  BY <1>1 DEF LockSeat
<1>2. ASSUME NEW s \in Seats, NEW u \in Users, ReholdSeat(r, s, u)
      PROVE  LockTypeOK'
  BY <1>2 DEF ReholdSeat
<1>3. ASSUME NEW s \in Seats, NEW u \in Users, ReleaseSeat(r, s, u)
      PROVE  LockTypeOK'
  BY <1>3 DEF ReleaseSeat
<1>4. CASE FindActive(r)
  BY <1>4 DEF FindActive, Idle
<1>5. CASE RecordAcquired(r)
  BY <1>5, LockAssumption DEF RecordAcquired, Idle
<1>6. CASE RecordReleased(r)
  BY <1>6, LockAssumption DEF RecordReleased, Idle
<1>7. CASE AuditLost(r)
  BY <1>7 DEF AuditLost
<1> QED
  BY <1>1, <1>2, <1>3, <1>4, <1>5, <1>6, <1>7 DEF LockStep

\* A step of a request runs one script of the store, or none.
LEMMA LockStepStore ==
  ASSUME LockTypeOK, NEW r \in LockReqs, LockStep(r)
  PROVE  \/ \E s \in Seats, u \in Users : Acquire(s, u)
         \/ \E s \in Seats, u \in Users :
                Release(s, u) /\ Started(r, "recordReleased", s, u)
         \/ UNCHANGED storeVars
<1>1. ASSUME NEW s \in Seats, NEW u \in Users, LockSeat(r, s, u)
      PROVE  Acquire(s, u)
  BY <1>1 DEF LockSeat
<1>2. ASSUME NEW s \in Seats, NEW u \in Users, ReleaseSeat(r, s, u)
      PROVE  Release(s, u) /\ Started(r, "recordReleased", s, u)
  BY <1>2 DEF ReleaseSeat, Continue, At, Started, LockTypeOK
<1>3. ASSUME NEW s \in Seats, NEW u \in Users, ReholdSeat(r, s, u)
      PROVE  UNCHANGED storeVars
  BY <1>3 DEF ReholdSeat
<1>4. CASE FindActive(r) \/ RecordAcquired(r) \/ RecordReleased(r) \/ AuditLost(r)
  BY <1>4 DEF FindActive, RecordAcquired, RecordReleased, AuditLost
<1> QED
  BY <1>1, <1>2, <1>3, <1>4 DEF LockStep

\* SLOK is inductive.
LEMMA SLNextOK == SLOK /\ [SLNext]_slVars => SLOK'
<1> SUFFICES ASSUME SLOK, [SLNext]_slVars PROVE SLOK'
  OBVIOUS
<1> USE DEF SLOK, SLTypeOK
<1>1. StoreOK /\ LockTypeOK
  BY DEF StoreOK
<1>2. ASSUME NEW r \in LockReqs, LockStep(r)
      PROVE  SLOK'
  <2>1. LockTypeOK'
    BY <1>1, <1>2, LockStepTyped
  <2>2. CASE \E s \in Seats, u \in Users : Acquire(s, u)
    BY <1>1, <2>1, <2>2, AcquireOK DEF StoreOK
  <2>3. CASE \E s \in Seats, u \in Users : Release(s, u)
    BY <1>1, <2>1, <2>3, ReleaseOK DEF StoreOK
  <2>4. CASE UNCHANGED storeVars
    BY <1>1, <2>1, <2>4 DEF StoreOK, storeVars, StoreTypeOK, StoreInv,
                            LeaseInv, MembershipInv, QuotaInv
  <2> QED
    BY <1>1, <1>2, <2>2, <2>3, <2>4, LockStepStore
<1>3. CASE Tick
  BY <1>1, <1>3, ElapseOK DEF Tick, lockVars, LockTypeOK, StoreOK
<1>4. CASE UNCHANGED slVars
  BY <1>1, <1>4 DEF slVars, LockTypeOK, StoreTypeOK, StoreInv,
                    LeaseInv, MembershipInv, QuotaInv
<1> QED
  BY <1>2, <1>3, <1>4 DEF SLNext

\* Type correctness of the seat lock and the consistency of its Redis keys, for
\* any number of users, seats, requests and any quota: a live lock has a TTL, is
\* counted in its owner's held set, and no held set outgrows the quota
\* (ACQUIRE_LUA, RELEASE_LUA and key expiry together).
THEOREM SeatLockInvariant == SLSpec => [](SLTypeOK /\ StoreInv)
<1>1. SLInit => SLOK
  BY SLInitOK
<1>2. SLOK /\ [SLNext]_slVars => SLOK'
  BY SLNextOK
<1> QED
  BY <1>1, <1>2, PTL DEF SLSpec, SLOK

\* Type correctness alone, of the seat lock with its requests and audit rows.
THEOREM SeatLockTypeCorrect == SLSpec => []SLTypeOK
<1>1. SLSpec => [](SLTypeOK /\ StoreInv)
  BY SeatLockInvariant
<1> QED
  BY <1>1, PTL

\* Every step of the component is a step of SeatHold or none.
LEMMA SLNextRefines ==
  ASSUME SLOK, SLNext \/ UNCHANGED slVars
  PROVE  [Hold!Next]_lock
<1>1. StoreOK /\ LockTypeOK
  BY DEF SLOK, SLTypeOK, StoreOK
<1>2. ASSUME NEW r \in LockReqs, LockStep(r)
      PROVE  [Hold!Next]_lock
  <2>1. CASE \E s \in Seats, u \in Users : Acquire(s, u)
    BY <1>1, <2>1, AcquireRefines DEF Hold!Next
  <2>2. ASSUME NEW s \in Seats, NEW u \in Users, Release(s, u)
        PROVE  Hold!Next
    <3>1. Hold!End({s})
      BY <1>1, <2>2, ReleaseRefines
    <3> QED
      BY <3>1 DEF Hold!Next
  <2>3. CASE UNCHANGED storeVars
    BY <2>3 DEF storeVars
  <2> QED
    BY <1>1, <1>2, <2>1, <2>2, <2>3, LockStepStore
<1>3. CASE Tick
  BY <1>1, <1>3, ElapseRefines DEF Tick
<1>4. CASE UNCHANGED slVars
  BY <1>4 DEF slVars
<1> QED
  BY <1>2, <1>3, <1>4 DEF SLNext

\* The seat lock implements SeatHold: one owner per seat, granted only while
\* free and below the quota, never handed from user to user (the Lua scripts
\* of redis-seat-lock.adapter.ts under any interleaving of requests and time).
THEOREM SeatLockImplementsSeatHold == SLSpec => SeatsAreHeld
<1>1. SLInit => SLOK /\ Hold!Init
  BY SLInitOK, InitRefines DEF SLInit
<1>2. SLOK /\ [SLNext]_slVars => SLOK'
  BY SLNextOK
<1>3. SLOK /\ [SLNext]_slVars => [Hold!Next]_lock
  BY SLNextRefines
<1> QED
  BY <1>1, <1>2, <1>3, PTL DEF SLSpec, SeatsAreHeld, Hold!Spec

\* In a step that ends a hold, either its TTL runs out or its owner's release
\* request starts.
LEMMA HoldEnds ==
  ASSUME SLOK, SLNext, NEW s \in Seats, lock[s] # NoUser, lock'[s] # lock[s]
  PROVE  \/ ttl[s] = 1 /\ lock'[s] = NoUser
         \/ \E r \in LockReqs : Started(r, "recordReleased", s, lock[s])
<1>1. StoreOK /\ LockTypeOK
  BY DEF SLOK, SLTypeOK, StoreOK
<1>2. ASSUME NEW r \in LockReqs, LockStep(r)
      PROVE  Started(r, "recordReleased", s, lock[s])
  <2>1. ASSUME NEW t \in Seats, NEW u \in Users, Acquire(t, u)
        PROVE  FALSE
    BY <1>1, <2>1 DEF Acquire, SeatTaken, Rehold, StoreOK, StoreTypeOK
  <2>2. ASSUME NEW t \in Seats, NEW u \in Users, Release(t, u),
               Started(r, "recordReleased", t, u)
        PROVE  Started(r, "recordReleased", s, lock[s])
    <3>1. t = s /\ u = lock[s]
      BY <1>1, <2>2 DEF Release, StoreOK, StoreTypeOK
    <3> QED
      BY <2>2, <3>1
  <2>3. ~ UNCHANGED storeVars
    BY DEF storeVars
  <2> QED
    BY <1>1, <1>2, <2>1, <2>2, <2>3, LockStepStore
<1>3. CASE Tick
  BY <1>1, <1>3, StoreAssumption DEF Tick, Elapse, StoreOK, StoreTypeOK, StoreInv, LeaseInv
<1> QED
  BY <1>2, <1>3 DEF SLNext

\* A hold ends early only by its owner's own release request (the owner check
\* of RELEASE_LUA): neither a late release nor anyone else's takes a seat away.
THEOREM OnlyOwnerEndsHolds == SLSpec => OnlyOwnerEndsHold
<1> DEFINE Ends(s) ==
      \/ ttl[s] = 1 /\ lock'[s] = NoUser
      \/ \E r \in LockReqs : Started(r, "recordReleased", s, lock[s])
<1>1. SLInit => SLOK
  BY SLInitOK
<1>2. SLOK /\ [SLNext]_slVars => SLOK'
  BY SLNextOK
<1>3. SLOK /\ [SLNext]_slVars =>
        [\A s \in Seats : lock[s] # NoUser /\ lock'[s] # lock[s] => Ends(s)]_slVars
  BY HoldEnds
<1> QED
  BY <1>1, <1>2, <1>3, PTL DEF SLSpec, OnlyOwnerEndsHold

-----------------------------------------------------------------------------
(* What the quota counts, and how long a hold lasts.                       *)

\* Seat s begins, or ceases, to be counted in vain against u.
Drift(u, s) ==
    /\ s \in Phantoms(u)' \ Phantoms(u) => lock[s] = u /\ ttl[s] = 1
    /\ s \in Phantoms(u) \ Phantoms(u)' => lock[s] = NoUser /\ lock'[s] = u

\* An acquired seat is no phantom any more, other seats are what they were.
LEMMA AcquireDrifts ==
  ASSUME StoreOK, NEW t \in Seats, NEW v \in Users, Acquire(t, v),
         NEW u \in Users, NEW s \in Seats
  PROVE  Drift(u, s)
<1>1. lock[t] = NoUser
  BY DEF Acquire, SeatTaken, Rehold
<1>2. /\ lock' = [lock EXCEPT ![t] = v] /\ held' = [held EXCEPT ![v] = held[v] \cup {t}]
      /\ lock \in [Seats -> Users \cup {NoUser}] /\ held \in [Users -> SUBSET Seats]
  BY DEF Acquire, StoreOK, StoreTypeOK
<1>3. CASE s = t
  BY <1>1, <1>2, <1>3, StoreAssumption DEF Drift, Phantoms
<1>4. CASE s # t
  BY <1>2, <1>4 DEF Drift, Phantoms
<1> QED
  BY <1>3, <1>4

\* A release takes the seat out of the set of the user who held it.
LEMMA ReleaseDrifts ==
  ASSUME StoreOK, NEW t \in Seats, NEW v \in Users, Release(t, v),
         NEW u \in Users, NEW s \in Seats
  PROVE  Drift(u, s)
<1>1. /\ lock[t] = v
      /\ lock' = [lock EXCEPT ![t] = NoUser] /\ held' = [held EXCEPT ![v] = held[v] \ {t}]
      /\ lock \in [Seats -> Users \cup {NoUser}] /\ held \in [Users -> SUBSET Seats]
  BY DEF Release, StoreOK, StoreTypeOK
<1>2. CASE s = t
  BY <1>1, <1>2, StoreAssumption DEF Drift, Phantoms
<1>3. CASE s # t
  BY <1>1, <1>3 DEF Drift, Phantoms
<1> QED
  BY <1>2, <1>3

\* Only the lock whose last tick this is leaves its membership behind.
LEMMA ElapseDrifts ==
  ASSUME StoreOK, Elapse, NEW u \in Users, NEW s \in Seats
  PROVE  Drift(u, s)
<1>1. ttl[s] \in Nat /\ (lock[s] = NoUser <=> ttl[s] = 0)
  BY DEF StoreOK, StoreTypeOK, StoreInv, LeaseInv
<1>2. held' = held /\ lock'[s] = IF ttl[s] <= 1 THEN NoUser ELSE lock[s]
  BY DEF Elapse
<1> QED
  BY <1>1, <1>2, StoreAssumption DEF Drift, Phantoms

\* Whoever leaves locks and memberships alone makes nothing drift.
LEMMA QuietDrifts ==
  ASSUME UNCHANGED <<lock, held>>, NEW u \in Users, NEW s \in Seats
  PROVE  Drift(u, s)
BY DEF Drift, Phantoms

\* Drift under the steps of the component.
LEMMA SLNextDrifts ==
  ASSUME SLOK, SLNext \/ UNCHANGED slVars, NEW u \in Users, NEW s \in Seats
  PROVE  Drift(u, s)
<1>1. StoreOK /\ LockTypeOK
  BY DEF SLOK, SLTypeOK, StoreOK
<1>2. ASSUME NEW r \in LockReqs, LockStep(r)
      PROVE  Drift(u, s)
  <2>1. CASE UNCHANGED storeVars
    BY <2>1, QuietDrifts DEF storeVars
  <2> QED
    BY <1>1, <1>2, <2>1, LockStepStore, AcquireDrifts, ReleaseDrifts
<1>3. CASE Tick
  BY <1>1, <1>3, ElapseDrifts DEF Tick
<1>4. CASE UNCHANGED slVars
  BY <1>4, QuietDrifts DEF slVars
<1> QED
  BY <1>2, <1>3, <1>4 DEF SLNext

\* The quota of ACQUIRE_LUA goes wrong in one way only: a seat whose hold ran out
\* stays counted, until its user holds that very seat again.
THEOREM QuotaDriftsOnlyByLapse == SLSpec => QuotaDriftsByLapse
<1>1. SLOK /\ [SLNext]_slVars => [\A u \in Users, s \in Seats : Drift(u, s)]_storeVars
  BY SLNextDrifts
<1>2. SLInit => SLOK
  BY SLInitOK
<1>3. SLOK /\ [SLNext]_slVars => SLOK'
  BY SLNextOK
<1> QED
  BY <1>1, <1>2, <1>3, PTL DEF SLSpec, QuotaDriftsByLapse, Drift

-----------------------------------------------------------------------------

NoPhantoms == \A u \in Users : Phantoms(u) = {}

\* Without phantoms the limit is reached by holds.
LEMMA CountedAreHeld ==
  ASSUME StoreOK, NoPhantoms
  PROVE  LimitIsReal
<1> SUFFICES ASSUME NEW u \in Users, LimitReached(u)
             PROVE  Cardinality({s \in Seats : lock[s] = u}) >= MaxPerUser
  BY DEF LimitIsReal
<1>1. held[u] = {s \in Seats : lock[s] = u}
  BY StoreAssumption DEF StoreOK, StoreTypeOK, StoreInv, MembershipInv, NoPhantoms, Phantoms
<1> QED
  BY <1>1 DEF LimitReached

\* ACQUIRE_LUA and RELEASE_LUA change lock and membership together, so no seat
\* is left counted that is not held; neither does time while no hold runs out.
LEMMA NoDrift ==
  ASSUME SLOK, NoPhantoms, SLNext \/ UNCHANGED slVars,
         Elapse => \A s \in Seats : ttl[s] # 1
  PROVE  NoPhantoms'
<1>1. StoreOK /\ LockTypeOK
  BY DEF SLOK, SLTypeOK, StoreOK
<1>2. ASSUME NEW s \in Seats, NEW u \in Users, Acquire(s, u)
      PROVE  NoPhantoms'
  <2>1. lock[s] = NoUser
    BY <1>2 DEF Acquire, SeatTaken, Rehold
  <2>2. /\ lock' = [lock EXCEPT ![s] = u] /\ held' = [held EXCEPT ![u] = held[u] \cup {s}]
        /\ lock \in [Seats -> Users \cup {NoUser}] /\ held \in [Users -> SUBSET Seats]
    BY <1>1, <1>2 DEF Acquire, StoreOK, StoreTypeOK
  <2> QED
    BY <2>1, <2>2, StoreAssumption DEF NoPhantoms, Phantoms
<1>3. ASSUME NEW s \in Seats, NEW u \in Users, Release(s, u)
      PROVE  NoPhantoms'
  <2>1. /\ lock[s] = u
        /\ lock' = [lock EXCEPT ![s] = NoUser] /\ held' = [held EXCEPT ![u] = held[u] \ {s}]
        /\ lock \in [Seats -> Users \cup {NoUser}] /\ held \in [Users -> SUBSET Seats]
    BY <1>1, <1>3 DEF Release, StoreOK, StoreTypeOK
  <2> QED
    BY <2>1 DEF NoPhantoms, Phantoms
<1>4. CASE UNCHANGED storeVars
  BY <1>4 DEF storeVars, NoPhantoms, Phantoms
<1>5. CASE Tick
  <2>1. Elapse /\ \A s \in Seats : ttl[s] # 1
    BY <1>5 DEF Tick
  <2>2. \A s \in Seats : ttl[s] \in Nat /\ (lock[s] = NoUser <=> ttl[s] = 0)
    BY <1>1 DEF StoreOK, StoreTypeOK, StoreInv, LeaseInv
  <2>3. \A s \in Seats : lock'[s] = lock[s]
    BY <2>1, <2>2 DEF Elapse
  <2>4. held' = held /\ \A u \in Users : held[u] \subseteq Seats
    BY <1>1, <2>1 DEF Elapse, StoreOK, StoreTypeOK
  <2> QED
    BY <2>3, <2>4 DEF NoPhantoms, Phantoms
<1>6. CASE UNCHANGED slVars
  BY <1>4, <1>6 DEF slVars, storeVars
<1> QED
  BY <1>1, <1>2, <1>3, <1>4, <1>5, <1>6, LockStepStore DEF SLNext

\* What TICKET_LIMIT_REACHED says is true as long as no hold has run out: the
\* lapse of a TTL, which leaves the held set of ACQUIRE_LUA as it is, is the whole
\* cause of the refusals in vain.
THEOREM LimitIsRealUntilALapse == SLSpec /\ NothingLapses => []LimitIsReal
<1>1. SLInit => SLOK /\ NoPhantoms
  BY SLInitOK DEF SLInit, StoreInit, NoPhantoms, Phantoms
<1>2. SLOK /\ [SLNext]_slVars => SLOK'
  BY SLNextOK
<1>3. ASSUME SLOK, NoPhantoms, [SLNext]_slVars, [Elapse => \A s \in Seats : ttl[s] # 1]_storeVars
      PROVE  NoPhantoms'
  <2>1. CASE UNCHANGED storeVars
    BY <1>3, <2>1 DEF storeVars, NoPhantoms, Phantoms
  <2> QED
    BY <1>3, <2>1, NoDrift
<1>4. SLOK /\ NoPhantoms => LimitIsReal
  BY CountedAreHeld DEF SLOK, SLTypeOK, StoreOK
<1> QED
  BY <1>1, <1>2, <1>3, <1>4, PTL DEF SLSpec, NothingLapses

-----------------------------------------------------------------------------

\* No countdown starts above DEFAULT_TTL_SECONDS.
LeaseBounded == \A s \in Seats : ttl[s] <= LockTTL

\* A step keeps the countdowns bounded and lengthens none that is running for the
\* same owner.
LEMMA LeaseStep ==
  ASSUME SLOK, LeaseBounded, SLNext \/ UNCHANGED slVars
  PROVE  /\ LeaseBounded'
         /\ \A s \in Seats : lock[s] # NoUser /\ lock'[s] = lock[s] => ttl'[s] <= ttl[s]
<1> DEFINE Goal ==
      /\ LeaseBounded'
      /\ \A s \in Seats : lock[s] # NoUser /\ lock'[s] = lock[s] => ttl'[s] <= ttl[s]
<1>1. /\ LockTypeOK
      /\ ttl \in [Seats -> Nat] /\ lock \in [Seats -> Users \cup {NoUser}]
      /\ \A s \in Seats : ttl[s] <= LockTTL
  BY DEF SLOK, SLTypeOK, StoreTypeOK, LeaseBounded
<1>2. ASSUME NEW s \in Seats, NEW u \in Users, Acquire(s, u)
      PROVE  Goal
  <2>1. lock[s] = NoUser /\ ttl' = [ttl EXCEPT ![s] = LockTTL]
    BY <1>2 DEF Acquire, SeatTaken, Rehold
  <2> QED
    BY <1>1, <2>1, StoreAssumption DEF LeaseBounded
<1>3. ASSUME NEW s \in Seats, NEW u \in Users, Release(s, u)
      PROVE  Goal
  <2>1. ttl' = [ttl EXCEPT ![s] = 0]
    BY <1>3 DEF Release
  <2> QED
    BY <1>1, <2>1, StoreAssumption DEF LeaseBounded
<1>4. CASE ttl' = ttl
  BY <1>1, <1>4 DEF LeaseBounded
<1>5. CASE Tick
  <2>1. ttl' = [s \in Seats |-> IF ttl[s] = 0 THEN 0 ELSE ttl[s] - 1]
    BY <1>5 DEF Tick, Elapse
  <2> QED
    BY <1>1, <2>1, StoreAssumption DEF LeaseBounded
<1>6. UNCHANGED storeVars \/ UNCHANGED slVars => ttl' = ttl
  BY DEF storeVars, slVars
<1> QED
  BY <1>1, <1>2, <1>3, <1>4, <1>5, <1>6, LockStepStore DEF SLNext

\* Holding a seat again does not lengthen the hold (lock-seat.use-case.ts:99,
\* "Redis TTL will reclaim"), and no hold outlasts DEFAULT_TTL_SECONDS.
THEOREM LocksRunDown == SLSpec => HoldsRunDown
<1>1. SLInit => SLOK /\ LeaseBounded
  BY SLInitOK, StoreAssumption DEF SLInit, StoreInit, LeaseBounded
<1>2. SLOK /\ [SLNext]_slVars => SLOK'
  BY SLNextOK
<1>3. SLOK /\ LeaseBounded /\ [SLNext]_slVars => LeaseBounded'
  BY LeaseStep
<1>4. SLOK /\ LeaseBounded /\ [SLNext]_slVars =>
        [\A s \in Seats :
           /\ lock[s] # NoUser /\ lock'[s] = lock[s] => ttl'[s] <= ttl[s]
           /\ ttl[s] <= LockTTL]_slVars
  BY LeaseStep DEF LeaseBounded
<1> QED
  BY <1>1, <1>2, <1>3, <1>4, PTL DEF SLSpec, HoldsRunDown

-----------------------------------------------------------------------------
(* The audit rows.  Script and row are two steps: what keeps them together *)
(* is that a user's requests for a seat follow one another.                *)

\* Between RELEASE_LUA and the update of its rows the seat is not held again.
ReleasedStays ==
    \A r \in LockReqs : At(r, "recordReleased") => lock[lockReq[r].seat] # lockReq[r].user

AuditInv == SLOK /\ HoldsAreAudited /\ ReleasedStays

\* A step of one request keeps the rows up with the holds, unless it overlaps with
\* another of the same user for the same seat.
LEMMA LockStepAudits ==
  ASSUME AuditInv, OneAtATime, OneAtATime', "audit" \notin Faults,
         NEW r \in LockReqs, LockStep(r)
  PROVE  HoldsAreAudited' /\ ReleasedStays'
<1>0. /\ lockReq \in [LockReqs -> LockRequests]
      /\ active \in [Seats -> [Users -> Nat]]
      /\ lock \in [Seats -> Users \cup {NoUser}]
      /\ HoldsAreAudited /\ ReleasedStays
  BY DEF AuditInv, SLOK, SLTypeOK, StoreTypeOK, LockTypeOK
<1>1. ASSUME NEW q \in LockReqs, lockReq[q].pc # "idle"
      PROVE  /\ lockReq[q] # Idle /\ lockReq[q].seat \in Seats /\ lockReq[q].user \in Users
             /\ InProgress(q, lockReq[q].seat, lockReq[q].user)
  BY <1>0, <1>1 DEF LockRequests, Idle, InProgress
<1>2. ASSUME NEW s \in Seats, NEW u \in Users, LockSeat(r, s, u)
      PROVE  HoldsAreAudited' /\ ReleasedStays'
  <2>1. /\ lockReq' = [lockReq EXCEPT ![r] = [pc |-> "recordAcquired", seat |-> s, user |-> u]]
        /\ lock' = [lock EXCEPT ![s] = u] /\ active' = active /\ lockReq[r].pc = "idle"
    BY <1>2 DEF LockSeat, Acquire, Continue, At
  <2>2. InProgress(r, s, u)' /\ lockReq'[r].pc = "recordAcquired"
    BY <1>0, <2>1 DEF InProgress, Idle
  <2>3. \A q \in LockReqs : q # r => lockReq'[q] = lockReq[q]
    BY <1>0, <2>1
  <2>4. HoldsAreAudited'
    <3> SUFFICES ASSUME NEW t \in Seats, NEW v \in Users, lock'[t] = v
                 PROVE  \/ active'[t][v] > 0
                        \/ \E q \in LockReqs : /\ InProgress(q, t, v)'
                                               /\ lockReq'[q].pc \in {"findActive", "recordAcquired"}
      BY DEF HoldsAreAudited
    <3>1. CASE t = s
      BY <1>0, <2>1, <2>2, <3>1
    <3>2. CASE t # s
      <4>1. \/ active[t][v] > 0
            \/ \E q \in LockReqs : /\ InProgress(q, t, v)
                                   /\ lockReq[q].pc \in {"findActive", "recordAcquired"}
        BY <1>0, <2>1, <3>2 DEF HoldsAreAudited
      <4> QED
        BY <2>1, <2>3, <4>1 DEF InProgress
    <3> QED
      BY <3>1, <3>2
  <2>5. ReleasedStays'
    <3> SUFFICES ASSUME NEW q \in LockReqs, lockReq'[q].pc = "recordReleased",
                        lock'[lockReq'[q].seat] = lockReq'[q].user
                 PROVE  FALSE
      BY DEF ReleasedStays, At
    <3>1. q # r /\ lockReq'[q] = lockReq[q]
      BY <2>2, <2>3
    <3>2. InProgress(q, lockReq[q].seat, lockReq[q].user)
      BY <1>1, <3>1
    <3>3. lockReq[q].seat = s /\ lockReq[q].user = u
      BY <1>0, <1>1, <2>1, <3>1 DEF ReleasedStays, At
    <3>4. InProgress(q, s, u)'
      BY <3>1, <3>2, <3>3 DEF InProgress
    <3> QED
      BY <2>2, <3>1, <3>4 DEF OneAtATime
  <2> QED
    BY <2>4, <2>5
<1>3. ASSUME NEW s \in Seats, NEW u \in Users, ReleaseSeat(r, s, u)
      PROVE  HoldsAreAudited' /\ ReleasedStays'
  <2>1. /\ lockReq' = [lockReq EXCEPT ![r] = [pc |-> "recordReleased", seat |-> s, user |-> u]]
        /\ lock' = [lock EXCEPT ![s] = NoUser] /\ active' = active /\ lockReq[r].pc = "idle"
    BY <1>3 DEF ReleaseSeat, Release, Continue, At
  <2>2. \A q \in LockReqs : q # r => lockReq'[q] = lockReq[q]
    BY <1>0, <2>1
  <2>3. \A t \in Seats, v \in Users : lock'[t] = v => lock[t] = v
    BY <1>0, <2>1, StoreAssumption
  <2>4. HoldsAreAudited'
    BY <1>0, <2>1, <2>2, <2>3 DEF HoldsAreAudited, InProgress, Idle
  <2>5. ReleasedStays'
    <3> SUFFICES ASSUME NEW q \in LockReqs, lockReq'[q].pc = "recordReleased"
                 PROVE  lock'[lockReq'[q].seat] # lockReq'[q].user
      BY DEF ReleasedStays, At
    <3>1. CASE q = r
      BY <1>0, <2>1, <3>1, StoreAssumption
    <3>2. CASE q # r
      BY <1>0, <1>1, <2>2, <2>3, <3>2 DEF ReleasedStays, At
    <3> QED
      BY <3>1, <3>2
  <2> QED
    BY <2>4, <2>5
<1>4. ASSUME NEW s \in Seats, NEW u \in Users, ReholdSeat(r, s, u)
      PROVE  HoldsAreAudited' /\ ReleasedStays'
  <2>1. /\ lockReq' = [lockReq EXCEPT ![r] = [pc |-> "findActive", seat |-> s, user |-> u]]
        /\ lock' = lock /\ active' = active /\ lockReq[r].pc = "idle"
    BY <1>4 DEF ReholdSeat, Continue, At, storeVars
  <2>2. \A q \in LockReqs : q # r => lockReq'[q] = lockReq[q]
    BY <1>0, <2>1
  <2>3. lockReq'[r].pc = "findActive"
    BY <1>0, <2>1
  <2> QED
    BY <1>0, <2>1, <2>2, <2>3 DEF HoldsAreAudited, ReleasedStays, InProgress, Idle, At
<1>5. ASSUME lockReq[r].pc # "idle", NEW s \in Seats, NEW u \in Users,
             s = lockReq[r].seat, u = lockReq[r].user, lock' = lock,
             \A t \in Seats, v \in Users : <<t, v>> # <<s, u>> => active'[t][v] = active[t][v],
             lock[s] = u =>
                \/ active'[s][u] > 0
                \/ InProgress(r, s, u)' /\ lockReq'[r].pc \in {"findActive", "recordAcquired"},
             \A q \in LockReqs : q # r => lockReq'[q] = lockReq[q],
             lockReq'[r].pc # "recordReleased"
      PROVE  HoldsAreAudited' /\ ReleasedStays'
  <2>1. HoldsAreAudited'
    <3> SUFFICES ASSUME NEW t \in Seats, NEW v \in Users, lock[t] = v, <<t, v>> # <<s, u>>
                 PROVE  \/ active'[t][v] > 0
                        \/ \E q \in LockReqs : /\ InProgress(q, t, v)'
                                               /\ lockReq'[q].pc \in {"findActive", "recordAcquired"}
      BY <1>5 DEF HoldsAreAudited
    <3>1. \/ active[t][v] > 0
          \/ \E q \in LockReqs : /\ InProgress(q, t, v)
                                 /\ lockReq[q].pc \in {"findActive", "recordAcquired"}
      BY <1>0 DEF HoldsAreAudited
    <3>2. ~InProgress(r, t, v)
      BY <1>5 DEF InProgress
    <3> QED
      BY <1>5, <3>1, <3>2 DEF InProgress
  <2>2. ReleasedStays'
    BY <1>0, <1>5 DEF ReleasedStays, At
  <2> QED
    BY <2>1, <2>2
<1>6. CASE FindActive(r)
  <2>1. PICK s \in Seats, u \in Users : s = lockReq[r].seat /\ u = lockReq[r].user
    BY <1>1, <1>6 DEF FindActive, At
  <2>2. /\ lockReq[r].pc = "findActive" /\ lock' = lock /\ active' = active
        /\ lockReq' = IF active[s][u] > 0 THEN [lockReq EXCEPT ![r] = Idle]
                      ELSE [lockReq EXCEPT ![r] = [pc |-> "recordAcquired", seat |-> s, user |-> u]]
    BY <1>6, <2>1 DEF FindActive, At, Finish, Continue, storeVars
  <2>3. /\ \A q \in LockReqs : q # r => lockReq'[q] = lockReq[q]
        /\ lockReq'[r].pc \in {"idle", "recordAcquired"}
        /\ \/ active[s][u] > 0
           \/ InProgress(r, s, u)' /\ lockReq'[r].pc = "recordAcquired"
    <3>1. \A q \in LockReqs : q # r => lockReq'[q] = lockReq[q]
      BY <1>0, <2>2
    <3>2. CASE active[s][u] > 0
      BY <1>0, <2>2, <3>1, <3>2 DEF Idle
    <3>3. CASE ~(active[s][u] > 0)
      <4>1. lockReq'[r] = [pc |-> "recordAcquired", seat |-> s, user |-> u]
        BY <1>0, <2>2, <3>3
      <4> QED
        BY <3>1, <4>1 DEF InProgress, Idle
    <3> QED
      BY <3>2, <3>3
  <2> QED
    BY <1>5, <2>1, <2>2, <2>3
<1>7. CASE RecordAcquired(r)
  <2>1. PICK s \in Seats, u \in Users : s = lockReq[r].seat /\ u = lockReq[r].user
    BY <1>1, <1>7 DEF RecordAcquired, At
  <2>2. /\ lockReq[r].pc = "recordAcquired" /\ lock' = lock
        /\ active' = [active EXCEPT ![s][u] =
                         IF active[s][u] < MaxRows THEN active[s][u] + 1 ELSE MaxRows]
        /\ lockReq' = [lockReq EXCEPT ![r] = Idle]
    BY <1>7, <2>1 DEF RecordAcquired, At, Finish, storeVars
  <2>3. /\ active'[s][u] > 0
        /\ \A t \in Seats, v \in Users : <<t, v>> # <<s, u>> => active'[t][v] = active[t][v]
    BY <1>0, <2>2, LockAssumption
  <2>4. /\ \A q \in LockReqs : q # r => lockReq'[q] = lockReq[q]
        /\ lockReq'[r].pc = "idle"
    BY <1>0, <2>2 DEF Idle
  <2> QED
    BY <1>5, <2>1, <2>2, <2>3, <2>4
<1>8. CASE RecordReleased(r)
  <2>1. PICK s \in Seats, u \in Users : s = lockReq[r].seat /\ u = lockReq[r].user
    BY <1>1, <1>8 DEF RecordReleased, At
  <2>2. /\ lockReq[r].pc = "recordReleased" /\ lock' = lock
        /\ active' = [active EXCEPT ![s][u] = 0]
        /\ lockReq' = [lockReq EXCEPT ![r] = Idle]
    BY <1>8, <2>1 DEF RecordReleased, At, Finish, storeVars
  <2>3. lock[s] # u
    BY <1>0, <2>1, <2>2 DEF ReleasedStays, At
  <2>4. \A t \in Seats, v \in Users : <<t, v>> # <<s, u>> => active'[t][v] = active[t][v]
    BY <1>0, <2>2
  <2>5. /\ \A q \in LockReqs : q # r => lockReq'[q] = lockReq[q]
        /\ lockReq'[r].pc = "idle"
    BY <1>0, <2>2 DEF Idle
  <2> QED
    BY <1>5, <2>1, <2>2, <2>3, <2>4, <2>5
<1>9. ~AuditLost(r)
  BY DEF AuditLost
<1> QED
  BY <1>2, <1>3, <1>4, <1>6, <1>7, <1>8, <1>9 DEF LockStep

\* If no audit write fails and no user has two requests for one seat at a time, the
\* rows keep up with the holds: recordReleased, which closes every ACTIVE row of seat
\* and user, then closes no row of the next hold.  It takes both conditions.
THEOREM AuditKeepsUp ==
  ASSUME "audit" \notin Faults
  PROVE  SLSpec /\ []OneAtATime => []HoldsAreAudited
<1>1. SLInit => AuditInv
  BY SLInitOK, StoreAssumption
     DEF SLInit, StoreInit, LockInit, AuditInv, HoldsAreAudited, ReleasedStays, At, Idle
<1>2. ASSUME AuditInv, OneAtATime, OneAtATime', [SLNext]_slVars
      PROVE  AuditInv'
  <2>1. SLOK'
    BY <1>2, SLNextOK DEF AuditInv
  <2>2. CASE \E r \in LockReqs : LockStep(r)
    BY <1>2, <2>1, <2>2, LockStepAudits DEF AuditInv
  <2>3. CASE Tick
    <3>1. /\ UNCHANGED <<lockReq, active>>
          /\ \A s \in Seats : lock'[s] \in {lock[s], NoUser}
          /\ lockReq \in [LockReqs -> LockRequests]
      BY <1>2, <2>3 DEF Tick, Elapse, lockVars, AuditInv, SLOK, SLTypeOK, LockTypeOK
    <3>2. HoldsAreAudited'
      BY <1>2, <3>1, StoreAssumption DEF AuditInv, HoldsAreAudited, InProgress
    <3>3. ReleasedStays'
      <4> SUFFICES ASSUME NEW r \in LockReqs, lockReq[r].pc = "recordReleased"
                   PROVE  lock'[lockReq[r].seat] # lockReq[r].user
        BY <3>1 DEF ReleasedStays, At
      <4>1. lockReq[r].seat \in Seats /\ lockReq[r].user \in Users
        BY <3>1 DEF LockRequests, Idle
      <4> QED
        BY <1>2, <3>1, <4>1, StoreAssumption DEF AuditInv, ReleasedStays, At
    <3> QED
      BY <2>1, <3>2, <3>3 DEF AuditInv
  <2>4. CASE UNCHANGED slVars
    BY <1>2, <2>1, <2>4 DEF slVars, AuditInv, HoldsAreAudited, ReleasedStays, InProgress, At
  <2> QED
    BY <1>2, <2>2, <2>3, <2>4 DEF SLNext
<1>3. AuditInv => HoldsAreAudited
  BY DEF AuditInv
<1> QED
  BY <1>1, <1>2, <1>3, PTL DEF SLSpec

=============================================================================
