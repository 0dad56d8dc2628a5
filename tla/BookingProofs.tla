---------------------------- MODULE BookingProofs ----------------------------
(***************************************************************************)
(* For any number of users, seats, orders, keys, processes and handlers,   *)
(* any window, every fault and every client behaviour unless a theorem     *)
(* says otherwise: the safety of orders, timers and holds.                                 *)
(*                                                                         *)
(* BInv is the inductive invariant.  What makes it inductive, and what the *)
(* properties do not say themselves:                                       *)
(*   RequestInv  which requests have an order in the table;                *)
(*   KeyInv      the unique index, open transactions included;             *)
(*   TimerInv    a message stays in delay.q at least until expiresAt;      *)
(*   WorkerInv   a message being handled has one delivery that counts, and *)
(*               what the handler has done so far shows in the order.  It  *)
(*               is unacknowledged as long as no answer went astray, which *)
(*               takes a connection that was lost under a handler.         *)
(***************************************************************************)
EXTENDS Booking, SeatLockProofs

\* An order is in the table from its commit on, and a request has an owner.
RequestInv ==
    \A o \in OrderIds :
        /\ status[o] = "none" <=> request[o].pc \notin {"publish", "done"}
        /\ request[o].pc # "idle" => request[o].user \in Users /\ request[o].key \in Keys

\* A row that the unique index sees: committed, or in an open transaction.
Indexed(o) == request[o].pc \in {"extend", "commit", "publish", "done"}

KeyInv ==
    \A o, p \in OrderIds : Indexed(o) /\ Indexed(p) => ~SameKey(o, p)

TimerInv ==
    \A o \in OrderIds :
        /\ msg[o] # "none" => request[o].pc = "done"
        /\ msg[o] = "delay" => left[o] <= wait[o]
        /\ msg[o] \notin {"none", "delay"} => left[o] = 0
        /\ msg[o] = "acked" => status[o] \in {"EXPIRED", "PAID"} \/ "connection" \in Faults
        /\ msg[o] = "dropped" => "handler" \in Faults
        /\ msg[o] = "none" /\ request[o].pc = "done" => "publish" \in Faults

Busy(w) == worker[w].pc # "idle"

WorkerInv ==
    \A w \in Workers : Busy(w) =>
        /\ worker[w].order \in OrderIds
        /\ msg[worker[w].order] \notin {"none", "delay"}
        /\ ~worker[w].stale => msg[worker[w].order] \in {"taken", "acked", "dropped"}
        /\ "connection" \notin Faults => ~worker[w].stale /\ msg[worker[w].order] = "taken"
        /\ worker[w].todo \subseteq request[worker[w].order].seats
        /\ worker[w].pc \in {"release", "audit"} => status[worker[w].order] = "EXPIRED"
        /\ worker[w].pc = "ack" => status[worker[w].order] \in {"EXPIRED", "PAID"}
        /\ \A v \in Workers :
              Busy(v) /\ v # w /\ worker[v].order = worker[w].order =>
                  /\ worker[v].stale \/ worker[w].stale
                  /\ worker[v].pc \in {"release", "audit"} =>
                        worker[w].pc \notin {"release", "audit"}

\* An idle worker has no order.
IdleInv == \A w \in Workers : ~Busy(w) => worker[w].order = NoOrder

BInv == TypeOK /\ StoreInv /\ RequestInv /\ KeyInv /\ TimerInv /\ WorkerInv /\ IdleInv

-----------------------------------------------------------------------------
(* With ordinary clients only.                                             *)

\* A user has open orders over the same seat only with the same key.
SeatKeyInv ==
    \A o, p \in OrderIds, u \in Users, s \in Seats :
        Open(o) /\ Open(p) /\ Over(o, u, s) /\ Over(p, u, s) => request[o].key = request[p].key

HoldInv == SeatKeyInv /\ OrderKeepsHold

-----------------------------------------------------------------------------
(* The store and the seat-lock component under Booking's steps.            *)

\* The initial state.
LEMMA InitOK == Init => BInv
<1> SUFFICES ASSUME Init PROVE BInv
  OBVIOUS
<1> USE DEF Init
<1>1. SLTypeOK /\ StoreInv
  BY SLInitOK DEF SLOK
<1>2. BookingTypeOK
  BY StoreAssumption DEF BookingTypeOK, Requests, Works, NoRequest, RequestSteps, NoWork, WorkSteps
<1>3. RequestInv /\ KeyInv
  BY DEF RequestInv, KeyInv, Indexed, NoRequest
<1>4. TimerInv /\ WorkerInv /\ IdleInv
  BY DEF TimerInv, WorkerInv, IdleInv, Busy, NoRequest, NoWork
<1> QED
  BY <1>1, <1>2, <1>3, <1>4 DEF BInv, TypeOK

\* A lock request inside Booking is a request of the seat-lock component.
LEMMA LockRequestStep ==
  ASSUME NEW r \in LockReqs, LockRequest(r)
  PROVE  LockStep(r) /\ UNCHANGED bookingVars
BY DEF LockRequest, LockStep

\* Who changes the store: the seat-lock component, time, EXTEND_LUA in a
\* transaction, and the worker.  Everything else leaves it alone.
LEMMA StoreSteps ==
  ASSUME [Next]_vars
  PROVE  \/ SLNext
         \/ UNCHANGED slVars
         \/ \E o \in OrderIds : ExtendHold(o)
         \/ \E w \in Workers, s \in Seats : ReleaseHold(w, s)
         \/ \E w \in Workers : ExpireAudit(w)
<1>1. ASSUME NEW r \in LockReqs, LockRequest(r)
      PROVE  SLNext
  BY <1>1, LockRequestStep DEF SLNext
<1>2. ASSUME NEW o \in OrderIds, RequestStep(o)
      PROVE  UNCHANGED slVars \/ ExtendHold(o)
  <2>1. ASSUME NEW u \in Users, NEW k \in Keys, NEW S \in SUBSET Seats, Verify(o, u, k, S)
        PROVE  UNCHANGED slVars
    BY <2>1 DEF Verify
  <2>2. CASE Price(o) \/ Insert(o) \/ Commit(o) \/ Publish(o) \/ PublishFails(o)
    BY <2>2 DEF Price, Insert, Commit, Publish, PublishFails
  <2>3. CASE NotPriceable(o) \/ HoldLost(o) \/ Replay(o) \/ RequestFails(o)
    BY <2>3 DEF NotPriceable, HoldLost, Replay, RequestFails, Drop
  <2> QED
    BY <1>2, <2>1, <2>2, <2>3 DEF RequestStep
<1>3. ASSUME NEW o \in OrderIds, DeadLetter(o) \/ Requeue(o) \/ PayOutOfBand(o)
      PROVE  UNCHANGED slVars
  BY <1>3 DEF DeadLetter, Requeue, PayOutOfBand
<1>4. ASSUME NEW w \in Workers, WorkStep(w)
      PROVE  \/ UNCHANGED slVars
             \/ \E s \in Seats : ReleaseHold(w, s)
             \/ ExpireAudit(w)
  BY <1>4 DEF WorkStep, Deliver, Expire, Ack, WorkerFails, ConnectionLost
<1>5. CASE Time
  BY <1>5 DEF Time, SLNext
<1>6. CASE UNCHANGED vars
  BY <1>6 DEF vars, slVars
<1>7. ASSUME NEW p \in Processes, ProcessCrashes(p)
      PROVE  UNCHANGED slVars
  BY <1>7 DEF ProcessCrashes
<1>8. CASE Next
  BY <1>1, <1>2, <1>3, <1>4, <1>5, <1>7, <1>8 DEF Next
<1> QED
  BY <1>6, <1>8

\* The order a worker handles has an owner, and the seats it gives back are
\* the order's.
LEMMA WorkerOrder ==
  ASSUME BInv, NEW w \in Workers, Busy(w)
  PROVE  /\ worker[w].order \in OrderIds
         /\ request[worker[w].order].pc = "done"
         /\ request[worker[w].order].user \in Users
         /\ request[worker[w].order].seats \subseteq Seats
         /\ left[worker[w].order] = 0
<1> DEFINE o == worker[w].order
<1>1. o \in OrderIds /\ msg[o] \notin {"none", "delay"}
  BY DEF BInv, WorkerInv
<1>2. request[o].pc = "done" /\ left[o] = 0
  BY <1>1 DEF BInv, TimerInv
<1>3. request[o].user \in Users
  BY <1>1, <1>2 DEF BInv, RequestInv
<1> QED
  BY <1>1, <1>2, <1>3 DEF BInv, TypeOK, BookingTypeOK, Requests

\* The seat-lock component stays consistent under Booking's steps.
LEMMA SLOKNext ==
  ASSUME BInv, [Next]_vars
  PROVE  SLOK'
<1>1. SLOK /\ StoreOK /\ LockTypeOK
  BY DEF BInv, TypeOK, SLOK, SLTypeOK, StoreOK
<1>2. CASE SLNext \/ UNCHANGED slVars
  BY <1>1, <1>2, SLNextOK
<1>3. ASSUME NEW o \in OrderIds, ExtendHold(o)
      PROVE  SLOK'
  <2>1. request[o].seats \subseteq Seats /\ request[o].user \in Users
    BY <1>3 DEF BInv, TypeOK, BookingTypeOK, Requests, RequestInv, ExtendHold, Asks
  <2>2. StoreOK'
    BY <1>1, <1>3, <2>1, ExtendOK DEF ExtendHold
  <2> QED
    BY <1>1, <1>3, <2>2 DEF ExtendHold, lockVars, LockTypeOK, SLOK, SLTypeOK, StoreOK
<1>4. ASSUME NEW w \in Workers, NEW s \in Seats, ReleaseHold(w, s)
      PROVE  SLOK'
  <2> DEFINE u == request[worker[w].order].user
  <2>1. u \in Users
    BY <1>4, WorkerOrder DEF ReleaseHold, WorkAt, Busy
  <2>2. StoreOK'
    <3>1. CASE Release(s, u)
      BY <1>1, <2>1, <3>1, ReleaseOK
    <3>2. CASE ReleaseRefused(s, u)
      BY <1>1, <3>2 DEF ReleaseRefused, storeVars, StoreOK, StoreTypeOK, StoreInv,
                        LeaseInv, MembershipInv, QuotaInv
    <3> QED
      BY <1>4, <3>1, <3>2 DEF ReleaseHold
  <2> QED
    BY <1>1, <1>4, <2>2 DEF ReleaseHold, lockVars, LockTypeOK, SLOK, SLTypeOK, StoreOK
<1>5. ASSUME NEW w \in Workers, ExpireAudit(w)
      PROVE  SLOK'
  <2>1. \A s \in Seats : \A u : [active[s] EXCEPT ![u] = 0] \in [Users -> 0..MaxRows]
    <3> SUFFICES ASSUME NEW s \in Seats, NEW u
                 PROVE  [active[s] EXCEPT ![u] = 0] \in [Users -> 0..MaxRows]
      OBVIOUS
    <3>1. active[s] \in [Users -> 0..MaxRows] /\ 0 \in 0..MaxRows
      BY <1>1, LockAssumption DEF SLOK, SLTypeOK, LockTypeOK
    <3> QED
      BY <3>1
  <2>2. LockTypeOK'
    BY <1>1, <1>5, <2>1 DEF ExpireAudit, SLOK, SLTypeOK, LockTypeOK
  <2> QED
    BY <1>1, <1>5, <2>2 DEF ExpireAudit, storeVars, SLOK, SLTypeOK, StoreOK, StoreTypeOK,
                            StoreInv, LeaseInv, MembershipInv, QuotaInv
<1> QED
  BY <1>2, <1>3, <1>4, <1>5, StoreSteps

-----------------------------------------------------------------------------
(* The order side under Booking's steps.                                   *)

\* A worker's record with another list of seats and another step.
LEMMA WorkWith ==
  ASSUME NEW k \in Works, NEW todo, NEW pc
  PROVE  [[k EXCEPT !.todo = todo] EXCEPT !.pc = pc]
            = [pc |-> pc, order |-> k.order, todo |-> todo, stale |-> k.stale]
<1> DEFINE mid == [pc |-> k.pc, order |-> k.order, todo |-> todo, stale |-> k.stale]
<1>1. [k EXCEPT !.todo = todo] = mid
  BY DEF Works
<1>2. [mid EXCEPT !.pc = pc] = [pc |-> pc, order |-> k.order, todo |-> todo, stale |-> k.stale]
  OBVIOUS
<1> QED
  BY <1>1, <1>2

\* Giving a seat back takes it off the worker's list and leaves the rest of its work.
LEMMA ReleaseHoldWork ==
  ASSUME worker \in [Workers -> Works], NEW w \in Workers, NEW s \in Seats, ReleaseHold(w, s)
  PROVE  /\ worker' \in [Workers -> Works]
         /\ worker' = [worker EXCEPT ![w] = worker'[w]]
         /\ worker'[w].order = worker[w].order
         /\ worker'[w].stale = worker[w].stale
         /\ worker'[w].todo = worker[w].todo \ {s}
         /\ worker[w].pc = "release" /\ worker'[w].pc \in {"release", "audit"}
<1> DEFINE k == worker[w]
           todo == k.todo \ {s}
           pc == IF k.todo = {s} THEN "audit" ELSE k.pc
           x == [pc |-> pc, order |-> k.order, todo |-> todo, stale |-> k.stale]
<1>1. k \in Works
  OBVIOUS
<1>2. k.pc = "release" /\ k.todo \subseteq Seats
  BY <1>1 DEF ReleaseHold, WorkAt, Works
<1>3. [[k EXCEPT !.todo = todo] EXCEPT !.pc = pc] = x
  BY <1>1, WorkWith
<1>4. worker' = [worker EXCEPT ![w] = [[k EXCEPT !.todo = todo] EXCEPT !.pc = pc]]
  BY DEF ReleaseHold
<1>5. worker' = [worker EXCEPT ![w] = x]
  BY <1>3, <1>4
<1>6. x \in Works
  BY <1>1, <1>2 DEF Works, WorkSteps
<1>7. x.order = k.order /\ x.stale = k.stale /\ x.todo = k.todo \ {s} /\ x.pc \in {"release", "audit"}
  BY <1>2
<1> HIDE DEF x
<1>8. worker' \in [Workers -> Works] /\ worker'[w] = x
  BY <1>5, <1>6
<1>9. worker' = [worker EXCEPT ![w] = worker'[w]]
  BY <1>5, <1>8
<1> QED
  BY <1>2, <1>7, <1>8, <1>9

\* When a process dies its handlers are gone and the others go on.
LEMMA DiesShape ==
  ASSUME worker \in [Workers -> Works], NEW p, Dies(p)
  PROVE  /\ worker' \in [Workers -> Works]
         /\ \A v \in Workers : worker'[v] = IF v \in Of(p) THEN NoWork ELSE worker[v]
<1>1. NoWork \in Works
  BY DEF NoWork, Works, WorkSteps
<1> QED
  BY <1>1 DEF Dies

\* What an answer does: it settles one message that somebody is waited for, the
\* answering delivery itself unless it is stale, or it ends the process.
LEMMA SettleShape ==
  ASSUME worker \in [Workers -> Works], NEW w \in Workers, NEW how, Settle(w, how)
  PROVE  /\ worker' \in [Workers -> Works]
         /\ worker'[w] = NoWork
         /\ \A v \in Workers : worker'[v] \in {worker[v], NoWork}
         /\ \/ UNCHANGED msg /\ Dies(w[1]) /\ ~Awaited(w, worker[w].order)
            \/ \E o \in OrderIds, v \in Workers :
                  /\ msg' = [msg EXCEPT ![o] = how]
                  /\ worker' = [worker EXCEPT ![w] = NoWork]
                  /\ Awaited(v, o) /\ v[1] = w[1] /\ (v = w \/ worker[w].stale)
<1>1. NoWork \in Works
  BY DEF NoWork, Works, WorkSteps
<1>2. w \in Of(w[1])
  BY DEF Of
<1>3. CASE UNCHANGED msg /\ Dies(w[1]) /\ ~Awaited(w, worker[w].order)
  BY <1>2, <1>3, DiesShape
<1>4. ASSUME NEW o \in Answers(w), msg' = [msg EXCEPT ![o] = how], Leave(w)
      PROVE  \E v \in Workers : /\ o \in OrderIds /\ Awaited(v, o) /\ v[1] = w[1]
                                /\ v = w \/ worker[w].stale
  BY <1>4 DEF Answers, Of
<1>5. ASSUME NEW o \in Answers(w), msg' = [msg EXCEPT ![o] = how], Leave(w)
      PROVE  /\ worker' \in [Workers -> Works]
             /\ worker'[w] = NoWork
             /\ \A v \in Workers : worker'[v] \in {worker[v], NoWork}
  BY <1>1, <1>5 DEF Leave
<1> QED
  BY <1>3, <1>4, <1>5 DEF Settle, Leave

\* Moving a request on keeps the request table typed.
LEMMA GotoTyped ==
  ASSUME request \in [OrderIds -> Requests], NEW o \in OrderIds,
         NEW pc \in RequestSteps, Goto(o, pc)
  PROVE  request' \in [OrderIds -> Requests]
BY DEF Goto, Requests

\* A timer that runs down stays in its range.
LEMMA LessTyped ==
  ASSUME NEW timer \in [OrderIds -> 0..BookingWindow]
  PROVE  Less(timer) \in [OrderIds -> 0..BookingWindow]
BY StoreAssumption DEF Less

\* Types of the order side.
LEMMA BookingTyped ==
  ASSUME BInv, [Next]_vars
  PROVE  BookingTypeOK'
<1> USE StoreAssumption
<1>0. BookingTypeOK
  BY DEF BInv, TypeOK
<1> USE DEF BookingTypeOK
<1>1. ASSUME NEW r \in LockReqs, LockRequest(r)
      PROVE  BookingTypeOK'
  BY <1>0, <1>1, LockRequestStep DEF bookingVars
<1>2. ASSUME NEW o \in OrderIds, RequestStep(o)
      PROVE  BookingTypeOK'
  <2>1. ASSUME NEW u \in Users, NEW k \in Keys, NEW S \in SUBSET Seats, Verify(o, u, k, S)
        PROVE  BookingTypeOK'
    BY <1>0, <2>1 DEF Verify, Requests, RequestSteps, timerVars
  <2>2. CASE Price(o)
    BY <1>0, <2>2, GotoTyped DEF Price, RequestSteps, timerVars
  <2>3. CASE NotPriceable(o) \/ HoldLost(o) \/ Replay(o) \/ RequestFails(o)
    <3>1. Drop(o)
      BY <2>3 DEF NotPriceable, HoldLost, Replay, RequestFails
    <3> QED
      BY <1>0, <3>1 DEF Drop, NoRequest, Requests, RequestSteps, timerVars
  <2>4. CASE Insert(o)
    BY <1>0, <2>4, GotoTyped DEF Insert, RequestSteps, timerVars
  <2>5. CASE ExtendHold(o)
    BY <1>0, <2>5, GotoTyped DEF ExtendHold, RequestSteps, timerVars
  <2>6. CASE Commit(o)
    BY <1>0, <2>6, GotoTyped DEF Commit, RequestSteps, timerVars
  <2>7. CASE Publish(o)
    BY <1>0, <2>7, GotoTyped DEF Publish, RequestSteps
  <2>8. CASE PublishFails(o)
    BY <1>0, <2>8, GotoTyped DEF PublishFails, RequestSteps, timerVars
  <2> QED
    BY <1>2, <2>1, <2>2, <2>3, <2>4, <2>5, <2>6, <2>7, <2>8 DEF RequestStep
<1>3. ASSUME NEW o \in OrderIds, DeadLetter(o) \/ Requeue(o) \/ PayOutOfBand(o)
      PROVE  BookingTypeOK'
  BY <1>0, <1>3 DEF DeadLetter, Requeue, PayOutOfBand, orderVars, timerVars
<1>4. ASSUME NEW w \in Workers, WorkStep(w)
      PROVE  BookingTypeOK'
  <2>1. ASSUME NEW o \in OrderIds, Deliver(w, o)
        PROVE  BookingTypeOK'
    BY <1>0, <2>1 DEF Deliver, Works, WorkSteps, orderVars
  <2>2. CASE Expire(w)
    <3>1. request[worker[w].order].seats \subseteq Seats
      BY <2>2, WorkerOrder DEF Expire, WorkAt, Busy
    <3> QED
      BY <1>0, <2>2, <3>1 DEF Expire, Works, WorkSteps, timerVars
  <2>3. ASSUME NEW s \in Seats, ReleaseHold(w, s)
        PROVE  BookingTypeOK'
    <3>1. worker' \in [Workers -> Works]
      BY <1>0, <2>3, ReleaseHoldWork
    <3> QED
      BY <1>0, <2>3, <3>1 DEF ReleaseHold, orderVars, timerVars
  <2>4. CASE ExpireAudit(w)
    BY <1>0, <2>4 DEF ExpireAudit, Works, WorkSteps, orderVars, timerVars
  <2>5. CASE Ack(w) \/ WorkerFails(w)
    <3>1. PICK how \in {"acked", "dropped"} : Settle(w, how)
      BY <2>5 DEF Ack, WorkerFails
    <3>2. worker' \in [Workers -> Works]
      BY <1>0, <3>1, SettleShape
    <3>3. msg' \in [OrderIds -> {"none", "delay", "work", "taken", "acked", "dropped"}]
      BY <1>0, <3>1 DEF Settle
    <3>4. UNCHANGED <<orderVars, wait>>
      BY <2>5 DEF Ack, WorkerFails
    <3> QED
      BY <1>0, <3>2, <3>3, <3>4 DEF orderVars
  <2>6. CASE ConnectionLost(w)
    BY <1>0, <2>6 DEF ConnectionLost, Works, orderVars, timerVars
  <2> QED
    BY <1>4, <2>1, <2>2, <2>3, <2>4, <2>5, <2>6 DEF WorkStep
<1>5. CASE Time
  <2>1. Less(left) \in [OrderIds -> 0..BookingWindow]
    BY <1>0, LessTyped
  <2>2. Less(wait) \in [OrderIds -> 0..BookingWindow]
    BY <1>0, LessTyped
  <2> QED
    BY <1>0, <1>5, <2>1, <2>2 DEF Time
<1>6. CASE UNCHANGED vars
  BY <1>0, <1>6 DEF vars
<1>7. ASSUME NEW p \in Processes, ProcessCrashes(p)
      PROVE  BookingTypeOK'
  BY <1>0, <1>7, DiesShape DEF ProcessCrashes, orderVars, timerVars
<1>8. CASE Next
  BY <1>1, <1>2, <1>3, <1>4, <1>5, <1>7, <1>8 DEF Next
<1> QED
  BY <1>6, <1>8

\* Steps of lock requests, workers, the broker and time leave requests alone,
\* put no order into the table, take none out and make none PENDING.
LEMMA RequestUntouched ==
  ASSUME BookingTypeOK, [Next]_vars, ~ \E o \in OrderIds : RequestStep(o)
  PROVE  /\ UNCHANGED request
         /\ \A o \in OrderIds : /\ status'[o] = "none" <=> status[o] = "none"
                                /\ status'[o] = "PENDING" => status[o] = "PENDING"
<1> DEFINE SameTable ==
      \A o \in OrderIds : /\ status'[o] = "none" <=> status[o] = "none"
                          /\ status'[o] = "PENDING" => status[o] = "PENDING"
<1>1. ASSUME NEW r \in LockReqs, LockRequest(r)
      PROVE  UNCHANGED request /\ SameTable
  BY <1>1, LockRequestStep DEF bookingVars
<1>2. ASSUME NEW o \in OrderIds, DeadLetter(o) \/ Requeue(o) \/ PayOutOfBand(o)
      PROVE  UNCHANGED request /\ SameTable
  BY <1>2 DEF DeadLetter, Requeue, PayOutOfBand, orderVars, BookingTypeOK
<1>3. ASSUME NEW w \in Workers, WorkStep(w)
      PROVE  UNCHANGED request /\ SameTable
  <2>1. CASE Expire(w)
    BY <2>1 DEF Expire, BookingTypeOK
  <2>2. CASE ~Expire(w)
    BY <1>3, <2>2 DEF WorkStep, Deliver, ReleaseHold, ExpireAudit, Ack, WorkerFails,
                      ConnectionLost, orderVars
  <2> QED
    BY <2>1, <2>2
<1>4. CASE Time
  BY <1>4 DEF Time
<1>5. CASE UNCHANGED vars
  BY <1>5 DEF vars
<1>6. ASSUME NEW p \in Processes, ProcessCrashes(p)
      PROVE  UNCHANGED request /\ SameTable
  BY <1>6 DEF ProcessCrashes, orderVars
<1>7. CASE Next
  BY <1>1, <1>2, <1>3, <1>4, <1>6, <1>7 DEF Next
<1> QED
  BY <1>5, <1>7

\* Requests, the order table and the unique index stay in agreement.
LEMMA RequestKeyNext ==
  ASSUME BInv, [Next]_vars
  PROVE  RequestInv' /\ KeyInv'
<1>0. /\ BookingTypeOK /\ RequestInv /\ KeyInv
      /\ request \in [OrderIds -> Requests]
  BY DEF BInv, TypeOK, BookingTypeOK
<1>1. ASSUME NEW o \in OrderIds, RequestStep(o)
      PROVE  RequestInv' /\ KeyInv'
  <2> USE DEF RequestInv, KeyInv, Indexed, SameKey
  <2>1. ASSUME NEW u \in Users, NEW k \in Keys, NEW S \in SUBSET Seats, Verify(o, u, k, S)
        PROVE  RequestInv' /\ KeyInv'
    BY <1>0, <2>1 DEF Verify, Asks
  <2>2. CASE Price(o)
    BY <1>0, <2>2 DEF Price, Goto, Asks, Requests
  <2>3. CASE NotPriceable(o) \/ HoldLost(o) \/ Replay(o) \/ RequestFails(o)
    <3>1. Drop(o) /\ request[o].pc \notin {"publish", "done"}
      BY <2>3 DEF NotPriceable, HoldLost, Replay, RequestFails, Asks
    <3> QED
      BY <1>0, <3>1 DEF Drop, NoRequest
  <2>4. CASE Insert(o)
    <3>1. KeyInv'
      BY <1>0, <2>4 DEF Insert, Goto, Asks, Requests, KeyCommitted, KeyInOpenTx, OpenTx
    <3>2. RequestInv'
      BY <1>0, <2>4 DEF Insert, Goto, Asks, Requests
    <3> QED
      BY <3>1, <3>2
  <2>5. CASE ExtendHold(o)
    BY <1>0, <2>5 DEF ExtendHold, Goto, Asks, Requests
  <2>6. CASE Commit(o)
    BY <1>0, <2>6 DEF Commit, Goto, Asks, Requests, BookingTypeOK
  <2>7. CASE Publish(o)
    BY <1>0, <2>7 DEF Publish, Goto, Asks, Requests
  <2>8. CASE PublishFails(o)
    BY <1>0, <2>8 DEF PublishFails, Goto, Asks, Requests
  <2> QED
    BY <1>1, <2>1, <2>2, <2>3, <2>4, <2>5, <2>6, <2>7, <2>8 DEF RequestStep
<1>2. CASE ~ \E o \in OrderIds : RequestStep(o)
  <2>1. /\ UNCHANGED request
        /\ \A o \in OrderIds : status'[o] = "none" <=> status[o] = "none"
    BY <1>0, <1>2, RequestUntouched
  <2> QED
    BY <1>0, <2>1 DEF RequestInv, KeyInv, Indexed, SameKey
<1> QED
  BY <1>1, <1>2

\* Messages, their delays and the orders they are for stay in agreement.
LEMMA TimerNext ==
  ASSUME BInv, [Next]_vars
  PROVE  TimerInv'
<1>0. BookingTypeOK /\ RequestInv /\ TimerInv
  BY DEF BInv, TypeOK
<1>1. ASSUME NEW r \in LockReqs, LockRequest(r)
      PROVE  TimerInv'
  BY <1>0, <1>1, LockRequestStep DEF bookingVars, TimerInv
<1>2. ASSUME NEW o \in OrderIds, RequestStep(o)
      PROVE  TimerInv'
  <2>0. request \in [OrderIds -> Requests]
    BY <1>0 DEF BookingTypeOK
  <2> USE DEF TimerInv
  <2>1. ASSUME NEW u \in Users, NEW k \in Keys, NEW S \in SUBSET Seats, Verify(o, u, k, S)
        PROVE  TimerInv'
    BY <1>0, <2>0, <2>1 DEF Verify, Asks, timerVars
  <2>2. CASE Price(o)
    BY <1>0, <2>0, <2>2 DEF Price, Goto, Asks, Requests, timerVars, BookingTypeOK
  <2>3. CASE NotPriceable(o) \/ HoldLost(o) \/ Replay(o) \/ RequestFails(o)
    <3>1. Drop(o) /\ request[o].pc \notin {"publish", "done"}
      BY <2>3 DEF NotPriceable, HoldLost, Replay, RequestFails, Asks
    <3> QED
      BY <1>0, <2>0, <3>1 DEF Drop, NoRequest, timerVars, BookingTypeOK
  <2>4. CASE Insert(o)
    BY <1>0, <2>0, <2>4 DEF Insert, Goto, Asks, Requests, timerVars
  <2>5. CASE ExtendHold(o)
    BY <1>0, <2>0, <2>5 DEF ExtendHold, Goto, Asks, Requests, timerVars
  <2>6. CASE Commit(o)
    BY <1>0, <2>0, <2>6 DEF Commit, Goto, Asks, Requests, timerVars, BookingTypeOK
  <2>7. CASE Publish(o)
    BY <1>0, <2>0, <2>7, StoreAssumption DEF Publish, Goto, Asks, Requests, BookingTypeOK
  <2>8. CASE PublishFails(o)
    BY <1>0, <2>0, <2>8 DEF PublishFails, Goto, Asks, Requests, timerVars
  <2> QED
    BY <1>2, <2>1, <2>2, <2>3, <2>4, <2>5, <2>6, <2>7, <2>8 DEF RequestStep
<1>3. ASSUME NEW o \in OrderIds, DeadLetter(o) \/ Requeue(o)
      PROVE  TimerInv'
  BY <1>0, <1>3 DEF DeadLetter, Requeue, orderVars, BookingTypeOK, TimerInv
<1>4. ASSUME NEW o \in OrderIds, PayOutOfBand(o)
      PROVE  TimerInv'
  BY <1>0, <1>4 DEF PayOutOfBand, timerVars, BookingTypeOK, TimerInv
<1>5. ASSUME NEW w \in Workers, WorkStep(w)
      PROVE  TimerInv'
  <2> USE DEF TimerInv
  <2>1. ASSUME NEW o \in OrderIds, Deliver(w, o)
        PROVE  TimerInv'
    BY <1>0, <2>1 DEF Deliver, orderVars, BookingTypeOK
  <2>2. CASE Expire(w)
    BY <1>0, <2>2 DEF Expire, timerVars, BookingTypeOK
  <2>3. CASE (\E s \in Seats : ReleaseHold(w, s)) \/ ExpireAudit(w)
    BY <1>0, <2>3 DEF ReleaseHold, ExpireAudit, orderVars, timerVars
  <2>4. CASE Ack(w) \/ WorkerFails(w)
    <3>1. PICK how \in {"acked", "dropped"} :
             /\ Settle(w, how) /\ UNCHANGED <<orderVars, wait>>
             /\ how = "acked" => WorkAt(w, "ack")
             /\ how = "dropped" => "handler" \in Faults
      BY <2>4 DEF Ack, WorkerFails
    <3>2. CASE UNCHANGED msg
      BY <1>0, <3>1, <3>2 DEF orderVars
    <3>3. ASSUME NEW o \in OrderIds, NEW v \in Workers, Awaited(v, o),
                 v = w \/ worker[w].stale, msg' = [msg EXCEPT ![o] = how]
          PROVE  TimerInv'
      <4>1. /\ worker[v].order = o /\ msg[o] = "taken" /\ left[o] = 0
            /\ request[o].pc = "done"
        BY <1>0, <3>3 DEF Awaited
      <4>2. how = "acked" => status[o] \in {"EXPIRED", "PAID"} \/ "connection" \in Faults
        BY <3>1, <3>3, <4>1 DEF WorkAt, Busy, BInv, WorkerInv
      <4> QED
        BY <1>0, <3>1, <3>3, <4>1, <4>2 DEF orderVars, BookingTypeOK
    <3>4. worker \in [Workers -> Works]
      BY <1>0 DEF BookingTypeOK
    <3> QED
      BY <3>1, <3>2, <3>3, <3>4, SettleShape
  <2>5. CASE ConnectionLost(w)
    BY <1>0, <2>5 DEF ConnectionLost, orderVars, timerVars
  <2> QED
    BY <1>5, <2>1, <2>2, <2>3, <2>4, <2>5 DEF WorkStep
<1>6. CASE Time
  BY <1>0, <1>6 DEF Time, Less, BookingTypeOK, TimerInv
<1>7. CASE UNCHANGED vars
  BY <1>0, <1>7 DEF vars, TimerInv
<1>8. ASSUME NEW p \in Processes, ProcessCrashes(p)
      PROVE  TimerInv'
  BY <1>0, <1>8 DEF ProcessCrashes, orderVars, timerVars, TimerInv
<1>9. CASE Next
  BY <1>1, <1>2, <1>3, <1>4, <1>5, <1>6, <1>8, <1>9 DEF Next
<1> QED
  BY <1>7, <1>9

\* Deliveries, messages and what the handlers have done stay in agreement.
LEMMA WorkerNext ==
  ASSUME BInv, [Next]_vars
  PROVE  WorkerInv'
<1>0. BookingTypeOK /\ RequestInv /\ TimerInv /\ WorkerInv
  BY DEF BInv, TypeOK
<1>1. ASSUME NEW r \in LockReqs, LockRequest(r)
      PROVE  WorkerInv'
  BY <1>0, <1>1, LockRequestStep DEF bookingVars, WorkerInv, Busy
<1>2. ASSUME NEW o \in OrderIds, RequestStep(o)
      PROVE  WorkerInv'
  <2>0. \A w \in Workers : Busy(w) => request[worker[w].order].pc = "done"
    BY WorkerOrder
  <2>1. CASE Publish(o)
    BY <1>0, <2>0, <2>1 DEF Publish, Goto, Asks, WorkerInv, Busy, BookingTypeOK
  <2>2. CASE ~Publish(o)
    <3>1. UNCHANGED <<msg, worker>>
      BY <1>2, <2>2 DEF RequestStep, Verify, Price, NotPriceable, Insert, ExtendHold,
         HoldLost, Commit, Replay, PublishFails, RequestFails, Drop, timerVars
    <3>2. request[o].pc # "done"
      BY <1>2, <2>2 DEF RequestStep, Verify, Price, NotPriceable, Insert, ExtendHold,
         HoldLost, Commit, Replay, PublishFails, RequestFails, Asks
    <3>3. \A p \in OrderIds : p # o => request'[p] = request[p] /\ status'[p] = status[p]
      BY <1>0, <1>2, <2>2 DEF RequestStep, Verify, Price, NotPriceable, Insert, ExtendHold,
         HoldLost, Commit, Replay, PublishFails, RequestFails, Drop, Goto, BookingTypeOK
    <3> QED
      BY <1>0, <2>0, <3>1, <3>2, <3>3 DEF WorkerInv, Busy
  <2> QED
    BY <2>1, <2>2
<1>3. ASSUME NEW o \in OrderIds, DeadLetter(o)
      PROVE  WorkerInv'
  BY <1>0, <1>3 DEF DeadLetter, orderVars, BookingTypeOK, WorkerInv, Busy
<1>4. ASSUME NEW o \in OrderIds, PayOutOfBand(o)
      PROVE  WorkerInv'
  BY <1>0, <1>4 DEF PayOutOfBand, timerVars, BookingTypeOK, WorkerInv, Busy
<1>5. ASSUME NEW w \in Workers, WorkStep(w)
      PROVE  WorkerInv'
  <2> USE DEF WorkerInv, Busy, WorkAt
  <2>0. worker \in [Workers -> Works]
    BY <1>0 DEF BookingTypeOK
  <2>1. ASSUME NEW o \in OrderIds, Deliver(w, o)
        PROVE  WorkerInv'
    BY <1>0, <2>0, <2>1 DEF Deliver, orderVars, BookingTypeOK
  <2>2. CASE Expire(w)
    <3> DEFINE o == worker[w].order
    <3>1. /\ o \in OrderIds /\ Busy(w)
          /\ UNCHANGED <<request, msg>>
          /\ \A v \in Workers : v # w => worker'[v] = worker[v]
          /\ worker'[w].order = o /\ worker'[w].stale = worker[w].stale
      BY <1>0, <2>0, <2>2 DEF Expire, timerVars, Works
    <3>2. CASE status[o] = "PENDING"
      <4>1. /\ status' = [status EXCEPT ![o] = "EXPIRED"]
            /\ worker'[w].pc = "release" /\ worker'[w].todo = request[o].seats
        BY <2>0, <2>2, <3>2 DEF Expire, Works
      <4> QED
        BY <1>0, <2>0, <3>1, <3>2, <4>1 DEF BookingTypeOK
    <3>3. CASE status[o] # "PENDING"
      <4>1. /\ UNCHANGED status
            /\ worker'[w].pc = "ack" /\ worker'[w].todo = worker[w].todo
        BY <2>0, <2>2, <3>3 DEF Expire, Works
      <4>2. status[o] \in {"EXPIRED", "PAID"}
        <5>1. request[o].pc = "done"
          BY <3>1, WorkerOrder
        <5> QED
          BY <1>0, <3>1, <3>3, <5>1 DEF BookingTypeOK, RequestInv
      <4> QED
        BY <1>0, <2>0, <3>1, <3>3, <4>1, <4>2
    <3> QED
      BY <3>2, <3>3
  <2>3. ASSUME NEW s \in Seats, ReleaseHold(w, s)
        PROVE  WorkerInv'
    <3>1. /\ worker' = [worker EXCEPT ![w] = worker'[w]]
          /\ worker'[w].order = worker[w].order
          /\ worker'[w].stale = worker[w].stale
          /\ worker'[w].todo \subseteq worker[w].todo
          /\ worker[w].pc = "release" /\ worker'[w].pc \in {"release", "audit"}
      BY <2>0, <2>3, ReleaseHoldWork
    <3>2. UNCHANGED <<orderVars, timerVars>>
      BY <2>3 DEF ReleaseHold
    <3> QED
      BY <1>0, <2>0, <3>1, <3>2 DEF orderVars, timerVars
  <2>4. CASE ExpireAudit(w)
    BY <1>0, <2>0, <2>4 DEF ExpireAudit, orderVars, timerVars, Works
  <2>5. CASE Ack(w) \/ WorkerFails(w)
    <3>1. PICK how \in {"acked", "dropped"} : Settle(w, how) /\ UNCHANGED orderVars
      BY <2>5 DEF Ack, WorkerFails
    <3>2. /\ \A v \in Workers : Busy(v)' => v # w /\ worker'[v] = worker[v] /\ Busy(v)
      BY <2>0, <3>1, SettleShape DEF NoWork
    <3>3. CASE UNCHANGED msg
      BY <1>0, <3>1, <3>2, <3>3 DEF orderVars
    <3>4. ASSUME NEW o \in OrderIds, NEW v \in Workers, Awaited(v, o),
                 v = w \/ worker[w].stale, msg' = [msg EXCEPT ![o] = how]
          PROVE  WorkerInv'
      <4>1. msg[o] = "taken" /\ worker[v].order = o /\ ~worker[v].stale
        BY <3>4 DEF Awaited
      <4>2. \A x \in Workers : Busy(x)' =>
               /\ msg'[worker[x].order] \notin {"none", "delay"}
               /\ ~worker[x].stale => msg'[worker[x].order] \in {"taken", "acked", "dropped"}
        BY <1>0, <3>2, <3>4, <4>1 DEF BookingTypeOK
      <4>3. ASSUME NEW x \in Workers, Busy(x)', "connection" \notin Faults
            PROVE  ~worker[x].stale /\ msg'[worker[x].order] = "taken"
        <5>1. ~worker[x].stale /\ msg[worker[x].order] = "taken" /\ Busy(x) /\ x # w
          BY <1>0, <3>2, <4>3
        <5>2. Busy(w) /\ ~worker[w].stale
          BY <1>0, <2>5, <4>3 DEF Ack, WorkerFails
        <5>3. v = w
          BY <3>4, <5>2
        <5>4. worker[x].order # o
          BY <1>0, <4>1, <5>1, <5>2, <5>3
        <5> QED
          BY <1>0, <3>4, <5>1, <5>4 DEF BookingTypeOK
      <4> QED
        BY <1>0, <3>1, <3>2, <4>2, <4>3 DEF orderVars
    <3> QED
      BY <2>0, <3>1, <3>3, <3>4, SettleShape
  <2>6. CASE ConnectionLost(w)
    BY <1>0, <2>0, <2>6 DEF ConnectionLost, orderVars, timerVars, Works
  <2> QED
    BY <1>5, <2>1, <2>2, <2>3, <2>4, <2>5, <2>6 DEF WorkStep
<1>6. CASE Time
  BY <1>0, <1>6 DEF Time, WorkerInv, Busy
<1>7. CASE UNCHANGED vars
  BY <1>0, <1>7 DEF vars, WorkerInv, Busy
<1>8. ASSUME NEW o \in OrderIds, Requeue(o)
      PROVE  WorkerInv'
  <2>1. \A w \in Workers : Busy(w) /\ worker[w].order = o => worker[w].stale
    BY <1>8 DEF Requeue, Awaited
  <2>2. \A w \in Workers : Busy(w) /\ worker[w].order = o => "connection" \in Faults
    BY <1>0, <2>1 DEF WorkerInv
  <2> QED
    BY <1>0, <1>8, <2>1, <2>2 DEF Requeue, orderVars, BookingTypeOK, WorkerInv, Busy
<1>9. ASSUME NEW p \in Processes, ProcessCrashes(p)
      PROVE  WorkerInv'
  <2>1. Dies(p) /\ UNCHANGED <<orderVars, msg>> /\ worker \in [Workers -> Works]
    BY <1>0, <1>9 DEF ProcessCrashes, timerVars, BookingTypeOK
  <2>2. \A v \in Workers : Busy(v)' => worker'[v] = worker[v] /\ Busy(v)
    BY <2>1, DiesShape DEF Busy, NoWork
  <2> QED
    BY <1>0, <2>1, <2>2 DEF WorkerInv, orderVars, Busy
<1>10. CASE Next
  BY <1>1, <1>2, <1>3, <1>4, <1>5, <1>6, <1>8, <1>9, <1>10 DEF Next
<1> QED
  BY <1>7, <1>10

\* A worker takes up an order when it becomes busy and gives it up when it stops.
LEMMA IdleNext ==
  ASSUME BInv, [Next]_vars
  PROVE  IdleInv'
<1>0. IdleInv /\ worker \in [Workers -> Works]
  BY DEF BInv, TypeOK, BookingTypeOK
<1> USE DEF IdleInv, Busy
<1>1. ASSUME NEW w \in Workers, WorkStep(w)
      PROVE  IdleInv'
  <2>1. ASSUME NEW o \in OrderIds, Deliver(w, o)
        PROVE  IdleInv'
    BY <1>0, <2>1 DEF Deliver
  <2>2. CASE Expire(w)
    <3>1. worker'[w].pc # "idle" /\ \A v \in Workers : v # w => worker'[v] = worker[v]
      BY <1>0, <2>2 DEF Expire, Works
    <3> QED
      BY <1>0, <3>1
  <2>3. ASSUME NEW s \in Seats, ReleaseHold(w, s)
        PROVE  IdleInv'
    <3>1. worker' = [worker EXCEPT ![w] = worker'[w]] /\ worker'[w].pc # "idle"
      BY <1>0, <2>3, ReleaseHoldWork
    <3> QED
      BY <1>0, <3>1
  <2>4. CASE ExpireAudit(w) \/ ConnectionLost(w)
    <3>1. worker'[w].pc # "idle" /\ \A v \in Workers : v # w => worker'[v] = worker[v]
      BY <1>0, <2>4 DEF ExpireAudit, ConnectionLost, WorkAt, Works
    <3> QED
      BY <1>0, <3>1
  <2>5. CASE Ack(w) \/ WorkerFails(w)
    <3>1. PICK how : Settle(w, how)
      BY <2>5 DEF Ack, WorkerFails
    <3> QED
      BY <1>0, <3>1, SettleShape DEF NoWork
  <2> QED
    BY <1>1, <2>1, <2>2, <2>3, <2>4, <2>5 DEF WorkStep
<1>2. ASSUME NEW p \in Processes, ProcessCrashes(p)
      PROVE  IdleInv'
  BY <1>0, <1>2, DiesShape DEF ProcessCrashes, NoWork
<1>3. CASE UNCHANGED worker
  BY <1>0, <1>3
<1>4. ASSUME NEW o \in OrderIds,
             RequestStep(o) \/ DeadLetter(o) \/ Requeue(o) \/ PayOutOfBand(o)
      PROVE  UNCHANGED worker
  BY <1>4 DEF RequestStep, Verify, Price, NotPriceable, Insert, ExtendHold, HoldLost, Commit,
     Publish, Replay, PublishFails, RequestFails, Drop, DeadLetter, Requeue, PayOutOfBand
<1>5. ASSUME NEW r \in LockReqs, LockRequest(r)
      PROVE  UNCHANGED worker
  BY <1>5, LockRequestStep DEF bookingVars
<1>6. CASE Time \/ UNCHANGED vars
  BY <1>3, <1>6 DEF Time, vars
<1>7. CASE Next
  BY <1>1, <1>2, <1>3, <1>4, <1>5, <1>6, <1>7 DEF Next
<1> QED
  BY <1>6, <1>7

\* BInv is inductive.
LEMMA BInvNext == BInv /\ [Next]_vars => BInv'
BY SLOKNext, BookingTyped, RequestKeyNext, TimerNext, WorkerNext, IdleNext
   DEF BInv, TypeOK, SLOK

\* BInv is an invariant.
LEMMA BInvAlways == Spec => []BInv
BY InitOK, BInvNext, PTL DEF Spec

-----------------------------------------------------------------------------
(* Safety.                                                                 *)

\* Type correctness of the whole booking system, and consistency of the Redis
\* keys when orders extend and release the locks that requests take.
THEOREM BookingTypeCorrect == Spec => [](TypeOK /\ StoreInv)
<1>1. BInv => TypeOK /\ StoreInv
  BY DEF BInv
<1> QED
  BY <1>1, BInvAlways, PTL

\* A timer message is used up only when its order is settled, when its own handler
\* threw, or by a stale delivery of the process that is working on it
\* (handleMessage acks after the handler, on whatever channel the process has).
THEOREM TimersAreUsedUpForAReason == Spec => TimersEndForAReason
<1> DEFINE Reason(o) ==
      \/ msg'[o] = "acked" /\ status[o] \in {"EXPIRED", "PAID"}
      \/ msg'[o] = "dropped" /\ \E w \in Workers : Awaited(w, o) /\ worker'[w] = NoWork
      \/ \E w, v \in Workers : /\ worker[w].stale /\ worker'[w] = NoWork
                               /\ Awaited(v, o) /\ v[1] = w[1]
    Ends(o) == msg[o] \notin UsedUp /\ msg'[o] \in UsedUp
<1>1. BInv /\ [Next]_vars => [\A o \in OrderIds : Ends(o) => Reason(o)]_vars
  <2> SUFFICES ASSUME BInv, Next, NEW o \in OrderIds, Ends(o)
               PROVE  Reason(o)
    OBVIOUS
  <2>0. BookingTypeOK /\ WorkerInv /\ worker \in [Workers -> Works]
    BY DEF BInv, TypeOK, BookingTypeOK
  <2>1. ~ UNCHANGED msg
    BY DEF UsedUp
  <2>2. ASSUME NEW w \in Workers, Ack(w) \/ WorkerFails(w)
        PROVE  Reason(o)
    <3>1. PICK how \in {"acked", "dropped"} :
             Settle(w, how) /\ (how = "acked" => WorkAt(w, "ack"))
      BY <2>2 DEF Ack, WorkerFails
    <3>2. PICK p \in OrderIds, v \in Workers :
             /\ msg' = [msg EXCEPT ![p] = how] /\ worker'[w] = NoWork
             /\ Awaited(v, p) /\ v[1] = w[1] /\ (v = w \/ worker[w].stale)
      BY <2>0, <2>1, <3>1, SettleShape
    <3>3. p = o /\ msg'[o] = how
      BY <2>0, <3>2 DEF BookingTypeOK, UsedUp
    <3>4. CASE worker[w].stale
      BY <3>2, <3>3, <3>4
    <3>5. CASE v = w /\ how = "dropped"
      BY <3>2, <3>3, <3>5
    <3>6. CASE v = w /\ how = "acked"
      <4>1. status[o] \in {"EXPIRED", "PAID"}
        BY <2>0, <3>1, <3>2, <3>3, <3>6 DEF WorkAt, Awaited, WorkerInv, Busy
      <4> QED
        BY <3>3, <3>6, <4>1
    <3> QED
      BY <3>1, <3>2, <3>4, <3>5, <3>6
  <2>3. ASSUME NEW p \in OrderIds,
               RequestStep(p) \/ DeadLetter(p) \/ Requeue(p) \/ PayOutOfBand(p)
        PROVE  ~Ends(o)
    <3>1. CASE Publish(p)
      BY <2>0, <3>1 DEF Publish, BookingTypeOK, UsedUp
    <3>2. CASE DeadLetter(p) \/ Requeue(p)
      BY <2>0, <3>2 DEF DeadLetter, Requeue, BookingTypeOK, UsedUp
    <3>3. CASE ~(Publish(p) \/ DeadLetter(p) \/ Requeue(p))
      BY <2>1, <2>3, <3>3 DEF RequestStep, Verify, Price, NotPriceable, Insert, ExtendHold,
         HoldLost, Commit, Replay, PublishFails, RequestFails, Drop, PayOutOfBand, timerVars
    <3> QED
      BY <3>1, <3>2, <3>3
  <2>4. ASSUME NEW w \in Workers, WorkStep(w), ~(Ack(w) \/ WorkerFails(w))
        PROVE  ~Ends(o)
    <3>1. ASSUME NEW p \in OrderIds, Deliver(w, p)
          PROVE  ~Ends(o)
      BY <2>0, <3>1 DEF Deliver, BookingTypeOK, UsedUp
    <3>2. CASE ~ \E p \in OrderIds : Deliver(w, p)
      BY <2>1, <2>4, <3>2 DEF WorkStep, Expire, ReleaseHold, ExpireAudit, ConnectionLost, timerVars
    <3> QED
      BY <3>1, <3>2
  <2>5. ASSUME NEW r \in LockReqs, LockRequest(r)
        PROVE  FALSE
    BY <2>1, <2>5, LockRequestStep DEF bookingVars
  <2>6. ~Time /\ ~ \E p \in Processes : ProcessCrashes(p)
    BY <2>1 DEF Time, ProcessCrashes, timerVars
  <2> QED
    BY <2>2, <2>3, <2>4, <2>5, <2>6 DEF Next
<1> QED
  BY <1>1, BInvAlways, PTL DEF Spec, TimersEndForAReason

\* As long as no publish and no handler fails and no connection is lost under a
\* handler, crashes do not leave a PENDING order without its timer.
THEOREM PendingOrdersAreTimed == Spec => []PendingIsTimed
<1>1. BInv => PendingIsTimed
  BY DEF BInv, TypeOK, BookingTypeOK, TimerInv, PendingIsTimed, Asks
<1> QED
  BY <1>1, BInvAlways, PTL

\* One delivery at most gives an order's seats back, and only an expired order's
\* (the compare-and-set of markExpiredIfPending under redelivery).
THEOREM SeatsAreGivenBackOnce == Spec => []OneCleanup
<1>1. BInv => OneCleanup
  BY DEF BInv, WorkerInv, OneCleanup, Cleaning, Busy
<1> QED
  BY <1>1, BInvAlways, PTL

-----------------------------------------------------------------------------
(* Booking implements the two abstract specifications.                     *)

\* Holds are still SeatHold's when orders extend them and timeouts release
\* them.
THEOREM BookingImplementsSeatHold == Spec => SeatsAreHeld
<1>1. Init => BInv /\ Hold!Init
  BY InitOK, InitRefines DEF Init, SLInit
<1>2. BInv /\ [Next]_vars => BInv'
  BY BInvNext
<1>3. BInv /\ [Next]_vars => [Hold!Next]_lock
  <2> SUFFICES ASSUME BInv, [Next]_vars PROVE [Hold!Next]_lock
    OBVIOUS
  <2>1. StoreOK /\ SLOK
    BY DEF BInv, TypeOK, SLTypeOK, StoreOK, SLOK
  <2>2. CASE SLNext \/ UNCHANGED slVars
    BY <2>1, <2>2, SLNextRefines
  <2>3. ASSUME NEW o \in OrderIds, ExtendHold(o)
        PROVE  UNCHANGED lock
    BY <2>3 DEF ExtendHold, Extend
  <2>4. ASSUME NEW w \in Workers, NEW s \in Seats, ReleaseHold(w, s)
        PROVE  [Hold!Next]_lock
    <3> DEFINE u == request[worker[w].order].user
    <3>1. u \in Users
      BY <2>4, WorkerOrder DEF ReleaseHold, WorkAt, Busy
    <3>2. CASE Release(s, u)
      <4>1. Hold!End({s})
        BY <2>1, <3>1, <3>2, ReleaseRefines
      <4> QED
        BY <4>1 DEF Hold!Next
    <3>3. CASE ReleaseRefused(s, u)
      BY <3>3 DEF ReleaseRefused, storeVars
    <3> QED
      BY <2>4, <3>2, <3>3 DEF ReleaseHold
  <2>5. ASSUME NEW w \in Workers, ExpireAudit(w)
        PROVE  UNCHANGED lock
    BY <2>5 DEF ExpireAudit, storeVars
  <2> QED
    BY <2>2, <2>3, <2>4, <2>5, StoreSteps
<1> QED
  BY <1>1, <1>2, <1>3, PTL DEF Spec, SeatsAreHeld, Hold!Spec

book == [o \in OrderIds |-> BookEntry(o)]

\* A step that changes no committed order, and no window but by the clock.
QuietOn(p) ==
    /\ status'[p] = status[p]
    /\ status[p] # "none" =>
          /\ request'[p].user = request[p].user
          /\ request'[p].key = request[p].key
          /\ left'[p] \in {left[p], left[p] - 1}

\* In the order book such a step is the passing of time.
LEMMA QuietRefines ==
  ASSUME BookingTypeOK', \A p \in OrderIds : QuietOn(p)
  PROVE  Orders!Pass
<1>1. book' = book
  BY DEF book, BookEntry, QuietOn
<1>2. left' \in [OrderIds -> 0..BookingWindow]
  BY DEF BookingTypeOK
<1>3. \A o \in OrderIds : book[o] # NoOrder => left'[o] \in {left[o], left[o] - 1}
  BY DEF book, BookEntry, QuietOn
<1> QED
  BY <1>1, <1>2, <1>3 DEF Orders!Pass, book

\* A commit places the order: no committed order has its key.
LEMMA CommitRefines ==
  ASSUME BInv, NEW o \in OrderIds, Commit(o)
  PROVE  Orders!Next
<1> DEFINE u == request[o].user
           k == request[o].key
<1>0. /\ BookingTypeOK /\ RequestInv /\ KeyInv
      /\ request \in [OrderIds -> Requests]
  BY DEF BInv, TypeOK, BookingTypeOK
<1>1. /\ request[o].pc = "commit" /\ status[o] = "none"
      /\ u \in Users /\ k \in Keys
  BY <1>0 DEF Commit, Asks, RequestInv
<1>2. book[o] = NoOrder
  BY <1>1 DEF book, BookEntry
<1>3. ~Orders!Taken(u, k)
  <2> SUFFICES ASSUME NEW p \in OrderIds, book[p] # NoOrder,
                      book[p].user = u, book[p].key = k
               PROVE  FALSE
    BY DEF Orders!Taken, book
  <2>1. status[p] # "none"
    BY DEF book, BookEntry
  <2>2. p # o /\ request[p].pc \in {"publish", "done"}
    BY <1>0, <1>1, <2>1 DEF RequestInv
  <2>3. request[p].user = u /\ request[p].key = k
    BY <2>1 DEF book, BookEntry
  <2> QED
    BY <1>0, <1>1, <2>2, <2>3 DEF KeyInv, Indexed, SameKey
<1>4. book' = [book EXCEPT ![o] = [status |-> "PENDING", user |-> u, key |-> k]]
  <2>1. /\ status' = [status EXCEPT ![o] = "PENDING"]
        /\ request' = [request EXCEPT ![o].pc = "publish"]
    BY DEF Commit, Goto
  <2>2. ASSUME NEW p \in OrderIds
        PROVE  BookEntry(p)' =
                 IF p = o THEN [status |-> "PENDING", user |-> u, key |-> k] ELSE BookEntry(p)
    BY <1>0, <2>1 DEF BookEntry, BookingTypeOK, Requests
  <2> QED
    BY <2>2 DEF book
<1>5. UNCHANGED left
  BY DEF Commit
<1>6. Orders!Place(o, u, k)
  BY <1>2, <1>3, <1>4, <1>5 DEF Orders!Place, book
<1> QED
  BY <1>1, <1>6 DEF Orders!Next

\* Settling a committed order in the database settles it in the book.
LEMMA SettleRefines ==
  ASSUME BInv, NEW o \in OrderIds, NEW to \in {"EXPIRED", "PAID"},
         status[o] = "PENDING", status' = [status EXCEPT ![o] = to],
         UNCHANGED <<request, left>>
  PROVE  Orders!Settle(o, to)
<1>1. BookingTypeOK /\ RequestInv
  BY DEF BInv, TypeOK
<1>2. BookEntry(o) = [status |-> "PENDING", user |-> request[o].user, key |-> request[o].key]
  BY DEF BookEntry
<1>3. BookEntry(o) # NoOrder
  <2>1. request[o].user \in Users /\ request[o].key \in Keys
    BY <1>1 DEF RequestInv
  <2> QED
    BY <1>2, <2>1, BookingAssumption
<1>4. book' = [book EXCEPT ![o].status = to]
  <2>1. ASSUME NEW p \in OrderIds
        PROVE  BookEntry(p)' = IF p = o THEN [BookEntry(o) EXCEPT !.status = to]
                               ELSE BookEntry(p)
    BY <1>1, <1>2 DEF BookEntry, BookingTypeOK
  <2> QED
    BY <2>1 DEF book
<1> QED
  BY <1>2, <1>3, <1>4 DEF Orders!Settle, book

\* Every step of Booking is a step of the order book.
LEMMA BookingStepRefines ==
  ASSUME BInv, [Next]_vars
  PROVE  [Orders!Next]_<<book, left>>
<1>0. /\ BookingTypeOK /\ BookingTypeOK' /\ RequestInv
      /\ request \in [OrderIds -> Requests]
  BY BookingTyped DEF BInv, TypeOK, BookingTypeOK
<1>1. ASSUME NEW r \in LockReqs, LockRequest(r)
      PROVE  \A p \in OrderIds : QuietOn(p)
  BY <1>1, LockRequestStep DEF bookingVars, QuietOn
<1>2. ASSUME NEW o \in OrderIds, RequestStep(o), ~Commit(o)
      PROVE  \A p \in OrderIds : QuietOn(p)
  <2>1. UNCHANGED status
    BY <1>2 DEF RequestStep, Verify, Price, NotPriceable, Insert, ExtendHold,
       HoldLost, Publish, Replay, PublishFails, RequestFails, Drop
  <2>2. \A p \in OrderIds : p # o => request'[p] = request[p] /\ left'[p] = left[p]
    BY <1>0, <1>2 DEF RequestStep, Verify, Price, NotPriceable, Insert, ExtendHold,
       HoldLost, Publish, Replay, PublishFails, RequestFails, Drop, Goto, BookingTypeOK
  <2>3. CASE Publish(o) \/ PublishFails(o)
    BY <1>0, <2>1, <2>2, <2>3 DEF Publish, PublishFails, Goto, Requests, QuietOn
  <2>4. CASE ~(Publish(o) \/ PublishFails(o))
    <3>1. request[o].pc \notin {"publish", "done"}
      BY <1>2, <2>4 DEF RequestStep, Verify, Price, NotPriceable, Insert, ExtendHold,
         HoldLost, Replay, RequestFails, Asks
    <3>2. status[o] = "none"
      BY <1>0, <3>1 DEF RequestInv
    <3> QED
      BY <2>1, <2>2, <3>2 DEF QuietOn
  <2> QED
    BY <2>3, <2>4
<1>3. ASSUME NEW o \in OrderIds, DeadLetter(o) \/ Requeue(o)
      PROVE  \A p \in OrderIds : QuietOn(p)
  BY <1>3 DEF DeadLetter, Requeue, orderVars, QuietOn
<1>4. ASSUME NEW o \in OrderIds, PayOutOfBand(o)
      PROVE  Orders!Next
  <2>1. Orders!Settle(o, "PAID")
    BY <1>4, SettleRefines DEF PayOutOfBand
  <2> QED
    BY <2>1 DEF Orders!Next, Orders!Pay
<1>5. ASSUME NEW w \in Workers, WorkStep(w),
             ~(Expire(w) /\ status[worker[w].order] = "PENDING")
      PROVE  \A p \in OrderIds : QuietOn(p)
  BY <1>5 DEF WorkStep, Deliver, Expire, ReleaseHold, ExpireAudit, Ack, WorkerFails,
              ConnectionLost, orderVars, QuietOn
<1>6. ASSUME NEW w \in Workers, Expire(w), status[worker[w].order] = "PENDING"
      PROVE  Orders!Next
  <2> DEFINE o == worker[w].order
  <2>1. o \in OrderIds /\ left[o] = 0
    BY <1>6, WorkerOrder DEF Expire, WorkAt, Busy
  <2>2. status' = [status EXCEPT ![o] = "EXPIRED"] /\ UNCHANGED <<request, left>>
    BY <1>6 DEF Expire
  <2>3. Orders!Settle(o, "EXPIRED")
    BY <1>6, <2>1, <2>2, SettleRefines
  <2> QED
    BY <2>1, <2>3 DEF Orders!Next, Orders!Expire
<1>7. CASE Time
  <2> SUFFICES ASSUME NEW p \in OrderIds PROVE QuietOn(p)
    BY <1>0, QuietRefines DEF Orders!Next
  <2>1. left'[p] \in {left[p], left[p] - 1}
    BY <1>7 DEF Time, Less
  <2> QED
    BY <1>7, <2>1 DEF Time, QuietOn
<1>8. CASE UNCHANGED vars
  BY <1>8 DEF vars, book, BookEntry
<1>9. CASE \A p \in OrderIds : QuietOn(p)
  BY <1>0, <1>9, QuietRefines DEF Orders!Next
<1>10. ASSUME NEW c \in Processes, ProcessCrashes(c)
       PROVE  \A p \in OrderIds : QuietOn(p)
  BY <1>10 DEF ProcessCrashes, orderVars, QuietOn
<1>11. CASE Next
  BY <1>1, <1>2, <1>3, <1>4, <1>5, <1>6, <1>7, <1>9, <1>10, <1>11, CommitRefines
     DEF Next
<1> QED
  BY <1>8, <1>11

\* Booking implements the order book: one order for a key whatever requests race
\* or are repeated, settled once, never expired early and never after payment,
\* with every fault (the unique index, the transaction, the compare-and-set and
\* the delay queue together).
THEOREM BookingImplementsOrderBook == Spec => OrdersAreBooked
<1>1. Init => Orders!Init
  BY StoreAssumption DEF Init, Orders!Init, BookEntry
<1>2. BInv /\ [Next]_vars => [Orders!Next]_<<book, left>>
  BY BookingStepRefines
<1> QED
  BY <1>1, <1>2, BInvAlways, PTL DEF Spec, OrdersAreBooked, Orders!Spec, book

-----------------------------------------------------------------------------
(* Timer messages: the broker's side of the timeout is a work queue.       *)

timerPlace == [o \in OrderIds |-> TimerPlace(o)]

\* Where a timer is depends on its message and on the one delivery that counts.
SameTimer(o) ==
    /\ msg'[o] = msg[o]
    /\ \A w \in Workers :
          /\ Awaited(w, o) <=> Awaited(w, o)'
          /\ Awaited(w, o) /\ WorkAt(w, "ack") <=> (Awaited(w, o) /\ WorkAt(w, "ack"))'

\* A timer stays where it is if its message and the delivery that counts do.
LEMMA SameTimerPlace ==
  ASSUME \A o \in OrderIds : SameTimer(o)
  PROVE  UNCHANGED timerPlace
BY DEF timerPlace, TimerPlace, SameTimer

\* One timer moves, and the others stay where they are.
LEMMA TimerMoves ==
  ASSUME NEW o \in OrderIds, \A p \in OrderIds : p # o => SameTimer(p)
  PROVE  timerPlace' = [timerPlace EXCEPT ![o] = TimerPlace(o)']
<1>1. \A p \in OrderIds : p # o => TimerPlace(p)' = TimerPlace(p)
  BY DEF TimerPlace, SameTimer
<1> QED
  BY <1>1 DEF timerPlace

\* The delivery that the broker waits for is busy with the order, the only one.
LEMMA AwaitedPlace ==
  ASSUME BInv, NEW w \in Workers, NEW o \in OrderIds, Awaited(w, o)
  PROVE  /\ Busy(w)
         /\ TimerPlace(o) = IF WorkAt(w, "ack") THEN "done" ELSE "running"
         /\ \A v \in Workers : v # w => ~Awaited(v, o)
<1>1. WorkerInv /\ IdleInv
  BY DEF BInv
<1>2. Busy(w)
  BY <1>1, BookingAssumption DEF IdleInv, Awaited
<1>3. \A v \in Workers : v # w => ~Awaited(v, o)
  BY <1>1, <1>2, BookingAssumption DEF WorkerInv, IdleInv, Awaited
<1> QED
  BY <1>2, <1>3 DEF TimerPlace, Awaited

\* What a handler does inside its order moves its timer only when it is over.
LEMMA HandlerRefines ==
  ASSUME BInv, NEW w \in Workers, ~WorkAt(w, "ack"), Busy(w), UNCHANGED msg,
         worker' = [worker EXCEPT ![w] = worker'[w]],
         worker'[w].order = worker[w].order, worker'[w].stale = worker[w].stale
  PROVE  [Timers!Next]_timerPlace
<1> PICK o \in OrderIds : o = worker[w].order
  BY WorkerOrder
<1>0. worker \in [Workers -> Works]
  BY DEF BInv, TypeOK, BookingTypeOK
<1>1. \A v \in Workers : v # w => worker'[v] = worker[v]
  BY <1>0
<1>2. \A p \in OrderIds : p # o => SameTimer(p)
  BY <1>1 DEF SameTimer, Awaited, WorkAt
<1>3. CASE ~Awaited(w, o) \/ worker'[w].pc # "ack"
  <2>1. SameTimer(o)
    BY <1>1, <1>3 DEF SameTimer, Awaited, WorkAt
  <2> QED
    BY <1>2, <2>1, SameTimerPlace
<1>4. CASE Awaited(w, o) /\ worker'[w].pc = "ack"
  <2>1. TimerPlace(o) = "running"
    BY <1>4, AwaitedPlace
  <2>2. (Awaited(w, o) /\ WorkAt(w, "ack"))' /\ msg'[o] = "taken"
    BY <1>4 DEF Awaited, WorkAt
  <2>3. TimerPlace(o)' = "done"
    BY <2>2 DEF TimerPlace
  <2>4. Timers!Moves(o, "running", "done")
    BY <1>2, <2>1, <2>3, TimerMoves DEF Timers!Moves, timerPlace
  <2> QED
    BY <2>4 DEF Timers!Next, Timers!Finish
<1> QED
  BY <1>3, <1>4

\* Deliveries that are lost, some or all, give their timers back at once.
LEMMA LossRefines ==
  ASSUME BInv, UNCHANGED msg,
         \A w \in Workers, o \in OrderIds :
            Awaited(w, o)' => Awaited(w, o) /\ worker'[w].pc = worker[w].pc
  PROVE  [Timers!Next]_timerPlace
<1> DEFINE Lost(o) == \E w \in Workers : Awaited(w, o) /\ ~Awaited(w, o)'
<1>1. PICK I \in SUBSET OrderIds : \A o \in OrderIds : o \in I <=> Lost(o)
  <2>1. {o \in OrderIds : Lost(o)} \in SUBSET OrderIds
    OBVIOUS
  <2> QED
    BY <2>1
<1>2. \A o \in I : timerPlace[o] \in {"running", "done"} /\ TimerPlace(o)' = "ready"
  <2> SUFFICES ASSUME NEW o \in I, NEW w \in Workers, Awaited(w, o), ~Awaited(w, o)'
               PROVE  timerPlace[o] \in {"running", "done"} /\ TimerPlace(o)' = "ready"
    BY <1>1
  <2>1. timerPlace[o] \in {"running", "done"}
    BY AwaitedPlace DEF timerPlace
  <2>2. \A v \in Workers : ~Awaited(v, o)'
    BY AwaitedPlace
  <2>3. msg'[o] = "taken"
    BY DEF Awaited
  <2>4. TimerPlace(o)' = "ready"
    BY <2>2, <2>3 DEF TimerPlace
  <2> QED
    BY <2>1, <2>4
<1>3. \A o \in OrderIds \ I : TimerPlace(o)' = TimerPlace(o)
  <2> SUFFICES ASSUME NEW o \in OrderIds \ I PROVE TimerPlace(o)' = TimerPlace(o)
    OBVIOUS
  <2>1. SameTimer(o)
    BY <1>1 DEF SameTimer, WorkAt
  <2> QED
    BY <2>1 DEF SameTimer, TimerPlace
<1>4. timerPlace' = [o \in OrderIds |-> IF o \in I THEN "ready" ELSE timerPlace[o]]
  BY <1>2, <1>3 DEF timerPlace
<1>5. Timers!Return(I)
  BY <1>2, <1>4 DEF Timers!Return, Timers!Unacked, timerPlace
<1> QED
  BY <1>5 DEF Timers!Next

\* An answer settles the message of its own delivery, goes astray if that is stale,
\* or ends the process and loses all its deliveries.
LEMMA AnswerRefines ==
  ASSUME BInv, NEW w \in Workers, Busy(w), NEW how \in {"acked", "dropped"}, Settle(w, how),
         how = "acked" <=> WorkAt(w, "ack")
  PROVE  [Timers!Next]_timerPlace
<1>0. /\ worker \in [Workers -> Works] /\ WorkerInv /\ IdleInv
      /\ msg \in [OrderIds -> {"none", "delay", "work", "taken", "acked", "dropped"}]
  BY DEF BInv, TypeOK, BookingTypeOK
<1>1. CASE UNCHANGED msg /\ Dies(w[1])
  <2>1. \A v \in Workers, o \in OrderIds :
           Awaited(v, o)' => Awaited(v, o) /\ worker'[v].pc = worker[v].pc
    BY <1>0, <1>1, DiesShape, BookingAssumption DEF Awaited, NoWork
  <2> QED
    BY <1>1, <2>1, LossRefines
<1>2. ASSUME NEW o \in OrderIds, NEW v \in Workers, Awaited(v, o), v = w \/ worker[w].stale,
             msg' = [msg EXCEPT ![o] = how], worker' = [worker EXCEPT ![w] = NoWork]
      PROVE  [Timers!Next]_timerPlace
  <2>1. \A p \in OrderIds : p # o => ~Awaited(w, p) /\ ~Awaited(w, p)'
    BY <1>0, <1>2, BookingAssumption DEF Awaited, NoWork
  <2>2. \A p \in OrderIds : p # o => SameTimer(p)
    BY <1>0, <1>2, <2>1 DEF SameTimer, Awaited, WorkAt
  <2>3. TimerPlace(o)' = how
    BY <1>0, <1>2 DEF TimerPlace
  <2>4. timerPlace' = [timerPlace EXCEPT ![o] = how]
    BY <2>2, <2>3, TimerMoves
  <2>5. timerPlace[o] = IF WorkAt(v, "ack") THEN "done" ELSE "running"
    BY <1>2, AwaitedPlace DEF timerPlace
  <2>6. CASE v = w /\ how = "acked"
    <3>1. Timers!Ack(o)
      BY <2>4, <2>5, <2>6 DEF Timers!Ack, Timers!Moves, timerPlace
    <3> QED
      BY <3>1 DEF Timers!Next
  <2>7. CASE v = w /\ how = "dropped"
    <3>1. Timers!Drop(o)
      BY <2>4, <2>5, <2>7 DEF Timers!Drop, Timers!Unacked, timerPlace
    <3> QED
      BY <3>1 DEF Timers!Next
  <2>8. CASE worker[w].stale
    <3>1. "connection" \in Faults
      BY <1>0, <2>8 DEF WorkerInv
    <3>2. Timers!Stray(o)
      BY <2>4, <2>5, <3>1 DEF Timers!Stray, Timers!Unacked, timerPlace
    <3> QED
      BY <3>2 DEF Timers!Next
  <2> QED
    BY <1>2, <2>6, <2>7, <2>8
<1> QED
  BY <1>0, <1>1, <1>2, SettleShape

\* Every step of Booking is a step of the work queue, or none.
LEMMA TimerStepRefines ==
  ASSUME BInv, [Next]_vars
  PROVE  [Timers!Next]_timerPlace
<1>0. /\ BookingTypeOK /\ WorkerInv /\ TimerInv /\ IdleInv
      /\ worker \in [Workers -> Works]
      /\ msg \in [OrderIds -> {"none", "delay", "work", "taken", "acked", "dropped"}]
  BY DEF BInv, TypeOK, BookingTypeOK
<1>1. CASE UNCHANGED <<msg, worker>>
  <2>1. \A o \in OrderIds : SameTimer(o)
    BY <1>1 DEF SameTimer, Awaited, WorkAt
  <2> QED
    BY <2>1, SameTimerPlace
<1>2. ASSUME NEW o \in OrderIds, Publish(o)
      PROVE  UNCHANGED timerPlace
  <2>1. \A p \in OrderIds : p # o => SameTimer(p)
    BY <1>0, <1>2 DEF Publish, SameTimer, Awaited, WorkAt
  <2>2. msg[o] = "none" /\ msg'[o] = "delay"
    BY <1>0, <1>2 DEF Publish, Asks, TimerInv
  <2>3. TimerPlace(o)' = TimerPlace(o)
    BY <2>2 DEF TimerPlace
  <2> QED
    BY <2>1, <2>3, TimerMoves DEF timerPlace
<1>3. ASSUME NEW o \in OrderIds, DeadLetter(o)
      PROVE  Timers!Next
  <2>1. \A p \in OrderIds : p # o => SameTimer(p)
    BY <1>0, <1>3 DEF DeadLetter, SameTimer, Awaited, WorkAt
  <2>2. TimerPlace(o) = "absent" /\ TimerPlace(o)' = "ready"
    BY <1>0, <1>3 DEF DeadLetter, TimerPlace
  <2>3. Timers!Arrive(o)
    BY <2>1, <2>2, TimerMoves DEF Timers!Arrive, Timers!Moves, timerPlace
  <2> QED
    BY <2>3 DEF Timers!Next
<1>4. ASSUME NEW w \in Workers, NEW o \in OrderIds, Deliver(w, o)
      PROVE  Timers!Next
  <2>1. /\ \A v \in Workers : v # w => worker'[v] = worker[v]
        /\ worker'[w].order = o /\ worker'[w].pc = "expire" /\ worker[w].pc = "idle"
        /\ msg[o] = "work" /\ msg'[o] = "taken"
        /\ \A p \in OrderIds : p # o => msg'[p] = msg[p]
    BY <1>0, <1>4 DEF Deliver, WorkAt
  <2>2. \A p \in OrderIds : p # o => SameTimer(p)
    <3>1. worker[w].order = NoOrder
      BY <1>0, <2>1 DEF IdleInv, Busy
    <3> QED
      BY <2>1, <3>1, BookingAssumption DEF SameTimer, Awaited, WorkAt
  <2>3. /\ Awaited(w, o)'
        /\ \A v \in Workers : ~(Awaited(v, o) /\ WorkAt(v, "ack"))'
    <3>1. Awaited(w, o)'
      BY <1>0, <1>4 DEF Deliver, Awaited
    <3> QED
      BY <1>0, <2>1, <3>1 DEF WorkerInv, Awaited, WorkAt, Busy
  <2>4. TimerPlace(o) = "ready" /\ TimerPlace(o)' = "running"
    BY <2>1, <2>3 DEF TimerPlace
  <2>5. Timers!Take(o)
    BY <2>2, <2>4, TimerMoves DEF Timers!Take, Timers!Moves, timerPlace
  <2> QED
    BY <2>5 DEF Timers!Next
<1>5. ASSUME NEW w \in Workers,
             Expire(w) \/ (\E s \in Seats : ReleaseHold(w, s)) \/ ExpireAudit(w)
      PROVE  [Timers!Next]_timerPlace
  <2>1. UNCHANGED msg /\ Busy(w) /\ ~WorkAt(w, "ack")
    BY <1>5 DEF Expire, ReleaseHold, ExpireAudit, timerVars, WorkAt, Busy
  <2>2. /\ worker' = [worker EXCEPT ![w] = worker'[w]]
        /\ worker'[w].order = worker[w].order /\ worker'[w].stale = worker[w].stale
    <3>1. CASE \E s \in Seats : ReleaseHold(w, s)
      BY <1>0, <3>1, ReleaseHoldWork
    <3>2. CASE Expire(w)
      BY <1>0, <3>2 DEF Expire, Works
    <3>3. CASE ExpireAudit(w)
      BY <1>0, <3>3 DEF ExpireAudit, Works
    <3> QED
      BY <1>5, <3>1, <3>2, <3>3
  <2> QED
    BY <2>1, <2>2, HandlerRefines
<1>6. ASSUME NEW w \in Workers, Ack(w) \/ WorkerFails(w) \/ ConnectionLost(w)
      PROVE  [Timers!Next]_timerPlace
  <2>1. CASE Ack(w)
    BY <2>1, AnswerRefines DEF Ack, WorkAt, Busy
  <2>2. CASE WorkerFails(w)
    BY <2>2, AnswerRefines DEF WorkerFails, WorkAt, Busy
  <2>3. CASE ConnectionLost(w)
    <3>1. UNCHANGED msg /\ worker' = [worker EXCEPT ![w].stale = TRUE]
      BY <2>3 DEF ConnectionLost, timerVars
    <3>2. \A v \in Workers, o \in OrderIds :
             Awaited(v, o)' => Awaited(v, o) /\ worker'[v].pc = worker[v].pc
      BY <1>0, <3>1 DEF Awaited, Works
    <3> QED
      BY <3>1, <3>2, LossRefines
  <2> QED
    BY <1>6, <2>1, <2>2, <2>3
<1>7. ASSUME NEW r \in LockReqs, LockRequest(r)
      PROVE  UNCHANGED <<msg, worker>>
  BY <1>7, LockRequestStep DEF bookingVars
<1>8. ASSUME NEW o \in OrderIds, RequestStep(o) \/ PayOutOfBand(o), ~Publish(o)
      PROVE  UNCHANGED <<msg, worker>>
  BY <1>8 DEF RequestStep, PayOutOfBand, Verify, Price, NotPriceable, Insert, ExtendHold,
     HoldLost, Commit, Replay, PublishFails, RequestFails, Drop, timerVars
<1>9. CASE Time \/ UNCHANGED vars
  BY <1>1, <1>9 DEF Time, vars
<1>10. ASSUME NEW w \in Workers, WorkStep(w)
       PROVE  [Timers!Next]_timerPlace
  BY <1>4, <1>5, <1>6, <1>10 DEF WorkStep
<1>11. ASSUME NEW o \in OrderIds, Requeue(o)
       PROVE  UNCHANGED timerPlace
  <2>1. \A p \in OrderIds : p # o => SameTimer(p)
    BY <1>0, <1>11 DEF Requeue, SameTimer, Awaited, WorkAt
  <2>2. TimerPlace(o) = "ready" /\ TimerPlace(o)' = "ready"
    BY <1>0, <1>11 DEF Requeue, TimerPlace
  <2> QED
    BY <2>1, <2>2, TimerMoves DEF timerPlace
<1>12. ASSUME NEW p \in Processes, ProcessCrashes(p)
       PROVE  [Timers!Next]_timerPlace
  <2>1. UNCHANGED msg /\ Dies(p)
    BY <1>12 DEF ProcessCrashes, timerVars
  <2>2. \A v \in Workers, o \in OrderIds :
           Awaited(v, o)' => Awaited(v, o) /\ worker'[v].pc = worker[v].pc
    BY <1>0, <2>1, DiesShape, BookingAssumption DEF Awaited, NoWork
  <2> QED
    BY <2>1, <2>2, LossRefines
<1>13. CASE Next
  BY <1>1, <1>2, <1>3, <1>7, <1>8, <1>9, <1>10, <1>11, <1>12, <1>13 DEF Next
<1> QED
  BY <1>9, <1>13

\* The timers of all orders are handled as by a work queue with manual
\* acknowledgement, through every fault, and answers go astray in it only if
\* connections are lost under handlers (Strays is "connection" \in Faults).
THEOREM BookingImplementsWorkQueue == Spec => TimersAreQueued
<1>1. Init => Timers!Init
  BY DEF Init, Timers!Init, TimerPlace
<1>2. BInv /\ [Next]_vars => [Timers!Next]_timerPlace
  BY TimerStepRefines
<1> QED
  BY <1>1, <1>2, BInvAlways, PTL DEF Spec, TimersAreQueued, Timers!Spec, timerPlace

-----------------------------------------------------------------------------
(* Why holds end.                                                          *)

\* A hold ends because its lease ran out, its owner released it, or an expired
\* order of its owner gave it back: no other request, worker or late message
\* takes a seat from its holder (the owner checks of both RELEASE_LUA scripts).
THEOREM HoldsEndForAReason == Spec => HoldEndsForAReason
<1> DEFINE Reason(s) ==
      \/ ttl[s] = 1 /\ lock'[s] = NoUser
      \/ \E r \in LockReqs : Started(r, "recordReleased", s, lock[s])
      \/ \E w \in Workers :
            /\ s \in worker[w].todo \ worker'[w].todo
            /\ request[worker[w].order].user = lock[s]
            /\ status[worker[w].order] = "EXPIRED"
<1>1. BInv /\ [Next]_vars =>
        [\A s \in Seats : lock[s] # NoUser /\ lock'[s] # lock[s] => Reason(s)]_vars
  <2> SUFFICES ASSUME BInv, Next, NEW s \in Seats,
                      lock[s] # NoUser, lock'[s] # lock[s]
               PROVE  Reason(s)
    OBVIOUS
  <2>1. StoreOK /\ SLOK /\ LockTypeOK /\ BookingTypeOK
    BY DEF BInv, TypeOK, SLTypeOK, StoreOK, SLOK
  <2>2. CASE SLNext
    <3>1. \/ ttl[s] = 1 /\ lock'[s] = NoUser
          \/ \E r \in LockReqs : Started(r, "recordReleased", s, lock[s])
      BY <2>1, <2>2, HoldEnds
    <3> QED
      BY <3>1
  <2>3. ASSUME NEW w \in Workers, NEW t \in Seats, ReleaseHold(w, t)
        PROVE  Reason(s)
    <3> DEFINE u == request[worker[w].order].user
    <3>1. Release(t, u) \/ ReleaseRefused(t, u)
      BY <2>3 DEF ReleaseHold
    <3>2. t = s /\ u = lock[s]
      BY <2>1, <3>1 DEF Release, ReleaseRefused, storeVars, StoreOK, StoreTypeOK
    <3>3. s \in worker[w].todo \ worker'[w].todo
      BY <2>1, <2>3, <3>2 DEF ReleaseHold, BookingTypeOK, Works
    <3>4. status[worker[w].order] = "EXPIRED"
      BY <2>3 DEF ReleaseHold, WorkAt, BInv, WorkerInv, Busy
    <3> QED
      BY <3>2, <3>3, <3>4
  <2>4. ~ UNCHANGED lock
    OBVIOUS
  <2>5. ~ UNCHANGED slVars
    BY DEF slVars
  <2>6. ASSUME NEW o \in OrderIds, ExtendHold(o)
        PROVE  FALSE
    BY <2>4, <2>6 DEF ExtendHold, Extend
  <2>7. ASSUME NEW w \in Workers, ExpireAudit(w)
        PROVE  FALSE
    BY <2>4, <2>7 DEF ExpireAudit, storeVars
  <2> QED
    BY <2>2, <2>3, <2>5, <2>6, <2>7, StoreSteps
<1> QED
  BY <1>1, BInvAlways, PTL DEF Spec, HoldEndsForAReason

-----------------------------------------------------------------------------
(* How long holds last, and what the quota counts.                         *)

\* A hold gains time only from an order of its owner over it, and then as much as
\* the order has (EXTEND_LUA in the transaction of confirmHold): not from asking
\* for the seat again, nor from another user's order, a late timer or a rollback.
THEOREM HoldsAreLengthenedByOrders == Spec => OnlyOrdersLengthenHolds
<1> DEFINE ByOrder(s) ==
      /\ lock'[s] = lock[s] /\ ttl'[s] = BookingWindow
      /\ \E o \in OrderIds : /\ Asks(o, "extend") /\ Over(o, lock[s], s)
                             /\ request'[o].pc = "commit"
<1>1. BInv /\ [Next]_vars =>
        [\A s \in Seats : lock[s] # NoUser /\ ttl'[s] > ttl[s] => ByOrder(s)]_vars
  <2> SUFFICES ASSUME BInv, Next, NEW s \in Seats, lock[s] # NoUser, ttl'[s] > ttl[s]
               PROVE  ByOrder(s)
    OBVIOUS
  <2>1. /\ SLOK /\ LockTypeOK /\ lock \in [Seats -> Users \cup {NoUser}]
        /\ ttl \in [Seats -> Nat] /\ request \in [OrderIds -> Requests]
    BY DEF BInv, TypeOK, SLTypeOK, StoreTypeOK, SLOK, BookingTypeOK
  <2>2. ASSUME NEW o \in OrderIds, ExtendHold(o)
        PROVE  ByOrder(s)
    <3>1. /\ request[o].pc = "extend" /\ request' = [request EXCEPT ![o].pc = "commit"]
          /\ \A t \in request[o].seats : lock[t] = request[o].user
          /\ ttl' = [t \in Seats |-> IF t \in request[o].seats THEN BookingWindow ELSE ttl[t]]
          /\ lock' = lock
      BY <2>2 DEF ExtendHold, Extend, OwnsAll, Asks, Goto
    <3>2. s \in request[o].seats
      BY <2>1, <3>1
    <3>3. request'[o].pc = "commit"
      BY <2>1, <3>1 DEF Requests
    <3> QED
      BY <3>1, <3>2, <3>3 DEF Asks, Over
  <2>3. ASSUME NEW w \in Workers, NEW t \in Seats, ReleaseHold(w, t)
        PROVE  FALSE
    <3>1. ttl' = [ttl EXCEPT ![t] = 0] \/ ttl' = ttl
      BY <2>3 DEF ReleaseHold, Release, ReleaseRefused, storeVars
    <3> QED
      BY <2>1, <3>1
  <2>4. CASE SLNext
    <3>1. ASSUME NEW t \in Seats, NEW u \in Users, Acquire(t, u)
          PROVE  FALSE
      <4>1. lock[t] = NoUser /\ ttl' = [ttl EXCEPT ![t] = LockTTL]
        BY <3>1 DEF Acquire, SeatTaken, Rehold
      <4> QED
        BY <2>1, <4>1
    <3>2. ASSUME NEW t \in Seats, NEW u \in Users, Release(t, u)
          PROVE  FALSE
      <4>1. ttl' = [ttl EXCEPT ![t] = 0]
        BY <3>2 DEF Release
      <4> QED
        BY <2>1, <4>1
    <3>3. CASE Tick
      <4>1. ttl' = [t \in Seats |-> IF ttl[t] = 0 THEN 0 ELSE ttl[t] - 1]
        BY <3>3 DEF Tick, Elapse
      <4> QED
        BY <2>1, <4>1
    <3>4. ~ UNCHANGED storeVars
      BY <2>1 DEF storeVars
    <3> QED
      BY <2>1, <2>4, <3>1, <3>2, <3>3, <3>4, LockStepStore DEF SLNext
  <2>5. UNCHANGED slVars \/ (\E w \in Workers : ExpireAudit(w)) => ttl' = ttl
    BY DEF slVars, ExpireAudit, storeVars
  <2> QED
    BY <2>1, <2>2, <2>3, <2>4, <2>5, StoreSteps
<1> QED
  BY <1>1, BInvAlways, PTL DEF Spec, OnlyOrdersLengthenHolds

\* Orders, their timers and the cleanup of expired orders do not make the quota
\* drift either: EXTEND_LUA touches no membership, and the worker's RELEASE_LUA takes
\* lock and membership together.
THEOREM BookingDriftsOnlyByLapse == Spec => QuotaDriftsByLapse
<1>1. BInv /\ [Next]_vars => [\A u \in Users, s \in Seats : Drift(u, s)]_storeVars
  <2> SUFFICES ASSUME BInv, [Next]_vars, NEW u \in Users, NEW s \in Seats
               PROVE  Drift(u, s)
    OBVIOUS
  <2>1. SLOK /\ StoreOK
    BY DEF BInv, TypeOK, SLTypeOK, StoreOK, SLOK
  <2>2. CASE SLNext \/ UNCHANGED slVars
    BY <2>1, <2>2, SLNextDrifts
  <2>3. ASSUME NEW w \in Workers, NEW t \in Seats, ReleaseHold(w, t)
        PROVE  Drift(u, s)
    <3> DEFINE v == request[worker[w].order].user
    <3>1. v \in Users
      BY <2>3, WorkerOrder DEF ReleaseHold, WorkAt, Busy
    <3>2. CASE Release(t, v)
      BY <2>1, <3>1, <3>2, ReleaseDrifts
    <3>3. CASE ReleaseRefused(t, v)
      BY <3>3, QuietDrifts DEF ReleaseRefused, storeVars
    <3> QED
      BY <2>3, <3>2, <3>3 DEF ReleaseHold
  <2>4. (\E o \in OrderIds : ExtendHold(o)) \/ (\E w \in Workers : ExpireAudit(w))
           => UNCHANGED <<lock, held>>
    BY DEF ExtendHold, Extend, ExpireAudit, storeVars
  <2> QED
    BY <2>2, <2>3, <2>4, QuietDrifts, StoreSteps
<1> QED
  BY <1>1, BInvAlways, PTL DEF Spec, QuotaDriftsByLapse, Drift

-----------------------------------------------------------------------------
(* What ordinary clients can rely on.                                      *)

\* An order that is given back is one that a worker has turned from PENDING.
LEMMA CleaningNext ==
  ASSUME BInv, [Next]_vars, NEW o \in OrderIds, NEW w \in Workers, Cleaning(w, o)'
  PROVE  Cleaning(w, o) \/ (status[o] = "PENDING" /\ WorkAt(w, "expire"))
<1>0. worker \in [Workers -> Works]
  BY DEF BInv, TypeOK, BookingTypeOK
<1> USE DEF Cleaning
<1>1. ASSUME NEW v \in Workers, WorkStep(v)
      PROVE  Cleaning(w, o) \/ (status[o] = "PENDING" /\ WorkAt(w, "expire"))
  <2>1. ASSUME NEW p \in OrderIds, Deliver(v, p)
        PROVE  Cleaning(w, o)
    BY <1>0, <2>1 DEF Deliver
  <2>2. CASE Expire(v)
    BY <1>0, <2>2 DEF Expire, WorkAt, Works
  <2>3. ASSUME NEW s \in Seats, ReleaseHold(v, s)
        PROVE  Cleaning(w, o)
    <3>1. /\ worker' = [worker EXCEPT ![v] = worker'[v]]
          /\ worker'[v].order = worker[v].order /\ worker[v].pc = "release"
      BY <1>0, <2>3, ReleaseHoldWork
    <3> QED
      BY <1>0, <3>1
  <2>4. CASE ExpireAudit(v) \/ ConnectionLost(v)
    BY <1>0, <2>4 DEF ExpireAudit, ConnectionLost, Works
  <2>5. CASE Ack(v) \/ WorkerFails(v)
    <3>1. PICK how : Settle(v, how)
      BY <2>5 DEF Ack, WorkerFails
    <3> QED
      BY <1>0, <3>1, SettleShape DEF NoWork
  <2> QED
    BY <1>1, <2>1, <2>2, <2>3, <2>4, <2>5 DEF WorkStep
<1>2. ASSUME NEW p \in Processes, ProcessCrashes(p)
      PROVE  Cleaning(w, o)
  BY <1>0, <1>2, DiesShape DEF ProcessCrashes, NoWork
<1>3. ASSUME UNCHANGED worker
      PROVE  Cleaning(w, o)
  BY <1>3
<1>4. ASSUME NEW p \in OrderIds,
             RequestStep(p) \/ DeadLetter(p) \/ Requeue(p) \/ PayOutOfBand(p)
      PROVE  UNCHANGED worker
  BY <1>4 DEF RequestStep, Verify, Price, NotPriceable, Insert, ExtendHold, HoldLost, Commit,
     Publish, Replay, PublishFails, RequestFails, Drop, DeadLetter, Requeue, PayOutOfBand
<1>5. ASSUME NEW r \in LockReqs, LockRequest(r)
      PROVE  UNCHANGED worker
  BY <1>5, LockRequestStep DEF bookingVars
<1>6. CASE Time \/ UNCHANGED vars
  BY <1>3, <1>6 DEF Time, vars
<1>7. CASE Next
  BY <1>1, <1>2, <1>3, <1>4, <1>5, <1>6, <1>7 DEF Next
<1> QED
  BY <1>6, <1>7

\* An order becomes open by a new request for it, and no other way.
LEMMA OpenNext ==
  ASSUME BInv, [Next]_vars, NEW o \in OrderIds, Open(o)'
  PROVE  Open(o) \/ (Asks(o, "idle") /\ Asks(o, "price")')
<1> DEFINE New == request[o].pc = "idle" /\ request'[o].pc = "price"
<1>0. BookingTypeOK /\ request \in [OrderIds -> Requests]
  BY DEF BInv, TypeOK, BookingTypeOK
<1>1. ASSUME NEW w \in Workers, Cleaning(w, o)'
      PROVE  Open(o)
  BY <1>1, CleaningNext DEF Open
<1>2. ASSUME NEW p \in OrderIds, RequestStep(p),
             \/ request'[o].pc \notin {"idle", "done"}
             \/ status'[o] = "PENDING"
      PROVE  Open(o) \/ New
  <2>1. CASE p # o
    <3>1. request'[o] = request[o] /\ status'[o] = status[o]
      BY <1>0, <1>2, <2>1 DEF RequestStep, Verify, Price, NotPriceable, Insert, ExtendHold,
         HoldLost, Commit, Publish, Replay, PublishFails, RequestFails, Drop, Goto, BookingTypeOK
    <3> QED
      BY <1>2, <3>1 DEF Open
  <2>2. CASE p = o /\ ~New
    <3>1. request[o].pc \notin {"idle", "done"}
      BY <1>0, <1>2, <2>2 DEF RequestStep, Verify, Price, NotPriceable, Insert, ExtendHold,
         HoldLost, Commit, Publish, Replay, PublishFails, RequestFails, Asks
    <3> QED
      BY <3>1 DEF Open
  <2> QED
    BY <2>1, <2>2
<1>3. CASE ~ \E p \in OrderIds : RequestStep(p)
  <2>1. UNCHANGED request /\ (status'[o] = "PENDING" => status[o] = "PENDING")
    BY <1>0, <1>3, RequestUntouched
  <2> QED
    BY <1>1, <2>1 DEF Open
<1> QED
  BY <1>1, <1>2, <1>3 DEF Open, Asks

\* Ordinary clients never ask for a seat under an open order with another key.
LEMMA SeatKeyNext ==
  ASSUME BInv, SeatKeyInv, "reorder" \notin Clients, [Next]_vars
  PROVE  SeatKeyInv'
<1>0. /\ BookingTypeOK /\ request \in [OrderIds -> Requests]
      /\ \A p \in OrderIds : Open(p)' => Open(p) \/ (Asks(p, "idle") /\ Asks(p, "price")')
  BY OpenNext DEF BInv, TypeOK, BookingTypeOK
<1>1. ASSUME NEW o \in OrderIds, RequestStep(o)
      PROVE  SeatKeyInv'
  <2> USE DEF SeatKeyInv, Over
  <2>1. ASSUME NEW u \in Users, NEW k \in Keys, NEW S \in SUBSET Seats, Verify(o, u, k, S)
        PROVE  SeatKeyInv'
    <3>1. request' = [request EXCEPT ![o] =
                        [pc |-> "price", user |-> u, key |-> k, seats |-> S]]
      BY <2>1 DEF Verify
    <3>2. \A p \in OrderIds, s \in S : Over(p, u, s) /\ Open(p) => request[p].key = k
      BY <2>1 DEF Verify, MayOrder
    <3>3. \A p \in OrderIds : p # o /\ Open(p)' => Open(p)
      BY <1>0, <3>1 DEF Verify, Asks, Requests
    <3> QED
      BY <1>0, <3>1, <3>2, <3>3
  <2>2. CASE \/ Price(o) \/ Insert(o) \/ ExtendHold(o) \/ Commit(o)
             \/ Publish(o) \/ PublishFails(o)
    <3>1. \A p \in OrderIds : /\ request'[p].user = request[p].user
                              /\ request'[p].key = request[p].key
                              /\ request'[p].seats = request[p].seats
                              /\ request[p].pc = "idle" => request'[p].pc = "idle"
      BY <1>0, <2>2 DEF Price, Insert, ExtendHold, Commit, Publish, PublishFails,
                        Goto, Requests, Asks
    <3> QED
      BY <1>0, <3>1 DEF Asks
  <2>3. CASE Drop(o)
    <3>1. \A p \in OrderIds : /\ request'[p] \in {request[p], NoRequest}
                              /\ Open(p)' => Open(p)
      BY <1>0, <2>3 DEF Drop, NoRequest, Asks
    <3> QED
      BY <1>0, <3>1, StoreAssumption DEF NoRequest
  <2> QED
    BY <1>1, <2>1, <2>2, <2>3 DEF RequestStep, NotPriceable, HoldLost, Replay, RequestFails
<1>2. CASE ~ \E o \in OrderIds : RequestStep(o)
  <2>1. UNCHANGED request
    BY <1>0, <1>2, RequestUntouched
  <2> QED
    BY <1>0, <2>1 DEF SeatKeyInv, Over, Asks
<1> QED
  BY <1>1, <1>2

\* A hold under a live order ends neither by its owner's request, nor by the
\* cleanup of another order, nor before the order's window.
LEMMA HoldNext ==
  ASSUME BInv, HoldInv, Clients = {}, [Next]_vars
  PROVE  OrderKeepsHold'
<1>0. /\ BookingTypeOK /\ RequestInv /\ KeyInv /\ StoreOK /\ LockTypeOK
      /\ request \in [OrderIds -> Requests]
      /\ OrderKeepsHold /\ SeatKeyInv
  BY DEF BInv, TypeOK, SLTypeOK, BookingTypeOK, StoreOK, HoldInv
<1> USE DEF OrderKeepsHold, Live, Asks
<1>1. ASSUME NEW r \in LockReqs, LockRequest(r)
      PROVE  OrderKeepsHold'
  <2>1. UNCHANGED bookingVars
    BY <1>1, LockRequestStep
  <2>2. ASSUME NEW s \in Seats, NEW u \in Users, LockSeat(r, s, u)
        PROVE  OrderKeepsHold'
    <3>1. lock[s] = NoUser
      BY <2>2 DEF LockSeat, Acquire, SeatTaken, Rehold
    <3>2. \A o \in OrderIds : Live(o) => s \notin request[o].seats
      BY <1>0, <3>1, StoreAssumption DEF RequestInv
    <3> QED
      BY <1>0, <2>1, <2>2, <3>2 DEF LockSeat, Acquire, bookingVars, Requests, StoreOK, StoreTypeOK
  <2>3. ASSUME NEW s \in Seats, NEW u \in Users, MayRelease(u, s), ReleaseSeat(r, s, u)
        PROVE  OrderKeepsHold'
    <3>1. \A o \in OrderIds : Live(o) => s \notin request[o].seats
      BY <1>0, <2>3 DEF MayRelease, Over, Unsettled, ReleaseSeat, Release, RequestInv
    <3> QED
      BY <1>0, <2>1, <2>3, <3>1 DEF ReleaseSeat, Release, bookingVars, Requests, StoreOK, StoreTypeOK
  <2>4. CASE UNCHANGED storeVars
    BY <1>0, <2>1, <2>4 DEF storeVars, bookingVars
  <2> QED
    BY <1>1, <2>2, <2>3, <2>4 DEF LockRequest, ReholdSeat, FindActive, RecordAcquired,
       RecordReleased, AuditLost
<1>2. ASSUME NEW o \in OrderIds, RequestStep(o)
      PROVE  OrderKeepsHold'
  <2>1. CASE ExtendHold(o)
    <3>1. /\ UNCHANGED <<lock, status, left>>
          /\ request' = [request EXCEPT ![o].pc = "commit"]
          /\ \A s \in request[o].seats : lock[s] = request[o].user
          /\ ttl' = [s \in Seats |-> IF s \in request[o].seats THEN BookingWindow ELSE ttl[s]]
      BY <2>1 DEF ExtendHold, Extend, Goto, OwnsAll
    <3>2. \A p \in OrderIds : left[p] <= BookingWindow
      BY <1>0, StoreAssumption DEF BookingTypeOK
    <3> QED
      BY <1>0, <3>1, <3>2 DEF Requests
  <2>2. CASE Commit(o)
    BY <1>0, <2>2 DEF Commit, Goto, slVars, Requests, BookingTypeOK
  <2>3. CASE ~(ExtendHold(o) \/ Commit(o))
    <3>1. UNCHANGED <<lock, ttl, status>>
      BY <1>2, <2>3 DEF RequestStep, Verify, Price, NotPriceable, Insert, HoldLost,
         Publish, Replay, PublishFails, RequestFails, Drop, slVars
    <3>2. request'[o].pc # "commit"
      BY <1>0, <1>2, <2>3 DEF RequestStep, Verify, Price, NotPriceable, Insert, HoldLost,
         Publish, Replay, PublishFails, RequestFails, Drop, Goto, NoRequest, Requests
    <3>3. \A p \in OrderIds : p # o => request'[p] = request[p] /\ left'[p] = left[p]
      BY <1>0, <1>2, <2>3 DEF RequestStep, Verify, Price, NotPriceable, Insert, HoldLost,
         Publish, Replay, PublishFails, RequestFails, Drop, Goto, BookingTypeOK
    <3>4. CASE Publish(o) \/ PublishFails(o)
      BY <1>0, <3>1, <3>2, <3>3, <3>4 DEF Publish, PublishFails, Goto, Requests
    <3>5. CASE ~(Publish(o) \/ PublishFails(o))
      <4>1. request[o].pc \notin {"publish", "done"}
        BY <1>2, <2>3, <3>5 DEF RequestStep, Verify, Price, NotPriceable, Insert,
           HoldLost, Replay, RequestFails
      <4>2. status[o] = "none"
        BY <1>0, <4>1 DEF RequestInv
      <4> QED
        BY <1>0, <3>1, <3>2, <3>3, <4>2
    <3> QED
      BY <3>4, <3>5
  <2> QED
    BY <2>1, <2>2, <2>3
<1>3. ASSUME NEW o \in OrderIds, DeadLetter(o) \/ Requeue(o) \/ PayOutOfBand(o)
      PROVE  OrderKeepsHold'
  BY <1>0, <1>3 DEF DeadLetter, Requeue, PayOutOfBand, slVars, orderVars, timerVars, BookingTypeOK
<1>4. ASSUME NEW w \in Workers, NEW s \in Seats, ReleaseHold(w, s)
      PROVE  OrderKeepsHold'
  <2> DEFINE q == worker[w].order
             u == request[q].user
  <2>1. /\ q \in OrderIds /\ u \in Users /\ request[q].pc = "done"
        /\ status[q] = "EXPIRED" /\ s \in request[q].seats
    BY <1>4, WorkerOrder DEF ReleaseHold, WorkAt, Busy, BInv, WorkerInv
  <2>2. UNCHANGED orderVars
    BY <1>4 DEF ReleaseHold
  <2>3. CASE Release(s, u)
    <3>1. ASSUME NEW o \in OrderIds, Live(o), s \in request[o].seats
          PROVE  FALSE
      <4>1. request[o].user = u
        BY <1>0, <2>3, <3>1 DEF Release
      <4>2. request[o].key = request[q].key
        <5>1. Open(o)
          BY <3>1 DEF Open
        <5>2. Open(q)
          BY <1>4 DEF Open, Cleaning, ReleaseHold, WorkAt
        <5> QED
          BY <1>0, <2>1, <3>1, <4>1, <5>1, <5>2 DEF SeatKeyInv, Over
      <4>3. o # q
        BY <2>1, <3>1
      <4>4. request[o].pc \in {"commit", "publish", "done"}
        BY <1>0, <3>1 DEF RequestInv
      <4> QED
        BY <1>0, <2>1, <4>1, <4>2, <4>3, <4>4 DEF KeyInv, Indexed, SameKey
    <3> QED
      BY <1>0, <2>2, <2>3, <3>1 DEF Release, orderVars, Requests, StoreOK, StoreTypeOK
  <2>4. CASE ReleaseRefused(s, u)
    BY <1>0, <2>2, <2>4 DEF ReleaseRefused, storeVars, orderVars
  <2> QED
    BY <1>4, <2>3, <2>4 DEF ReleaseHold
<1>5. ASSUME NEW w \in Workers, WorkStep(w), ~ \E s \in Seats : ReleaseHold(w, s)
      PROVE  OrderKeepsHold'
  <2>1. UNCHANGED <<lock, ttl, request, left>>
    BY <1>5 DEF WorkStep, Deliver, Expire, ExpireAudit, Ack, WorkerFails,
       ConnectionLost, slVars, storeVars, orderVars
  <2>2. \A o \in OrderIds : status'[o] = "PENDING" => status[o] = "PENDING"
    BY <1>0, <1>5 DEF WorkStep, Deliver, Expire, ExpireAudit, Ack, WorkerFails,
       ConnectionLost, orderVars, BookingTypeOK
  <2> QED
    BY <1>0, <2>1, <2>2
<1>6. CASE Time
  <2> SUFFICES ASSUME NEW o \in OrderIds, Live(o)', NEW s \in request[o].seats
               PROVE  lock'[s] = request[o].user /\ ttl'[s] >= left'[o]
    BY <1>6 DEF Time
  <2>1. status[o] = "PENDING" /\ left'[o] > 0 /\ left'[o] = left[o] - 1
    BY <1>0, <1>6 DEF Time, Less, OpenTx, BookingTypeOK
  <2>2. lock[s] = request[o].user /\ ttl[s] >= left[o] /\ left[o] > 1
    BY <1>0, <2>1 DEF BookingTypeOK
  <2>3. s \in Seats /\ ttl[s] \in Nat /\ left[o] \in Nat
    BY <1>0, StoreAssumption DEF Requests, BookingTypeOK, StoreOK, StoreTypeOK
  <2>4. ttl'[s] = ttl[s] - 1 /\ lock'[s] = lock[s]
    BY <1>6, <2>2, <2>3 DEF Time, Tick, Elapse
  <2> QED
    BY <2>1, <2>2, <2>3, <2>4
<1>7. CASE UNCHANGED vars
  BY <1>0, <1>7 DEF vars
<1>8. ASSUME NEW p \in Processes, ProcessCrashes(p)
      PROVE  OrderKeepsHold'
  BY <1>0, <1>8 DEF ProcessCrashes, slVars, orderVars
<1>9. CASE Next
  BY <1>1, <1>2, <1>3, <1>4, <1>5, <1>6, <1>8, <1>9 DEF Next
<1> QED
  BY <1>7, <1>9

\* If clients neither release nor re-order seats under their orders, an order
\* keeps its seats locked until its expiresAt, and no two live orders are over
\* the same seat: with every fault, for any numbers and any TTLs (verifyHeld,
\* extendHold inside the transaction, and the delay of the timer together).
THEOREM OrdinaryClientsKeepHolds ==
  ASSUME Clients = {}
  PROVE  Spec => [](OrderKeepsHold /\ LiveOrdersDisjoint)
<1>1. Init => HoldInv
  BY StoreAssumption DEF Init, HoldInv, SeatKeyInv, Over, OrderKeepsHold, Live, Asks, NoRequest
<1>2. BInv /\ HoldInv /\ [Next]_vars => HoldInv'
  BY HoldNext, SeatKeyNext DEF HoldInv
<1>3. BInv /\ HoldInv => OrderKeepsHold /\ LiveOrdersDisjoint
  <2> SUFFICES ASSUME BInv, HoldInv, NEW o \in OrderIds, NEW p \in OrderIds,
                      Live(o), Live(p), o # p,
                      NEW s \in request[o].seats \cap request[p].seats
               PROVE  FALSE
    BY DEF HoldInv, LiveOrdersDisjoint
  <2>1. /\ RequestInv /\ KeyInv /\ request \in [OrderIds -> Requests]
        /\ OrderKeepsHold /\ SeatKeyInv
    BY DEF BInv, TypeOK, BookingTypeOK, HoldInv
  <2>2. request[o].pc \in {"commit", "publish", "done"}
        /\ request[p].pc \in {"commit", "publish", "done"}
    BY <2>1 DEF Live, Asks, RequestInv
  <2>3. request[o].user = request[p].user /\ request[o].user \in Users /\ s \in Seats
    BY <2>1, <2>2 DEF OrderKeepsHold, RequestInv, Requests
  <2>4. request[o].key = request[p].key
    <3>1. Open(o) /\ Open(p)
      BY DEF Open, Live, Asks
    <3> QED
      BY <2>1, <2>3, <3>1 DEF SeatKeyInv, Over
  <2> QED
    BY <2>1, <2>2, <2>3, <2>4 DEF KeyInv, Indexed, SameKey
<1> QED
  BY <1>1, <1>2, <1>3, BInvAlways, PTL DEF Spec

\* No seat is sold twice at a time: of what orders ask for, this is what their holds and
\* their keys are for.
THEOREM LiveOrdersAreDisjoint ==
  ASSUME Clients = {}
  PROVE  Spec => []LiveOrdersDisjoint
<1>1. Spec => [](OrderKeepsHold /\ LiveOrdersDisjoint)
  BY OrdinaryClientsKeepHolds
<1> QED
  BY <1>1, PTL

=============================================================================
