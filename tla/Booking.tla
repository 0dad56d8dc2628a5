------------------------------- MODULE Booking -------------------------------
(***************************************************************************)
(* UC09 and UC10 together.  An order is created from seats the user holds: *)
(* check the holds in Redis, price the seats, and in one database          *)
(* transaction insert the order and extend the holds; after the commit a   *)
(* timer message goes to RabbitMQ.  When it comes back a worker expires    *)
(* the order unless it was settled, and gives its seats back.              *)
(*                                                                         *)
(* Requests, workers, lock requests of SeatLock, time and payment (set by  *)
(* hand in the database, there is no payment code) interleave at every     *)
(* await.  A request is identified with the order it will create if it     *)
(* commits: request[o] is the call that asks for o.                        *)
(*                                                                         *)
(* A worker is a handler call of one process of the service.  Messaging is *)
(* the module of how a process keeps its connection; here a delivery may   *)
(* become stale, its process answering on another channel from then on.    *)
(***************************************************************************)
EXTENDS SeatLock

CONSTANTS OrderIds,   \* bound: orders created and requests in progress
          Keys,       \* idempotency keys
          NoKey,
          Processes,  \* processes of the service, each with its this.channel
          Handlers,   \* bound: timer messages a process handles at a time
          NoOrder,
          Clients     \* what clients do beyond the ordinary, see below

\* "release"  give back a seat that an own order, or order request, is over
\* "reorder"  with a new key, order a seat under an own order that is still open
\*            (repeating a request with its key is ordinary)
ClientKinds == {"release", "reorder"}

ASSUME BookingAssumption ==
    /\ NoKey \notin Keys
    /\ NoOrder \notin OrderIds
    /\ NoOrder \notin [status : {"PENDING", "EXPIRED", "PAID"}, user : Users, key : Keys]
    /\ Clients \subseteq ClientKinds

\* Worker <<p, h>> is handler call h of process p.
Workers == Processes \X Handlers
Of(p) == {w \in Workers : w[1] = p}

VARIABLES request,   \* request[o]: POST /orders, and the contents of the row
          status,    \* status[o]: orders.status, "none" before the commit
          left,      \* left[o]: ticks until orders.expiresAt
          msg,       \* msg[o]: where the timer message of o is
          wait,      \* wait[o]: ticks it still stays in delay.q
          worker     \* worker[w]: a delivery being handled; it is stale when
                     \* this.channel of its process is not its channel any more

orderVars == <<request, status, left>>
timerVars == <<msg, wait>>
bookingVars == <<request, status, left, msg, wait, worker>>
vars == <<lock, ttl, held, eventHeld, lockReq, active,
          request, status, left, msg, wait, worker>>

NoRequest == [pc |-> "idle", user |-> NoUser, key |-> NoKey, seats |-> {}]
RequestSteps == {"idle", "price", "insert", "extend", "commit", "replay",
                 "publish", "done"}
OpenTx == {"extend", "commit"}

NoWork == [pc |-> "idle", order |-> NoOrder, todo |-> {}, stale |-> FALSE]
WorkSteps == {"idle", "expire", "release", "audit", "ack"}

Requests == [pc : RequestSteps, user : Users \cup {NoUser},
             key : Keys \cup {NoKey}, seats : SUBSET Seats]
Works == [pc : WorkSteps, order : OrderIds \cup {NoOrder},
          todo : SUBSET Seats, stale : BOOLEAN]

BookingTypeOK ==
    /\ request \in [OrderIds -> Requests]
    /\ status \in [OrderIds -> {"none", "PENDING", "EXPIRED", "PAID"}]
    /\ left \in [OrderIds -> 0..BookingWindow]
    /\ msg \in [OrderIds -> {"none", "delay", "work", "taken", "acked", "dropped"}]
    /\ wait \in [OrderIds -> 0..BookingWindow]
    /\ worker \in [Workers -> Works]

TypeOK == SLTypeOK /\ BookingTypeOK

Init ==
    /\ SLInit
    /\ request = [o \in OrderIds |-> NoRequest]
    /\ status = [o \in OrderIds |-> "none"]
    /\ left = [o \in OrderIds |-> 0]
    /\ msg = [o \in OrderIds |-> "none"]
    /\ wait = [o \in OrderIds |-> 0]
    /\ worker = [w \in Workers |-> NoWork]

Asks(o, pc) == request[o].pc = pc
Goto(o, pc) == request' = [request EXCEPT ![o].pc = pc]
WorkAt(w, pc) == worker[w].pc = pc

\* o is an order of u, or a request for one, over seat s.
Over(o, u, s) == request[o].user = u /\ s \in request[o].seats
Unsettled(o) == status[o] \in {"none", "PENDING"}

\* w gives back the seats of o.
Cleaning(w, o) == worker[w].pc \in {"release", "audit"} /\ worker[w].order = o

\* Requested and not answered, or neither paid nor expired, or expired and its
\* seats are being given back.
Open(o) ==
    \/ request[o].pc \notin {"idle", "done"}
    \/ status[o] = "PENDING"
    \/ \E w \in Workers : Cleaning(w, o)

MayOrder(u, k, s) ==
    \/ "reorder" \in Clients
    \/ \A o \in OrderIds : Over(o, u, s) /\ Open(o) => request[o].key = k
MayRelease(u, s) ==
    "release" \in Clients \/ \A o \in OrderIds : Over(o, u, s) => ~Unsettled(o)

-----------------------------------------------------------------------------
(* CreateOrderUseCase.execute, one action per await.                       *)

\* The read-only check.  If it fails the request ends with 422.
Verify(o, u, k, S) ==
    /\ Asks(o, "idle")
    /\ S # {}
    /\ \A s \in S : MayOrder(u, k, s)
    /\ OwnsAll(S, u)
    /\ request' = [request EXCEPT ![o] =
                      [pc |-> "price", user |-> u, key |-> k, seats |-> S]]
    /\ UNCHANGED <<slVars, status, left, timerVars, worker>>

\* Mutant of Price: the window is added to a moment that lies ahead.
PriceLate(o) ==
    /\ Asks(o, "price")
    /\ Goto(o, "insert")
    /\ left' = [left EXCEPT ![o] = 2 * BookingWindow]
    /\ UNCHANGED <<slVars, status, timerVars, worker>>

\* The price query answers and expiresAt is computed; expiry is counted from
\* here, before the transaction begins.
Price(o) ==
    /\ Asks(o, "price")
    /\ Goto(o, "insert")
    /\ left' = [left EXCEPT ![o] = BookingWindow]
    /\ UNCHANGED <<slVars, status, timerVars, worker>>

\* A request that ends without an order leaves nothing behind.
Drop(o) ==
    /\ request' = [request EXCEPT ![o] = NoRequest]
    /\ left' = [left EXCEPT ![o] = 0]
    /\ UNCHANGED <<slVars, status, timerVars, worker>>

\* A seat without a ticket type cannot be priced.
NotPriceable(o) == Asks(o, "price") /\ Drop(o)

SameKey(o, p) ==
    p # o /\ request[p].user = request[o].user /\ request[p].key = request[o].key
\* Mutant of KeyCommitted: an expired order frees its key.
KeyPending(o) == \E p \in OrderIds : SameKey(o, p) /\ status[p] = "PENDING"

KeyCommitted(o) == \E p \in OrderIds : SameKey(o, p) /\ status[p] # "none"
KeyInOpenTx(o) == \E p \in OrderIds : SameKey(o, p) /\ request[p].pc \in OpenTx

\* INSERT under the unique index on user and key: it waits for an open
\* transaction that inserted the same key, fails on a committed one, and
\* goes on otherwise.
Insert(o) ==
    /\ Asks(o, "insert")
    /\ ~KeyInOpenTx(o)
    /\ Goto(o, IF KeyCommitted(o) THEN "replay" ELSE "extend")
    /\ UNCHANGED <<slVars, status, left, timerVars, worker>>

\* Mutant of ExtendHold: the transaction checks the hold and leaves its TTL.
CheckHold(o) ==
    /\ Asks(o, "extend")
    /\ OwnsAll(request[o].seats, request[o].user)
    /\ Goto(o, "commit")
    /\ UNCHANGED <<slVars, status, left, timerVars, worker>>

\* confirmHold, inside the transaction.
ExtendHold(o) ==
    /\ Asks(o, "extend")
    /\ Extend(request[o].seats, request[o].user)
    /\ Goto(o, "commit")
    /\ UNCHANGED <<lockVars, status, left, timerVars, worker>>

\* A hold was lost since the check: the transaction rolls back.
HoldLost(o) ==
    /\ Asks(o, "extend")
    /\ ~OwnsAll(request[o].seats, request[o].user)
    /\ Drop(o)

Commit(o) ==
    /\ Asks(o, "commit")
    /\ status' = [status EXCEPT ![o] = "PENDING"]
    /\ Goto(o, "publish")
    /\ UNCHANGED <<slVars, left, timerVars, worker>>

\* publishDelayed resolves when the broker has the message.
Publish(o) ==
    /\ Asks(o, "publish")
    /\ msg' = [msg EXCEPT ![o] = "delay"]
    /\ wait' = [wait EXCEPT ![o] = BookingWindow]
    /\ Goto(o, "done")
    /\ UNCHANGED <<slVars, status, left, worker>>

\* resolveReplay: the order of the same key is read and returned, or the
\* request fails with 409; it writes nothing.
Replay(o) == Asks(o, "replay") /\ Drop(o)

\* The broker refuses the message or the process dies after the commit: the
\* client gets an error for an order that exists.
PublishFails(o) ==
    /\ "publish" \in Faults
    /\ Asks(o, "publish")
    /\ Goto(o, "done")
    /\ UNCHANGED <<slVars, status, left, timerVars, worker>>

\* The request fails or its process dies before the commit; the database
\* rolls back, an extended TTL stays extended.
RequestFails(o) ==
    /\ "request" \in Faults
    /\ request[o].pc \in {"price", "insert", "extend", "commit", "replay"}
    /\ Drop(o)

RequestStep(o) ==
    \/ \E u \in Users, k \in Keys, S \in SUBSET Seats : Verify(o, u, k, S)
    \/ Price(o) \/ NotPriceable(o) \/ Insert(o)
    \/ ExtendHold(o) \/ HoldLost(o) \/ Commit(o)
    \/ Publish(o) \/ Replay(o)
    \/ PublishFails(o) \/ RequestFails(o)

-----------------------------------------------------------------------------
(* The broker and the timeout worker.                                      *)

\* Mutant of DeadLetter: delay.q without its dead-letter exchange.
TimerExpires(o) ==
    /\ msg[o] = "delay"
    /\ wait[o] = 0
    /\ msg' = [msg EXCEPT ![o] = "dropped"]
    /\ UNCHANGED <<slVars, orderVars, wait, worker>>

\* delay.q has a fixed TTL; a message whose time is up goes to work.x and on
\* to order.timeout.q.
DeadLetter(o) ==
    /\ msg[o] = "delay"
    /\ wait[o] = 0
    /\ msg' = [msg EXCEPT ![o] = "work"]
    /\ UNCHANGED <<slVars, orderVars, wait, worker>>

\* Mutant of Deliver: a consumer that acknowledges on receipt.
DeliverAcked(w, o) ==
    /\ WorkAt(w, "idle")
    /\ msg[o] = "work"
    /\ msg' = [msg EXCEPT ![o] = "acked"]
    /\ worker' = [worker EXCEPT ![w] =
                     [pc |-> "expire", order |-> o, todo |-> {}, stale |-> FALSE]]
    /\ UNCHANGED <<slVars, orderVars, wait>>

Deliver(w, o) ==
    /\ WorkAt(w, "idle")
    /\ msg[o] = "work"
    /\ msg' = [msg EXCEPT ![o] = "taken"]
    /\ worker' = [worker EXCEPT ![w] =
                     [pc |-> "expire", order |-> o, todo |-> {}, stale |-> FALSE]]
    /\ UNCHANGED <<slVars, orderVars, wait>>

\* Mutant of Expire: a delivery that finds the order expired cleans up too.
ExpireOrRepeat(w) ==
    /\ WorkAt(w, "expire")
    /\ LET o == worker[w].order
       IN  \/ /\ status[o] # "PAID"
              /\ status' = [status EXCEPT ![o] = "EXPIRED"]
              /\ worker' = [worker EXCEPT ![w].pc = "release",
                                          ![w].todo = request[o].seats]
           \/ /\ status[o] = "PAID"
              /\ worker' = [worker EXCEPT ![w].pc = "ack"]
              /\ UNCHANGED status
    /\ UNCHANGED <<slVars, request, left, timerVars>>

\* markExpiredIfPending: only the delivery that turns PENDING into EXPIRED
\* goes on to give the seats back.
Expire(w) ==
    /\ WorkAt(w, "expire")
    /\ LET o == worker[w].order
       IN  \/ /\ status[o] = "PENDING"
              /\ status' = [status EXCEPT ![o] = "EXPIRED"]
              /\ worker' = [worker EXCEPT ![w].pc = "release",
                                          ![w].todo = request[o].seats]
           \/ /\ status[o] # "PENDING"
              /\ worker' = [worker EXCEPT ![w].pc = "ack"]
              /\ UNCHANGED status
    /\ UNCHANGED <<slVars, request, left, timerVars>>

\* releaseHold of one seat; whether the script found the user's lock or not is
\* not looked at.  The seats are released one call after another.
ReleaseHold(w, s) ==
    /\ WorkAt(w, "release")
    /\ s \in worker[w].todo
    /\ LET u == request[worker[w].order].user
       IN  Release(s, u) \/ ReleaseRefused(s, u)
    /\ worker' = [worker EXCEPT ![w].todo = @ \ {s},
                                ![w].pc = IF worker[w].todo = {s} THEN "audit" ELSE @]
    /\ UNCHANGED <<lockVars, orderVars, timerVars>>

\* expireSeatLockAudit: the ACTIVE rows of the order's seats and user.
ExpireAudit(w) ==
    /\ WorkAt(w, "audit")
    /\ LET o == worker[w].order
       IN  active' = [s \in Seats |->
                        IF s \in request[o].seats
                        THEN [active[s] EXCEPT ![request[o].user] = 0]
                        ELSE active[s]]
    /\ worker' = [worker EXCEPT ![w].pc = "ack"]
    /\ UNCHANGED <<storeVars, lockReq, orderVars, timerVars>>

Leave(w) == worker' = [worker EXCEPT ![w] = NoWork]

\* The broker waits for w's answer to the timer of o.
Awaited(w, o) == worker[w].order = o /\ ~worker[w].stale /\ msg[o] = "taken"

\* The process ends, and all its handlers with it.
Dies(p) == worker' = [w \in Workers |-> IF w \in Of(p) THEN NoWork ELSE worker[w]]

\* ack and nack go out on this.channel with the tag of the delivery's own channel.
\* The tag of a stale delivery may be the tag of any delivery that is awaited on
\* this.channel.
Answers(w) ==
    {o \in OrderIds : \E v \in Of(w[1]) : Awaited(v, o) /\ (v = w \/ worker[w].stale)}

\* A message is settled, w's own or another; or this.channel is closed or does not
\* know the tag, which ends the process.
Settle(w, how) ==
    \/ \E o \in Answers(w) : msg' = [msg EXCEPT ![o] = how] /\ Leave(w)
    \/ /\ ~Awaited(w, worker[w].order)
       /\ Dies(w[1])
       /\ UNCHANGED msg

\* Mutant of Ack: the handler is called without await.
AckUnawaited(w) ==
    /\ ~WorkAt(w, "idle")
    /\ Settle(w, "acked")
    /\ UNCHANGED <<slVars, orderVars, wait>>

Ack(w) ==
    /\ WorkAt(w, "ack")
    /\ Settle(w, "acked")
    /\ UNCHANGED <<slVars, orderVars, wait>>

\* A handler that throws is answered with nack without requeue, and the queue
\* has no dead-letter exchange.
WorkerFails(w) ==
    /\ "handler" \in Faults
    /\ worker[w].pc \in {"expire", "release", "audit"}
    /\ Settle(w, "dropped")
    /\ UNCHANGED <<slVars, orderVars, wait>>

ProcessCrashes(p) ==
    /\ "crash" \in Faults
    /\ \E w \in Of(p) : ~WorkAt(w, "idle")
    /\ Dies(p)
    /\ UNCHANGED <<slVars, orderVars, timerVars>>

\* The delivery's channel closes, or connect() replaces it; the handler runs on.
ConnectionLost(w) ==
    /\ "connection" \in Faults
    /\ ~WorkAt(w, "idle")
    /\ ~worker[w].stale
    /\ worker' = [worker EXCEPT ![w].stale = TRUE]
    /\ UNCHANGED <<slVars, orderVars, timerVars>>

\* The broker notices that the connection is gone and delivers the message again.
Requeue(o) ==
    /\ msg[o] = "taken"
    /\ \A w \in Workers : ~Awaited(w, o)
    /\ msg' = [msg EXCEPT ![o] = "work"]
    /\ UNCHANGED <<slVars, orderVars, wait, worker>>

WorkStep(w) ==
    \/ \E o \in OrderIds : Deliver(w, o)
    \/ Expire(w)
    \/ \E s \in Seats : ReleaseHold(w, s)
    \/ ExpireAudit(w) \/ Ack(w)
    \/ WorkerFails(w) \/ ConnectionLost(w)

-----------------------------------------------------------------------------
(* The rest of the world.                                                  *)

\* Lock and release requests go on beside the orders.
LockRequest(r) ==
    /\ \/ \E s \in Seats, u \in Users : LockSeat(r, s, u) \/ ReholdSeat(r, s, u)
       \/ \E s \in Seats, u \in Users :
             MayRelease(u, s) /\ ReleaseSeat(r, s, u)
       \/ FindActive(r) \/ RecordAcquired(r) \/ RecordReleased(r) \/ AuditLost(r)
    /\ UNCHANGED bookingVars

\* Payment is not written yet; an operator sets the status by hand.
PayOutOfBand(o) ==
    /\ status[o] = "PENDING"
    /\ status' = [status EXCEPT ![o] = "PAID"]
    /\ UNCHANGED <<slVars, request, left, timerVars, worker>>

Less(timer) == [o \in OrderIds |-> IF timer[o] = 0 THEN 0 ELSE timer[o] - 1]

\* Redis, PostgreSQL and RabbitMQ measure the same time.  A transaction is far
\* shorter than a tick (Prisma ends it after five seconds, the window is 900).
Time ==
    /\ \A o \in OrderIds : request[o].pc \notin OpenTx
    /\ Tick
    /\ left' = Less(left)
    /\ wait' = Less(wait)
    /\ UNCHANGED <<request, status, msg, worker>>

Next ==
    \/ \E r \in LockReqs : LockRequest(r)
    \/ \E o \in OrderIds :
          RequestStep(o) \/ DeadLetter(o) \/ Requeue(o) \/ PayOutOfBand(o)
    \/ \E w \in Workers : WorkStep(w)
    \/ \E p \in Processes : ProcessCrashes(p)
    \/ Time

Spec == Init /\ [][Next]_vars

(* What every request and worker does unless a fault stops it, the broker  *)
(* dead-letters, delivers and requeues, and time passes.  Transactions     *)
(* keep Time disabled while they are open, one after the other for ever if *)
(* need be, so Time needs strong fairness; in the world it waits for       *)
(* nobody.  Nor does the broker wait for a handler to return before it     *)
(* delivers: it does so only in the bounds of the model.  Crash after      *)
(* crash disables a worker's next step again and again: strong fairness    *)
(* says that not every delivery of a timer ends in a crash.                *)
RequestProgress(o) ==
    \/ Price(o) \/ NotPriceable(o) \/ Insert(o) \/ ExtendHold(o) \/ HoldLost(o)
    \/ Commit(o) \/ Publish(o) \/ Replay(o)

WorkProgress(w) ==
    \/ Expire(w) \/ (\E s \in Seats : ReleaseHold(w, s))
    \/ ExpireAudit(w) \/ Ack(w)

Fairness ==
    /\ SF_vars(Time)
    /\ \A o \in OrderIds :
          /\ WF_vars(RequestProgress(o))
          /\ WF_vars(DeadLetter(o))
          /\ WF_vars(Requeue(o))
          /\ SF_vars(\E w \in Workers : Deliver(w, o))
          /\ SF_vars(\E w \in Workers : worker[w].order = o /\ WorkProgress(w))

FairSpec == Spec /\ Fairness

-----------------------------------------------------------------------------
(* Orders as the abstract order book sees them.                            *)

BookEntry(o) ==
    IF status[o] = "none" THEN NoOrder
    ELSE [status |-> status[o], user |-> request[o].user, key |-> request[o].key]

Orders == INSTANCE OrderBook WITH book <- [o \in OrderIds |-> BookEntry(o)],
                                  Window <- BookingWindow

\* Whatever races, faults and repeated requests do, a key creates one order,
\* an order is settled once, a paid order is never expired, and no order is
\* expired before its expiresAt (the unique index of schema.prisma:279, the
\* compare-and-set of markExpiredIfPending, the delay of delay.q).
OrdersAreBooked == Orders!Spec

\* An order that nobody pays expires: expiration-publisher.port.ts:5, "Schedule
\* an auto-cancel for the order".
OrdersSettle == Orders!EveryOrderSettles

-----------------------------------------------------------------------------
(* Timer messages as the abstract work queue sees them.                    *)

TimerPlace(o) ==
    CASE msg[o] \in {"none", "delay"} -> "absent"
      [] msg[o] = "work" -> "ready"
      [] msg[o] = "taken" ->
            IF \E w \in Workers : Awaited(w, o)
            THEN IF \E w \in Workers : Awaited(w, o) /\ WorkAt(w, "ack")
                 THEN "done" ELSE "running"
            ELSE "ready"
      [] OTHER -> msg[o]

Timers == INSTANCE WorkQueue WITH Items <- OrderIds,
                                  Strays <- "connection" \in Faults,
                                  at <- [o \in OrderIds |-> TimerPlace(o)]

\* A timer has one delivery that counts, comes back if that one is lost, and unless
\* connections are lost under handlers is acknowledged only after that one went
\* through its order (registerConsumer, handleMessage; the queue that
\* MessagingService provides).
TimersAreQueued == Timers!Spec

-----------------------------------------------------------------------------
(* The timer.                                                              *)

UsedUp == {"acked", "dropped"}

\* A timer is used up for a reason: its order is settled, or its own handler threw,
\* or a stale delivery of the process that works on it answered with its tag
\* (handleMessage acks after the handler, on whatever channel the process has).
TimersEndForAReason ==
    [][\A o \in OrderIds :
          msg[o] \notin UsedUp /\ msg'[o] \in UsedUp =>
             \/ msg'[o] = "acked" /\ status[o] \in {"EXPIRED", "PAID"}
             \/ msg'[o] = "dropped" /\ \E w \in Workers : Awaited(w, o) /\ worker'[w] = NoWork
             \/ \E w, v \in Workers : /\ worker[w].stale /\ worker'[w] = NoWork
                                      /\ Awaited(v, o) /\ v[1] = w[1]]_vars

\* Unless a publish or a handler failed, or a connection was lost under a handler,
\* every PENDING order whose request is over has its timer on the way, through
\* crashes too.
PendingIsTimed ==
    Faults \cap {"publish", "handler", "connection"} = {} =>
        \A o \in OrderIds :
            status[o] = "PENDING" /\ Asks(o, "done") =>
                msg[o] \in {"delay", "work", "taken"}

\* Only one delivery gives an order's seats back, redelivered as its message
\* may be, and only for an order that really expired.
OneCleanup ==
    \A o \in OrderIds, w \in Workers :
        Cleaning(w, o) =>
            /\ status[o] = "EXPIRED"
            /\ \A v \in Workers : Cleaning(v, o) => v = w

-----------------------------------------------------------------------------
(* Orders and holds.                                                       *)

Live(o) == Asks(o, "commit") \/ (status[o] = "PENDING" /\ left[o] > 0)

\* Until its expiresAt an order that nobody settled keeps its seats locked, and
\* for as long as it may live (postman/testcase.md:1334).  It takes ordinary
\* clients: a user can release or re-order a seat under an order.
OrderKeepsHold ==
    \A o \in OrderIds : Live(o) =>
        \A s \in request[o].seats :
            lock[s] = request[o].user /\ ttl[s] >= left[o]

\* Two orders that are both within their window are over different seats.
LiveOrdersDisjoint ==
    \A o, p \in OrderIds :
        Live(o) /\ Live(p) /\ o # p => request[o].seats \cap request[p].seats = {}

\* A hold ends for a reason: its lease ran out, its owner gave the seat back,
\* or an expired order of its owner did.
HoldEndsForAReason ==
    [][\A s \in Seats :
         lock[s] # NoUser /\ lock'[s] # lock[s] =>
            \/ ttl[s] = 1 /\ lock'[s] = NoUser
            \/ \E r \in LockReqs : Started(r, "recordReleased", s, lock[s])
            \/ \E w \in Workers :
                  /\ s \in worker[w].todo \ worker'[w].todo
                  /\ request[worker[w].order].user = lock[s]
                  /\ status[worker[w].order] = "EXPIRED"]_vars

\* A hold is made longer only by an order of its owner over it, and never beyond
\* the window of that order (confirmHold): time that is added to a hold is time
\* in which an order, with its own expiry, answers for it.
OnlyOrdersLengthenHolds ==
    [][\A s \in Seats :
          lock[s] # NoUser /\ ttl'[s] > ttl[s] =>
             /\ lock'[s] = lock[s] /\ ttl'[s] = BookingWindow
             /\ \E o \in OrderIds : /\ Asks(o, "extend") /\ Over(o, lock[s], s)
                                    /\ request'[o].pc = "commit"]_vars

=============================================================================
