# High-concurrency concert ticketing: formal models

TLA+ models, TLC runs and TLAPS proofs for the NestJS service in
`src/concert-ticketing`: seats are held in Redis, ordered in PostgreSQL, and
taken back by a RabbitMQ delay queue; a waiting room admits users in turn;
accounts and the catalogue of events surround that.

Line numbers below are of the repository's files; `PROJECT.json` maps every
definition to the lines it models.

## 1. Inventory

| Component | State | Operations | Talks to |
| --- | --- | --- | --- |
| Seat lock (UC09), `seat-lock/` | Redis: `lock:event:seat` with TTL, the held set of a user and of an event (no TTL); table `seat_locks` | `POST` and `DELETE` of a seat lock: one Lua script, then audit rows | Orders, which verify, extend and release the same keys |
| Orders (UC10), `order/` | tables `orders`, `order_items`, unique `(userId, idempotencyKey)` | create, replay of a key, expire | Redis hold, RabbitMQ, seat-lock audit |
| Order timeout worker, `order/application/expire-order.use-case.ts`, `order-timeout.consumer.ts` | none of its own | a delivery: compare-and-set PENDING to EXPIRED, one release script per seat, audit update | PostgreSQL, Redis |
| Messaging, `messaging/` | per process: `this.channel`, its connections, scheduled reconnects; at the broker: the queue, unacknowledged deliveries | connect, reconnect, publish, deliver, ack, nack | every consumer |
| Waiting room (UC07), `queue/` | Redis: sorted set, active set, tokens with TTL; table `waiting_rooms` | join, status, a cycle of every pod's scheduler | nothing enforces the token yet |
| Authentication (UC01-UC03), `auth/` | `users.status`; Redis: one-time code with its attempts, lock, resend and login counters, blacklist | register, verify, resend, login, logout, `JwtStrategy.validate` | e-mail |
| Catalogue (UC06, UC08, UC16, UC17, UC19), `events/`, `ticket-types/`, `seats/` | `events`, `ticket_types`, `seats`, `zones`; `order_items` refer to them | create, edit and submit an event; create, update, hide and remove types; seat map, zones, additions; the layout and the types shown | the seats that are locked and ordered |
| Organizers (UC14), `organizer/` | `organizer_profiles` | profile update, review by an administrator, queries | owners of events |
| Users (UC04), `users/` | `users.email`; Redis: the e-mail change with its code, a lock | profile, request and confirmation of an e-mail change | the table of users, e-mail |
| Infrastructure | none | Prisma and Redis clients, guards, filters, DTOs | - |

What is hard in it:

* **Two stores and a broker, no transaction over them.** A hold is in Redis, the
  order over it in PostgreSQL, its timer in RabbitMQ. Each request does them one
  after the other; the lease, `expiresAt` and the delay start at different moments.
* **Leases.** A hold can run out between any two steps of a request that has
  checked it, and the seat can be somebody else's by the next.
* **At-least-once delivery.** A timer is redelivered after a lost connection
  while the first delivery still runs; ack and nack use whatever channel the
  process has by then, and there settle another message or end the process.
* **Pods.** Admission cycles of several processes overlap, with configuration
  each read at another moment.
* **Check, await, write.** Accounts and the catalogue read, decide and write in
  separate calls that do not look again.

What makes each part correct: a seat has one owner, granted only when free and
within the quota, and nobody keeps it for ever (seat lock); a key makes one order,
settled once, expired only after its window, and settled at last (orders); a live
order keeps its seats locked (both together); a message is forgotten only after its
handler ended (or, where connections are lost under handlers, by an answer that went
astray), and the queue is read again after every failure (messaging); first come
first served within the cap, and everybody served (waiting room); only a code sent to an
address activates it, lockouts end, logged-out tokens stay out (accounts); nobody moves
to an address without a code sent there, and no two users have one (e-mail change); seats keep
types of their own event and the type they were ordered with, layouts are only added to
and shown as a whole, decisions stand as long as nobody decides in the middle of a request, an
approved organizer bears the approved name (catalogue).

`PROJECT.json` lists the hazards of the code, each at its line.

## 2. Modules

```
SeatHold   <= refined by =  SeatLock  = SeatStore + lock/release requests + audit rows
   ^                           |
   |                           v  (EXTENDS)
   +------- refined by ----- Booking  = orders + transactions + timers + workers
OrderBook  <= refined by ----- Booking
WorkQueue  <= refined by ----- Booking (timers),  Messaging (messages)
Turnstile  <= refined by = WaitingRoom
Accounts      EmailChange      Catalogue
```

| Module | Models | State |
| --- | --- | --- |
| `SeatHold` | what the seat lock promises | `owner` |
| `SeatStore` | the Redis keys and the five scripts over them: `Acquire`, `Release`, `OwnsAll`, `Extend`, and `Elapse` for the TTLs | `lock`, `ttl`, `held`, `eventHeld` |
| `SeatLock` | the lock and release requests, each script and each audit call a step: `LockSeat`, `ReholdSeat`, `ReleaseSeat`, `FindActive`, `RecordAcquired`, `RecordReleased`, `AuditLost` | `lockReq`, `active` |
| `OrderBook` | what orders promise | `book`, `left` |
| `Booking` | the whole of it: `SeatLock`, and `POST /orders` as `Verify`, `Price`, `Insert`, `ExtendHold`, `Commit`, `Publish`, `Replay`; the timer as `DeadLetter`, `Deliver`, `Expire`, `ReleaseHold`, `ExpireAudit`, `Ack`, `Requeue`, in handler calls of several processes; and the faults | `request`, `status`, `left`, `msg`, `wait`, `worker` |
| `WorkQueue` | what manual acknowledgement promises of a queue, with or without answers that go astray (`Strays`) | `at` |
| `Turnstile` | what the waiting room promises | `line`, `inside` |
| `WaitingRoom` | `JOIN_LUA`, `ADMIT_LUA`, the cycles of the pods (`ListOpenRooms`, `GetOpenRoom`, `Admit`, `CycleFails`), the edits of the row | `queue`, `active`, `token`, `room`, `joiner`, `cycle` |
| `Messaging` | one process's connections, the calls of each `connect()`, consumers and reconnects, the deliveries of its queue and their tags | `up`, `link`, `current`, `calls`, `consumers`, `timers`, `place`, `sent`, `work`, `handled`, `threw` |
| `Accounts` | `AuthService`, one step per call to Redis or PostgreSQL | `account`, `otp`, `otpLock`, `resends`, `fails`, `token`, `blacklist`, `out`, `issued`, `req` |
| `EmailChange` | `requestEmailChange` and `verifyEmailChange` of `UsersService`, one step per call, beside registrations that take addresses | `email`, `member`, `change`, `lock`, `sent`, `call` |
| `Catalogue` | `EventsService`, `TicketTypesService`, `SeatsService`, the profile of `OrganizerService`: a read with its checks, then the write; the foreign keys; orders as far as they refer to types and seats; decisions of an administrator | `status`, `model`, `details`, `owner`, `offer`, `hidden`, `row`, `items`, `org`, `req` |
| `MCBooking`, `MCAccounts`, `MCCatalogue` | what TLC needs: symmetry sets, and scenes | |
| `*Proofs` | the theorems of a component | |

**Correspondence.** A Lua script is one action, because Redis runs it alone. A
call to PostgreSQL outside a transaction is one action; the transaction of
`POST /orders` is four (`Insert`, `ExtendHold` inside it, `Commit`, or `HoldLost`),
since another request's insert of the same key waits for it (`KeyInOpenTx`) and the
hold is extended in Redis before the commit. Every await in between is a place
where other actors act. A TTL is a number of ticks; `Time`, `Tick`, `TokensElapse`,
`TimePasses` let a tick pass for all keys and deadlines of the module at once, so
leases of one second run out together. A user, a seat, a key, a code is a model value;
amounts, texts and answers are left out.

**Answers on another channel.** `handleMessage` sends ack and nack on `this.channel`, with a
tag of the delivery's own channel. `Messaging` has the tags: the answer settles whatever has
that tag on the channel of the moment, and where there is no such delivery, or the channel is
closed, the process ends. The topology and the consumer of a `connect()` also go to the
channel of the moment (`NextCall`), so a channel may have two consumers, or none of its own.
`Booking` has no tags: a delivery is *stale* once its channel is replaced, and the answer of a
stale one settles its own message, *any* timer that the same process is working on, or ends
the process (`Answers`, `Settle`): every outcome that a tag can have in `Messaging`.

**Faults** are named members of a constant (`Faults`, `Breaks`, `Deaths`, `Clients`), so that
a run or a theorem says under which of them it holds:
`audit` (the audit write throws), `request` (a request ends before its next step),
`publish`, `handler` (a handler throws, nack without requeue), `crash` (of a process, with all
its handlers), `connection` (a delivery's channel is replaced while the handler runs); for
clients, `release` (of a seat one is ordering) and `reorder` (a seat under an own order that is
still open, with another key; once it is settled and cleaned up, ordering its seat again is
ordinary). Where the code sees to nothing at all, as with two first layouts of an event, the
model has no guard either: the property is stated for behaviours that keep to a condition.

**Mutants.** Next to some definitions stands a mutant: the definition with a plausible
bug. Each property of a passing run names one that breaks it (`PROJECT.json`,
`mutants`).

## 3. Runs

Passing runs (`tlc -config X.cfg M` in this directory):

| Run | Shows |
| --- | --- |
| `seat_lock` (`SeatLock.cfg`) | `SeatLock` implements `SeatHold` (`SeatsAreHeld`); lock, TTL and held sets agree (`StoreInv`); a hold ends early only by its owner's request (`OnlyOwnerEndsHold`); every hold ends, also under re-holds (`HoldReclaimed`) |
| `booking_faults` (`MCBooking`) | with every fault and client, stale answers included: orders implement `OrderBook` (`OrdersAreBooked`); a timer is used up by a settled order, by its own handler that threw, or by a stale answer of the process that works on it, and by nothing else (`TimersEndForAReason`); one delivery cleans up (`OneCleanup`); a hold ends by its lease, its owner, or an expired order of its owner (`HoldEndsForAReason`) |
| `booking_ordinary` (`MCBooking`) | without faults and with ordinary clients a live order keeps its seats locked for at least its window (`OrderKeepsHold`), and live orders are disjoint (`LiveOrdersDisjoint`) |
| `booking_live` | with failing requests and crashing processes, but no lost publish, throwing handler or connection lost under one: no PENDING order is without a timer (`PendingIsTimed`), every order settles (`OrdersSettle`), and timers implement `WorkQueue` without strays (`TimersAreQueued`) |
| `waiting_room` | `WaitingRoom` implements `Turnstile` (`RoomIsATurnstile`); live tokens are counted (`TurnsAreCounted`); who enters enters within the cap read (`TurnsWithinCap`); once the room stays open with a cap above 0 everybody gets a turn (`EveryoneGetsATurn`) |
| `messaging` | with every break: the process always has a way to its queue (`NeverStranded`), reads it again (`ReadsAgain`), and a message whose handler has not ended is settled only by a delivery of another channel than `this.channel` (`OnlyStaleSettlesOthers`) |
| `accounts` (`MCAccounts`) | codes have accounts (`CodesHaveAccounts`), activation needs a code of the address (`ActivatedByCode`), counters get their TTL and lockouts end (`CountersExpire`, `LockoutEnds`), guesses get past the limit by no more than the requests in progress (`GuessesAreBounded`), logged-out tokens stay out (`LoggedOutStaysOut`); no two users have one address (`OneAccountPerAddress`), and an account moves only by a code sent for it to where it moves (`MovedByCode`) |
| `catalogue` (`MCCatalogue`) | seats are of types of their own event (`SeatsOwnTypes`) and of the type they were ordered with (`OrdersMatchSeats`); layouts are only added to (`LayoutOnlyGrows`), and shown as a whole when first layouts of an event do not overlap (`EveryRowIsShown`); decisions stand when none falls into an open request (`DecisionsStand`). The run keeps to both conditions (`OneFirstLayout`, `DecisionsApart`), `Catalogue` does not |

`MCAccounts` checks `Accounts` and `EmailChange` in one run: they write no common
state, so a behaviour is of one of them. `MCCatalogue` divides the requests among four
*scenes*, and a behaviour is of one: the layout of one event with its submission and
edits; layouts and removals of types over two events, with orders; everything about
types and contents of an event; the organizer's profile. All requests at once over
all rows are beyond TLC; the proofs have no scenes.

Runs that end in a violation, each a disagreement of the code with what the
repository says (`PROJECT.json`, `findings`):

| Run | What happens |
| --- | --- |
| `limit_phantom` | The quota is `SCARD` of a set without TTL. A hold that runs out stays in it, and the user is refused `TICKET_LIMIT_REACHED` without holding a seat. |
| `lost_timer` | The publish follows the commit. If it fails, the order has no timer; the replay of the request publishes none; the order stays PENDING for ever. |
| `stale_timer` | `releaseHold` compares the user, not the order. The timer of a lapsed order releases the lock of the same user's later order over the same seat. |
| `stale_ack` | A handler that outlives its connection sends its delivery tag on the next channel, where it is the tag of another message, which is then acknowledged unhandled. |

### Bounds

Every bound is a constant with a comment in its module. Two users, because a hazard
between users has a winner and a loser; three in the waiting room, so that
somebody waits behind one who waits. Two order ids, since every race here is of two
orders (same key, same seat, lapsed and later). One seat where faults are many, two
where orders of several seats overlap. A TTL of two ticks, so that something can
happen within a lease, between leases and after them; one tick where only the order of
ends matters. ACTIVE audit rows of a seat and user are counted up to `MaxRows`, which stands
for so many or more and stops nobody: 2 in `SeatLock`, where a request can add a second row;
1 in the runs of `Booking`, where the code only asks whether there is one. `Booking_faults`:
one process with two handler calls, so that a stale answer finds another timer to settle;
`Booking_live`: two processes, so that one works on while the other crashes.
`Messaging`: two connections and three reconnects, scheduled or under way, are what it
takes for one process to own two channels, for two `connect()` to be under way and for
one to lose its channel to the other; two messages for one to be settled by
the other's tag. `WaitingRoom`: a cap of 2, or of 0, when the room is open and admits
nobody. `Accounts`: one address (addresses share no key), two requests,
`OTP_MAX_ATTEMPTS` 3, so that there is a write-back before the lock, two codes (a replaced
and a replacing one), counts up to 3, one beyond the limit of logins, so that the guesses of
both requests count. `EmailChange`: two users and three
addresses, so that both have one and both want the third; two requests at a time, of one
user or of two; two codes, for two changes of one user or one of each; two attempts, so
that there is a write-back before the lock. `Catalogue`: three rows, a first
layout and additions or another event's; two contents of a row, since an edit either
changes it or does not.

Symmetry is used where no property is temporal in the liveness sense
(`MCBooking`, `MCCatalogue`). `MCAccounts` has `LockoutEnds`, so instead the first user
to sign up is a fixed one, at a fixed address.

### Fairness

* `Time` (strong, `Booking`), `Tick`, `TimePasses` (weak): clocks go on.
* A request's next step, dead-lettering, redelivery of what no handler answers for
  (weak, `Booking`): awaits return, the broker requeues. Delivery is strong for each timer,
  since the broker does not wait for handlers to return, only the bound `Handlers` does. So
  is the work on each timer, whoever does it: a process can crash under it again and again,
  but not at every delivery for ever.
* `WaitingRoom`: time passes; the scheduler's interval (`@Interval`) starts cycles again;
  reading the row and admitting are strongly fair, since a cycle may fail, but not
  every one.
* `Messaging`: a dead process is started again (weak; by whoever operates it,
  the repository has no policy for it); each stage of `connect()` succeeds if it is tried for
  ever (strong), and scheduled reconnects fire; handlers end (weak).
* `Accounts`: `EXPIRE` is called after `INCR` (weak), where requests do not end there.
* An error in one room ends a scheduler's cycle for the rooms after it
  (`admission.use-case.ts:19`): `CycleFails` before `GetOpenRoom`. The fairness above says that
  the rooms before this one do not fail every time; one that does (say, by a `booking_window` of 0)
  starves those after it.

No fairness is assumed of clients, operators or faults.

## 4. Proofs

For every value of the constants under the named assumptions of the modules.

**SeatLockProofs.** `StoreInv` is inductive with the types: a lock exists exactly
while its TTL is positive; a locked seat is in its owner's and in the event's held set;
a held set has at most `MaxPerUser` seats. From it: `SeatLockInvariant`,
`SeatLockTypeCorrect`, `SeatLockImplementsSeatHold` (safety part: `owner <- lock`; a script that acquires is a
`Grant`, because the quota of the set bounds the holds; releases and ticks are
`End`), `OnlyOwnerEndsHolds`, `LocksRunDown` (a re-hold lengthens nothing).

The run `limit_phantom` shows that the quota counts seats nobody holds.
`QuotaDriftsOnlyByLapse` says how that comes about and goes away: a seat becomes a phantom
only in the tick in which its hold lapses, and stops being one when the same user holds it
again. Every script is looked at by itself, so the same lemmas serve `Booking`
(`BookingDriftsOnlyByLapse`). Under `NothingLapses`, a condition on the behaviour, there is
no phantom, and `LimitIsReal` holds (`LimitIsRealUntilALapse`): lapses are the whole cause.

`recordReleased` closes every ACTIVE row of seat and user, also one of their next hold.
`AuditKeepsUp` names what the rows rely on: no audit write fails, and a user's requests for one
seat do not overlap (`OneAtATime`, assumed of every state of the behaviour). Its invariant adds
that a request between the release script and `recordReleased` finds the seat not held by its user.
Without `OneAtATime` TLC finds a counterexample of two requests.

**BookingProofs.** `BInv`, the conjunction of `TypeOK`, `StoreInv`,
`RequestInv` (a row exists once its request committed), `KeyInv` (open and
committed rows have different keys), `TimerInv` (a timer stays in the delay queue at least
until `expiresAt`; a PENDING order whose request is over has a timer unless a fault took it),
`WorkerInv` (of two deliveries of one timer at least one is stale, and at most one cleans
up; a delivery at its ack has a settled order). `KeyInv` is needed for
`OrderBook!Place`, `TimerInv` for `OrderBook!Expire`, `WorkerInv` for `OneCleanup`. From
it: types, `TimersAreUsedUpForAReason`, `PendingOrdersAreTimed`, `SeatsAreGivenBackOnce`,
`BookingImplementsSeatHold`, `BookingImplementsOrderBook`, `HoldsEndForAReason`,
`HoldsAreLengthenedByOrders`. `PendingOrdersAreTimed` says nothing where `connection` is among
the faults: there a stale answer can use up the timer of another PENDING order, and
`TimersAreUsedUpForAReason` says by whom. `BookingImplementsWorkQueue` maps a timer in the
work queue to *ready*, a taken one that a handler answers for to *running* or *done*, and
one that nobody answers for any more to *ready*; by `WorkerInv` one delivery answers, so stale
ones that run on map to stutters, a crash or lost connection to `Return`, and an answer that
settles another's timer to `Stray`, which `WorkQueue` has only where connections are lost under
handlers. `StoreInv` is part of `BookingTypeCorrect` and
is checked in the run of `SeatLock`.
`OrdinaryClientsKeepHolds` assumes `Clients = {}` and needs `HoldInv` besides: orders
of one user over one seat have one key, so by `KeyInv` there is one, and no timer of
another order can release its lock. Two live orders of one seat would both keep its lock,
for one owner and with one key: `LiveOrdersAreDisjoint`.

**WaitingRoomProofs.** `RoomInv` is `RoomTypeOK` (the queue is without repetition) and
`TurnsAreCounted`. `ADMIT_LUA` sweeps, then admits while the set is below the cap,
so after it the active set is exactly the live tokens: that bounds the turns
(`AdmissionsKeepTheCap`) and maps `Admit` to `Turnstile!Enter`
(`WaitingRoomImplementsTurnstile`). `Turnstile` keeps the order of its line, hence so does the
room, by that refinement: `NobodyIsPassed`.

**MessagingProofs.** `MInv` (types; a delivery is where its channel says; a consumer is on
an open channel; a handler about to settle has ended; `NeverStranded`; reconnects and
attempts together stay within `MaxTimers`) holds under every break. From it
`OnlyStaleDeliveriesSettleOthers`: a delivery of the channel that `this.channel` holds meets
its own message there, whatever broke before. Without breaks during `connect()` `ConnInv` is
inductive: one connection or one reconnect, and the usable channel is `this.channel`
(`OneConnectionAtATime`). If, besides, no handler outlives its connection, every delivery is
of the current, open channel. Then a tag can only settle its own message:
`AcknowledgementIsSound` proves the property that the run `stale_ack` violates, and so names
the two conditions that the code would have to ensure. `MessagingImplementsWorkQueue` has no
such condition: under every break one process's messages are the abstract queue, with
`Strays` where connections break under handlers or inside `connect()`. It is the same
`WorkQueue`, with the same `Strays`, that `Booking`'s timers implement; there the two models
meet.

**AccountsProofs.** `CodeInv` says what a request may rely on after its awaits
(its address is registered; the code it read or matched was generated for it) and what is
stored; accounts stay and codes stay generated, so it lasts while others act.
`CountInv` (no count, no key) and the claim that a counter without TTL has a request
about to set it give `CountersGetTheirTtl`, assuming no request ends between the two
calls. `login` looks at the count before the password is compared and counts after it, so
guesses that are sent together all pass; `LockoutHoldsUpToRequests` bounds them: counted
failures and guesses in progress together stay below the limit plus the number of
requests there can be at a time, for every finite set of requests. A guess enters only below the
limit, and leaves the set when it is counted; what the count resets only helps. `OutInv` (a blacklist entry lives as long as its token) gives `LogoutIsFinal`.

**EmailChangeProofs.** `ChInv`: a stored change, and every copy of it that a request
works with, has a code that was sent for this user to the address in the change (`Backed`),
and attempts left. A code is sent once, so this lasts while the change is replaced or
dropped under the request. From it: types (`EmailChangeTypeCorrect`), `AccountsMoveByCode`.
`AddressesAreUnique` needs only that `UpdateEmail` and `SignUp` meet the unique index: both
look-ups before it could go.

**CatalogueProofs.** `SafeInv` says what a request may rely on after its check
(`Sound`: the type it checked was its event's, and is, or is deleted; the seat it prices has
the type it read, or the type is gone) and that seats and items agree with owners; types
never change events and are never created again. It gives
`CatalogueTypeCorrect`, `SeatsKeepOwnTypes`, `OrderedSeatsKeepType` (a type that is gone
fails the foreign key of the items, so nothing is ordered by it) and `LayoutsOnlyGrow`.
`ShownInv` (a row is of its event's model, a request that adds rows read that model, at
most one first layout per event is open) gives `EveryRowShown`, for behaviours that keep
to `OneFirstLayout`. `OpenInv` (an event with an open request that looked at its status is
still mutable) gives `WhatIsDecidedStands`, for behaviours that keep to `DecisionsApart`. Both
are conditions on what clients and administrators do, not guards of the model: the code
allows what they exclude (section 5). What is decided is status, details, layout and
the set of types on offer; price, quantity and times of a type can change afterwards.
`ApprovedNameStays` is inductive, because every update puts the profile back to PENDING.

**Only model-checked.** The liveness properties `HoldReclaimed`, `OrdersSettle`,
`EveryoneGetsATurn`, `ReadsAgain`, `LockoutEnds` (the prover does not do liveness
under fairness), and the violations. What is proved and in no run is stated and was checked
on small instances first: `MsgsAreQueued`, `HoldsAreAudited`, `ApprovedName`, `OneConnection`,
`QuotaDriftsByLapse`, `HoldsRunDown`, `OnlyOrdersLengthenHolds`, `FirstComeFirstServed`. No theorem is about data defined by recursion.

## 5. Not modelled

* Users' profile columns, the other columns of organizers, and queries: plain data that
  no operation decides by.
* Payment: not written; `PayOutOfBand` stands for an operator who sets `PAID`.
* The waiting-room token: no lock or order endpoint asks for it, so the room and the
  booking have no step in common and are not composed.
* Prices, quantities, answers, logs, e-mail delivery. Contents of events and types are two
  versions, of which only *changed or not* matters.
* Requests with empty lists of seats, sections or zones; one section or zone stands for
  those of a request.
* One event in `SeatStore`, `Booking` and `WaitingRoom`: keys of different events
  are different. Of the scheduler's loop over rooms, only that a room before this one
  may end the cycle.
* The confirm of a publish, and which of `Booking`'s processes holds which tag: tags are
  `Messaging`'s subject, for one process.
* The rounding of TTLs to seconds; a `booking_window` of 0, with which `ADMIT_LUA` would fail
  after it took a user from the queue (`redis-queue-store.adapter.ts:42`).
* A request of `Accounts` that ends between `INCR` and `EXPIRE`: `Deaths` of the run
  excludes it, and `CountersExpire` fails with it.
* In `Accounts` an address stays with its account. An e-mail change frees one, and
  `EmailChange` has that; but not that a verification still open for the freed address
  meets the next registration of it.
* Prisma and Redis clients, filters, guards of roles, DTO validation, frontend and
  deployment files: no state of their own.

What the code does where its words or its looks say otherwise, found while modelling and
modelled as it is:

* `ticket-types.service.ts:14` (BR12) allows changes of types before approval; only
  `create` checks the status of the event. `update`, `hide` and `remove` do not.
* The guards on `sold` (`ticket-types.service.ts:62`, `:99`) never apply: nothing in the
  program counts sales. The foreign key of order items does what they mean to do.
* An order looks neither at the status of the event, nor at `hidden`, nor at the times of the sale.
* Two first layouts of one event sent together are both written, and the rows of one model are
  then never shown (`seats.service.ts:34`); the model has it, and `EveryRowIsShown` does not
  cover it (`OneFirstLayout`).
* `submit` and `update` write by id what they checked before: an approval in between is
  overwritten (`events.service.ts:226`); the model has it, and `DecisionsStand` does not cover it
  (`DecisionsApart`).
* `createZones` does not check whose the ticket type is, `createSeatMap` does.
* `order_items` and `seats.status` keep no seat from being ordered again: nothing sets `SOLD`
  or looks at it, and no query asks for other orders of a seat. Only the Redis lock stands in
  the way. A user may order the seats he holds again under another key and so lengthen the
  hold each time (`HoldsAreLengthenedByOrders` says that it takes an order), and a seat of a PAID order is
  free to be held and ordered once its lock runs out.
* A release that falls between `EXTEND_LUA` and the commit leaves a PENDING order over a free
  seat (`prisma-order.adapter.ts:76`); `OrderKeepsHold` is about clients that do not do that.
* A delivery that runs on after its connection was lost may use up the timer of another
  PENDING order, which then never expires (`messaging.service.ts:187`): `OrdersSettle` and
  `PendingIsTimed` are about the other faults.
* The room is read before the script (`join-queue.use-case.ts:26`), so a user can enter the
  queue of a room that was just closed, and waits there until it is opened again.
* A login that is sent with others passes the lockout they are about to cause
  (`auth.service.ts:186`).
* Wrong answers that overlap count as one attempt, and a code that was replaced is valid
  again after a late write-back (`auth.service.ts:120`, `users.service.ts:167`).

## 6. Plan

Written in this order: `SeatStore`, `SeatLock`, `SeatHold` and their proofs; `OrderBook`,
`Booking` and theirs; `Turnstile`, `WaitingRoom` and theirs; `Messaging` and `Accounts`
and theirs; `Catalogue` and `EmailChange` and theirs.

`WorkQueue` came last, with the refinements of `Booking` and `Messaging` to it.

Next:

1. An abstract promise for accounts (registered, verified, active, at an address) that
   `Accounts` and `EmailChange` implement, with addresses that change hands.
2. `OrdersMatchSeats` and `LayoutOnlyGrows` say what a layout promises an order; an abstract
   layout that `Catalogue` implements would say it in one place.
3. Further disagreements met while modelling, as runs of their own: a release that falls
   between `EXTEND_LUA` and the commit (`prisma-order.adapter.ts:76`); `recordReleased`
   closing the row of the next hold (`prisma-seat-lock-audit.adapter.ts:23`); and those at
   the end of section 5.
4. Several rooms in `WaitingRoom`, and windows of 0.
