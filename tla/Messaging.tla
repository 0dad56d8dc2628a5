------------------------------ MODULE Messaging ------------------------------
(***************************************************************************)
(* MessagingService: how one process keeps its connection to RabbitMQ, and *)
(* how the messages of its work queue are delivered and acknowledged.      *)
(*                                                                         *)
(* The service has one slot, this.channel, which every connect() assigns.  *)
(* A delivery belongs to the channel it came on and carries that channel's *)
(* delivery tag; ack and nack send the tag on whatever channel the slot    *)
(* holds when the handler ends.  So do the calls that connect() itself     *)
(* makes to prepare its channel.  Nothing limits the connections:          *)
(* connect() runs once for every scheduled reconnect.                      *)
(***************************************************************************)
EXTENDS FiniteSets, Naturals, Sequences

CONSTANTS Msgs,
          Links,      \* bound: connections, each with its channel, at a time
          FirstLink,  \* the connection of onModuleInit
          MaxTimers,  \* bound: reconnects scheduled or under way at a time
          Breaks      \* what may happen to the process and its connections

\* "idle"     a connection breaks while no handler of a delivery on it runs
\* "outlive"  ... while one does
\* "setup"    ... while a connect() awaits something on it
\* "throw"    a handler throws
\* "crash"    the process dies
BreakKinds == {"idle", "outlive", "setup", "throw", "crash"}

ASSUME MessagingAssumption ==
    /\ IsFiniteSet(Links)
    /\ FirstLink \in Links
    /\ Links \cap {"none", "ready", "acked", "dropped"} = {}
    /\ Breaks \subseteq BreakKinds
    /\ MaxTimers \in Nat

VARIABLES up,        \* the process runs
          link,      \* link[l]: how far connection l is
          current,   \* this.channel
          calls,     \* calls[l]: the channel on which the connect() of l awaits an
                     \* answer, preparing what it takes for its own, or "none"
          consumers, \* channels on which a consumer is registered
          timers,    \* reconnects scheduled by setTimeout
          place,     \* place[m]: in the queue, unacknowledged on a channel, or gone
          sent,      \* sent[l]: the deliveries of channel l; a tag is a position
          work,      \* deliveries whose handler has not returned
          handled,   \* messages whose handler has done its work
          threw      \* messages whose handler threw

linkVars == <<up, link, current, calls, consumers, timers>>
msgVars == <<place, sent, work, handled, threw>>
mVars == <<up, link, current, calls, consumers, timers,
           place, sent, work, handled, threw>>

\* "opening": amqp.connect is under way; "channel": createConfirmChannel is.
LinkStates == {"closed", "opening", "channel", "open"}
Deliveries == [msg : Msgs, on : Links, tag : Nat \ {0}, pc : {"run", "ack", "nack"}]

MsgTypeOK ==
    /\ up \in BOOLEAN
    /\ link \in [Links -> LinkStates]
    /\ current \in Links
    /\ calls \in [Links -> Links \cup {"none"}]
    /\ consumers \in SUBSET Links
    /\ timers \in 0..MaxTimers
    /\ place \in [Msgs -> Links \cup {"ready", "acked", "dropped"}]
    /\ sent \in [Links -> Seq(Msgs)]
    /\ work \in SUBSET Deliveries
    /\ handled \in SUBSET Msgs
    /\ threw \in SUBSET Msgs

OnlyFirst == [l \in Links |-> IF l = FirstLink THEN "open" ELSE "closed"]
NoCalls == [l \in Links |-> "none"]
NothingSent == [l \in Links |-> <<>>]

\* After the bootstrap: connected, the queue bound, the consumer registered.
MsgInit ==
    /\ up = TRUE
    /\ link = OnlyFirst
    /\ current = FirstLink
    /\ calls = NoCalls
    /\ consumers = {FirstLink}
    /\ timers = 0
    /\ place = [m \in Msgs |-> "ready"]
    /\ sent = NothingSent
    /\ work = {}
    /\ handled = {}
    /\ threw = {}

Set(l, s) == link' = [link EXCEPT ![l] = s]
Running(l) == {d \in work : d.on = l}

\* Delivery tag t of channel l is unacknowledged.
Outstanding(l, t) == t \in 1..Len(sent[l]) /\ place[sent[l][t]] = l

\* What closed connections leave unacknowledged is in the queue again.
Requeue(L) == [m \in Msgs |-> IF place[m] \in L THEN "ready" ELSE place[m]]

-----------------------------------------------------------------------------
(* connect() and scheduleReconnect().                                      *)

\* The connections whose connect() has not returned.
Attempts == {l \in Links : link[l] \in {"opening", "channel"} \/ calls[l] # "none"}

\* A timer fires.  A connection that is over is forgotten once nothing refers
\* to it, so that its name can stand for the new one.
Reconnect(l) ==
    /\ timers > 0
    /\ link[l] = "closed"
    /\ calls[l] = "none"
    /\ Running(l) = {}
    /\ timers' = timers - 1
    /\ Set(l, "opening")
    /\ sent' = [sent EXCEPT ![l] = <<>>]
    /\ UNCHANGED <<up, current, calls, consumers, place, work, handled, threw>>

\* Mutant of ConnectFails: connect() and its caller both schedule the next attempt.
ConnectFailsTwice(l) ==
    /\ link[l] = "opening"
    /\ Set(l, "closed")
    /\ timers' = timers + 2
    /\ UNCHANGED <<up, current, calls, consumers, msgVars>>

\* amqp.connect rejects; the catch schedules the next attempt.
ConnectFails(l) ==
    /\ link[l] = "opening"
    /\ Set(l, "closed")
    /\ timers' = timers + 1
    /\ UNCHANGED <<up, current, calls, consumers, msgVars>>

Connected(l) ==
    /\ link[l] = "opening"
    /\ Set(l, "channel")
    /\ UNCHANGED <<up, current, calls, consumers, timers, msgVars>>

\* createConfirmChannel answers: from here on this.channel is the new channel, for
\* the acks, for this connect(), and for any other that is under way.
ChannelCreated(l) ==
    /\ link[l] = "channel"
    /\ Set(l, "open")
    /\ current' = l
    /\ calls' = [calls EXCEPT ![l] = l]
    /\ UNCHANGED <<up, consumers, timers, msgVars>>

\* The call is answered and the next one goes out on this.channel, which another
\* connect() has replaced.  On a closed channel it throws, as a failed connect().
NextCall(l) ==
    /\ calls[l] \notin {"none", current}
    /\ \/ /\ link[current] = "open"
          /\ calls' = [calls EXCEPT ![l] = current]
          /\ UNCHANGED timers
       \/ /\ link[current] # "open"
          /\ calls' = [calls EXCEPT ![l] = "none"]
          /\ timers' = timers + 1
    /\ UNCHANGED <<up, link, current, consumers, msgVars>>

\* Mutant of ConsumerRegistered: consume() does not keep the consumer for later.
ConsumerForgotten(l) ==
    /\ calls[l] # "none"
    /\ calls' = [calls EXCEPT ![l] = "none"]
    /\ UNCHANGED <<up, link, current, consumers, timers, msgVars>>

\* The call was the last one, which registers the consumer.
ConsumerRegistered(l) ==
    /\ calls[l] # "none"
    /\ calls' = [calls EXCEPT ![l] = "none"]
    /\ consumers' = consumers \cup {calls[l]}
    /\ UNCHANGED <<up, link, current, timers, msgVars>>

\* The attempts that await something on connection l.
Interrupted(l) ==
    {k \in Links : calls[k] = l} \cup (IF link[l] = "channel" THEN {l} ELSE {})

\* Mutant of Schedules: only connect() itself tries again.
SchedulesInConnect(l) == Cardinality(Interrupted(l))

\* The close handler schedules a reconnect, and so does the catch of every connect()
\* that awaits an answer on the connection.
Schedules(l) == 1 + Cardinality(Interrupted(l))

LinkBreaks(l) ==
    /\ \/ Interrupted(l) # {} /\ "setup" \in Breaks
       \/ Interrupted(l) = {} /\ Running(l) # {} /\ "outlive" \in Breaks
       \/ Interrupted(l) = {} /\ Running(l) = {} /\ "idle" \in Breaks
    /\ link[l] \in {"channel", "open"}
    /\ timers + Cardinality(Attempts) < MaxTimers
    /\ Set(l, "closed")
    /\ calls' = [k \in Links |-> IF k \in Interrupted(l) THEN "none" ELSE calls[k]]
    /\ consumers' = consumers \ {l}
    /\ timers' = timers + Schedules(l)
    /\ place' = Requeue({l})
    /\ UNCHANGED <<up, current, sent, work, handled, threw>>

-----------------------------------------------------------------------------
(* Deliveries: registerConsumer and handleMessage.                         *)

Tag(l) == Len(sent[l]) + 1

\* There is no prefetch limit: the broker sends whatever is in the queue, on any
\* channel that has a consumer.
Deliver(l, m) ==
    /\ l \in consumers
    /\ place[m] = "ready"
    /\ place' = [place EXCEPT ![m] = l]
    /\ sent' = [sent EXCEPT ![l] = Append(@, m)]
    /\ work' = work \cup {[msg |-> m, on |-> l, tag |-> Tag(l), pc |-> "run"]}
    /\ UNCHANGED <<linkVars, handled, threw>>

Then(d, pc) == work' = (work \ {d}) \cup {[d EXCEPT !.pc = pc]}

HandlerReturns(d) ==
    /\ d \in work
    /\ d.pc = "run"
    /\ Then(d, "ack")
    /\ handled' = handled \cup {d.msg}
    /\ UNCHANGED <<linkVars, place, sent, threw>>

\* The payload does not parse, or the handler rejects.
HandlerThrows(d) ==
    /\ "throw" \in Breaks
    /\ d \in work
    /\ d.pc = "run"
    /\ Then(d, "nack")
    /\ threw' = threw \cup {d.msg}
    /\ UNCHANGED <<linkVars, place, sent, handled>>

\* this.channel is usable and has d's tag outstanding, be it d's channel or not.
TagKnown(d) == link[current] = "open" /\ Outstanding(current, d.tag)

Settle(d, how) ==
    /\ d \in work
    /\ TagKnown(d)
    /\ place' = [place EXCEPT ![sent[current][d.tag]] = how]
    /\ work' = work \ {d}
    /\ UNCHANGED <<linkVars, sent, handled, threw>>

\* Mutant of Ack: the acknowledgement does not wait for the handler.
AckEarly(d) == d.pc \in {"run", "ack"} /\ Settle(d, "acked")

Ack(d) == d.pc = "ack" /\ Settle(d, "acked")

\* nack without requeue, and the queue has no dead-letter exchange.
Nack(d) == d.pc = "nack" /\ Settle(d, "dropped")

Dies ==
    /\ up' = FALSE
    /\ link' = [l \in Links |-> "closed"]
    /\ calls' = NoCalls
    /\ consumers' = {}
    /\ timers' = 0
    /\ place' = Requeue(Links)
    /\ sent' = NothingSent
    /\ work' = {}
    /\ UNCHANGED <<current, handled, threw>>

\* On a closed channel ack throws, and the nack of the catch throws again, in a
\* promise nobody awaits; on an open channel an unknown tag is a channel error
\* without a listener.  Either way the process ends.
SettleFails(d) ==
    /\ d \in work
    /\ d.pc \in {"ack", "nack"}
    /\ ~TagKnown(d)
    /\ Dies

Crash == "crash" \in Breaks /\ up /\ Dies

\* onModuleInit of a new process.
Restart ==
    /\ ~up
    /\ up' = TRUE
    /\ link' = OnlyFirst
    /\ current' = FirstLink
    /\ consumers' = {FirstLink}
    /\ UNCHANGED <<calls, timers, msgVars>>

-----------------------------------------------------------------------------

LinkStep(l) ==
    \/ Reconnect(l)
    \/ ConnectFails(l)
    \/ Connected(l)
    \/ ChannelCreated(l)
    \/ NextCall(l)
    \/ ConsumerRegistered(l)
    \/ LinkBreaks(l)
HandlerEnds(d) == HandlerReturns(d) \/ HandlerThrows(d)
Settles(d) == Ack(d) \/ Nack(d) \/ SettleFails(d)

MsgNext ==
    \/ \E l \in Links : LinkStep(l)
    \/ \E l \in Links, m \in Msgs : Deliver(l, m)
    \/ \E d \in work : HandlerEnds(d) \/ Settles(d)
    \/ Crash
    \/ Restart

MsgSpec == MsgInit /\ [][MsgNext]_mVars

\* setTimeout fires, a dead process is started again, no step of connecting
\* fails for ever, and handlers end.
MsgFairness ==
    /\ WF_mVars(Restart)
    /\ SF_mVars(\E l \in Links : Reconnect(l))
    /\ SF_mVars(\E l \in Links : Connected(l))
    /\ SF_mVars(\E l \in Links : ChannelCreated(l))
    /\ SF_mVars(\E l \in Links : ConsumerRegistered(l))
    /\ WF_mVars(\E d \in work : HandlerEnds(d) \/ Settles(d))

MsgFairSpec == MsgSpec /\ MsgFairness

-----------------------------------------------------------------------------

\* What manual acknowledgement is for (messaging.service.ts:170): the broker
\* forgets a message only after its own handler returned, or threw.
SettledMeansHandled ==
    \A m \in Msgs :
        /\ place[m] = "acked" => m \in handled
        /\ place[m] = "dropped" => m \in threw

\* Whatever breaks: a message that leaves the broker without its handler having
\* ended was settled, at that moment, by a delivery of another channel than the one
\* this.channel holds.  Deliveries of the current channel settle themselves.
OnlyStaleSettlesOthers ==
    [][\A m \in Msgs :
          place[m] \in Links /\ place'[m] \in {"acked", "dropped"}
             => m \in handled \cup threw \/ \E d \in work \ work' : d.on # current]_mVars

\* Where the abstract work queue has m: a delivery counts if the broker has the
\* message unacknowledged on its channel.
MsgPlace(m) ==
    IF place[m] \notin Links THEN place[m]
    ELSE IF \E d \in work : d.msg = m /\ d.on = place[m] /\ d.pc = "run" THEN "running"
    ELSE "done"

Queue == INSTANCE WorkQueue WITH Items <- Msgs,
                                 Strays <- Breaks \cap {"outlive", "setup"} # {},
                                 at <- [m \in Msgs |-> MsgPlace(m)]

\* The service is the work queue that the order timeouts of Booking run on, with
\* answers that go astray where connections break under a handler or a connect().
MsgsAreQueued == Queue!Spec

Alive(l) == link[l] # "closed"

\* The process always has a way to the queue: a consumer, a connect() that will
\* register one, or a reconnect that is scheduled.  Otherwise nobody would read the
\* queue again, and no order would expire.
NeverStranded == up => timers > 0 \/ Attempts # {} \/ consumers # {}

\* While no connection breaks during its setup there is one of those at a time,
\* so that no channel settles the deliveries of another.
OneConnection ==
    up => \/ timers = 1 /\ \A l \in Links : ~Alive(l)
          \/ timers = 0 /\ \E l \in Links : Alive(l) /\ \A k \in Links : Alive(k) => k = l

\* However often connections break and the process dies, the queue is read again.
ReadsAgain == []<>(consumers # {})

=============================================================================
