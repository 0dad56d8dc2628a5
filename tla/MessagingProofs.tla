--------------------------- MODULE MessagingProofs ---------------------------
(***************************************************************************)
(* Proofs about Messaging, for any messages and connections.               *)
(*                                                                         *)
(* Whatever breaks, the process has a way back to its queue, a message is  *)
(* settled by its own delivery or by one that outlived its channel, and    *)
(* the service is a work queue whose answers may go astray.  Where         *)
(* connections break only while they are idle, no answer does: nothing is  *)
(* settled before its handler ended.                                       *)
(***************************************************************************)
EXTENDS Messaging, FiniteSetTheorems, TLAPS

\* What a new process has: the first connection, open.
LEMMA OpenFirst ==
    ASSUME NEW l \in Links
    PROVE  /\ OnlyFirst[l] \in LinkStates
           /\ OnlyFirst[l] # "closed" => l = FirstLink
           /\ OnlyFirst[FirstLink] = "open"
  BY MessagingAssumption DEF OnlyFirst, LinkStates

\* Each connect() that is under way, and each timer, becomes one connect() at most.
AttemptInv == timers + Cardinality(Attempts) <= MaxTimers

\* A connect() awaits its answer on an open channel, its own connection being up or
\* over, and consumers are on open channels.
LinkInv ==
    /\ \A l \in Links : calls[l] # "none" =>
          link[calls[l]] = "open" /\ link[l] \in {"closed", "open"}
    /\ \A l \in consumers : link[l] = "open"
    /\ ~up => /\ timers = 0 /\ consumers = {}
              /\ \A l \in Links : link[l] = "closed" /\ calls[l] = "none"

LinksOK == AttemptInv /\ LinkInv /\ NeverStranded

\* A delivery is where its channel says it is, as long as that is open, and a
\* handler that is about to settle has ended.  A channel delivers a message once.
DeliveryInv ==
    /\ \A d \in work :
          /\ d.tag \in 1..Len(sent[d.on])
          /\ sent[d.on][d.tag] = d.msg
          /\ d.pc = "ack" => d.msg \in handled
          /\ d.pc = "nack" => d.msg \in threw
          /\ link[d.on] \in {"closed", "open"}
          /\ link[d.on] = "open" => place[d.msg] \in {d.on, "acked", "dropped"}
    /\ \A d, e \in work : d.on = e.on /\ d.msg = e.msg => d = e
    /\ ~up => work = {}

\* What holds whatever breaks.
MInv == MsgTypeOK /\ LinksOK /\ DeliveryInv

\* The attempts can be counted.
LEMMA AttemptsFinite == IsFiniteSet(Attempts) /\ Cardinality(Attempts) \in Nat
  <1>1. Attempts \subseteq Links
    BY DEF Attempts
  <1> QED
    BY <1>1, MessagingAssumption, FS_Subset, FS_CardinalityType

\* A timer is within its bound.
LEMMA TimersBound ==
    ASSUME timers' \in Nat, AttemptInv'
    PROVE  timers' \in 0..MaxTimers
  <1>1. Attempts' \subseteq Links
    BY DEF Attempts
  <1>2. Cardinality(Attempts') \in Nat
    BY <1>1, MessagingAssumption, FS_Subset, FS_CardinalityType
  <1> QED
    BY <1>2, MessagingAssumption DEF AttemptInv

\* A fresh process has a consumer, nothing in work and an empty channel.
LEMMA MInvInit == MsgInit => MInv
  <1> SUFFICES ASSUME MsgInit
               PROVE  MInv
    OBVIOUS
  <1>1. MsgTypeOK
    BY MessagingAssumption, OpenFirst
       DEF MsgInit, MsgTypeOK, OnlyFirst, NoCalls, NothingSent, LinkStates
  <1>2. Attempts = {}
    BY OpenFirst DEF MsgInit, Attempts, OnlyFirst, NoCalls
  <1>3. AttemptInv
    BY <1>2, FS_EmptySet, MessagingAssumption DEF MsgInit, AttemptInv
  <1>4. LinkInv /\ NeverStranded
    BY OpenFirst, MessagingAssumption DEF MsgInit, LinkInv, NeverStranded, NoCalls
  <1>5. DeliveryInv
    BY DEF MsgInit, DeliveryInv
  <1> QED
    BY <1>1, <1>3, <1>4, <1>5 DEF MInv, LinksOK

-----------------------------------------------------------------------------
(* The connections.                                                        *)

\* A connect() starts, goes on, fails or ends: a timer for an attempt, an attempt
\* for a timer or a consumer.
LEMMA ConnectingKeepsLinks ==
    ASSUME MsgTypeOK, LinksOK, NEW l \in Links,
           \/ Reconnect(l)
           \/ ConnectFails(l)
           \/ Connected(l)
           \/ ChannelCreated(l)
           \/ NextCall(l)
           \/ ConsumerRegistered(l)
    PROVE  MsgTypeOK' /\ LinksOK'
  <1> DEFINE Kept == MsgTypeOK' /\ LinksOK'
  <1>0. /\ timers \in Nat /\ MaxTimers \in Nat /\ "none" \notin Links
        /\ link \in [Links -> LinkStates] /\ calls \in [Links -> Links \cup {"none"}]
        /\ IsFiniteSet(Attempts) /\ Cardinality(Attempts) \in Nat
    BY AttemptsFinite, MessagingAssumption DEF MsgTypeOK
  <1>1. CASE Reconnect(l)
    <2>1. link' = [link EXCEPT ![l] = "opening"] /\ timers' = timers - 1 /\ timers > 0
      BY <1>1 DEF Reconnect, Set
    <2>2. Attempts' = Attempts \cup {l} /\ l \notin Attempts
      BY <1>0, <1>1, <2>1 DEF Reconnect, Attempts
    <2>3. Cardinality(Attempts') = Cardinality(Attempts) + 1
      BY <1>0, <2>2, FS_AddElement
    <2>4. AttemptInv'
      BY <1>0, <2>1, <2>3 DEF LinksOK, AttemptInv
    <2>5. LinkInv' /\ NeverStranded'
      BY <1>0, <1>1, <2>1, <2>2 DEF LinksOK, LinkInv, NeverStranded, Reconnect
    <2>6. timers' \in 0..MaxTimers
      BY <1>0, <2>1, <2>4, TimersBound
    <2>7. MsgTypeOK'
      BY <1>1, <2>1, <2>6 DEF MsgTypeOK, Reconnect, LinkStates
    <2> QED
      BY <2>4, <2>5, <2>7 DEF LinksOK
  <1>2. CASE ConnectFails(l)
    <2>1. link' = [link EXCEPT ![l] = "closed"] /\ timers' = timers + 1
      BY <1>2 DEF ConnectFails, Set
    <2>2. Attempts' = Attempts \ {l} /\ l \in Attempts
      BY <1>0, <1>2, <2>1 DEF ConnectFails, Attempts, LinksOK, LinkInv
    <2>3. Cardinality(Attempts') = Cardinality(Attempts) - 1
      BY <1>0, <2>2, FS_RemoveElement
    <2>4. AttemptInv'
      BY <1>0, <2>1, <2>3 DEF LinksOK, AttemptInv
    <2>5. LinkInv' /\ NeverStranded'
      BY <1>0, <1>2, <2>1 DEF LinksOK, LinkInv, NeverStranded, ConnectFails
    <2>6. timers' \in 0..MaxTimers
      BY <1>0, <2>1, <2>4, TimersBound
    <2>7. MsgTypeOK'
      BY <1>2, <2>1, <2>6 DEF MsgTypeOK, ConnectFails, LinkStates, msgVars
    <2> QED
      BY <2>4, <2>5, <2>7 DEF LinksOK
  <1>3. CASE Connected(l)
    <2>1. link' = [link EXCEPT ![l] = "channel"] /\ link[l] = "opening"
      BY <1>3 DEF Connected, Set
    <2>2. Attempts' = Attempts /\ l \in Attempts
      BY <1>0, <1>3, <2>1 DEF Connected, Attempts
    <2>3. LinksOK'
      BY <1>0, <1>3, <2>1, <2>2 DEF LinksOK, AttemptInv, LinkInv, NeverStranded, Connected
    <2>4. MsgTypeOK'
      BY <1>3, <2>1 DEF MsgTypeOK, Connected, LinkStates, msgVars
    <2> QED
      BY <2>3, <2>4
  <1>4. CASE ChannelCreated(l)
    <2>1. /\ link' = [link EXCEPT ![l] = "open"] /\ link[l] = "channel"
          /\ calls' = [calls EXCEPT ![l] = l]
      BY <1>4 DEF ChannelCreated, Set
    <2>2. Attempts' = Attempts /\ l \in Attempts
      BY <1>0, <1>4, <2>1 DEF ChannelCreated, Attempts
    <2>3. LinksOK'
      BY <1>0, <1>4, <2>1, <2>2
         DEF LinksOK, AttemptInv, LinkInv, NeverStranded, ChannelCreated
    <2>4. MsgTypeOK'
      BY <1>4, <2>1 DEF MsgTypeOK, ChannelCreated, LinkStates, msgVars
    <2> QED
      BY <2>3, <2>4
  <1>5. ASSUME NextCall(l), link[current] = "open", timers' = timers,
               calls' = [calls EXCEPT ![l] = current]
        PROVE  Kept
    <2>1. current \in Links /\ calls[l] # "none" /\ link' = link
      BY <1>5 DEF MsgTypeOK, NextCall
    <2>2. Attempts' = Attempts /\ l \in Attempts
      BY <1>0, <1>5, <2>1 DEF Attempts
    <2>3. LinksOK'
      BY <1>0, <1>5, <2>1, <2>2
         DEF LinksOK, AttemptInv, LinkInv, NeverStranded, NextCall
    <2>4. MsgTypeOK'
      BY <1>5, <2>1 DEF MsgTypeOK, NextCall, msgVars
    <2> QED
      BY <2>3, <2>4
  <1>6. ASSUME NextCall(l), timers' = timers + 1, calls' = [calls EXCEPT ![l] = "none"]
        PROVE  Kept
    <2>1. calls[l] # "none" /\ link' = link
      BY <1>6 DEF NextCall
    <2>2. Attempts' = Attempts \ {l} /\ l \in Attempts
      BY <1>0, <1>6, <2>1 DEF Attempts, LinksOK, LinkInv
    <2>3. Cardinality(Attempts') = Cardinality(Attempts) - 1
      BY <1>0, <2>2, FS_RemoveElement
    <2>4. AttemptInv'
      BY <1>0, <1>6, <2>3 DEF LinksOK, AttemptInv
    <2>5. LinkInv' /\ NeverStranded'
      BY <1>0, <1>6, <2>1 DEF LinksOK, LinkInv, NeverStranded, NextCall
    <2>6. timers' \in 0..MaxTimers
      BY <1>0, <1>6, <2>4, TimersBound
    <2>7. MsgTypeOK'
      BY <1>6, <2>6 DEF MsgTypeOK, NextCall, msgVars
    <2> QED
      BY <2>4, <2>5, <2>7 DEF LinksOK
  <1>7. CASE ConsumerRegistered(l)
    <2>1. /\ calls[l] \in Links /\ link[calls[l]] = "open" /\ link' = link /\ timers' = timers
          /\ calls' = [calls EXCEPT ![l] = "none"]
          /\ consumers' = consumers \cup {calls[l]}
      BY <1>0, <1>7 DEF ConsumerRegistered, LinksOK, LinkInv
    <2>2. Attempts' = Attempts \ {l} /\ l \in Attempts
      BY <1>0, <1>7, <2>1 DEF Attempts, LinksOK, LinkInv, ConsumerRegistered
    <2>3. Cardinality(Attempts') = Cardinality(Attempts) - 1
      BY <1>0, <2>2, FS_RemoveElement
    <2>4. AttemptInv'
      BY <1>0, <2>1, <2>3 DEF LinksOK, AttemptInv
    <2>5. LinkInv' /\ NeverStranded'
      BY <1>0, <1>7, <2>1 DEF LinksOK, LinkInv, NeverStranded, ConsumerRegistered
    <2>6. MsgTypeOK'
      BY <1>7, <2>1 DEF MsgTypeOK, ConsumerRegistered, msgVars
    <2> QED
      BY <2>4, <2>5, <2>6 DEF LinksOK
  <1>8. NextCall(l) => Kept
    BY <1>5, <1>6 DEF NextCall
  <1> QED
    BY <1>1, <1>2, <1>3, <1>4, <1>7, <1>8

\* A connection that breaks adds one attempt: its own, those that were under way on
\* it being replaced one for one.
LEMMA BreakingKeepsLinks ==
    ASSUME MsgTypeOK, LinksOK, NEW l \in Links, LinkBreaks(l)
    PROVE  MsgTypeOK' /\ LinksOK'
  <1> DEFINE I == Interrupted(l)
  <1>0. /\ timers \in Nat /\ MaxTimers \in Nat /\ "none" \notin Links
        /\ link \in [Links -> LinkStates] /\ calls \in [Links -> Links \cup {"none"}]
        /\ IsFiniteSet(Attempts) /\ Cardinality(Attempts) \in Nat
    BY AttemptsFinite, MessagingAssumption DEF MsgTypeOK
  <1>1. /\ link' = [link EXCEPT ![l] = "closed"] /\ link[l] # "closed"
        /\ calls' = [k \in Links |-> IF k \in I THEN "none" ELSE calls[k]]
        /\ consumers' = consumers \ {l} /\ up' = up
    BY DEF LinkBreaks, Set
  <1>2. I \subseteq Attempts /\ \A k \in Links \ I : calls[k] # l
    BY <1>0 DEF Interrupted, Attempts
  <1>3. Attempts' = Attempts \ I
    <2>1. \A k \in I : link'[k] \in {"closed", "open"} /\ calls'[k] = "none"
      BY <1>0, <1>1 DEF Interrupted, LinksOK, LinkInv
    <2>2. \A k \in Links \ I : /\ calls'[k] = calls[k]
                               /\ k # l => link'[k] = link[k]
                               /\ k = l => link[k] # "channel"
      BY <1>0, <1>1 DEF Interrupted
    <2>3. link[l] # "opening"
      BY DEF LinkBreaks
    <2> HIDE DEF I
    <2> QED
      BY <1>0, <1>1, <1>2, <2>1, <2>2, <2>3 DEF Attempts
  <1>4. /\ Cardinality(I) \in Nat
        /\ Cardinality(Attempts') = Cardinality(Attempts) - Cardinality(I)
    <2>1. Attempts \cap I = I /\ IsFiniteSet(I)
      BY <1>0, <1>2, FS_Subset
    <2> QED
      BY <1>0, <1>3, <2>1, FS_Difference, FS_CardinalityType
  <1>5. timers' = timers + 1 + Cardinality(I) /\ timers + Cardinality(Attempts) < MaxTimers
    BY <1>0, <1>4 DEF LinkBreaks, Schedules
  <1>6. AttemptInv'
    BY <1>0, <1>4, <1>5 DEF AttemptInv
  <1>7. LinkInv' /\ NeverStranded'
    BY <1>0, <1>1, <1>2, <1>4, <1>5 DEF LinksOK, LinkInv, NeverStranded
  <1>8. timers' \in 0..MaxTimers
    BY <1>0, <1>4, <1>5, <1>6, TimersBound
  <1>9. MsgTypeOK'
    BY <1>0, <1>1, <1>8 DEF MsgTypeOK, LinkBreaks, Requeue, LinkStates
  <1> QED
    BY <1>6, <1>7, <1>9 DEF LinksOK

\* The steps of a connection and its connect() leave the deliveries as they are, or
\* give those of the connection back.
LEMMA LinkKeepsMInv ==
    ASSUME MInv, NEW l \in Links, LinkStep(l)
    PROVE  MInv'
  <1>1. MsgTypeOK' /\ LinksOK'
    BY ConnectingKeepsLinks, BreakingKeepsLinks DEF MInv, LinkStep
  <1>2. DeliveryInv'
    <2>0. /\ MessagingAssumption /\ link \in [Links -> LinkStates] /\ work \in SUBSET Deliveries
          /\ place \in [Msgs -> Links \cup {"ready", "acked", "dropped"}]
          /\ sent \in [Links -> Seq(Msgs)]
      BY MessagingAssumption DEF MInv, MsgTypeOK
    <2>1. CASE Reconnect(l)
      <3>1. /\ \A d \in work : d.on # l /\ d.on \in Links
            /\ link' = [link EXCEPT ![l] = "opening"] /\ sent' = [sent EXCEPT ![l] = <<>>]
            /\ UNCHANGED <<up, work, place, handled, threw>>
        BY <2>0, <2>1 DEF Reconnect, Running, Set, Deliveries
      <3> QED
        BY <2>0, <3>1 DEF MInv, DeliveryInv
    <2>2. CASE UNCHANGED <<up, link, msgVars>>
      BY <2>2 DEF MInv, DeliveryInv, msgVars
    <2>3. ASSUME NEW s \in {"closed", "channel", "open"}, Set(l, s), link[l] \in {"opening", "channel"},
                 UNCHANGED <<up, msgVars>>
          PROVE  DeliveryInv'
      <3>1. \A d \in work : d.on \in Links /\ link'[d.on] = link[d.on]
        BY <2>0, <2>3 DEF MInv, DeliveryInv, Set, Deliveries
      <3> QED
        BY <2>3, <3>1 DEF MInv, DeliveryInv, msgVars
    <2>4. CASE LinkBreaks(l)
      <3>1. /\ link' = [link EXCEPT ![l] = "closed"] /\ place' = Requeue({l})
            /\ UNCHANGED <<up, sent, work, handled, threw>>
        BY <2>4 DEF LinkBreaks, Set
      <3>2. \A d \in work : /\ d.on \in Links /\ d.msg \in Msgs
                            /\ link'[d.on] \in {"closed", "open"}
                            /\ link'[d.on] = "open" => d.on # l /\ link[d.on] = "open"
        BY <2>0, <3>1 DEF MInv, DeliveryInv, Deliveries
      <3>3. \A d \in work :
               link'[d.on] = "open" => place'[d.msg] \in {d.on, "acked", "dropped"}
        BY <2>0, <3>1, <3>2 DEF MInv, DeliveryInv, Requeue
      <3> QED
        BY <3>1, <3>2, <3>3 DEF MInv, DeliveryInv
    <2>5. CASE ConnectFails(l) \/ Connected(l) \/ ChannelCreated(l)
      BY <2>3, <2>5 DEF ConnectFails, Connected, ChannelCreated
    <2>6. CASE NextCall(l) \/ ConsumerRegistered(l)
      BY <2>2, <2>6 DEF NextCall, ConsumerRegistered
    <2> QED
      BY <2>1, <2>4, <2>5, <2>6 DEF LinkStep
  <1> QED
    BY <1>1, <1>2 DEF MInv

-----------------------------------------------------------------------------
(* The deliveries.                                                         *)

\* A delivery gets the next tag of its channel, which no other has.
LEMMA DeliverKeepsMInv ==
    ASSUME MInv, NEW l \in Links, NEW m \in Msgs, Deliver(l, m)
    PROVE  MInv'
  <1> DEFINE new == [msg |-> m, on |-> l, tag |-> Tag(l), pc |-> "run"]
  <1>1. /\ sent \in [Links -> Seq(Msgs)] /\ sent[l] \in Seq(Msgs)
        /\ work \in SUBSET Deliveries
        /\ place \in [Msgs -> Links \cup {"ready", "acked", "dropped"}]
    BY DEF MInv, MsgTypeOK
  <1>2. Len(sent[l]) \in Nat /\ Tag(l) \in Nat \ {0}
    BY <1>1 DEF Tag
  <1>3. new \in Deliveries
    BY <1>2 DEF Deliveries
  <1>4. sent'[l] = Append(sent[l], m) /\ \A k \in Links : k # l => sent'[k] = sent[k]
    BY <1>1 DEF Deliver
  <1>5. sent' \in [Links -> Seq(Msgs)]
    BY <1>1 DEF Deliver
  <1>6. MsgTypeOK'
    BY <1>3, <1>5 DEF MInv, MsgTypeOK, Deliver, linkVars
  <1>7. link[l] = "open" /\ up
    BY DEF MInv, LinksOK, LinkInv, Deliver
  <1>8. \A d \in work : d.msg = m => link[d.on] # "open"
    BY MessagingAssumption DEF MInv, DeliveryInv, MsgTypeOK, Deliver, Deliveries
  <1>9. place'[m] = l /\ \A k \in Msgs : k # m => place'[k] = place[k]
    BY <1>1 DEF Deliver
  <1>10. ASSUME NEW d \in work'
         PROVE  /\ d.tag \in 1..Len(sent'[d.on])
                /\ sent'[d.on][d.tag] = d.msg
                /\ d.pc = "ack" => d.msg \in handled
                /\ d.pc = "nack" => d.msg \in threw
                /\ link[d.on] \in {"closed", "open"}
                /\ link[d.on] = "open" => place'[d.msg] \in {d.on, "acked", "dropped"}
    <2>1. CASE d \in work
      <3>1. /\ d.on \in Links /\ d.msg \in Msgs
            /\ d.tag \in 1..Len(sent[d.on]) /\ sent[d.on][d.tag] = d.msg
        BY <2>1 DEF MInv, MsgTypeOK, DeliveryInv, Deliveries
      <3>2. d.tag \in 1..Len(sent'[d.on]) /\ sent'[d.on][d.tag] = d.msg
        <4>1. CASE d.on = l
          BY <3>1, <4>1, <1>1, <1>2, <1>4
        <4>2. CASE d.on # l
          BY <3>1, <4>2, <1>4
        <4> QED
          BY <4>1, <4>2
      <3>3. link[d.on] = "open" => place'[d.msg] \in {d.on, "acked", "dropped"}
        BY <2>1, <3>1, <1>8, <1>9 DEF MInv, DeliveryInv
      <3> QED
        BY <2>1, <3>2, <3>3 DEF MInv, DeliveryInv
    <2>2. CASE d = new
      BY <2>2, <1>1, <1>2, <1>4, <1>7, <1>9 DEF Tag
    <2> QED
      BY <2>1, <2>2 DEF Deliver
  <1>11. \A d, e \in work' : d.on = e.on /\ d.msg = e.msg => d = e
    <2>1. \A d \in work : ~(d.on = l /\ d.msg = m)
      BY <1>7, <1>8
    <2>2. new.on = l /\ new.msg = m
      OBVIOUS
    <2>3. work' = work \cup {new}
      BY DEF Deliver
    <2> HIDE DEF new
    <2> QED
      BY <2>1, <2>2, <2>3 DEF MInv, DeliveryInv
  <1>12. UNCHANGED <<up, link, handled, threw>>
    BY DEF Deliver, linkVars
  <1>13. DeliveryInv'
    BY <1>7, <1>10, <1>11, <1>12 DEF DeliveryInv
  <1>14. LinksOK'
    BY DEF MInv, LinksOK, AttemptInv, Attempts, LinkInv, NeverStranded, Deliver, linkVars
  <1> QED
    BY <1>6, <1>13, <1>14 DEF MInv

\* Steps of the deliveries do not touch the connections.
LEMMA SameLinks ==
    ASSUME LinksOK, UNCHANGED linkVars
    PROVE  LinksOK'
  BY DEF LinksOK, AttemptInv, Attempts, LinkInv, NeverStranded, linkVars

\* A delivery in another step is the same delivery.
LEMMA NextPc ==
    ASSUME NEW d \in Deliveries, NEW pc \in {"run", "ack", "nack"},
           NEW new, new = [d EXCEPT !.pc = pc]
    PROVE  /\ new \in Deliveries
           /\ new.msg = d.msg /\ new.on = d.on /\ new.tag = d.tag /\ new.pc = pc
  BY DEF Deliveries

\* A handler that ends is recorded as such before anything is settled.
LEMMA HandlerKeepsMInv ==
    ASSUME MInv, NEW d \in work, HandlerEnds(d)
    PROVE  MInv'
  <1>1. /\ UNCHANGED <<linkVars, place, sent>>
        /\ handled \subseteq handled' /\ threw \subseteq threw'
        /\ handled' \in SUBSET Msgs /\ threw' \in SUBSET Msgs
    BY DEF HandlerEnds, HandlerReturns, HandlerThrows, MInv, MsgTypeOK, Deliveries
  <1>2. PICK pc \in {"ack", "nack"} : /\ work' = (work \ {d}) \cup {[d EXCEPT !.pc = pc]}
                                      /\ pc = "ack" => d.msg \in handled'
                                      /\ pc = "nack" => d.msg \in threw'
    BY DEF HandlerEnds, HandlerReturns, HandlerThrows, Then
  <1>3. d \in Deliveries /\ work \in SUBSET Deliveries
    BY DEF MInv, MsgTypeOK
  <1>4. PICK new : new = [d EXCEPT !.pc = pc]
    OBVIOUS
  <1>5. /\ new \in Deliveries /\ work' = (work \ {d}) \cup {new}
        /\ new.msg = d.msg /\ new.on = d.on /\ new.tag = d.tag /\ new.pc = pc
    BY <1>2, <1>3, <1>4, NextPc
  <1>6. MsgTypeOK'
    BY <1>1, <1>3, <1>5 DEF MInv, MsgTypeOK, linkVars
  <1>7. DeliveryInv'
    BY <1>1, <1>2, <1>5 DEF MInv, DeliveryInv, linkVars
  <1> QED
    BY <1>1, <1>6, <1>7, SameLinks DEF MInv

\* A process that dies takes its handlers, connections and reconnects with it.
LEMMA DyingKeepsMInv ==
    ASSUME MInv, Dies
    PROVE  MInv'
  <1>1. Attempts' = {}
    BY DEF Dies, Attempts, NoCalls
  <1>2. AttemptInv'
    BY <1>1, FS_EmptySet, MessagingAssumption DEF AttemptInv, Dies
  <1>3. LinkInv' /\ NeverStranded'
    BY DEF Dies, LinkInv, NeverStranded, NoCalls
  <1>4. MsgTypeOK'
    <2>1. place' \in [Msgs -> Links \cup {"ready", "acked", "dropped"}]
      BY DEF MInv, MsgTypeOK, Dies, Requeue
    <2>2. sent' \in [Links -> Seq(Msgs)]
      BY DEF Dies, NothingSent
    <2>3. link' \in [Links -> LinkStates] /\ calls' \in [Links -> Links \cup {"none"}]
      BY DEF Dies, LinkStates, NoCalls
    <2>4. timers' \in 0..MaxTimers /\ consumers' \in SUBSET Links /\ work' \in SUBSET Deliveries
      BY MessagingAssumption DEF Dies
    <2>5. up' \in BOOLEAN /\ UNCHANGED <<current, handled, threw>>
      BY DEF Dies
    <2> QED
      BY <2>1, <2>2, <2>3, <2>4, <2>5 DEF MInv, MsgTypeOK
  <1>5. DeliveryInv'
    BY DEF Dies, DeliveryInv
  <1> QED
    BY <1>2, <1>3, <1>4, <1>5 DEF MInv, LinksOK

\* Ack and nack, by whatever channel they are sent.
LEMMA SettlingKeepsMInv ==
    ASSUME MInv, NEW d \in work, Settles(d)
    PROVE  MInv'
  <1>1. ASSUME NEW how \in {"acked", "dropped"}, Settle(d, how)
        PROVE  MInv'
    <2>0. PICK m : /\ place' = [place EXCEPT ![m] = how] /\ work' = work \ {d}
                   /\ UNCHANGED <<linkVars, sent, handled, threw>>
      BY <1>1 DEF Settle
    <2>1. MsgTypeOK'
      BY <2>0 DEF MInv, MsgTypeOK, linkVars
    <2>2. \A e \in work' : e \in work /\ place'[e.msg] \in {place[e.msg], how}
      BY <2>0 DEF MInv, MsgTypeOK, Deliveries
    <2>3. DeliveryInv'
      BY <2>0, <2>2 DEF MInv, DeliveryInv, linkVars
    <2> QED
      BY <2>0, <2>1, <2>3, SameLinks DEF MInv
  <1>2. CASE SettleFails(d)
    BY <1>2, DyingKeepsMInv DEF SettleFails
  <1> QED
    BY <1>1, <1>2 DEF Settles, Ack, Nack

\* A process that is started again connects.
LEMMA RestartKeepsMInv ==
    ASSUME MInv, Restart
    PROVE  MInv'
  <1>1. MsgTypeOK'
    BY MessagingAssumption, OpenFirst
       DEF MInv, MsgTypeOK, Restart, msgVars, OnlyFirst
  <1>2. DeliveryInv'
    BY DEF MInv, DeliveryInv, Restart, msgVars
  <1>3. timers = 0 /\ calls' = calls /\ \A l \in Links : calls[l] = "none"
    BY DEF MInv, LinksOK, LinkInv, Restart
  <1>4. Attempts' = {}
    BY <1>3, OpenFirst DEF Restart, Attempts
  <1>5. AttemptInv'
    BY <1>3, <1>4, FS_EmptySet, MessagingAssumption DEF AttemptInv, Restart
  <1>6. LinkInv' /\ NeverStranded'
    BY <1>3, MessagingAssumption, OpenFirst DEF Restart, LinkInv, NeverStranded
  <1> QED
    BY <1>1, <1>2, <1>5, <1>6 DEF MInv, LinksOK

\* MInv is inductive.
LEMMA MInvStep == MInv /\ [MsgNext]_mVars => MInv'
  <1> SUFFICES ASSUME MInv, [MsgNext]_mVars
               PROVE  MInv'
    OBVIOUS
  <1>1. CASE \E l \in Links : LinkStep(l)
    BY <1>1, LinkKeepsMInv
  <1>2. CASE \E l \in Links, m \in Msgs : Deliver(l, m)
    BY <1>2, DeliverKeepsMInv
  <1>3. CASE \E d \in work : HandlerEnds(d) \/ Settles(d)
    BY <1>3, HandlerKeepsMInv, SettlingKeepsMInv
  <1>4. CASE Crash
    BY <1>4, DyingKeepsMInv DEF Crash
  <1>5. CASE Restart
    BY <1>5, RestartKeepsMInv
  <1>6. CASE UNCHANGED mVars
    <2>1. MsgTypeOK' /\ DeliveryInv' /\ UNCHANGED linkVars
      BY <1>6 DEF mVars, linkVars, MInv, MsgTypeOK, DeliveryInv
    <2> QED
      BY <2>1, SameLinks DEF MInv
  <1> QED
    BY <1>1, <1>2, <1>3, <1>4, <1>5, <1>6 DEF MsgNext

\* MInv holds under every break.
LEMMA MInvAlways == MsgSpec => []MInv
  BY MInvInit, MInvStep, PTL DEF MsgSpec

\* Type correctness: deliveries, tags and connections are what they are said to be
\* through every reconnect, crash and restart of MessagingService, and the reconnects
\* stay within their bound, since a failed attempt schedules the one that replaces it.
THEOREM MessagingTypeCorrect == MsgSpec => []MsgTypeOK
  <1>1. MInv => MsgTypeOK
    BY DEF MInv
  <1> QED
    BY <1>1, MInvAlways, PTL

\* Whatever breaks, a process that runs has a consumer, a connect() that will register
\* one, or a reconnect that is scheduled: scheduleReconnect and the close handler leave
\* no gap.
THEOREM NeverCutOff == MsgSpec => []NeverStranded
  <1>1. MInv => NeverStranded
    BY DEF MInv, LinksOK
  <1> QED
    BY <1>1, MInvAlways, PTL

\* A delivery of the channel that this.channel holds settles its own message.
LEMMA OwnTag ==
    ASSUME MInv, NEW d \in work, d.on = current
    PROVE  sent[current][d.tag] = d.msg
  BY DEF MInv, DeliveryInv

\* ack and nack settle the message of their own delivery, whose handler has ended,
\* unless that delivery is of another channel than this.channel by then.
THEOREM OnlyStaleDeliveriesSettleOthers == MsgSpec => OnlyStaleSettlesOthers
  <1> DEFINE Own(m) ==
        place[m] \in Links /\ place'[m] \in {"acked", "dropped"}
           => m \in handled \cup threw \/ \E d \in work \ work' : d.on # current
  <1>1. ASSUME MInv, [MsgNext]_mVars, NEW m \in Msgs
        PROVE  Own(m)
    <2> SUFFICES ASSUME place[m] \in Links, place'[m] \in {"acked", "dropped"}
                 PROVE  m \in handled \cup threw \/ \E d \in work \ work' : d.on # current
      OBVIOUS
    <2>1. place'[m] \notin Links /\ place'[m] # "ready" /\ place' # place
      BY MessagingAssumption
    <2>2. PICK d \in work : Ack(d) \/ Nack(d)
      <3>1. ~(\E l \in Links : LinkStep(l))
        BY <2>1 DEF LinkStep, Reconnect, ConnectFails, Connected, ChannelCreated, NextCall,
                    ConsumerRegistered, LinkBreaks, Requeue, msgVars
      <3>2. ~(\E l \in Links, k \in Msgs : Deliver(l, k))
        BY <1>1, <2>1 DEF Deliver, MInv, MsgTypeOK
      <3>3. ~Dies
        BY <2>1 DEF Dies, Requeue
      <3>4. ~Restart /\ ~UNCHANGED mVars
        BY <2>1 DEF Restart, mVars, msgVars
      <3>5. \A e \in work : ~HandlerEnds(e)
        BY <2>1 DEF HandlerEnds, HandlerReturns, HandlerThrows
      <3> QED
        BY <1>1, <3>1, <3>2, <3>3, <3>4, <3>5 DEF MsgNext, Settles, SettleFails, Crash
    <2>3. d \notin work' /\ m = sent[current][d.tag]
      BY <1>1, <2>1, <2>2 DEF Ack, Nack, Settle, MInv, MsgTypeOK
    <2>4. CASE d.on = current
      BY <1>1, <2>2, <2>3, <2>4, OwnTag DEF Ack, Nack, MInv, DeliveryInv
    <2> QED
      BY <2>3, <2>4
  <1>2. MInv /\ [MsgNext]_mVars => [\A m \in Msgs : Own(m)]_mVars
    BY <1>1
  <1> QED
    BY <1>2, MInvAlways, PTL DEF MsgSpec, OnlyStaleSettlesOthers

-----------------------------------------------------------------------------
(* Where connections do not break during their setup there is one at a     *)
(* time, and this.channel is its channel.                                  *)

SetupHolds == "setup" \notin Breaks

ConnInv ==
    /\ OneConnection
    /\ up => \A l \in Links : link[l] = "open" => l = current
    /\ \A l \in Links : calls[l] \in {l, "none"}

\* The first connect() is the only one.
LEMMA ConnInvInit == MsgInit => ConnInv
  BY MessagingAssumption, OpenFirst DEF MsgInit, ConnInv, OneConnection, Alive, NoCalls

\* Connecting, failing and reconnecting replace one another.
LEMMA LinkKeepsConnInv ==
    ASSUME SetupHolds, MInv, ConnInv, NEW l \in Links, LinkStep(l)
    PROVE  ConnInv'
  <1>0. /\ link \in [Links -> LinkStates] /\ calls \in [Links -> Links \cup {"none"}]
        /\ timers \in Nat /\ LinkInv
    BY DEF MInv, MsgTypeOK, LinksOK
  <1>1. CASE Reconnect(l)
    BY <1>0, <1>1 DEF ConnInv, OneConnection, Alive, Reconnect, Set
  <1>2. CASE ConnectFails(l)
    BY <1>0, <1>2 DEF ConnInv, OneConnection, Alive, ConnectFails, Set
  <1>3. CASE Connected(l)
    BY <1>0, <1>3 DEF ConnInv, OneConnection, Alive, Connected, Set
  <1>4. CASE ChannelCreated(l)
    BY <1>0, <1>4 DEF ConnInv, OneConnection, Alive, ChannelCreated, Set
  <1>5. CASE NextCall(l)
    <2>1. calls[l] = l /\ l # current /\ link[l] = "open" /\ up
      BY <1>0, <1>5 DEF ConnInv, NextCall, LinkInv
    <2> QED
      BY <2>1 DEF ConnInv
  <1>6. CASE ConsumerRegistered(l)
    BY <1>0, <1>6 DEF ConnInv, OneConnection, Alive, ConsumerRegistered
  <1>7. CASE LinkBreaks(l)
    <2>1. Interrupted(l) = {} /\ link[l] = "open"
      BY <1>7 DEF SetupHolds, LinkBreaks, Interrupted
    <2>2. Schedules(l) = 1
      BY <2>1, FS_EmptySet DEF Schedules
    <2>3. /\ timers' = timers + 1 /\ link' = [link EXCEPT ![l] = "closed"]
          /\ UNCHANGED <<up, current>> /\ \A k \in Links : calls'[k] = calls[k]
      BY <1>0, <1>7, <2>1, <2>2 DEF LinkBreaks, Set
    <2>4. up
      BY <1>0, <2>1 DEF LinkInv
    <2> QED
      BY <1>0, <2>1, <2>3, <2>4 DEF ConnInv, OneConnection, Alive
  <1> QED
    BY <1>1, <1>2, <1>3, <1>4, <1>5, <1>6, <1>7 DEF LinkStep

\* Death and restart leave one connection or none.
LEMMA ProcessKeepsConnInv ==
    ASSUME MInv, ConnInv, Dies \/ Restart
    PROVE  ConnInv'
  <1>1. CASE Dies
    BY <1>1 DEF ConnInv, OneConnection, Alive, Dies, NoCalls
  <1>2. CASE Restart
    BY <1>2, MessagingAssumption, OpenFirst
       DEF MInv, LinksOK, LinkInv, ConnInv, OneConnection, Alive, Restart, msgVars
  <1> QED
    BY <1>1, <1>2

\* Steps of the deliveries leave the connections alone, or are the death of the
\* process.
LEMMA ConnInvStep == SetupHolds /\ MInv /\ ConnInv /\ [MsgNext]_mVars => ConnInv'
  <1> SUFFICES ASSUME SetupHolds, MInv, ConnInv, [MsgNext]_mVars
               PROVE  ConnInv'
    OBVIOUS
  <1>1. CASE UNCHANGED linkVars
    BY <1>1 DEF linkVars, ConnInv, OneConnection, Alive
  <1>2. CASE \E l \in Links : LinkStep(l)
    BY <1>2, LinkKeepsConnInv
  <1>3. CASE \E l \in Links, m \in Msgs : Deliver(l, m)
    BY <1>3, <1>1 DEF Deliver
  <1>4. CASE \E d \in work : HandlerEnds(d) \/ Settles(d)
    BY <1>4, <1>1, ProcessKeepsConnInv
       DEF HandlerEnds, HandlerReturns, HandlerThrows, Settles, Ack, Nack, Settle, SettleFails
  <1>5. CASE Crash \/ Restart
    BY <1>5, ProcessKeepsConnInv DEF Crash
  <1>6. CASE UNCHANGED mVars
    BY <1>6, <1>1 DEF mVars, linkVars
  <1> QED
    BY <1>2, <1>3, <1>4, <1>5, <1>6 DEF MsgNext

\* MessagingService keeps one connection, or one reconnect scheduled: only a
\* connection that breaks inside connect() is replaced twice.
THEOREM OneConnectionAtATime == ASSUME SetupHolds PROVE MsgSpec => []OneConnection
  <1>1. MInv /\ ConnInv /\ [MsgNext]_mVars => ConnInv'
    BY ConnInvStep
  <1>2. ConnInv => OneConnection
    BY DEF ConnInv
  <1> QED
    BY ConnInvInit, <1>1, <1>2, MInvAlways, PTL DEF MsgSpec

-----------------------------------------------------------------------------
(* Where, besides, no handler outlives its connection, every delivery is   *)
(* of the current channel and settles its own message.                     *)

NoneOutlives == "outlive" \notin Breaks

CurrentInv ==
    /\ SettledMeansHandled
    /\ \A d \in work : d.on = current /\ link[current] = "open" /\ place[d.msg] = current

\* All that the calm case rests on.
CalmInv == MInv /\ ConnInv /\ CurrentInv

\* There is no delivery at the start.
LEMMA CurrentInvInit == MsgInit => CurrentInv
  BY DEF MsgInit, CurrentInv, SettledMeansHandled

\* While deliveries are in progress their connection is the only one, and no
\* connect() is.
LEMMA BusyConnection ==
    ASSUME CalmInv, NEW d \in work
    PROVE  /\ up /\ timers = 0
           /\ \A l \in Links : Alive(l) => l = current
  <1>1. up
    BY DEF CalmInv, MInv, DeliveryInv
  <1> QED
    BY <1>1 DEF CalmInv, MInv, MsgTypeOK, ConnInv, OneConnection, CurrentInv, Alive

\* A channel that is replaced or breaks has no delivery, since handlers do not
\* outlive it.
LEMMA LinkKeepsCurrentInv ==
    ASSUME SetupHolds, NoneOutlives, CalmInv, NEW l \in Links, LinkStep(l)
    PROVE  CurrentInv'
  <1>0. UNCHANGED <<work, handled, threw>> /\ (place' = place \/ place' = Requeue({l}))
    BY DEF LinkStep, Reconnect, ConnectFails, Connected, ChannelCreated, NextCall,
           ConsumerRegistered, LinkBreaks, msgVars
  <1>1. SettledMeansHandled'
    BY <1>0, MessagingAssumption DEF CalmInv, CurrentInv, SettledMeansHandled, Requeue
  <1>2. CASE work = {}
    BY <1>0, <1>1, <1>2 DEF CurrentInv
  <1>3. CASE ConsumerRegistered(l) \/ NextCall(l)
    BY <1>1, <1>3 DEF CurrentInv, CalmInv, ConsumerRegistered, NextCall, msgVars
  <1>4. ASSUME NEW d \in work
        PROVE  ConsumerRegistered(l) \/ NextCall(l)
    <2>1. timers = 0 /\ d.on = current /\ link[current] = "open"
      BY BusyConnection DEF CalmInv, CurrentInv
    <2>2. Alive(l) => l = current
      BY BusyConnection
    <2>3. ~Reconnect(l) /\ ~ConnectFails(l) /\ ~Connected(l) /\ ~ChannelCreated(l)
      BY <2>1, <2>2 DEF Reconnect, ConnectFails, Connected, ChannelCreated, Alive
    <2>4. ~LinkBreaks(l)
      BY <2>1, <2>2 DEF LinkBreaks, Alive, SetupHolds, NoneOutlives, Running
    <2> QED
      BY <2>3, <2>4 DEF LinkStep
  <1> QED
    BY <1>2, <1>3, <1>4

\* A new delivery is of the current channel.
LEMMA DeliverKeepsCurrentInv ==
    ASSUME CalmInv, NEW l \in Links, NEW m \in Msgs, Deliver(l, m)
    PROVE  CurrentInv'
  <1>1. link[l] = "open" /\ l = current
    BY DEF CalmInv, MInv, LinksOK, LinkInv, ConnInv, Deliver
  <1>2. \A d \in work : d.msg \in Msgs /\ d.msg # m
    BY MessagingAssumption
       DEF CalmInv, MInv, MsgTypeOK, CurrentInv, Deliver, Deliveries
  <1>3. place'[m] = current /\ \A k \in Msgs : k # m => place'[k] = place[k]
    BY <1>1 DEF CalmInv, MInv, MsgTypeOK, Deliver
  <1>4. SettledMeansHandled'
    BY <1>3, MessagingAssumption
       DEF CalmInv, MInv, MsgTypeOK, CurrentInv, SettledMeansHandled, Deliver
  <1>5. \A d \in work' : /\ d.on = current /\ link[current] = "open"
                         /\ place'[d.msg] = current
    BY <1>1, <1>2, <1>3 DEF CalmInv, CurrentInv, Deliver
  <1> QED
    BY <1>4, <1>5 DEF CurrentInv, Deliver, linkVars

\* A handler that ends stays a delivery of the current channel.
LEMMA HandlerKeepsCurrentInv ==
    ASSUME CalmInv, NEW d \in work, HandlerEnds(d)
    PROVE  CurrentInv'
  <1>1. /\ UNCHANGED <<linkVars, place>>
        /\ handled \subseteq handled' /\ threw \subseteq threw'
        /\ \E pc \in {"ack", "nack"} : Then(d, pc)
    BY DEF HandlerEnds, HandlerReturns, HandlerThrows
  <1>2. SettledMeansHandled'
    BY <1>1 DEF CalmInv, CurrentInv, SettledMeansHandled
  <1>3. PICK pc \in {"ack", "nack"} : work' = (work \ {d}) \cup {[d EXCEPT !.pc = pc]}
    BY <1>1 DEF Then
  <1>4. d \in Deliveries
    BY DEF CalmInv, MInv, MsgTypeOK
  <1>5. [d EXCEPT !.pc = pc].msg = d.msg /\ [d EXCEPT !.pc = pc].on = d.on
    BY <1>4 DEF Deliveries
  <1>6. \A e \in work' : e.on = current /\ link[current] = "open" /\ place[e.msg] = current
    BY <1>3, <1>5 DEF CalmInv, CurrentInv
  <1> QED
    BY <1>1, <1>2, <1>6 DEF CurrentInv, linkVars

\* A delivery of the current channel finds its tag outstanding, and it is the
\* tag of its own message.
LEMMA SettlesOwn ==
    ASSUME CalmInv, NEW d \in work
    PROVE  TagKnown(d) /\ sent[current][d.tag] = d.msg
  BY DEF CalmInv, MInv, CurrentInv, DeliveryInv, TagKnown, Outstanding

\* A tag of the current channel settles its own message.
LEMMA SettlingKeepsCurrentInv ==
    ASSUME CalmInv, NEW d \in work, Settles(d)
    PROVE  CurrentInv'
  <1>1. d \in Deliveries /\ d.msg \in Msgs
    BY DEF CalmInv, MInv, MsgTypeOK, Deliveries
  <1>2. ASSUME NEW how \in {"acked", "dropped"}, Settle(d, how),
               how = "acked" => d.msg \in handled, how = "dropped" => d.msg \in threw
        PROVE  CurrentInv'
    <2>1. place' = [place EXCEPT ![d.msg] = how] /\ work' = work \ {d}
      BY <1>2, SettlesOwn DEF Settle
    <2>2. \A e \in work' : e.on = d.on /\ e.msg # d.msg
      BY <2>1 DEF CalmInv, MInv, DeliveryInv, CurrentInv
    <2>3. \A e \in work' : e.msg \in Msgs /\ place'[e.msg] = place[e.msg]
      BY <2>1, <2>2, <1>1 DEF CalmInv, MInv, MsgTypeOK, Deliveries
    <2>4. SettledMeansHandled'
      BY <1>2, <2>1, <1>1
         DEF CalmInv, MInv, MsgTypeOK, CurrentInv, SettledMeansHandled, Settle
    <2> QED
      BY <1>2, <2>1, <2>3, <2>4 DEF CalmInv, CurrentInv, Settle, linkVars
  <1>3. CASE Ack(d)
    BY <1>2, <1>3 DEF Ack, CalmInv, MInv, DeliveryInv
  <1>4. CASE Nack(d)
    BY <1>2, <1>4 DEF Nack, CalmInv, MInv, DeliveryInv
  <1>5. ~SettleFails(d)
    BY SettlesOwn DEF SettleFails
  <1> QED
    BY <1>3, <1>4, <1>5 DEF Settles

\* Death and restart leave no delivery.
LEMMA ProcessKeepsCurrentInv ==
    ASSUME CalmInv, Dies \/ Restart
    PROVE  CurrentInv'
  <1>1. CASE Dies
    <2>1. SettledMeansHandled'
      BY <1>1, MessagingAssumption DEF CalmInv, CurrentInv, SettledMeansHandled, Dies, Requeue
    <2> QED
      BY <1>1, <2>1 DEF CurrentInv, Dies
  <1>2. CASE Restart
    <2>1. work = {}
      BY <1>2, BusyConnection DEF Restart
    <2> QED
      BY <1>2, <2>1 DEF CalmInv, CurrentInv, SettledMeansHandled, Restart, msgVars
  <1> QED
    BY <1>1, <1>2

\* The three invariants together are inductive, if setups hold and no handler outlives
\* its connection.
LEMMA CalmInvStep ==
    ASSUME SetupHolds, NoneOutlives, CalmInv, [MsgNext]_mVars
    PROVE  CalmInv'
  <1>1. MInv' /\ ConnInv'
    BY MInvStep, ConnInvStep DEF CalmInv
  <1>2. CASE \E l \in Links : LinkStep(l)
    BY <1>1, <1>2, LinkKeepsCurrentInv DEF CalmInv
  <1>3. CASE \E l \in Links, m \in Msgs : Deliver(l, m)
    BY <1>1, <1>3, DeliverKeepsCurrentInv DEF CalmInv
  <1>4. CASE \E d \in work : HandlerEnds(d) \/ Settles(d)
    BY <1>1, <1>4, HandlerKeepsCurrentInv, SettlingKeepsCurrentInv DEF CalmInv
  <1>5. CASE Crash \/ Restart
    BY <1>1, <1>5, ProcessKeepsCurrentInv DEF Crash, CalmInv
  <1>6. CASE UNCHANGED mVars
    BY <1>1, <1>6 DEF CalmInv, CurrentInv, SettledMeansHandled, mVars
  <1> QED
    BY <1>2, <1>3, <1>4, <1>5, <1>6 DEF MsgNext

\* Manual acknowledgement does what it is for as long as connections break only
\* while they are idle: the broker forgets a message only after its own handler
\* returned, or threw, through any number of reconnects, crashes and restarts.
THEOREM AcknowledgementIsSound ==
    ASSUME SetupHolds, NoneOutlives PROVE MsgSpec => []SettledMeansHandled
  <1>1. MsgInit => CalmInv
    BY MInvInit, ConnInvInit, CurrentInvInit DEF CalmInv
  <1>2. CalmInv /\ [MsgNext]_mVars => CalmInv'
    BY CalmInvStep
  <1>3. CalmInv => SettledMeansHandled
    BY DEF CalmInv, CurrentInv
  <1> QED
    BY <1>1, <1>2, <1>3, PTL DEF MsgSpec

-----------------------------------------------------------------------------
(* MessagingService is a work queue.                                       *)

msgPlace == [m \in Msgs |-> MsgPlace(m)]

\* What m's place depends on.
InHand(m) == \E d \in work : d.msg = m /\ d.on = place[m] /\ d.pc = "run"
SameMsg(m) == place'[m] = place[m] /\ (InHand(m)' <=> InHand(m))

\* A message that stays where it is, with the same deliveries, does not move.
LEMMA SameMsgPlace ==
    ASSUME NEW m \in Msgs, SameMsg(m)
    PROVE  MsgPlace(m)' = MsgPlace(m)
  BY DEF MsgPlace, SameMsg, InHand

\* The queue stutters if no message moves.
LEMMA NothingMoves ==
    ASSUME \A m \in Msgs : SameMsg(m)
    PROVE  UNCHANGED msgPlace
  BY SameMsgPlace DEF msgPlace

\* One message moves.
LEMMA MsgMoves ==
    ASSUME NEW m \in Msgs, \A k \in Msgs : k # m => SameMsg(k)
    PROVE  msgPlace' = [msgPlace EXCEPT ![m] = MsgPlace(m)']
  <1>1. \A k \in Msgs : k # m => MsgPlace(k)' = MsgPlace(k)
    BY SameMsgPlace
  <1> QED
    BY <1>1 DEF msgPlace

\* The invariant of the refinement: what holds in any case, and in the calm one that
\* every delivery is of the current channel.
QueueInv == MInv /\ (SetupHolds /\ NoneOutlives => CalmInv)

\* QueueInv holds at the start.
LEMMA QueueInvInit == MsgInit => QueueInv
  BY MInvInit, ConnInvInit, CurrentInvInit DEF QueueInv, CalmInv

\* QueueInv is inductive.
LEMMA QueueInvStep == QueueInv /\ [MsgNext]_mVars => QueueInv'
  BY MInvStep, CalmInvStep DEF QueueInv

\* Messages that a dead connection leaves unacknowledged come back together.
LEMMA ReturnRefines ==
    ASSUME MsgTypeOK, NEW L \in SUBSET Links, place' = Requeue(L),
           work' = work \/ (work' = {} /\ L = Links)
    PROVE  Queue!Next
  <1> DEFINE I == {m \in Msgs : place[m] \in L}
  <1>1. \A m \in I : MsgPlace(m) \in {"running", "done"} /\ MsgPlace(m)' = "ready"
    BY MessagingAssumption DEF Requeue, MsgPlace
  <1>2. \A m \in Msgs \ I : MsgPlace(m)' = MsgPlace(m)
    <2>1. CASE work' = work
      BY <2>1, SameMsgPlace DEF Requeue, SameMsg, InHand
    <2>2. CASE work' = {} /\ L = Links
      BY <2>2, MessagingAssumption DEF Requeue, MsgPlace, MsgTypeOK
    <2> QED
      BY <2>1, <2>2
  <1>3. msgPlace' = [m \in Msgs |-> IF m \in I THEN "ready" ELSE msgPlace[m]]
    BY <1>1, <1>2 DEF msgPlace
  <1>4. Queue!Return(I)
    BY <1>1, <1>3 DEF Queue!Return, Queue!Unacked, msgPlace
  <1> QED
    BY <1>4 DEF Queue!Next

\* The tag that goes out is that of the delivery's own message, or astray.
LEMMA SettlingRefines ==
    ASSUME QueueInv, NEW d \in work, Ack(d) \/ Nack(d)
    PROVE  Queue!Next
  <1>0. /\ MInv /\ place \in [Msgs -> Links \cup {"ready", "acked", "dropped"}]
        /\ sent \in [Links -> Seq(Msgs)] /\ current \in Links /\ work \in SUBSET Deliveries
    BY DEF QueueInv, MInv, MsgTypeOK
  <1>1. PICK how \in {"acked", "dropped"} :
           Settle(d, how) /\ (how = "acked" => d.pc = "ack") /\ d.pc # "run"
    BY DEF Ack, Nack
  <1>2. PICK m \in Msgs : m = sent[current][d.tag]
    BY <1>0, <1>1 DEF Settle, TagKnown, Outstanding
  <1>3. /\ place' = [place EXCEPT ![m] = how] /\ work' = work \ {d}
        /\ place[m] = current
    BY <1>1, <1>2 DEF Settle, TagKnown, Outstanding
  <1>4. \A k \in Msgs : k # m => SameMsg(k)
    BY <1>0, <1>1, <1>3 DEF SameMsg, InHand
  <1>5. MsgPlace(m)' = how
    BY <1>0, <1>3, MessagingAssumption DEF MsgPlace
  <1>6. msgPlace' = [msgPlace EXCEPT ![m] = how]
    BY <1>4, <1>5, MsgMoves
  <1>7. msgPlace[m] \in {"running", "done"}
    BY <1>0, <1>3 DEF msgPlace, MsgPlace
  <1>8. CASE d.on = current
    <2>1. m = d.msg
      BY <1>0, <1>2, <1>8, OwnTag
    <2>2. how = "acked" => msgPlace[m] = "done"
      BY <1>0, <1>1, <1>3, <1>8, <2>1 DEF MInv, DeliveryInv, msgPlace, MsgPlace
    <2>3. Queue!Ack(m) \/ Queue!Drop(m)
      BY <1>6, <1>7, <2>2
         DEF Queue!Ack, Queue!Drop, Queue!Moves, Queue!Unacked, msgPlace
    <2> QED
      BY <2>3 DEF Queue!Next
  <1>9. CASE d.on # current
    <2>1. Breaks \cap {"outlive", "setup"} # {}
      BY <1>9 DEF QueueInv, CalmInv, CurrentInv, SetupHolds, NoneOutlives
    <2>2. Queue!Stray(m)
      BY <1>6, <1>7, <2>1 DEF Queue!Stray, Queue!Unacked, msgPlace
    <2> QED
      BY <2>2 DEF Queue!Next
  <1> QED
    BY <1>8, <1>9

\* A handler that ends finishes its message, if the broker still counts on it.
LEMMA HandlerEndRefines ==
    ASSUME MInv, NEW d \in work, HandlerEnds(d)
    PROVE  [Queue!Next]_msgPlace
  <1>1. d \in Deliveries /\ UNCHANGED place
    BY DEF HandlerEnds, HandlerReturns, HandlerThrows, MInv, MsgTypeOK
  <1>2. PICK pc \in {"ack", "nack"} :
           d.pc = "run" /\ work' = (work \ {d}) \cup {[d EXCEPT !.pc = pc]}
    BY DEF HandlerEnds, HandlerReturns, HandlerThrows, Then
  <1>3. PICK m \in Msgs : m = d.msg
    BY <1>1 DEF Deliveries
  <1>4. PICK new : new = [d EXCEPT !.pc = pc]
    OBVIOUS
  <1>5. work' = (work \ {d}) \cup {new} /\ new.pc = pc
    BY <1>1, <1>2, <1>4, NextPc
  <1>6. \A k \in Msgs : k # m => SameMsg(k)
    BY <1>1, <1>3, <1>5 DEF SameMsg, InHand
  <1>7. CASE place[m] # d.on
    <2>1. SameMsg(m)
      BY <1>1, <1>3, <1>5, <1>7 DEF SameMsg, InHand
    <2> QED
      BY <1>6, <2>1, NothingMoves
  <1>8. CASE place[m] = d.on
    <2>1. d.on \in Links
      BY <1>1 DEF Deliveries
    <2>2. MsgPlace(m) = "running"
      BY <1>2, <1>3, <1>8, <2>1 DEF MsgPlace
    <2>3. ~InHand(m)'
      BY <1>1, <1>3, <1>5, <1>8 DEF InHand, MInv, DeliveryInv
    <2>4. MsgPlace(m)' = "done"
      BY <1>1, <1>8, <2>1, <2>3 DEF MsgPlace, InHand
    <2>5. Queue!Finish(m)
      BY <1>6, <2>2, <2>4, MsgMoves DEF Queue!Finish, Queue!Moves, msgPlace
    <2> QED
      BY <2>5 DEF Queue!Next
  <1> QED
    BY <1>7, <1>8

\* A delivery takes a message that waits in the queue.
LEMMA DeliverRefines ==
    ASSUME MInv, NEW l \in Links, NEW m \in Msgs, Deliver(l, m)
    PROVE  Queue!Next
  <1>1. \E new : /\ new.msg = m /\ new.on = l /\ new.pc = "run"
                 /\ work' = work \cup {new}
    BY DEF Deliver
  <1>2. place' = [place EXCEPT ![m] = l]
    BY DEF Deliver
  <1>3. \A k \in Msgs : k # m => SameMsg(k)
    BY <1>1, <1>2 DEF SameMsg, InHand, MInv, MsgTypeOK
  <1>4. MsgPlace(m) = "ready"
    BY MessagingAssumption DEF MsgPlace, Deliver
  <1>5. MsgPlace(m)' = "running"
    BY <1>1, <1>2 DEF MsgPlace, MInv, MsgTypeOK
  <1>6. Queue!Take(m)
    BY <1>3, <1>4, <1>5, MsgMoves DEF Queue!Take, Queue!Moves, msgPlace
  <1> QED
    BY <1>6 DEF Queue!Next

\* Every step of the process is a step of the work queue, or none.
LEMMA MsgStepRefines ==
    ASSUME QueueInv, [MsgNext]_mVars
    PROVE  [Queue!Next]_msgPlace
  <1>0. MInv /\ MsgTypeOK
    BY DEF QueueInv, MInv
  <1>1. CASE UNCHANGED <<place, work>>
    BY <1>1, NothingMoves DEF SameMsg, InHand
  <1>2. ASSUME NEW l \in Links, LinkStep(l), ~UNCHANGED <<place, work>>
        PROVE  Queue!Next
    <2>1. place' = Requeue({l}) /\ work' = work
      BY <1>2 DEF LinkStep, Reconnect, ConnectFails, Connected, ChannelCreated, NextCall,
                  ConsumerRegistered, LinkBreaks, msgVars
    <2> QED
      BY <1>0, <2>1, ReturnRefines
  <1>3. CASE \E l \in Links, m \in Msgs : Deliver(l, m)
    BY <1>0, <1>3, DeliverRefines
  <1>4. CASE Dies
    BY <1>0, <1>4, ReturnRefines DEF Dies
  <1>5. CASE \E d \in work : HandlerEnds(d) \/ Settles(d)
    BY <1>0, <1>4, <1>5, HandlerEndRefines, SettlingRefines DEF Settles, SettleFails
  <1>6. CASE Restart \/ UNCHANGED mVars
    BY <1>1, <1>6 DEF Restart, mVars, msgVars
  <1> QED
    BY <1>1, <1>2, <1>3, <1>4, <1>5, <1>6 DEF MsgNext, Crash

\* Whatever breaks, MessagingService is the work queue that Booking runs its timers on:
\* a message has one delivery that counts, comes back when that is lost, and is
\* acknowledged only after that one ended, unless by an answer that went astray, which
\* takes a connection that broke under a handler or inside connect().
THEOREM MessagingImplementsWorkQueue == MsgSpec => MsgsAreQueued
  <1>1. MsgInit => Queue!Init
    BY MessagingAssumption DEF MsgInit, Queue!Init, MsgPlace
  <1>2. QueueInv /\ [MsgNext]_mVars => [Queue!Next]_msgPlace
    BY MsgStepRefines
  <1> QED
    BY QueueInvInit, QueueInvStep, <1>1, <1>2, PTL
       DEF MsgSpec, MsgsAreQueued, Queue!Spec, msgPlace

=============================================================================
