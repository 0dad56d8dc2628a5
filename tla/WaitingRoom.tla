---------------------------- MODULE WaitingRoom ----------------------------
(***************************************************************************)
(* UC07, the waiting room of one event (every Redis key carries the event, *)
(* so events do not share them).                                           *)
(*                                                                         *)
(*   queue:event:E          a sorted set of users, the score from INCR     *)
(*   active:event:E         a set of users, no TTL                         *)
(*   token:event:E:user:U   a key with a TTL, the user's turn              *)
(*                                                                         *)
(* Each pod runs an admission cycle every two seconds, unless its last one *)
(* is still running: list the open rooms, read the room again, run         *)
(* ADMIT_LUA with the cap and window just read.  There is no code that     *)
(* writes rooms; an operator edits the row by hand, at any time.           *)
(***************************************************************************)
EXTENDS FiniteSets, Naturals, Sequences

CONSTANTS Users,
          NoUser,
          JoinReqs,   \* join requests in progress at a time
          Pods,       \* processes that run the scheduler
          MaxCap,     \* bound: the largest max_concurrent an operator sets
          Caps,       \* bound: those that an operator sets
          Windows     \* bound: the booking_windows an operator sets, in ticks

\* A window of 0 would make ADMIT_LUA fail at its SET, after its ZPOPMIN.
ASSUME RoomAssumption ==
    /\ IsFiniteSet(Users)
    /\ NoUser \notin Users
    /\ MaxCap \in Nat
    /\ Caps \subseteq 0..MaxCap
    /\ Windows \subseteq Nat \ {0}
    /\ Windows # {}

VARIABLES queue,    \* the sorted set, by rank
          active,   \* the active set
          token,    \* token[u]: ticks the token key still lives, 0 if none
          room,     \* the row of waiting_rooms
          joiner,   \* joiner[r]: the user of a join that found the room open
          cycle     \* cycle[p]: the admission cycle of pod p

roomVars == <<queue, active, token, room, joiner, cycle>>

Queued(u) == \E i \in 1..Len(queue) : queue[i] = u
Front(k) == {queue[i] : i \in 1..k}
HasTurn(u) == token[u] > 0
Turns == {u \in Users : HasTurn(u)}

Rooms == [open : BOOLEAN, cap : Caps, window : Windows]
NotRunning == [pc |-> "idle"]
Listed == [pc |-> "listed"]
Cycles == {NotRunning, Listed} \cup [pc : {"admit"}, cap : Caps, window : Windows]

RoomTypeOK ==
    /\ queue \in Seq(Users)
    /\ \A i, j \in 1..Len(queue) : queue[i] = queue[j] => i = j
    /\ active \in SUBSET Users
    /\ token \in [Users -> Nat]
    /\ room \in Rooms
    /\ joiner \in [JoinReqs -> Users \cup {NoUser}]
    /\ cycle \in [Pods -> Cycles]

RoomInit ==
    /\ queue = <<>>
    /\ active = {}
    /\ token = [u \in Users |-> 0]
    /\ room \in Rooms
    /\ joiner = [r \in JoinReqs |-> NoUser]
    /\ cycle = [p \in Pods |-> NotRunning]

-----------------------------------------------------------------------------
(* POST /queue/:eventId/join, one action per await.                        *)

\* A closed room ends the request with 422.
AskToJoin(r, u) ==
    /\ joiner[r] = NoUser
    /\ room.open
    /\ joiner' = [joiner EXCEPT ![r] = u]
    /\ UNCHANGED <<queue, active, token, room, cycle>>

\* Mutant of Join: ZADD for whoever joins, the waiting included.
JoinMoves(r) ==
    /\ joiner[r] # NoUser
    /\ queue' = SelectSeq(queue, LAMBDA u : u # joiner[r]) \o <<joiner[r]>>
    /\ joiner' = [joiner EXCEPT ![r] = NoUser]
    /\ UNCHANGED <<active, token, room, cycle>>

\* Mutant of Join: a list, and nobody looks who is in it.
JoinTwice(r) ==
    /\ joiner[r] # NoUser
    /\ queue' = Append(queue, joiner[r])
    /\ joiner' = [joiner EXCEPT ![r] = NoUser]
    /\ UNCHANGED <<active, token, room, cycle>>

\* JOIN_LUA: a user in the queue keeps the place, anyone else goes to the end,
\* a user who has a token included.
Join(r) ==
    /\ joiner[r] # NoUser
    /\ queue' = IF Queued(joiner[r]) THEN queue ELSE Append(queue, joiner[r])
    /\ joiner' = [joiner EXCEPT ![r] = NoUser]
    /\ UNCHANGED <<active, token, room, cycle>>

\* Redis does not answer, or the process dies.
JoinFails(r) ==
    /\ joiner[r] # NoUser
    /\ joiner' = [joiner EXCEPT ![r] = NoUser]
    /\ UNCHANGED <<queue, active, token, room, cycle>>

-----------------------------------------------------------------------------
(* The admission cycle of a pod.                                           *)

Goes(p, next) == cycle' = [cycle EXCEPT ![p] = next]

\* The interval fires and no cycle is running; listOpenRooms answers.  With the
\* room closed the cycle is over at once.
ListOpenRooms(p) ==
    /\ cycle[p].pc = "idle"
    /\ room.open
    /\ Goes(p, Listed)
    /\ UNCHANGED <<queue, active, token, room, joiner>>

\* getOpenRoom: the values ADMIT_LUA will be given.
GetOpenRoom(p) ==
    /\ cycle[p].pc = "listed"
    /\ Goes(p, IF room.open
               THEN [pc |-> "admit", cap |-> room.cap, window |-> room.window]
               ELSE NotRunning)
    /\ UNCHANGED <<queue, active, token, room, joiner>>

\* Mutants of Swept: the set is never swept, or built anew.
Unswept == active
SweptAway == {}

\* What the sweep at the start of ADMIT_LUA leaves of the active set.
Swept == active \cap Turns

\* Mutant of StopsAfter: the loop takes one user too many.
StopsLate(k, cap) ==
    /\ \A j \in 0..k - 1 : Cardinality(Swept \cup Front(j)) <= cap
    /\ \/ k = Len(queue)
       \/ Cardinality(Swept \cup Front(k)) > cap

\* The loop of ADMIT_LUA stops after k users: a slot was free before each of
\* them, and none is after, or nobody waits.
StopsAfter(k, cap) ==
    /\ \A j \in 0..k - 1 : Cardinality(Swept \cup Front(j)) < cap
    /\ \/ k = Len(queue)
       \/ Cardinality(Swept \cup Front(k)) >= cap

\* ADMIT_LUA: drop the members of the active set whose token is gone, then
\* give tokens from the front of the queue while a slot is free.
Admit(p) ==
    /\ cycle[p].pc = "admit"
    /\ \E k \in 0..Len(queue) :
          /\ StopsAfter(k, cycle[p].cap)
          /\ queue' = SubSeq(queue, k + 1, Len(queue))
          /\ active' = Swept \cup Front(k)
          /\ token' = [u \in Users |->
                          IF u \in Front(k) THEN cycle[p].window ELSE token[u]]
    /\ Goes(p, NotRunning)
    /\ UNCHANGED <<room, joiner>>

\* A query or the script fails, also one of a room before this one in the list,
\* and the error is logged; or the pod restarts.  The cycle ends where it is.
CycleFails(p) ==
    /\ cycle[p].pc # "idle"
    /\ Goes(p, NotRunning)
    /\ UNCHANGED <<queue, active, token, room, joiner>>

CycleStep(p) == ListOpenRooms(p) \/ GetOpenRoom(p) \/ Admit(p) \/ CycleFails(p)

-----------------------------------------------------------------------------

\* An operator edits the row of the room.
EditRoom ==
    /\ room' \in Rooms
    /\ UNCHANGED <<queue, active, token, joiner, cycle>>

\* Tokens expire; the active set does not notice.
TokensElapse ==
    /\ token' = [u \in Users |-> IF token[u] = 0 THEN 0 ELSE token[u] - 1]
    /\ UNCHANGED <<queue, active, room, joiner, cycle>>

RoomNext ==
    \/ \E r \in JoinReqs : (\E u \in Users : AskToJoin(r, u)) \/ Join(r) \/ JoinFails(r)
    \/ \E p \in Pods : CycleStep(p)
    \/ EditRoom
    \/ TokensElapse

RoomSpec == RoomInit /\ [][RoomNext]_roomVars

\* Time passes, the interval of every pod fires, and cycles do not all fail.
RoomFairness ==
    /\ WF_roomVars(TokensElapse)
    /\ \A p \in Pods :
          /\ WF_roomVars(ListOpenRooms(p))
          /\ SF_roomVars(GetOpenRoom(p))
          /\ SF_roomVars(Admit(p))

RoomFairSpec == RoomSpec /\ RoomFairness

-----------------------------------------------------------------------------

Line == INSTANCE Turnstile WITH line <- queue, inside <- Turns, MaxInside <- MaxCap

\* With any number of pods admitting at once, turns are given in the order of
\* the queue, nobody leaves it without one, and the room never holds more than
\* the largest cap it ever had.
RoomIsATurnstile == Line!Spec

\* Every turn is counted against the cap: a live token's user is in the active
\* set, which is all ADMIT_LUA looks at when it counts slots.
TurnsAreCounted == Turns \subseteq active

\* Whoever gets a turn gets it within the cap that its cycle read, readmitted
\* users, late sweeps and cycles of other pods notwithstanding.
TurnsWithinCap ==
    [][\A p \in Pods :
         cycle[p].pc = "admit" /\ (\E u \in Users : token'[u] > token[u])
            /\ cycle'[p] # cycle[p]
         => Cardinality({u \in Users : token'[u] > 0}) <= cycle[p].cap]_roomVars

\* Once the room stays open and has a slot everyone in the queue gets a turn, whatever
\* else the operator does to cap and window, and however often admitted users come back.
EveryoneGetsATurn == <>[](room.open /\ room.cap > 0) => \A u \in Users : Line!Served(u)

=============================================================================
