------------------------- MODULE WaitingRoomProofs -------------------------
(***************************************************************************)
(* What holds of the waiting room for any number of users, pods and join   *)
(* requests and for every cap and window.                                  *)
(***************************************************************************)
EXTENDS WaitingRoom, FiniteSetTheorems, SequenceTheorems, TLAPS

Distinct(q) == \A i, j \in 1..Len(q) : q[i] = q[j] => i = j

RoomInv == RoomTypeOK /\ TurnsAreCounted

USE RoomAssumption

-----------------------------------------------------------------------------
(* The queue: joining at the end and leaving from the front keep it free   *)
(* of repetitions.                                                         *)

\* Appending someone new (JOIN_LUA).
LEMMA AppendNew ==
  ASSUME NEW S, NEW q \in Seq(S), NEW u \in S, Distinct(q),
         \A i \in 1..Len(q) : q[i] # u
  PROVE  Append(q, u) \in Seq(S) /\ Distinct(Append(q, u))
  BY AppendProperties DEF Distinct

\* Popping the first k (ZPOPMIN in the loop of ADMIT_LUA).
LEMMA Suffix ==
  ASSUME NEW S, NEW q \in Seq(S), NEW k \in 0..Len(q), Distinct(q)
  PROVE  SubSeq(q, k + 1, Len(q)) \in Seq(S) /\ Distinct(SubSeq(q, k + 1, Len(q)))
<1> DEFINE t == SubSeq(q, k + 1, Len(q))
<1>1. Len(q) \in Nat /\ \A i \in 1..Len(q) : q[i] \in S
  BY LenProperties, ElementOfSeq
<1>2. /\ t \in Seq(S)
      /\ Len(t) = IF k + 1 <= Len(q) THEN Len(q) - (k + 1) + 1 ELSE 0
      /\ \A i \in 1..Len(q) - (k + 1) + 1 : t[i] = q[(k + 1) + i - 1]
  BY <1>1, SubSeqProperties
<1>3. Distinct(t)
  <2>1. SUFFICES ASSUME NEW i \in 1..Len(t), NEW j \in 1..Len(t), t[i] = t[j]
                 PROVE  i = j
    BY DEF Distinct
  <2>2. t[i] = q[k + i] /\ t[j] = q[k + j] /\ k + i \in 1..Len(q) /\ k + j \in 1..Len(q)
    BY <1>1, <1>2, <2>1
  <2> QED
    BY <1>1, <2>1, <2>2 DEF Distinct
<1> QED
  BY <1>2, <1>3

\* A cycle that is about to admit has read a cap and a window.
LEMMA ReadConfig ==
  ASSUME RoomTypeOK, NEW p \in Pods, cycle[p].pc = "admit"
  PROVE  cycle[p].cap \in 0..MaxCap /\ cycle[p].window \in Nat \ {0}
<1>1. cycle[p] \in Cycles
  BY DEF RoomTypeOK
<1>2. cycle[p] # NotRunning /\ cycle[p] # Listed
  BY DEF NotRunning, Listed
<1>3. cycle[p] \in [pc : {"admit"}, cap : Caps, window : Windows]
  BY <1>1, <1>2 DEF Cycles
<1> QED
  BY <1>3

-----------------------------------------------------------------------------
(* ADMIT_LUA.                                                              *)

\* After the script the live tokens are the old ones and the new ones, and the
\* active set is just them: the sweep has left nobody else in it.
LEMMA AdmitTurns ==
  ASSUME RoomInv, NEW p \in Pods, cycle[p].pc = "admit", NEW k \in 0..Len(queue),
         token' = [u \in Users |-> IF u \in Front(k) THEN cycle[p].window ELSE token[u]]
  PROVE  /\ Front(k) \subseteq Users
         /\ Turns' = Turns \cup Front(k)
         /\ Swept = Turns
         /\ token' \in [Users -> Nat]
<1>1. cycle[p].window \in Nat \ {0}
  BY ReadConfig DEF RoomInv
<1>2. Front(k) \subseteq Users
  BY ElementOfSeq, LenProperties DEF RoomInv, RoomTypeOK, Front
<1>3. token \in [Users -> Nat] /\ Turns \subseteq active
  BY DEF RoomInv, RoomTypeOK, TurnsAreCounted
<1>4. Turns' = Turns \cup Front(k)
  BY <1>1, <1>2, <1>3 DEF Turns, HasTurn
<1> QED
  BY <1>1, <1>2, <1>3, <1>4 DEF Swept

\* If the loop took anybody it stopped within the cap.
LEMMA AdmitWithinCap ==
  ASSUME RoomTypeOK, NEW k \in 1..Len(queue), NEW cap \in Nat, StopsAfter(k, cap)
  PROVE  Cardinality(Swept \cup Front(k)) <= cap
<1>1. Len(queue) \in Nat /\ \A i \in 1..Len(queue) : queue[i] \in Users
  BY ElementOfSeq, LenProperties DEF RoomTypeOK
<1>2. Front(k) = Front(k - 1) \cup {queue[k]}
  BY <1>1 DEF Front
<1>3. Swept \cup Front(k - 1) \in SUBSET Users
  BY <1>1 DEF Swept, Turns, Front, RoomTypeOK
<1>4. IsFiniteSet(Swept \cup Front(k - 1))
  BY <1>3, FS_Subset
<1>5. Cardinality(Swept \cup Front(k - 1)) \in Nat
  BY <1>4, FS_CardinalityType
<1>6. k - 1 \in 0..k - 1 /\ Cardinality(Swept \cup Front(k - 1)) < cap
  BY <1>1 DEF StopsAfter
<1>7. Swept \cup Front(k) = (Swept \cup Front(k - 1)) \cup {queue[k]}
  BY <1>2
<1>8. Cardinality((Swept \cup Front(k - 1)) \cup {queue[k]})
        \in {Cardinality(Swept \cup Front(k - 1)), Cardinality(Swept \cup Front(k - 1)) + 1}
  BY <1>4, FS_AddElement
<1> DEFINE n == Cardinality(Swept \cup Front(k - 1))
           m == Cardinality(Swept \cup Front(k))
<1>9. m \in {n, n + 1}
  BY <1>7, <1>8
<1>10. n \in Nat /\ n < cap
  BY <1>5, <1>6
<1> HIDE DEF n, m
<1>11. m <= cap
  BY <1>9, <1>10
<1> QED
  BY <1>11 DEF m

-----------------------------------------------------------------------------

LEMMA RoomInit_Inv == RoomInit => RoomInv
<1> SUFFICES ASSUME RoomInit PROVE RoomInv
  OBVIOUS
<1>1. queue \in Seq(Users) /\ Len(queue) = 0
  BY EmptySeq DEF RoomInit
<1> QED
  BY <1>1 DEF RoomInit, RoomInv, RoomTypeOK, TurnsAreCounted, Turns, HasTurn, Cycles

LEMMA RoomNext_Inv == RoomInv /\ [RoomNext]_roomVars => RoomInv'
<1> SUFFICES ASSUME RoomInv, [RoomNext]_roomVars PROVE RoomInv'
  OBVIOUS
<1> USE DEF RoomInv
<1>1. CASE UNCHANGED roomVars
  BY <1>1 DEF roomVars, RoomTypeOK, TurnsAreCounted, Turns, HasTurn
<1>2. ASSUME NEW r \in JoinReqs, NEW u \in Users, AskToJoin(r, u) PROVE RoomInv'
  BY <1>2 DEF AskToJoin, RoomTypeOK, TurnsAreCounted, Turns, HasTurn
<1>3. ASSUME NEW r \in JoinReqs, Join(r) PROVE RoomInv'
  <2>1. joiner[r] \in Users
    BY <1>3 DEF Join, RoomTypeOK
  <2>2. queue' \in Seq(Users) /\ Distinct(queue')
    <3>1. CASE Queued(joiner[r])
      BY <1>3, <3>1 DEF Join, RoomTypeOK, Distinct
    <3>2. CASE ~Queued(joiner[r])
      <4>1. queue' = Append(queue, joiner[r])
        BY <1>3, <3>2 DEF Join
      <4>2. queue \in Seq(Users) /\ Distinct(queue)
        BY DEF RoomTypeOK, Distinct
      <4>3. \A i \in 1..Len(queue) : queue[i] # joiner[r]
        BY <3>2 DEF Queued
      <4> QED
        BY <2>1, <4>1, <4>2, <4>3, AppendNew
    <3> QED
      BY <3>1, <3>2
  <2> QED
    BY <1>3, <2>2 DEF Join, RoomTypeOK, TurnsAreCounted, Turns, HasTurn, Distinct
<1>4. ASSUME NEW r \in JoinReqs, JoinFails(r) PROVE RoomInv'
  BY <1>4 DEF JoinFails, RoomTypeOK, TurnsAreCounted, Turns, HasTurn
<1>5. ASSUME NEW p \in Pods, ListOpenRooms(p) PROVE RoomInv'
  BY <1>5 DEF ListOpenRooms, Goes, Cycles, RoomTypeOK, TurnsAreCounted, Turns, HasTurn
<1>6. ASSUME NEW p \in Pods, GetOpenRoom(p) PROVE RoomInv'
  <2>1. cycle' \in [Pods -> Cycles]
    BY <1>6 DEF GetOpenRoom, Goes, Cycles, RoomTypeOK, Rooms
  <2> QED
    BY <1>6, <2>1 DEF GetOpenRoom, RoomTypeOK, TurnsAreCounted, Turns, HasTurn
<1>7. ASSUME NEW p \in Pods, Admit(p) PROVE RoomInv'
  <2>1. cycle[p].pc = "admit"
    BY <1>7 DEF Admit
  <2>2. PICK k \in 0..Len(queue) :
          /\ queue' = SubSeq(queue, k + 1, Len(queue))
          /\ active' = Swept \cup Front(k)
          /\ token' = [u \in Users |->
                          IF u \in Front(k) THEN cycle[p].window ELSE token[u]]
    BY <1>7 DEF Admit
  <2>3. /\ Front(k) \subseteq Users
        /\ Turns' = Turns \cup Front(k)
        /\ Swept = Turns
        /\ token' \in [Users -> Nat]
    BY <2>1, <2>2, AdmitTurns
  <2>4. queue' \in Seq(Users) /\ Distinct(queue')
    <3>1. queue \in Seq(Users) /\ Distinct(queue)
      BY DEF RoomTypeOK, Distinct
    <3>2. /\ SubSeq(queue, k + 1, Len(queue)) \in Seq(Users)
          /\ Distinct(SubSeq(queue, k + 1, Len(queue)))
      BY <3>1, Suffix
    <3> QED
      BY <2>2, <3>2
  <2>5. active' \in SUBSET Users
    BY <2>2, <2>3 DEF Turns
  <2>6. cycle' \in [Pods -> Cycles]
    BY <1>7 DEF Admit, Goes, Cycles, RoomTypeOK
  <2>7. TurnsAreCounted'
    BY <2>2, <2>3 DEF TurnsAreCounted
  <2>8. UNCHANGED <<room, joiner>>
    BY <1>7 DEF Admit
  <2>9. RoomTypeOK'
    BY <2>3, <2>4, <2>5, <2>6, <2>8 DEF RoomTypeOK, Distinct
  <2> QED
    BY <2>7, <2>9
<1>8. ASSUME NEW p \in Pods, CycleFails(p) PROVE RoomInv'
  BY <1>8 DEF CycleFails, Goes, Cycles, RoomTypeOK, TurnsAreCounted, Turns, HasTurn
<1>9. CASE EditRoom
  BY <1>9 DEF EditRoom, RoomTypeOK, TurnsAreCounted, Turns, HasTurn
<1>10. CASE TokensElapse
  BY <1>10 DEF TokensElapse, RoomTypeOK, TurnsAreCounted, Turns, HasTurn
<1> QED
  BY <1>1, <1>2, <1>3, <1>4, <1>5, <1>6, <1>7, <1>8, <1>9, <1>10
     DEF RoomNext, CycleStep

\* The two are inductive together: the script's new tokens are counted because
\* the old ones were.
LEMMA RoomInvariant == RoomSpec => []RoomInv
  BY RoomInit_Inv, RoomNext_Inv, PTL DEF RoomSpec

\* In every state the queue is a sequence of users without repetitions, whoever
\* joins again and however often (JOIN_LUA).
THEOREM WaitingRoomTypeCorrect == RoomSpec => []RoomTypeOK
<1>1. RoomInv => RoomTypeOK
  BY DEF RoomInv
<1> QED
  BY <1>1, RoomInvariant, PTL

\* Every live token is counted in the active set that ADMIT_LUA measures against
\* the cap.
THEOREM TurnsAreAlwaysCounted == RoomSpec => []TurnsAreCounted
<1>1. RoomInv => TurnsAreCounted
  BY DEF RoomInv
<1> QED
  BY <1>1, RoomInvariant, PTL

-----------------------------------------------------------------------------
(* The cap.                                                                *)

\* Whoever enters enters within the cap its cycle read, however many pods admit
\* at once: the count, the pops and the new tokens are one script.
THEOREM AdmissionsKeepTheCap == RoomSpec => TurnsWithinCap
<1> DEFINE Kept == \A p \in Pods :
              cycle[p].pc = "admit" /\ (\E u \in Users : token'[u] > token[u])
                 /\ cycle'[p] # cycle[p]
              => Cardinality({u \in Users : token'[u] > 0}) <= cycle[p].cap
<1>1. RoomInv /\ [RoomNext]_roomVars => [Kept]_roomVars
  <2> SUFFICES ASSUME RoomInv, [RoomNext]_roomVars, NEW p \in Pods,
                      cycle[p].pc = "admit", NEW u \in Users, token'[u] > token[u],
                      cycle'[p] # cycle[p]
               PROVE  Cardinality({v \in Users : token'[v] > 0}) <= cycle[p].cap
    OBVIOUS
  <2>1. token[u] \in Nat
    BY DEF RoomInv, RoomTypeOK
  <2>2. token' # token
    BY <2>1
  <2>3. PICK q \in Pods : Admit(q)
    BY <2>2 DEF roomVars, RoomNext, CycleStep, AskToJoin, Join, JoinFails,
                ListOpenRooms, GetOpenRoom, CycleFails, EditRoom, TokensElapse
  <2>4. q = p
    BY <2>3 DEF Admit, Goes, RoomInv, RoomTypeOK
  <2>5. PICK k \in 0..Len(queue) :
          /\ StopsAfter(k, cycle[p].cap)
          /\ token' = [v \in Users |->
                          IF v \in Front(k) THEN cycle[p].window ELSE token[v]]
    BY <2>3, <2>4 DEF Admit
  <2>6. u \in Front(k)
    BY <2>1, <2>5
  <2>7. k \in 1..Len(queue)
    BY <2>6, LenProperties DEF Front, RoomInv, RoomTypeOK
  <2>8. Turns' = Swept \cup Front(k)
    BY <2>5, AdmitTurns
  <2>9. cycle[p].cap \in Nat
    BY ReadConfig DEF RoomInv
  <2>10. Cardinality(Turns') <= cycle[p].cap
    BY <2>5, <2>7, <2>8, <2>9, AdmitWithinCap DEF RoomInv
  <2> QED
    BY <2>10 DEF Turns, HasTurn
<1> QED
  BY <1>1, RoomInvariant, PTL DEF RoomSpec, TurnsWithinCap

-----------------------------------------------------------------------------
(* The room implements the turnstile: a line that is left from the front,  *)
(* into a room of limited size.                                            *)

LEMMA RoomInit_Line == RoomInit => Line!Init
  BY DEF RoomInit, Line!Init, Turns, HasTurn

LEMMA RoomNext_Line ==
  RoomInv /\ [RoomNext]_roomVars => [Line!Next]_<<queue, Turns>>
<1> SUFFICES ASSUME RoomInv, [RoomNext]_roomVars
             PROVE  Line!Next \/ (queue' = queue /\ Turns' = Turns)
  OBVIOUS
<1>1. CASE UNCHANGED <<queue, token>>
  BY <1>1 DEF Turns, HasTurn
<1>2. ASSUME NEW r \in JoinReqs, Join(r), queue' # queue PROVE Line!Next
  <2>1. joiner[r] \in Users /\ ~Queued(joiner[r]) /\ queue' = Append(queue, joiner[r])
    BY <1>2 DEF Join, RoomInv, RoomTypeOK
  <2>2. Turns' = Turns
    BY <1>2 DEF Join, Turns, HasTurn
  <2>3. Line!Stand(joiner[r])
    BY <2>1, <2>2 DEF Line!Stand, Line!InLine, Queued
  <2> QED
    BY <2>1, <2>3 DEF Line!Next
<1>3. ASSUME NEW p \in Pods, Admit(p)
      PROVE  Line!Next \/ (queue' = queue /\ Turns' = Turns)
  <2>1. cycle[p].pc = "admit"
    BY <1>3 DEF Admit
  <2>2. PICK k \in 0..Len(queue) :
          /\ StopsAfter(k, cycle[p].cap)
          /\ queue' = SubSeq(queue, k + 1, Len(queue))
          /\ token' = [u \in Users |->
                          IF u \in Front(k) THEN cycle[p].window ELSE token[u]]
    BY <1>3 DEF Admit
  <2>3. Turns' = Turns \cup Front(k) /\ Swept = Turns
    BY <2>1, <2>2, AdmitTurns
  <2>4. Len(queue) \in Nat
    BY LenProperties DEF RoomInv, RoomTypeOK
  <2>5. CASE k = 0
    <3>1. Turns' = Turns
      BY <2>3, <2>5 DEF Front
    <3>2. queue' = queue
      BY <2>2, <2>5, SubSeqFull DEF RoomInv, RoomTypeOK
    <3> QED
      BY <3>1, <3>2
  <2>6. CASE k # 0
    <3>1. k \in 1..Len(queue)
      BY <2>4, <2>6
    <3>2. cycle[p].cap \in 0..MaxCap
      BY <2>1, ReadConfig DEF RoomInv
    <3>3. Cardinality(Turns') <= cycle[p].cap
      BY <2>2, <2>3, <3>1, <3>2, AdmitWithinCap DEF RoomInv
    <3>4. IsFiniteSet(Turns') /\ Cardinality(Turns') \in Nat
      <4>1. Turns' \subseteq Users
        BY DEF Turns
      <4> QED
        BY <4>1, FS_Subset, FS_CardinalityType
    <3>5. Cardinality(Turns') <= MaxCap
      BY <3>2, <3>3, <3>4
    <3>6. Line!First(k) = Front(k)
      BY DEF Line!First, Front
    <3>7. Line!Cardinality(Turns') = Cardinality(Turns')
      BY DEF Line!Cardinality, Cardinality
    <3>8. Line!Enter(k)
      BY <2>2, <2>3, <3>5, <3>6, <3>7 DEF Line!Enter
    <3> QED
      BY <3>1, <3>8 DEF Line!Next
  <2> QED
    BY <2>5, <2>6
<1>4. CASE TokensElapse
  <2>1. Turns' \subseteq Turns
    BY <1>4 DEF TokensElapse, Turns, HasTurn, RoomInv, RoomTypeOK
  <2>2. Line!Leave(Turns \ Turns')
    BY <1>4, <2>1 DEF TokensElapse, Line!Leave
  <2> QED
    BY <2>2 DEF Line!Next
<1>5. \/ UNCHANGED <<queue, token>>
      \/ \E r \in JoinReqs : Join(r) /\ queue' # queue
      \/ \E p \in Pods : Admit(p)
      \/ TokensElapse
  BY DEF roomVars, RoomNext, CycleStep, AskToJoin, Join, JoinFails,
         ListOpenRooms, GetOpenRoom, CycleFails, EditRoom
<1> QED
  BY <1>1, <1>2, <1>3, <1>4, <1>5

\* Turns are given in the order of the queue, nobody leaves the queue without
\* one, and there are never more than MaxCap of them.
THEOREM WaitingRoomImplementsTurnstile == RoomSpec => RoomIsATurnstile
  BY RoomInit_Line, RoomNext_Line, RoomInvariant, PTL
     DEF RoomSpec, RoomIsATurnstile, Line!Spec

\* A line that is joined at the end and left by the front keeps its order.
LEMMA LineKeepsOrder ==
  ASSUME queue \in Seq(Users), Line!Next, NEW u \in Users, NEW v \in Users, Line!Ahead(u, v)
  PROVE  Line!Ahead(u, v)' \/ u \in Turns'
<1>1. PICK i \in 1..Len(queue), j \in 1..Len(queue) : i < j /\ queue[i] = u /\ queue[j] = v
  BY DEF Line!Ahead
<1>2. Len(queue) \in Nat
  BY LenProperties
<1>3. ASSUME NEW w \in Users, Line!Stand(w)
      PROVE  Line!Ahead(u, v)'
  <2>1. queue' = Append(queue, w)
    BY <1>3 DEF Line!Stand
  <2>2. /\ Len(queue') = Len(queue) + 1
        /\ \A n \in 1..Len(queue) : queue'[n] = queue[n]
    BY <2>1, AppendProperties
  <2> QED
    BY <1>1, <1>2, <2>2 DEF Line!Ahead
<1>4. ASSUME NEW k \in 1..Len(queue), Line!Enter(k)
      PROVE  Line!Ahead(u, v)' \/ u \in Turns'
  <2>1. queue' = SubSeq(queue, k + 1, Len(queue)) /\ Turns' = Turns \cup Line!First(k)
    BY <1>4 DEF Line!Enter
  <2>2. CASE i <= k
    BY <1>1, <1>2, <2>1, <2>2 DEF Line!First
  <2>3. CASE i > k
    <3>1. /\ Len(queue') = Len(queue) - k
          /\ \A n \in 1..(Len(queue) - k) : queue'[n] = queue[n + k]
      BY <1>1, <1>2, <2>1, <2>3, SubSeqProperties
    <3>2. i - k \in 1..Len(queue') /\ j - k \in 1..Len(queue') /\ i - k < j - k
      BY <1>1, <1>2, <2>3, <3>1
    <3>3. queue'[i - k] = u /\ queue'[j - k] = v
      BY <1>1, <1>2, <2>3, <3>1, <3>2
    <3> QED
      BY <3>2, <3>3 DEF Line!Ahead
  <2> QED
    BY <1>1, <1>2, <2>2, <2>3
<1>5. ASSUME NEW S \in SUBSET Turns, Line!Leave(S)
      PROVE  Line!Ahead(u, v)'
  BY <1>1, <1>5 DEF Line!Leave, Line!Ahead
<1> QED
  BY <1>3, <1>4, <1>5 DEF Line!Next

\* Whoever joined the queue first gets a turn first (the sorted set of JOIN_LUA and
\* ZPOPMIN of ADMIT_LUA), with any number of pods, cycles that fail, tokens that
\* run out and a row that is edited meanwhile.
THEOREM NobodyIsPassed == RoomSpec => Line!FirstComeFirstServed
<1>1. RoomInv /\ [Line!Next]_<<queue, Turns>> =>
        [\A u, v \in Users : Line!Ahead(u, v) => Line!Ahead(u, v)' \/ u \in Turns']_<<queue, Turns>>
  BY LineKeepsOrder DEF RoomInv, RoomTypeOK
<1> QED
  BY <1>1, RoomNext_Line, RoomInvariant, PTL DEF RoomSpec, Line!FirstComeFirstServed

=============================================================================
