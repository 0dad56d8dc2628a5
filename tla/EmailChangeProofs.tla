-------------------------- MODULE EmailChangeProofs --------------------------
(***************************************************************************)
(* EmailChange, for any number of users, addresses, requests and codes:    *)
(* no two accounts have one address, and an account moves only by a code   *)
(* that was sent for it to the address it moves to.                        *)
(*                                                                         *)
(* What a request has read stays true although the stored change may be    *)
(* replaced under it: a code is generated once, for one user and address,  *)
(* and the change and every copy of it name that user and address with the *)
(* code (Backed).                                                          *)
(***************************************************************************)
EXTENDS EmailChange, TLAPS

USE EmailChangeAssumption

\* Change x of user u carries the code that s says was sent for it.
Backed(u, x, s) == x.code \in Sent /\ s[x.code] = [user |-> u, to |-> x.to]

CallTypes == [pc : CallSteps, user : Users \cup {Nobody}, code : {Guess} \cup Sent, read : Changes]

\* A request, and what it has read, when s was sent.
Sound(c, s) ==
    /\ c \in CallTypes
    /\ c.pc # "idle" => c.user \in Users
    /\ c.pc \in {"find", "store"} => c.read.to \in Addresses
    /\ c.pc \in {"ttl", "writeBack", "recheck", "update"} => Backed(c.user, c.read, s)
    /\ c.pc \in {"ttl", "writeBack"} => c.read.attempts + 1 < EMAIL_CHANGE_OTP_MAX_ATTEMPTS
    /\ c.pc \in {"recheck", "update"} => c.code = c.read.code

\* A stored change: its attempts are not used up, and it is backed while it lives.
Good(u, x, s) ==
    /\ x \in Changes
    /\ x.attempts < EMAIL_CHANGE_OTP_MAX_ATTEMPTS
    /\ x.ttl > 0 => Backed(u, x, s)

SentTypes == [Sent -> [user : Users \cup {Nobody}, to : Addresses \cup {Nowhere}]]

ChInv ==
    /\ ChTypeOK
    /\ \A k \in Calls : Sound(call[k], sent)
    /\ \A u \in Users : Good(u, change[u], sent)

LEMMA EmptyChange ==
    /\ NoChange \in Changes
    /\ NoChange.attempts = 0 /\ NoChange.ttl = 0 /\ NoChange.to = Nowhere
  BY DEF NoChange, Changes

LEMMA EmptyCall == \A s : Sound(NoCall, s)
  BY EmptyChange DEF NoCall, Sound, CallTypes, CallSteps

LEMMA EmptyIsGood == \A u, s : Good(u, NoChange, s)
  BY EmptyChange DEF Good

-----------------------------------------------------------------------------
(* Codes are not sent twice.                                               *)

Lasts(s, t) == \A d \in Sent : s[d] # Unsent => t[d] = s[d]

LEMMA BackedLasts ==
    ASSUME NEW s, NEW t, Lasts(s, t), NEW u \in Users, NEW x, Backed(u, x, s)
    PROVE  Backed(u, x, t)
  BY DEF Backed, Lasts, Unsent

LEMMA SoundLasts ==
    ASSUME NEW s, NEW t, Lasts(s, t), NEW c, Sound(c, s)
    PROVE  Sound(c, t)
  <1>1. CASE c.pc \in {"ttl", "writeBack", "recheck", "update"}
    <2>1. c.user \in Users /\ Backed(c.user, c.read, s)
      BY <1>1 DEF Sound
    <2>2. Backed(c.user, c.read, t)
      BY <2>1, BackedLasts
    <2> QED BY <2>2 DEF Sound
  <1>2. CASE c.pc \notin {"ttl", "writeBack", "recheck", "update"}
    BY <1>2 DEF Sound
  <1> QED BY <1>1, <1>2

LEMMA GoodLasts ==
    ASSUME NEW s, NEW t, Lasts(s, t), NEW u \in Users, NEW x, Good(u, x, s)
    PROVE  Good(u, x, t)
  BY BackedLasts DEF Good

-----------------------------------------------------------------------------

LEMMA InitInv == ChInit => ChInv
  <1> SUFFICES ASSUME ChInit PROVE ChInv
    OBVIOUS
  <1>1. \A u \in Users : Good(u, change[u], sent)
    BY EmptyIsGood DEF ChInit
  <1>2. \A k \in Calls : Sound(call[k], sent)
    BY EmptyCall DEF ChInit
  <1>3. sent \in SentTypes
    BY DEF ChInit, SentTypes, Unsent
  <1>4. change \in [Users -> Changes] /\ call \in [Calls -> CallTypes]
    BY EmptyChange, EmptyCall DEF ChInit, Sound
  <1>5. email \in [Users -> Addresses \cup {Nowhere}] /\ member \in SUBSET Users
        /\ lock \in [Users -> Nat]
    BY DEF ChInit
  <1> QED BY <1>1, <1>2, <1>3, <1>4, <1>5 DEF ChInv, ChTypeOK, SentTypes, CallTypes, Good

\* Any step keeps the invariant that sends no code twice and writes nothing but sound
\* requests and good changes.
LEMMA StepInv ==
    ASSUME ChInv,
           email' \in [Users -> Addresses \cup {Nowhere}], member' \in SUBSET Users,
           lock' \in [Users -> Nat], sent' \in SentTypes, Lasts(sent, sent'),
           call' = [k \in Calls |-> call'[k]],
           \A k \in Calls : call'[k] = call[k] \/ Sound(call'[k], sent'),
           change' = [u \in Users |-> change'[u]],
           \A u \in Users : change'[u] = change[u] \/ Good(u, change'[u], sent')
    PROVE  ChInv'
  <1>1. \A k \in Calls : Sound(call'[k], sent')
    BY SoundLasts DEF ChInv
  <1>2. \A u \in Users : Good(u, change'[u], sent')
    BY GoodLasts DEF ChInv
  <1>3. change' \in [Users -> Changes]
    BY <1>2 DEF Good
  <1>4. call' \in [Calls -> CallTypes]
    BY <1>1 DEF Sound
  <1> QED BY <1>1, <1>2, <1>3, <1>4 DEF ChInv, ChTypeOK, SentTypes, CallTypes, Good

\* A step of one request that sends nothing, registers nobody and may store a change.
LEMMA CallStep ==
    ASSUME ChInv, NEW k \in Calls, NEW c, NEW u \in Users, NEW x,
           email' \in [Users -> Addresses \cup {Nowhere}], lock' \in [Users -> Nat],
           UNCHANGED <<member, sent>>,
           call' = [call EXCEPT ![k] = c], Sound(c, sent),
           change' = [change EXCEPT ![u] = x], Good(u, x, sent)
    PROVE  ChInv'
  <1>1. sent' \in SentTypes /\ Lasts(sent, sent') /\ member' \in SUBSET Users
    BY DEF ChInv, ChTypeOK, SentTypes, Lasts
  <1>2. call' = [j \in Calls |-> call'[j]] /\ change' = [v \in Users |-> change'[v]]
    BY DEF ChInv, ChTypeOK
  <1>3. \A j \in Calls : call'[j] = call[j] \/ Sound(call'[j], sent')
    BY DEF ChInv, ChTypeOK
  <1>4. \A v \in Users : change'[v] = change[v] \/ Good(v, change'[v], sent')
    BY DEF ChInv, ChTypeOK
  <1> QED BY <1>1, <1>2, <1>3, <1>4, StepInv

\* The same without a change stored.
LEMMA QuietCall ==
    ASSUME ChInv, NEW k \in Calls, NEW c,
           email' \in [Users -> Addresses \cup {Nowhere}], lock' \in [Users -> Nat],
           UNCHANGED <<member, sent, change>>,
           call' = [call EXCEPT ![k] = c], Sound(c, sent)
    PROVE  ChInv'
  <1>1. sent' \in SentTypes /\ Lasts(sent, sent') /\ member' \in SUBSET Users
    BY DEF ChInv, ChTypeOK, SentTypes, Lasts
  <1>2. call' = [j \in Calls |-> call'[j]] /\ change' = [v \in Users |-> change'[v]]
    BY DEF ChInv, ChTypeOK
  <1>3. \A j \in Calls : call'[j] = call[j] \/ Sound(call'[j], sent')
    BY DEF ChInv, ChTypeOK
  <1> QED BY <1>1, <1>2, <1>3, StepInv

-----------------------------------------------------------------------------
(* One lemma for each kind of step.                                        *)

LEMMA Typed ==
    ASSUME ChInv
    PROVE  /\ email \in [Users -> Addresses \cup {Nowhere}]
           /\ member \in SUBSET Users
           /\ lock \in [Users -> Nat]
           /\ sent \in SentTypes
           /\ change \in [Users -> Changes]
           /\ call \in [Calls -> CallTypes]
  BY DEF ChInv, ChTypeOK, SentTypes, CallTypes

LEMMA SignUpStep ==
    ASSUME ChInv, NEW u \in Users, NEW a \in Addresses, SignUp(u, a)
    PROVE  ChInv'
  <1>1. /\ email' \in [Users -> Addresses \cup {Nowhere}] /\ member' \in SUBSET Users
        /\ UNCHANGED <<change, lock, sent, call>>
    BY Typed DEF SignUp
  <1> QED BY <1>1 DEF ChInv, ChTypeOK

LEMMA TickStep == ASSUME ChInv, ClockTicks PROVE ChInv'
  <1>1. /\ email' \in [Users -> Addresses \cup {Nowhere}] /\ member' \in SUBSET Users
        /\ lock' \in [Users -> Nat] /\ sent' \in SentTypes /\ Lasts(sent, sent')
        /\ call' = [k \in Calls |-> call'[k]] /\ change' = [u \in Users |-> change'[u]]
    BY Typed DEF ClockTicks, Sooner, Lasts
  <1>2. \A k \in Calls : call'[k] = call[k] \/ Sound(call'[k], sent')
    BY DEF ClockTicks
  <1>3. ASSUME NEW u \in Users PROVE Good(u, ChangeLater(change[u]), sent)
    <2>1. Good(u, change[u], sent) /\ change[u] \in Changes
      BY Typed DEF ChInv
    <2>2. CASE change[u].ttl <= 1
      BY <2>2, EmptyIsGood DEF ChangeLater
    <2>3. CASE ~(change[u].ttl <= 1)
      <3> DEFINE x == change[u]
                 y == [to |-> x.to, code |-> x.code, attempts |-> x.attempts, ttl |-> x.ttl - 1]
      <3>1. ChangeLater(x) = y
        BY <2>1, <2>3 DEF ChangeLater, Changes
      <3>2. y \in Changes
        BY <2>1, <2>3 DEF Changes
      <3>3. Backed(u, x, sent)
        BY <2>1, <2>3 DEF Good, Changes
      <3> QED BY <2>1, <3>1, <3>2, <3>3 DEF Good, Backed
    <2> QED BY <2>2, <2>3
  <1>4. \A u \in Users : change'[u] = change[u] \/ Good(u, change'[u], sent')
    BY <1>3 DEF ClockTicks
  <1> QED BY <1>1, <1>2, <1>4, StepInv

LEMMA Fields ==
    ASSUME NEW c \in CallTypes
    PROVE  /\ c = [pc |-> c.pc, user |-> c.user, code |-> c.code, read |-> c.read]
           /\ c.pc \in CallSteps /\ c.user \in Users \cup {Nobody}
           /\ c.code \in {Guess} \cup Sent /\ c.read \in Changes
  BY DEF CallTypes

LEMMA ChangeFields ==
    ASSUME NEW x \in Changes
    PROVE  /\ x = [to |-> x.to, code |-> x.code, attempts |-> x.attempts, ttl |-> x.ttl]
           /\ x.to \in Addresses \cup {Nowhere} /\ x.code \in {Guess} \cup Sent
           /\ x.attempts \in 0..EMAIL_CHANGE_OTP_MAX_ATTEMPTS /\ x.ttl \in Nat
  BY DEF Changes

\* Where a request goes on with nothing but its pc changed.
LEMMA GoOn ==
    ASSUME ChInv, NEW k \in Calls, NEW pc \in {"store", "setLock", "used", "update"},
           GoesTo(k, pc), ~Is(k, "idle"),
           pc = "store" => Is(k, "find"),
           pc = "update" => Is(k, "recheck")
    PROVE  \E c : call' = [call EXCEPT ![k] = c] /\ Sound(c, sent)
  <1> DEFINE old == call[k]
             c == [pc |-> pc, user |-> old.user, code |-> old.code, read |-> old.read]
  <1>1. old \in CallTypes /\ Sound(old, sent)
    BY Typed DEF ChInv
  <1>2. call' = [call EXCEPT ![k] = c]
    <2>1. [old EXCEPT !.pc = pc] = c
      BY <1>1 DEF CallTypes
    <2>2. call' = [call EXCEPT ![k] = [old EXCEPT !.pc = pc]]
      BY Typed DEF GoesTo
    <2> QED BY <2>1, <2>2
  <1>3. c \in CallTypes
    BY <1>1, Fields DEF CallTypes, CallSteps
  <1>4. Sound(c, sent)
    BY <1>1, <1>3 DEF Sound, Is
  <1> QED BY <1>2, <1>4

LEMMA ReturnsQuietly ==
    ASSUME ChInv, NEW k \in Calls, Returns(k)
    PROVE  \E c : call' = [call EXCEPT ![k] = c] /\ Sound(c, sent)
  BY EmptyCall DEF Returns

LEMMA SendStep ==
    ASSUME ChInv, NEW k \in Calls, NEW u \in Users, Sends(k, u)
    PROVE  ChInv'
  <1>1. ASSUME NEW a \in Addresses, AskChange(k, u, a) PROVE ChInv'
    <2> DEFINE x == [to |-> a, code |-> Guess, attempts |-> 0, ttl |-> 0]
               c == [pc |-> "find", user |-> u, code |-> Guess, read |-> x]
    <2>1. call' = [call EXCEPT ![k] = c]
      <3>1. [NoChange EXCEPT !.to = a] = x
        BY DEF NoChange
      <3> QED BY <1>1, <3>1 DEF AskChange, Begins, Call
    <2>2. Sound(c, sent)
      BY DEF Sound, CallTypes, CallSteps, Changes
    <2>3. UNCHANGED <<email, member, change, lock, sent>>
      BY <1>1 DEF AskChange
    <2> QED BY <2>1, <2>2, <2>3, Typed, QuietCall
  <1>2. ASSUME NEW d \in {Guess} \cup Sent, AskConfirm(k, u, d) PROVE ChInv'
    <2> DEFINE c == [pc |-> "get", user |-> u, code |-> d, read |-> NoChange]
    <2>1. call' = [call EXCEPT ![k] = c]
      BY <1>2 DEF AskConfirm, Begins, Call
    <2>2. Sound(c, sent)
      BY EmptyChange DEF Sound, CallTypes, CallSteps
    <2>3. UNCHANGED <<email, member, change, lock, sent>>
      BY <1>2 DEF AskConfirm
    <2> QED BY <2>1, <2>2, <2>3, Typed, QuietCall
  <1> QED BY <1>1, <1>2 DEF Sends

LEMMA StoreStep ==
    ASSUME ChInv, NEW k \in Calls, StoreChange(k)
    PROVE  ChInv'
  <1> DEFINE u == call[k].user
             a == call[k].read.to
  <1>1. u \in Users /\ a \in Addresses
    BY Typed DEF ChInv, StoreChange, Is, Sound
  <1>2. PICK d \in Sent :
            /\ sent[d] = Unsent
            /\ sent' = [sent EXCEPT ![d] = [user |-> u, to |-> a]]
            /\ change' = [change EXCEPT ![u] = [to |-> a, code |-> d, attempts |-> 0,
                                                ttl |-> EMAIL_CHANGE_OTP_TTL]]
    BY DEF StoreChange
  <1> DEFINE x == [to |-> a, code |-> d, attempts |-> 0, ttl |-> EMAIL_CHANGE_OTP_TTL]
  <1>3. sent' \in SentTypes /\ Lasts(sent, sent')
    BY <1>1, <1>2, Typed DEF SentTypes, Lasts
  <1>4. Good(u, x, sent')
    BY <1>1, <1>2, Typed DEF Good, Changes, Backed, SentTypes
  <1>5. change' = [v \in Users |-> change'[v]]
        /\ \A v \in Users : change'[v] = change[v] \/ Good(v, change'[v], sent')
    BY <1>1, <1>2, <1>4, Typed
  <1>6. call' = [j \in Calls |-> call'[j]]
        /\ \A j \in Calls : call'[j] = call[j] \/ Sound(call'[j], sent')
    BY Typed, EmptyCall DEF StoreChange, Returns
  <1>7. /\ email' \in [Users -> Addresses \cup {Nowhere}]
        /\ member' \in SUBSET Users /\ lock' \in [Users -> Nat]
    BY Typed DEF StoreChange
  <1> QED BY <1>3, <1>5, <1>6, <1>7, StepInv

\* What is read is good, so the request goes on with a backed change.
LEMMA GetStep ==
    ASSUME ChInv, NEW k \in Calls, GetChange(k)
    PROVE  ChInv'
  <1> DEFINE u == call[k].user
             x == change[u]
             c == [pc |-> Outcome(call[k].code, x), user |-> u, code |-> call[k].code, read |-> x]
  <1>1. u \in Users /\ call[k] \in CallTypes
    BY Typed DEF ChInv, GetChange, Is, Sound
  <1>2. Good(u, x, sent) /\ x \in Changes
    BY <1>1, Typed DEF ChInv
  <1>3. UNCHANGED <<email, member, change, lock, sent>>
    BY DEF GetChange
  <1>4. CASE x.ttl = 0
    <2>1. \E e : call' = [call EXCEPT ![k] = e] /\ Sound(e, sent)
      BY <1>4, ReturnsQuietly DEF GetChange
    <2> QED BY <2>1, <1>3, Typed, QuietCall
  <1>5. CASE x.ttl # 0
    <2>1. call' = [call EXCEPT ![k] = c]
      BY <1>5, Typed DEF GetChange, Call
    <2>2. Backed(u, x, sent)
      BY <1>2, <1>5, ChangeFields DEF Good
    <2>3. c.pc \in {"recheck", "drop", "ttl"}
          /\ (c.pc = "recheck" => call[k].code = x.code)
          /\ (c.pc = "ttl" => x.attempts + 1 < EMAIL_CHANGE_OTP_MAX_ATTEMPTS)
      BY <1>2, ChangeFields DEF Outcome, Exceeded
    <2>4. c \in CallTypes
      BY <1>1, <1>2, <2>3, Fields DEF CallTypes, CallSteps
    <2>5. Sound(c, sent)
      BY <1>1, <2>2, <2>3, <2>4 DEF Sound
    <2> QED BY <2>1, <2>5, <1>3, Typed, QuietCall
  <1> QED BY <1>4, <1>5

LEMMA ReadTtlStep ==
    ASSUME ChInv, NEW k \in Calls, ReadChangeTtl(k)
    PROVE  ChInv'
  <1> DEFINE old == call[k]
             x == old.read
             left == change[old.user].ttl
             ttl == IF left > 0 THEN left ELSE EMAIL_CHANGE_OTP_TTL
             y == [to |-> x.to, code |-> x.code, attempts |-> x.attempts, ttl |-> ttl]
             c == [pc |-> "writeBack", user |-> old.user, code |-> old.code, read |-> y]
  <1>1. /\ old \in CallTypes /\ Sound(old, sent) /\ old.user \in Users /\ old.pc = "ttl"
        /\ x \in Changes
    BY Typed, Fields DEF ChInv, ReadChangeTtl, Is, Sound
  <1>2. ttl \in Nat
    <2>1. change[old.user] \in Changes
      BY <1>1, Typed
    <2>2. left \in Nat
      BY <2>1, ChangeFields
    <2> QED BY <2>2
  <1> HIDE DEF left
  <1>3. [x EXCEPT !.ttl = ttl] = y /\ y \in Changes
    BY <1>1, <1>2 DEF Changes
  <1>4. call' = [call EXCEPT ![k] = c]
    BY <1>3, Typed DEF ReadChangeTtl, Call, left
  <1>5. Sound(c, sent)
    BY <1>1, <1>3, Fields DEF Sound, Backed, CallTypes, CallSteps
  <1>6. UNCHANGED <<email, member, change, lock, sent>>
    BY DEF ReadChangeTtl
  <1> QED BY <1>4, <1>5, <1>6, Typed, QuietCall

LEMMA WriteBackStep ==
    ASSUME ChInv, NEW k \in Calls, WriteChangeBack(k)
    PROVE  ChInv'
  <1> DEFINE old == call[k]
             x == old.read
             y == [to |-> x.to, code |-> x.code, attempts |-> x.attempts + 1, ttl |-> x.ttl]
  <1>1. /\ Sound(old, sent) /\ old.user \in Users /\ old.pc = "writeBack"
        /\ x \in Changes
    BY Typed, Fields DEF ChInv, WriteChangeBack, Is, Sound
  <1>2. OneMore(k) = y
    BY <1>1 DEF OneMore, Changes
  <1>3. Good(old.user, y, sent)
    <2>1. x.attempts + 1 < EMAIL_CHANGE_OTP_MAX_ATTEMPTS /\ Backed(old.user, x, sent)
      BY <1>1 DEF Sound
    <2> QED BY <1>1, <2>1, ChangeFields DEF Good, Backed, Changes
  <1>4. change' = [change EXCEPT ![old.user] = y]
    BY <1>2 DEF WriteChangeBack
  <1>5. UNCHANGED <<email, member, lock, sent>> /\ call' = [call EXCEPT ![k] = NoCall]
    BY DEF WriteChangeBack, Returns
  <1> QED BY <1>1, <1>3, <1>4, <1>5, EmptyCall, Typed, CallStep

\* DropChange and DropUsedChange delete the change.
LEMMA DropStep ==
    ASSUME ChInv, NEW k \in Calls, DropChange(k) \/ DropUsedChange(k)
    PROVE  ChInv'
  <1>1. call[k].user \in Users /\ ~Is(k, "idle")
    BY Typed DEF ChInv, DropChange, DropUsedChange, Is, Sound
  <1>2. change' = [change EXCEPT ![call[k].user] = NoChange] /\ UNCHANGED <<email, member, lock, sent>>
    BY DEF DropChange, DropUsedChange
  <1>3. \E c : call' = [call EXCEPT ![k] = c] /\ Sound(c, sent)
    BY <1>1, GoOn, ReturnsQuietly DEF DropChange, DropUsedChange
  <1> QED BY <1>1, <1>2, <1>3, EmptyIsGood, Typed, CallStep

LEMMA LockStep ==
    ASSUME ChInv, NEW k \in Calls, LockChange(k)
    PROVE  ChInv'
  <1>1. lock' \in [Users -> Nat] /\ UNCHANGED <<email, member, change, sent>>
    BY Typed DEF LockChange
  <1>2. \E c : call' = [call EXCEPT ![k] = c] /\ Sound(c, sent)
    BY ReturnsQuietly DEF LockChange
  <1> QED BY <1>1, <1>2, Typed, QuietCall

LEMMA CheckStep ==
    ASSUME ChInv, NEW k \in Calls, FindConflict(k) \/ Recheck(k) \/ CallDies(k)
    PROVE  ChInv'
  <1>1. UNCHANGED <<email, member, change, lock, sent>> /\ ~Is(k, "idle")
    BY DEF FindConflict, Recheck, CallDies, Is
  <1>2. \/ Returns(k)
        \/ GoesTo(k, "store") /\ Is(k, "find")
        \/ GoesTo(k, "used")
        \/ GoesTo(k, "update") /\ Is(k, "recheck")
    BY DEF FindConflict, Recheck, CallDies
  <1>3. \E c : call' = [call EXCEPT ![k] = c] /\ Sound(c, sent)
    BY <1>1, <1>2, GoOn, ReturnsQuietly
  <1> QED BY <1>1, <1>3, Typed, QuietCall

LEMMA UpdateStep ==
    ASSUME ChInv, NEW k \in Calls, UpdateEmail(k)
    PROVE  ChInv'
  <1>1. /\ call[k].user \in Users /\ ~Is(k, "idle")
        /\ call[k].read.to \in Addresses \cup {Nowhere}
    BY Typed, Fields, ChangeFields DEF ChInv, UpdateEmail, Is, Sound
  <1>2. email' \in [Users -> Addresses \cup {Nowhere}] /\ UNCHANGED <<member, change, lock, sent>>
    BY <1>1, Typed DEF UpdateEmail
  <1>3. \E c : call' = [call EXCEPT ![k] = c] /\ Sound(c, sent)
    BY <1>1, GoOn, ReturnsQuietly DEF UpdateEmail
  <1> QED BY <1>2, <1>3, Typed, QuietCall

LEMMA AnswerStep ==
    ASSUME ChInv, NEW k \in Calls, Answers(k)
    PROVE  ChInv'
  BY StoreStep, GetStep, ReadTtlStep, WriteBackStep, DropStep, LockStep, CheckStep, UpdateStep
     DEF Answers

LEMMA NextInv == ChInv /\ [ChNext]_chVars => ChInv'
  <1> SUFFICES ASSUME ChInv, [ChNext]_chVars PROVE ChInv'
    OBVIOUS
  <1>1. ASSUME NEW u \in Users, NEW a \in Addresses, SignUp(u, a) PROVE ChInv'
    BY <1>1, SignUpStep
  <1>2. ASSUME NEW u \in Users, LogIn(u) PROVE ChInv'
    BY <1>2, Typed DEF LogIn, ChInv, ChTypeOK
  <1>3. ASSUME NEW k \in Calls, NEW u \in member, Sends(k, u) PROVE ChInv'
    BY <1>3, Typed, SendStep
  <1>4. ASSUME NEW k \in Calls, Answers(k) PROVE ChInv'
    BY <1>4, AnswerStep
  <1>5. CASE ClockTicks
    BY <1>5, TickStep
  <1>6. CASE UNCHANGED chVars
    BY <1>6 DEF chVars, ChInv, ChTypeOK
  <1> QED BY <1>1, <1>2, <1>3, <1>4, <1>5, <1>6 DEF ChNext

\* Every value stays in its type, and a stored change never has as many wrong answers
\* as lock it: users.service.ts:157 ends it first, also when two answers overlap.
THEOREM EmailChangeTypeCorrect == ChSpec => []ChTypeOK
  <1>1. ChInv => ChTypeOK
    BY DEF ChInv
  <1> QED BY <1>1, InitInv, NextInv, PTL DEF ChSpec

-----------------------------------------------------------------------------

\* Registrations and moves look for the address first, in an earlier call; what keeps it
\* to one account is the unique index that the write meets.
THEOREM AddressesAreUnique == ChSpec => []OneAccountPerAddress
  <1>1. ChInit => OneAccountPerAddress
    BY DEF ChInit, OneAccountPerAddress
  <1>2. ChInv /\ OneAccountPerAddress /\ [ChNext]_chVars => OneAccountPerAddress'
    <2> SUFFICES ASSUME ChInv, OneAccountPerAddress, [ChNext]_chVars
                 PROVE  OneAccountPerAddress'
      OBVIOUS
    <2>1. ASSUME NEW u \in Users, NEW a \in Addresses, SignUp(u, a)
          PROVE  OneAccountPerAddress'
      BY <2>1, Typed DEF SignUp, Taken, OneAccountPerAddress
    <2>2. ASSUME NEW k \in Calls, UpdateEmail(k)
          PROVE  OneAccountPerAddress'
      <3>1. call[k].user \in Users
        BY <2>2, Typed DEF ChInv, UpdateEmail, Is, Sound
      <3> QED BY <2>2, <3>1, Typed DEF UpdateEmail, Free, OneAccountPerAddress
    <2>3. CASE UNCHANGED email
      BY <2>3 DEF OneAccountPerAddress
    <2>4. ASSUME NEW k \in Calls, Answers(k) PROVE UpdateEmail(k) \/ UNCHANGED email
      BY <2>4 DEF Answers, FindConflict, StoreChange, GetChange, ReadChangeTtl, WriteChangeBack,
                  DropChange, LockChange, Recheck, DropUsedChange, CallDies
    <2>5. ASSUME NEW k \in Calls, NEW u \in member, Sends(k, u) PROVE UNCHANGED email
      BY <2>5 DEF Sends, AskChange, AskConfirm
    <2> QED BY <2>1, <2>2, <2>3, <2>4, <2>5 DEF ChNext, LogIn, ClockTicks, chVars
  <1> QED BY <1>1, <1>2, InitInv, NextInv, PTL DEF ChSpec

\* Of a step, what MovedByCode says of every step.
Moved ==
    \A u \in Users :
        email[u] # Nowhere /\ email'[u] # email[u] =>
            \E k \in Calls : /\ call[k].user = u /\ call[k].code \in Sent
                             /\ sent[call[k].code] = [user |-> u, to |-> email'[u]]

\* However codes are sent, replaced, written back and mistyped, an account moves only by
\* the answer to a code that was sent for it, to the address it was sent to.
THEOREM AccountsMoveByCode == ChSpec => MovedByCode
  <1>1. ChInv /\ [ChNext]_chVars => [Moved]_chVars
    <2> SUFFICES ASSUME ChInv, [ChNext]_chVars PROVE Moved \/ UNCHANGED chVars
      OBVIOUS
    <2>1. ASSUME NEW u \in Users, NEW a \in Addresses, SignUp(u, a) PROVE Moved
      BY <2>1, Typed DEF SignUp, Moved
    <2>2. ASSUME NEW k \in Calls, UpdateEmail(k) PROVE Moved
      <3> DEFINE c == call[k]
      <3>1. c.user \in Users /\ Backed(c.user, c.read, sent) /\ c.code = c.read.code
        BY <2>2, Typed DEF ChInv, UpdateEmail, Is, Sound
      <3>2. \A u \in Users : email'[u] # email[u] => u = c.user /\ email'[u] = c.read.to
        BY <2>2, <3>1, Typed DEF UpdateEmail
      <3> QED BY <3>1, <3>2 DEF Moved, Backed
    <2>3. CASE UNCHANGED email
      BY <2>3 DEF Moved
    <2>4. ASSUME NEW k \in Calls, Answers(k) PROVE UpdateEmail(k) \/ UNCHANGED email
      BY <2>4 DEF Answers, FindConflict, StoreChange, GetChange, ReadChangeTtl, WriteChangeBack,
                  DropChange, LockChange, Recheck, DropUsedChange, CallDies
    <2>5. ASSUME NEW k \in Calls, NEW u \in member, Sends(k, u) PROVE UNCHANGED email
      BY <2>5 DEF Sends, AskChange, AskConfirm
    <2> QED BY <2>1, <2>2, <2>3, <2>4, <2>5 DEF ChNext, LogIn, ClockTicks
  <1>2. ChInit /\ [][ChNext]_chVars => [][Moved]_chVars
    BY <1>1, InitInv, NextInv, PTL
  <1> QED BY <1>2 DEF ChSpec, MovedByCode, Moved

=============================================================================
