----------------------------- MODULE EmailChange -----------------------------
(***************************************************************************)
(* UsersService (UC04): a user moves the account to another address, which *)
(* has to be proven by a code that is sent there.                          *)
(*                                                                         *)
(*   users.email                  PostgreSQL, unique                       *)
(*   otp:email-change:U           newEmail|code|attempts, with a TTL       *)
(*   otp:email-change:U:lock      with a TTL                               *)
(*                                                                         *)
(* Every call is a step of its own, as in Accounts, with which this shares *)
(* the table of users only: of it, registrations that take an address and  *)
(* the first login of a user.  The rest of the profile is left out.        *)
(***************************************************************************)
EXTENDS Naturals

CONSTANTS Users, Addresses,
          Calls,           \* bound: requests in progress
          MaxSent,         \* bound: codes sent
          EMAIL_CHANGE_OTP_TTL, EMAIL_CHANGE_OTP_MAX_ATTEMPTS, EMAIL_CHANGE_LOCK_TTL,
          Nobody, Nowhere

ASSUME EmailChangeAssumption ==
    /\ {EMAIL_CHANGE_OTP_TTL, EMAIL_CHANGE_OTP_MAX_ATTEMPTS, EMAIL_CHANGE_LOCK_TTL}
          \subseteq Nat \ {0}
    /\ MaxSent \in Nat
    /\ Nobody \notin Users /\ Nowhere \notin Addresses

VARIABLES email,     \* email[u]: the address of u, Nowhere without a row
          member,    \* member: users who verified their first address and logged in
          change,    \* change[u]: the stored change with its code
          lock,      \* lock[u]: TTL of the lock, 0 without one
          sent,      \* sent[c]: for whom code c was generated, and where it was sent
          call       \* call[k]: a request, between two awaits

chVars == <<email, member, change, lock, sent, call>>

Sent == 1..MaxSent
Guess == 0                                 \* an answer that is no code
NoChange == [to |-> Nowhere, code |-> Guess, attempts |-> 0, ttl |-> 0]
Unsent == [user |-> Nobody, to |-> Nowhere]
NoCall == [pc |-> "idle", user |-> Nobody, code |-> Guess, read |-> NoChange]

Changes == [to : Addresses \cup {Nowhere}, code : {Guess} \cup Sent,
            attempts : 0..EMAIL_CHANGE_OTP_MAX_ATTEMPTS, ttl : Nat]
CallSteps == {"idle", "find", "store", "get", "drop", "setLock", "ttl", "writeBack", "recheck",
              "update", "used"}

ChTypeOK ==
    /\ email \in [Users -> Addresses \cup {Nowhere}]
    /\ member \in SUBSET Users
    /\ change \in [Users -> Changes]
    /\ lock \in [Users -> Nat]
    /\ sent \in [Sent -> [user : Users \cup {Nobody}, to : Addresses \cup {Nowhere}]]
    /\ call \in [Calls -> [pc : CallSteps, user : Users \cup {Nobody}, code : {Guess} \cup Sent,
                           read : Changes]]
    /\ \A u \in Users : change[u].attempts < EMAIL_CHANGE_OTP_MAX_ATTEMPTS

ChInit ==
    /\ email = [u \in Users |-> Nowhere]
    /\ member = {}
    /\ change = [u \in Users |-> NoChange]
    /\ lock = [u \in Users |-> 0]
    /\ sent = [c \in Sent |-> Unsent]
    /\ call = [k \in Calls |-> NoCall]

Taken(a) == \E u \in Users : email[u] = a

\* The steps of call k: pc, user, answer, and what was asked for or read.
Call(pc, u, c, read) == [pc |-> pc, user |-> u, code |-> c, read |-> read]
Is(k, pc) == call[k].pc = pc
GoesTo(k, pc) == call' = [call EXCEPT ![k].pc = pc]
Returns(k) == call' = [call EXCEPT ![k] = NoCall]
Begins(k, pc, u, c, read) ==
    /\ Is(k, "idle")
    /\ lock[u] = 0                         \* or 429
    /\ call' = [call EXCEPT ![k] = Call(pc, u, c, read)]

-----------------------------------------------------------------------------
(* Of AuthService.                                                         *)

SignUp(u, a) ==
    /\ email[u] = Nowhere
    /\ ~Taken(a)
    /\ email' = [email EXCEPT ![u] = a]
    /\ UNCHANGED <<member, change, lock, sent, call>>

LogIn(u) ==
    /\ email[u] # Nowhere
    /\ member' = member \cup {u}
    /\ UNCHANGED <<email, change, lock, sent, call>>

-----------------------------------------------------------------------------
(* requestEmailChange                                                      *)

AskChange(k, u, a) ==
    /\ Begins(k, "find", u, Guess, [NoChange EXCEPT !.to = a])
    /\ UNCHANGED <<email, member, change, lock, sent>>

\* An address that is in use, also the user's own, is refused with 409.
FindConflict(k) ==
    /\ Is(k, "find")
    /\ IF Taken(call[k].read.to) THEN Returns(k) ELSE GoesTo(k, "store")
    /\ UNCHANGED <<email, member, change, lock, sent>>

StoreChange(k) ==
    LET u == call[k].user
        a == call[k].read.to
    IN  /\ Is(k, "store")
        /\ \E c \in Sent :
              /\ sent[c] = Unsent
              /\ \A d \in Sent : d < c => sent[d] # Unsent
              /\ sent' = [sent EXCEPT ![c] = [user |-> u, to |-> a]]
              /\ change' = [change EXCEPT ![u] = [to |-> a, code |-> c, attempts |-> 0,
                                                  ttl |-> EMAIL_CHANGE_OTP_TTL]]
        /\ Returns(k)
        /\ UNCHANGED <<email, member, lock>>

-----------------------------------------------------------------------------
(* verifyEmailChange                                                       *)

AskConfirm(k, u, c) ==
    /\ Begins(k, "get", u, c, NoChange)
    /\ UNCHANGED <<email, member, change, lock, sent>>

\* Mutant of Exceeded: off by one.
ExceededLate(n) == n > EMAIL_CHANGE_OTP_MAX_ATTEMPTS
Exceeded(n) == n >= EMAIL_CHANGE_OTP_MAX_ATTEMPTS

Outcome(answer, stored) ==
    IF answer = stored.code THEN "recheck"
    ELSE IF Exceeded(stored.attempts + 1) THEN "drop" ELSE "ttl"

\* Without a change stored the request ends with 400.
GetChange(k) ==
    LET stored == change[call[k].user]
    IN  /\ Is(k, "get")
        /\ IF stored.ttl = 0
           THEN Returns(k)
           ELSE call' = [call EXCEPT ![k] = Call(Outcome(@.code, stored), @.user, @.code, stored)]
        /\ UNCHANGED <<email, member, change, lock, sent>>

\* TTL; a key that is gone, or in its last second, counts as a new one.
ReadChangeTtl(k) ==
    LET left == change[call[k].user].ttl
        ttl == IF left > 0 THEN left ELSE EMAIL_CHANGE_OTP_TTL
    IN  /\ Is(k, "ttl")
        /\ call' = [call EXCEPT ![k] = Call("writeBack", @.user, @.code, [@.read EXCEPT !.ttl = ttl])]
        /\ UNCHANGED <<email, member, change, lock, sent>>

\* Mutant of OneMore: the address is of the change that is stored by now.
OneMoreOfLatest(k) == [change[call[k].user] EXCEPT !.code = call[k].read.code]
\* The change that was read, with one more attempt.
OneMore(k) == [call[k].read EXCEPT !.attempts = @ + 1]

\* It replaces whatever is stored by now.
WriteChangeBack(k) ==
    /\ Is(k, "writeBack")
    /\ change' = [change EXCEPT ![call[k].user] = OneMore(k)]
    /\ Returns(k)
    /\ UNCHANGED <<email, member, lock, sent>>

DropChange(k) ==
    /\ Is(k, "drop")
    /\ change' = [change EXCEPT ![call[k].user] = NoChange]
    /\ GoesTo(k, "setLock")
    /\ UNCHANGED <<email, member, lock, sent>>

LockChange(k) ==
    /\ Is(k, "setLock")
    /\ lock' = [lock EXCEPT ![call[k].user] = EMAIL_CHANGE_LOCK_TTL]
    /\ Returns(k)
    /\ UNCHANGED <<email, member, change, sent>>

\* The address may have been taken meanwhile: the change is dropped, and 409.
Recheck(k) ==
    /\ Is(k, "recheck")
    /\ GoesTo(k, IF Taken(call[k].read.to) THEN "used" ELSE "update")
    /\ UNCHANGED <<email, member, change, lock, sent>>

\* Mutant of Free: without the unique index the check before would have to do.
FreeBefore(u, a) == TRUE
\* users.email is unique; an update to the same value is allowed.
Free(u, a) == \A v \in Users : email[v] = a => v = u

\* Not free: the update fails, with 500, and the change stays.
UpdateEmail(k) ==
    LET u == call[k].user
        a == call[k].read.to
    IN  /\ Is(k, "update")
        /\ IF Free(u, a)
           THEN email' = [email EXCEPT ![u] = a] /\ GoesTo(k, "used")
           ELSE UNCHANGED email /\ Returns(k)
        /\ UNCHANGED <<member, change, lock, sent>>

DropUsedChange(k) ==
    /\ Is(k, "used")
    /\ change' = [change EXCEPT ![call[k].user] = NoChange]
    /\ Returns(k)
    /\ UNCHANGED <<email, member, lock, sent>>

-----------------------------------------------------------------------------

\* A call to Redis or the database fails, or the process dies.
CallDies(k) ==
    /\ ~Is(k, "idle")
    /\ Returns(k)
    /\ UNCHANGED <<email, member, change, lock, sent>>

Sooner(n) == IF n = 0 THEN 0 ELSE n - 1
ChangeLater(x) == IF x.ttl <= 1 THEN NoChange ELSE [x EXCEPT !.ttl = @ - 1]

ClockTicks ==
    /\ change' = [u \in Users |-> ChangeLater(change[u])]
    /\ lock' = [u \in Users |-> Sooner(lock[u])]
    /\ UNCHANGED <<email, member, sent, call>>

\* Users answer with a code that was sent for them, to any address, or guess.
Sends(k, u) ==
    \/ \E a \in Addresses : AskChange(k, u, a)
    \/ \E c \in {Guess} \cup {d \in Sent : sent[d].user = u} : AskConfirm(k, u, c)

Answers(k) ==
    \/ FindConflict(k) \/ StoreChange(k)
    \/ GetChange(k) \/ ReadChangeTtl(k) \/ WriteChangeBack(k) \/ DropChange(k) \/ LockChange(k)
    \/ Recheck(k) \/ UpdateEmail(k) \/ DropUsedChange(k)
    \/ CallDies(k)

ChNext ==
    \/ \E u \in Users, a \in Addresses : SignUp(u, a)
    \/ \E u \in Users : LogIn(u)
    \/ \E k \in Calls, u \in member : Sends(k, u)
    \/ \E k \in Calls : Answers(k)
    \/ ClockTicks

ChSpec == ChInit /\ [][ChNext]_chVars

-----------------------------------------------------------------------------

\* No two accounts have one address (BR10 at users.service.ts:112), although requests of
\* several users check before they write, and people register in between.
OneAccountPerAddress ==
    \A u, v \in Users : email[u] = email[v] /\ email[u] # Nowhere => u = v

\* An account moves to an address only by a code that was generated for this user and
\* sent to this address: a user with several changes under way, whose codes are written
\* back over one another, cannot move by the code of one to the address of another.
MovedByCode ==
    [][\A u \in Users :
          email[u] # Nowhere /\ email'[u] # email[u] =>
              \E k \in Calls : /\ call[k].user = u /\ call[k].code \in Sent
                               /\ sent[call[k].code] = [user |-> u, to |-> email'[u]]]_chVars

=============================================================================
