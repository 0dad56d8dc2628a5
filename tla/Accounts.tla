------------------------------ MODULE Accounts ------------------------------
(***************************************************************************)
(* AuthService (UC01-UC03): registration with a one-time code by e-mail,   *)
(* login with a lockout, logout.                                           *)
(*                                                                         *)
(*   users.status            PostgreSQL                                    *)
(*   otp:E                   code:attempts, with a TTL                     *)
(*   otp:lock:E              with a TTL                                    *)
(*   otp:resend:E            counter: INCR, and EXPIRE when it returns 1   *)
(*   login:fail:E            the same                                      *)
(*   blacklist:token:T       with a TTL                                    *)
(*                                                                         *)
(* No two of these are changed together: every Redis or database call is   *)
(* a step of its own, and requests for one address interleave.             *)
(***************************************************************************)
EXTENDS FiniteSets, Naturals

CONSTANTS Emails,
          Reqs,            \* bound: requests in progress
          Tokens,          \* bound: access tokens in use
          MaxCodes,        \* bound: codes generated
          MaxCount,        \* bound: counts from here on are not told apart
          OTP_TTL, OTP_MAX_ATTEMPTS, OTP_MAX_RESENDS,
          LOGIN_MAX_FAILS,
          LOCK_TTL,        \* OTP_LOCK_TTL and LOGIN_LOCK_TTL, both 900 s
          TOKEN_TTL,       \* JWT_EXPIRES_IN
          Forever,         \* the TTL of a counter without EXPIRE
          NoEmail,
          Deaths           \* where a request may end halfway

\* "step" anywhere else, "expire" between the INCR of a counter and its EXPIRE
ASSUME AccountsAssumption ==
    /\ {OTP_TTL, OTP_MAX_ATTEMPTS, OTP_MAX_RESENDS, LOGIN_MAX_FAILS, LOCK_TTL, TOKEN_TTL}
          \subseteq Nat \ {0}
    /\ MaxCodes \in Nat
    /\ MaxCount \in Nat
    /\ MaxCount > OTP_MAX_RESENDS /\ MaxCount >= LOGIN_MAX_FAILS
    /\ Forever \notin Nat
    /\ NoEmail \notin Emails
    /\ Deaths \subseteq {"step", "expire"}

VARIABLES account,   \* account[e]: users.status, "none" without a row
          otp,       \* otp[e]: the stored code, its attempts and TTL
          otpLock,   \* otpLock[e]: TTL of the lock, 0 without one
          resends,   \* resends[e]: the counter
          fails,     \* fails[e]: the counter
          token,     \* token[t]: ticks until exp, 0 when none is issued or it expired
          blacklist, \* blacklist[t]: TTL of the entry
          out,       \* out: tokens that were logged out
          issued,    \* issued[c]: the address code c was generated for
          req        \* req[r]: a request, between two awaits

keyVars == <<otp, otpLock, resends, fails>>
tokenVars == <<token, blacklist, out>>
aVars == <<account, otp, otpLock, resends, fails, token, blacklist, out, issued, req>>

Codes == 1..MaxCodes
Typo == 0                                  \* a code nobody was sent
NoOtp == [code |-> Typo, attempts |-> 0, ttl |-> 0]
NoCount == [n |-> 0, ttl |-> 0]
NoReq == [pc |-> "idle", email |-> NoEmail, code |-> Typo, read |-> NoOtp]

Statuses == {"none", "PENDING_VERIFY", "ACTIVE", "LOCKED"}
Otps == [code : {Typo} \cup Codes, attempts : 0..OTP_MAX_ATTEMPTS, ttl : Nat]
Counters == [n : Nat, ttl : Nat \cup {Forever}]
Steps == {"idle", "create", "newOtp", "get", "drop", "setLock", "ttl", "writeBack",
          "activate", "used", "resend", "incr", "expire", "user", "fail", "failExpire",
          "reset", "sign"}

AccTypeOK ==
    /\ account \in [Emails -> Statuses]
    /\ otp \in [Emails -> Otps]
    /\ otpLock \in [Emails -> Nat]
    /\ resends \in [Emails -> Counters]
    /\ fails \in [Emails -> Counters]
    /\ token \in [Tokens -> Nat]
    /\ blacklist \in [Tokens -> Nat]
    /\ out \in SUBSET Tokens
    /\ issued \in [Codes -> Emails \cup {NoEmail}]
    /\ req \in [Reqs -> [pc : Steps, email : Emails \cup {NoEmail},
                         code : {Typo} \cup Codes, read : Otps]]
    /\ \A e \in Emails : otp[e].attempts < OTP_MAX_ATTEMPTS

AccInit ==
    /\ account = [e \in Emails |-> "none"]
    /\ otp = [e \in Emails |-> NoOtp]
    /\ otpLock = [e \in Emails |-> 0]
    /\ resends = [e \in Emails |-> NoCount]
    /\ fails = [e \in Emails |-> NoCount]
    /\ token = [t \in Tokens |-> 0]
    /\ blacklist = [t \in Tokens |-> 0]
    /\ out = {}
    /\ issued = [c \in Codes |-> NoEmail]
    /\ req = [r \in Reqs |-> NoReq]

At(r, pc) == req[r].pc = pc
To(r, pc) == req' = [req EXCEPT ![r].pc = pc]
Ends(r) == req' = [req EXCEPT ![r] = NoReq]
Starts(r, pc, e, c) ==
    At(r, "idle") /\ req' = [req EXCEPT ![r] = [NoReq EXCEPT !.pc = pc, !.email = e, !.code = c]]

\* INCR creates the key without a TTL.
Incr(k) == [n |-> IF k.n < MaxCount THEN k.n + 1 ELSE k.n,
            ttl |-> IF k.n = 0 THEN Forever ELSE k.ttl]
\* EXPIRE of a key that is gone does nothing.
Expire(k) == IF k.n = 0 THEN k ELSE [k EXCEPT !.ttl = LOCK_TTL]

\* Mutant of First: INCR answers with the new count.
FirstIsZero(k) == Incr(k).n = 0
First(k) == Incr(k).n = 1

-----------------------------------------------------------------------------
(* register.                                                               *)

\* Mutant of Register: a code is sent before there is a row.
RegisterCodeFirst(r, e) ==
    /\ \/ account[e] = "none" /\ (Starts(r, "create", e, Typo) \/ Starts(r, "newOtp", e, Typo))
       \/ account[e] = "PENDING_VERIFY" /\ Starts(r, "newOtp", e, Typo)
    /\ UNCHANGED <<account, keyVars, tokenVars, issued>>

\* An address that is ACTIVE or LOCKED is refused with 409.
Register(r, e) ==
    /\ \/ account[e] = "none" /\ Starts(r, "create", e, Typo)
       \/ account[e] = "PENDING_VERIFY" /\ Starts(r, "newOtp", e, Typo)
    /\ UNCHANGED <<account, keyVars, tokenVars, issued>>

Create(r) ==
    /\ At(r, "create")
    /\ account[req[r].email] = "none"
    /\ account' = [account EXCEPT ![req[r].email] = "PENDING_VERIFY"]
    /\ To(r, "newOtp")
    /\ UNCHANGED <<keyVars, tokenVars, issued>>

\* users.email is unique.
CreateRefused(r) ==
    /\ At(r, "create")
    /\ account[req[r].email] # "none"
    /\ Ends(r)
    /\ UNCHANGED <<account, keyVars, tokenVars, issued>>

\* generateAndStoreOtp: a fresh code, in place of whatever was there.
NewOtp(r) ==
    /\ At(r, "newOtp")
    /\ \E c \in Codes :
          /\ issued[c] = NoEmail
          /\ \A d \in Codes : d < c => issued[d] # NoEmail
          /\ issued' = [issued EXCEPT ![c] = req[r].email]
          /\ otp' = [otp EXCEPT ![req[r].email] = [code |-> c, attempts |-> 0, ttl |-> OTP_TTL]]
    /\ Ends(r)
    /\ UNCHANGED <<account, otpLock, resends, fails, tokenVars>>

-----------------------------------------------------------------------------
(* verifyOtp and resendOtp.  Both refuse with 429 under the lock.          *)

AskVerify(r, e, c) ==
    /\ otpLock[e] = 0
    /\ Starts(r, "get", e, c)
    /\ UNCHANGED <<account, keyVars, tokenVars, issued>>

\* Mutant of TooMany: off by one.
TooManyPassed(n) == n > OTP_MAX_ATTEMPTS
TooMany(n) == n >= OTP_MAX_ATTEMPTS

\* Without a code stored the request ends with 400.
Get(r) ==
    LET e == req[r].email
    IN  /\ At(r, "get")
        /\ \/ /\ otp[e].ttl = 0
              /\ Ends(r)
           \/ /\ otp[e].ttl > 0
              /\ req' = [req EXCEPT ![r].read = otp[e],
                                    ![r].pc = IF req[r].code = otp[e].code THEN "activate"
                                              ELSE IF TooMany(otp[e].attempts + 1)
                                                   THEN "drop"
                                                   ELSE "ttl"]
        /\ UNCHANGED <<account, keyVars, tokenVars, issued>>

\* TTL; a key that is gone, or in its last second, counts as a new one.
ReadTtl(r) ==
    LET left == otp[req[r].email].ttl
    IN  /\ At(r, "ttl")
        /\ req' = [req EXCEPT ![r].read.ttl = IF left > 0 THEN left ELSE OTP_TTL,
                              ![r].pc = "writeBack"]
        /\ UNCHANGED <<account, keyVars, tokenVars, issued>>

\* Mutant of WriteBack: the answer is stored with the attempts, not the code.
WriteBackAnswer(r) ==
    /\ At(r, "writeBack")
    /\ otp' = [otp EXCEPT ![req[r].email] = [code |-> req[r].code,
                                             attempts |-> req[r].read.attempts + 1,
                                             ttl |-> req[r].read.ttl]]
    /\ Ends(r)
    /\ UNCHANGED <<account, otpLock, resends, fails, tokenVars, issued>>

\* The code read before comes back with one more attempt, whatever is stored by
\* now: a newer code, the code with the attempt of another request, or nothing.
WriteBack(r) ==
    /\ At(r, "writeBack")
    /\ otp' = [otp EXCEPT ![req[r].email] = [code |-> req[r].read.code,
                                             attempts |-> req[r].read.attempts + 1,
                                             ttl |-> req[r].read.ttl]]
    /\ Ends(r)
    /\ UNCHANGED <<account, otpLock, resends, fails, tokenVars, issued>>

\* Too many wrong answers: the code goes first, then the lock comes.
DropOtp(r) ==
    /\ At(r, "drop")
    /\ otp' = [otp EXCEPT ![req[r].email] = NoOtp]
    /\ To(r, "setLock")
    /\ UNCHANGED <<account, otpLock, resends, fails, tokenVars, issued>>

SetOtpLock(r) ==
    /\ At(r, "setLock")
    /\ otpLock' = [otpLock EXCEPT ![req[r].email] = LOCK_TTL]
    /\ Ends(r)
    /\ UNCHANGED <<account, otp, resends, fails, tokenVars, issued>>

\* updateMany where PENDING_VERIFY: database first, then Redis.
Activate(r) ==
    LET e == req[r].email
    IN  /\ At(r, "activate")
        /\ account' = [account EXCEPT ![e] = IF @ = "PENDING_VERIFY" THEN "ACTIVE" ELSE @]
        /\ To(r, "used")
        /\ UNCHANGED <<keyVars, tokenVars, issued>>

DropUsed(r) ==
    /\ At(r, "used")
    /\ otp' = [otp EXCEPT ![req[r].email] = NoOtp]
    /\ Ends(r)
    /\ UNCHANGED <<account, otpLock, resends, fails, tokenVars, issued>>

AskResend(r, e) ==
    /\ otpLock[e] = 0
    /\ Starts(r, "resend", e, Typo)
    /\ UNCHANGED <<account, keyVars, tokenVars, issued>>

FindPending(r) ==
    /\ At(r, "resend")
    /\ IF account[req[r].email] = "PENDING_VERIFY" THEN To(r, "incr") ELSE Ends(r)
    /\ UNCHANGED <<account, keyVars, tokenVars, issued>>

CountResend(r) ==
    LET e == req[r].email
    IN  /\ At(r, "incr")
        /\ resends' = [resends EXCEPT ![e] = Incr(@)]
        /\ To(r, IF First(resends[e]) THEN "expire"
                 ELSE IF resends'[e].n > OTP_MAX_RESENDS THEN "setLock"
                 ELSE "newOtp")
        /\ UNCHANGED <<account, otp, otpLock, fails, tokenVars, issued>>

\* The first of at least one allowed resend goes on to the code.
ExpireResends(r) ==
    /\ At(r, "expire")
    /\ resends' = [resends EXCEPT ![req[r].email] = Expire(@)]
    /\ To(r, "newOtp")
    /\ UNCHANGED <<account, otp, otpLock, fails, tokenVars, issued>>

-----------------------------------------------------------------------------
(* login and logout.                                                       *)

\* Mutant of AskLogin: the counter is not looked at.
AskLoginUnlocked(r, e) ==
    /\ Starts(r, "user", e, Typo)
    /\ UNCHANGED <<account, keyVars, tokenVars, issued>>

\* Locked out: 429.
AskLogin(r, e) ==
    /\ fails[e].n < LOGIN_MAX_FAILS
    /\ Starts(r, "user", e, Typo)
    /\ UNCHANGED <<account, keyVars, tokenVars, issued>>

\* An unknown address fails like a wrong password; PENDING_VERIFY and LOCKED are
\* refused and not counted.
CheckPassword(r) ==
    /\ At(r, "user")
    /\ \/ account[req[r].email] \in {"none", "ACTIVE"} /\ To(r, "fail")
       \/ account[req[r].email] = "ACTIVE" /\ To(r, "reset")
       \/ account[req[r].email] \in {"PENDING_VERIFY", "LOCKED"} /\ Ends(r)
    /\ UNCHANGED <<account, keyVars, tokenVars, issued>>

CountFail(r) ==
    LET e == req[r].email
    IN  /\ At(r, "fail")
        /\ fails' = [fails EXCEPT ![e] = Incr(@)]
        /\ IF First(fails[e]) THEN To(r, "failExpire") ELSE Ends(r)
        /\ UNCHANGED <<account, otp, otpLock, resends, tokenVars, issued>>

ExpireFails(r) ==
    /\ At(r, "failExpire")
    /\ fails' = [fails EXCEPT ![req[r].email] = Expire(@)]
    /\ Ends(r)
    /\ UNCHANGED <<account, otp, otpLock, resends, tokenVars, issued>>

ResetFails(r) ==
    /\ At(r, "reset")
    /\ fails' = [fails EXCEPT ![req[r].email] = NoCount]
    /\ To(r, "sign")
    /\ UNCHANGED <<account, otp, otpLock, resends, tokenVars, issued>>

\* A new jti every time.
Sign(r, t) ==
    /\ At(r, "sign")
    /\ token[t] = 0
    /\ t \notin out
    /\ token' = [token EXCEPT ![t] = TOKEN_TTL]
    /\ Ends(r)
    /\ UNCHANGED <<account, keyVars, blacklist, out, issued>>

\* JwtStrategy.validate lets a request through.
Accepted(t) == token[t] > 0 /\ blacklist[t] = 0

\* Mutant of Remaining: an entry that lives as long as a lock.
LockLong(t) == LOCK_TTL
\* exp - now
Remaining(t) == token[t]

Logout(t) ==
    /\ Accepted(t)
    /\ blacklist' = [blacklist EXCEPT ![t] = Remaining(t)]
    /\ out' = out \cup {t}
    /\ UNCHANGED <<account, keyVars, token, issued, req>>

-----------------------------------------------------------------------------

\* A call fails or the process dies.
RequestDies(r) ==
    /\ ~At(r, "idle")
    /\ (IF req[r].pc \in {"expire", "failExpire"} THEN "expire" ELSE "step") \in Deaths
    /\ Ends(r)
    /\ UNCHANGED <<account, keyVars, tokenVars, issued>>

\* An administrator locks an account; no code does.
LockAccount(e) ==
    /\ account[e] = "ACTIVE"
    /\ account' = [account EXCEPT ![e] = "LOCKED"]
    /\ UNCHANGED <<keyVars, tokenVars, issued, req>>

Less(n) == IF n = 0 THEN 0 ELSE n - 1
OtpLater(o) == IF o.ttl <= 1 THEN NoOtp ELSE [o EXCEPT !.ttl = @ - 1]
CountLater(k) ==
    IF k.ttl = Forever THEN k ELSE IF k.ttl <= 1 THEN NoCount ELSE [k EXCEPT !.ttl = @ - 1]

TimePasses ==
    /\ otp' = [e \in Emails |-> OtpLater(otp[e])]
    /\ otpLock' = [e \in Emails |-> Less(otpLock[e])]
    /\ resends' = [e \in Emails |-> CountLater(resends[e])]
    /\ fails' = [e \in Emails |-> CountLater(fails[e])]
    /\ token' = [t \in Tokens |-> Less(token[t])]
    /\ blacklist' = [t \in Tokens |-> Less(blacklist[t])]
    /\ UNCHANGED <<account, out, issued, req>>

RegisterStep(r) == Create(r) \/ CreateRefused(r) \/ NewOtp(r)
VerifyStep(r) ==
    \/ Get(r)
    \/ ReadTtl(r)
    \/ WriteBack(r)
    \/ DropOtp(r)
    \/ SetOtpLock(r)
    \/ Activate(r)
    \/ DropUsed(r)
ResendStep(r) == FindPending(r) \/ CountResend(r) \/ ExpireResends(r)
LoginStep(r) ==
    \/ CheckPassword(r)
    \/ CountFail(r)
    \/ ExpireFails(r)
    \/ ResetFails(r)
    \/ \E t \in Tokens : Sign(r, t)
Proceeds(r) == RegisterStep(r) \/ VerifyStep(r) \/ ResendStep(r) \/ LoginStep(r)

\* People answer with a code they were sent, or mistype it.
Arrives(r, e) ==
    \/ Register(r, e)
    \/ \E c \in {Typo} \cup {d \in Codes : issued[d] = e} : AskVerify(r, e, c)
    \/ AskResend(r, e)
    \/ AskLogin(r, e)

AccNext ==
    \/ \E r \in Reqs, e \in Emails : Arrives(r, e)
    \/ \E r \in Reqs : Proceeds(r) \/ RequestDies(r)
    \/ \E t \in Tokens : Logout(t)
    \/ \E e \in Emails : LockAccount(e)
    \/ TimePasses

AccSpec == AccInit /\ [][AccNext]_aVars

\* Time passes, and EXPIRE is called where no request dies before it.
AccFairness ==
    /\ WF_aVars(TimePasses)
    /\ \A r \in Reqs : WF_aVars(ExpireFails(r) \/ ExpireResends(r))

-----------------------------------------------------------------------------

\* Whose counter a request is about to give its TTL.
WillExpire(pc, e) == \E r \in Reqs : At(r, pc) /\ req[r].email = e

\* A counter lives for ever only until the request that created it, or one that
\* created it again after a reset, calls EXPIRE.  auth.service.ts:303 counts on
\* the first failure to set the TTL.
CountersExpire ==
    \A e \in Emails :
        /\ resends[e].ttl = Forever => WillExpire("expire", e)
        /\ fails[e].ttl = Forever => WillExpire("failExpire", e)

\* A lockout ends by itself: the lock of auth.service.ts:191 is for 15 minutes,
\* whatever is tried in the meantime.
LockoutEnds ==
    \A e \in Emails : fails[e].n >= LOGIN_MAX_FAILS ~> fails[e].n < LOGIN_MAX_FAILS

\* Guesses at the password of e that passed the lockout and are not counted yet.
Guesses(e) == {r \in Reqs : req[r].email = e /\ req[r].pc \in {"user", "fail"}}

\* The lockout is looked at before a guess is counted, so guesses in progress get
\* past it (auth.service.ts:186): by less than the requests there are at a time.
GuessesAreBounded ==
    \A e \in Emails :
        fails[e].n + Cardinality(Guesses(e)) < LOGIN_MAX_FAILS + Cardinality(Reqs)

\* An account becomes ACTIVE only by an answer that is a code generated for its
\* address, however codes are replaced, written back and mistyped meanwhile.
ActivatedByCode ==
    [][\A e \in Emails :
          account[e] # "ACTIVE" /\ account'[e] = "ACTIVE" =>
              \E r \in Reqs : At(r, "activate") /\ req[r].code \in Codes
                                                /\ issued[req[r].code] = e]_aVars

\* A code exists only for an address that was registered.
CodesHaveAccounts == \A e \in Emails : otp[e].ttl > 0 => account[e] # "none"

\* A token that was logged out is refused until it would have expired anyway.
LoggedOutStaysOut == \A t \in out : ~Accepted(t)

=============================================================================
