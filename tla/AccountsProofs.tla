---------------------------- MODULE AccountsProofs ----------------------------
(***************************************************************************)
(* Proofs about Accounts, for any addresses, requests, limits and TTLs.    *)
(*                                                                         *)
(* Requests interleave at every await, so the invariant says what a        *)
(* request may still rely on of what it read before: that its address is   *)
(* registered, and that the code it holds was generated for the address.   *)
(***************************************************************************)
EXTENDS Accounts, FiniteSetTheorems, TLAPS

USE AccountsAssumption

Requests == [pc : Steps, email : Emails \cup {NoEmail}, code : {Typo} \cup Codes, read : Otps]

\* From these steps on a request for address e knows that e is registered.
Registered == {"newOtp", "incr", "expire", "ttl", "writeBack"}

\* Code c was generated for address e.
Genuine(c, e, i) == c \in Codes /\ i[c] = e

\* What request q may rely on, given the accounts a and the codes i.
Sound(q, a, i) ==
    /\ q \in Requests
    /\ q.pc # "idle" => q.email \in Emails
    /\ q.pc \in Registered => a[q.email] # "none"
    /\ q.pc = "activate" => Genuine(q.code, q.email, i)
    /\ q.pc \in {"ttl", "writeBack"} =>
          Genuine(q.read.code, q.email, i) /\ q.read.attempts + 1 < OTP_MAX_ATTEMPTS

\* What is stored for address e.
Stored(o, e, a, i) ==
    /\ o \in Otps
    /\ o.attempts < OTP_MAX_ATTEMPTS
    /\ o.ttl > 0 => a[e] # "none" /\ Genuine(o.code, e, i)

Tables(a, i) == a \in [Emails -> Statuses] /\ i \in [Codes -> Emails \cup {NoEmail}]

CodeInv ==
    /\ Tables(account, issued)
    /\ otp \in [Emails -> Otps]
    /\ req \in [Reqs -> Requests]
    /\ \A r \in Reqs : Sound(req[r], account, issued)
    /\ \A e \in Emails : Stored(otp[e], e, account, issued)

\* Accounts stay, and a code stays generated for its address.
Grows(a, i, b, j) ==
    /\ Tables(b, j)
    /\ \A e \in Emails : a[e] # "none" => b[e] # "none"
    /\ \A c \in Codes : i[c] # NoEmail => j[c] = i[c]

\* What a request read stays true while others go on.
LEMMA SoundLasts ==
    ASSUME NEW a, NEW i, NEW b, NEW j, NEW q, Sound(q, a, i), Grows(a, i, b, j)
    PROVE  Sound(q, b, j)
  BY DEF Sound, Grows, Genuine, Requests, Registered

\* What is stored for an address stays sound while others go on.
LEMMA StoredLasts ==
    ASSUME NEW a, NEW i, NEW b, NEW j, NEW e \in Emails, NEW o, Stored(o, e, a, i),
           Grows(a, i, b, j)
    PROVE  Stored(o, e, b, j)
  BY DEF Stored, Grows, Genuine

\* No request, and no code, rely on nothing.
LEMMA IdleIsSound ==
    ASSUME NEW a, NEW i
    PROVE  Sound(NoReq, a, i) /\ NoOtp \in Otps /\ \A e \in Emails : Stored(NoOtp, e, a, i)
  BY DEF Sound, Stored, NoReq, NoOtp, Requests, Registered, Otps, Steps

\* At the start there is neither.
LEMMA CodeInvInit == AccInit => CodeInv
  BY IdleIsSound DEF AccInit, CodeInv, Tables, Statuses, NoReq, NoOtp, Requests, Steps, Otps

-----------------------------------------------------------------------------
(* One step changes one request, and one stored code.                      *)

\* Request r goes on as q, and the code of address e becomes o.
LEMMA OneRequest ==
    ASSUME CodeInv, Grows(account, issued, account', issued'),
           NEW r \in Reqs, NEW q, Sound(q, account', issued'),
           req' = [req EXCEPT ![r] = q],
           \/ otp' = otp
           \/ \E e \in Emails, o \in Otps :
                 Stored(o, e, account', issued') /\ otp' = [otp EXCEPT ![e] = o]
    PROVE  CodeInv'
  <1>1. q \in Requests
    BY DEF Sound
  <1>2. req' \in [Reqs -> Requests] /\ otp' \in [Emails -> Otps]
    BY <1>1 DEF CodeInv
  <1>3. ASSUME NEW s \in Reqs PROVE Sound(req'[s], account', issued')
    BY <1>1, SoundLasts DEF CodeInv
  <1>4. ASSUME NEW e \in Emails PROVE Stored(otp'[e], e, account', issued')
    BY StoredLasts DEF CodeInv
  <1> QED
    BY <1>2, <1>3, <1>4 DEF CodeInv, Grows

\* Tables that stay grow.
LEMMA SameGrows ==
    ASSUME CodeInv, UNCHANGED <<account, issued>>
    PROVE  Grows(account, issued, account', issued')
  BY DEF CodeInv, Grows

\* The request ends, or goes on with what it read.
LEMMA MovedOn ==
    ASSUME CodeInv, NEW r \in Reqs, NEW pc \in Steps, To(r, pc), req[r].pc # "idle",
           NEW a, NEW i, Grows(account, issued, a, i),
           pc \in Registered => a[req[r].email] # "none",
           pc = "activate" => Genuine(req[r].code, req[r].email, i),
           pc \in {"ttl", "writeBack"} =>
              /\ Genuine(req[r].read.code, req[r].email, i)
              /\ req[r].read.attempts + 1 < OTP_MAX_ATTEMPTS
    PROVE  /\ Sound([req[r] EXCEPT !.pc = pc], a, i)
           /\ req' = [req EXCEPT ![r] = [req[r] EXCEPT !.pc = pc]]
  <1>1. req[r] \in Requests /\ Sound(req[r], account, issued)
    BY DEF CodeInv
  <1> DEFINE q == [req[r] EXCEPT !.pc = pc]
  <1>2. q \in Requests /\ q.pc = pc /\ q.email = req[r].email /\ q.code = req[r].code
        /\ q.read = req[r].read
    BY <1>1 DEF Requests
  <1>3. q.email \in Emails
    BY <1>1, <1>2 DEF Sound
  <1>4. req' = [req EXCEPT ![r] = q]
    BY DEF To, CodeInv
  <1> QED
    BY <1>2, <1>3, <1>4 DEF Sound

\* A request that starts relies on nothing yet, but on what it found registered.
LEMMA Started ==
    ASSUME CodeInv, NEW r \in Reqs, NEW e \in Emails, NEW c \in {Typo} \cup Codes,
           NEW pc \in {"create", "newOtp", "get", "resend", "user"}, Starts(r, pc, e, c),
           pc = "newOtp" => account[e] # "none", UNCHANGED <<account, issued, otp>>
    PROVE  CodeInv'
  <1> DEFINE q == [NoReq EXCEPT !.pc = pc, !.email = e, !.code = c]
  <1>1. q \in Requests /\ q.pc = pc /\ q.email = e
    <2> DEFINE p == [NoReq EXCEPT !.pc = pc]
               pe == [p EXCEPT !.email = e]
    <2>1. p = [pc |-> pc, email |-> NoEmail, code |-> Typo, read |-> NoOtp]
      BY DEF NoReq
    <2> HIDE DEF p
    <2>2. pe = [pc |-> pc, email |-> e, code |-> Typo, read |-> NoOtp]
      BY <2>1
    <2> HIDE DEF pe
    <2>3. [pe EXCEPT !.code = c] = [pc |-> pc, email |-> e, code |-> c, read |-> NoOtp]
      BY <2>2
    <2>4. q = [pe EXCEPT !.code = c]
      BY DEF p, pe
    <2> QED
      BY <2>3, <2>4, IdleIsSound DEF Requests, Steps
  <1>2. Sound(q, account, issued)
    BY <1>1 DEF Sound, Registered
  <1>3. req' = [req EXCEPT ![r] = q]
    BY DEF Starts
  <1> QED
    BY <1>2, <1>3, OneRequest, SameGrows

\* Requests that arrive.
LEMMA ArrivesKeepsCodeInv ==
    ASSUME CodeInv, NEW r \in Reqs, NEW e \in Emails, Arrives(r, e)
    PROVE  CodeInv'
  <1>1. CASE Register(r, e)
    BY <1>1, Started DEF Register, keyVars, tokenVars
  <1>2. CASE \E c \in {Typo} \cup {d \in Codes : issued[d] = e} : AskVerify(r, e, c)
    BY <1>2, Started DEF AskVerify, keyVars, tokenVars
  <1>3. CASE AskResend(r, e) \/ AskLogin(r, e)
    BY <1>3, Started DEF AskResend, AskLogin, keyVars, tokenVars
  <1> QED
    BY <1>1, <1>2, <1>3 DEF Arrives

\* Whatever ends leaves nothing to rely on.
LEMMA Ended ==
    ASSUME CodeInv, NEW r \in Reqs, Ends(r), Grows(account, issued, account', issued'),
           \/ otp' = otp
           \/ \E e \in Emails, o \in Otps :
                 Stored(o, e, account', issued') /\ otp' = [otp EXCEPT ![e] = o]
    PROVE  CodeInv'
  BY OneRequest, IdleIsSound DEF Ends

\* Whatever goes on without touching accounts, codes and the stored code.
LEMMA Continued ==
    ASSUME CodeInv, NEW r \in Reqs, NEW pc \in Steps, To(r, pc), req[r].pc # "idle",
           pc \in Registered => account[req[r].email] # "none",
           pc \notin {"activate", "ttl", "writeBack"},
           UNCHANGED <<account, issued, otp>>
    PROVE  CodeInv'
  BY MovedOn, OneRequest, SameGrows

\* A request in progress has an address.
LEMMA EmailKnown ==
    ASSUME CodeInv, NEW r \in Reqs, req[r].pc # "idle"
    PROVE  req[r].email \in Emails
  BY DEF CodeInv, Sound

\* The steps of register: a code comes after the row.
LEMMA RegisterKeepsCodeInv ==
    ASSUME CodeInv, NEW r \in Reqs, RegisterStep(r)
    PROVE  CodeInv'
  <1> DEFINE e == req[r].email
  <1>1. CASE Create(r)
    <2>1. e \in Emails /\ UNCHANGED <<issued, otp>>
      BY <1>1, EmailKnown DEF Create, At, keyVars
    <2>2. Grows(account, issued, account', issued')
      BY <1>1, <2>1 DEF Create, CodeInv, Tables, Grows, Statuses
    <2>3. account'[e] # "none"
      BY <1>1, <2>1 DEF Create, CodeInv, Tables
    <2> QED
      <3>1. /\ Sound([req[r] EXCEPT !.pc = "newOtp"], account', issued')
            /\ req' = [req EXCEPT ![r] = [req[r] EXCEPT !.pc = "newOtp"]]
        BY <1>1, <2>2, <2>3, MovedOn DEF Create, At, Steps
      <3> QED
        BY <2>1, <2>2, <3>1, OneRequest
  <1>2. CASE CreateRefused(r)
    BY <1>2, Ended, SameGrows DEF CreateRefused, keyVars
  <1>3. CASE NewOtp(r)
    <2>1. e \in Emails /\ account[e] # "none" /\ account' = account
      BY <1>3, EmailKnown DEF NewOtp, At, CodeInv, Sound, Registered
    <2>2. PICK c \in Codes :
             /\ issued[c] = NoEmail
             /\ issued' = [issued EXCEPT ![c] = e]
             /\ otp' = [otp EXCEPT ![e] = [code |-> c, attempts |-> 0, ttl |-> OTP_TTL]]
      BY <1>3 DEF NewOtp
    <2> DEFINE o == [code |-> c, attempts |-> 0, ttl |-> OTP_TTL]
    <2>3. Grows(account, issued, account', issued')
      BY <2>1, <2>2 DEF CodeInv, Tables, Grows
    <2>4. o \in Otps
      BY DEF Otps
    <2>5. Stored(o, e, account', issued')
      BY <2>1, <2>2, <2>4 DEF CodeInv, Tables, Stored, Genuine
    <2> QED
      BY <1>3, <2>1, <2>2, <2>3, <2>4, <2>5, Ended DEF NewOtp
  <1> QED
    BY <1>1, <1>2, <1>3 DEF RegisterStep

\* GET: the stored code decides, and it was generated for the address.
LEMMA GetKeepsCodeInv ==
    ASSUME CodeInv, NEW r \in Reqs, Get(r)
    PROVE  CodeInv'
  <1> DEFINE e == req[r].email
  <1>1. e \in Emails /\ UNCHANGED <<account, issued, otp>>
    BY EmailKnown DEF Get, At, keyVars
  <1>2. CASE Ends(r)
    BY <1>1, <1>2, Ended, SameGrows
  <1>3. CASE otp[e].ttl > 0
    <2> DEFINE pc == IF req[r].code = otp[e].code THEN "activate"
                     ELSE IF TooMany(otp[e].attempts + 1) THEN "drop" ELSE "ttl"
               q == [pc |-> pc, email |-> e, code |-> req[r].code, read |-> otp[e]]
    <2>1. req[r] \in Requests /\ req[r].pc = "get"
      BY DEF CodeInv, Get, At
    <2>2. otp[e] \in Otps /\ account[e] # "none" /\ Genuine(otp[e].code, e, issued)
      BY <1>1, <1>3 DEF CodeInv, Stored
    <2>3. otp[e].attempts \in Nat
      BY <2>2 DEF Otps
    <2>4. pc = "ttl" => otp[e].attempts + 1 < OTP_MAX_ATTEMPTS
      BY <2>3 DEF TooMany
    <2>5. q \in Requests
      BY <1>1, <2>1, <2>2 DEF Requests, Steps
    <2>6. Sound(q, account', issued')
      BY <1>1, <2>2, <2>4, <2>5 DEF Sound, Registered, Genuine
    <2>7. CASE req' = [req EXCEPT ![r].read = otp[e], ![r].pc = pc]
      <3>1. req' = [req EXCEPT ![r] = q]
        BY <2>1, <2>7 DEF CodeInv, Requests
      <3> QED
        BY <1>1, <2>6, <3>1, OneRequest, SameGrows
    <2> QED
      BY <1>2, <1>3, <2>7 DEF Get
  <1> QED
    BY <1>2, <1>3 DEF Get

\* The rest of verifyOtp: what is written back was read under the same address.
LEMMA VerifyKeepsCodeInv ==
    ASSUME CodeInv, NEW r \in Reqs, VerifyStep(r)
    PROVE  CodeInv'
  <1> DEFINE e == req[r].email
  <1>1. CASE Get(r)
    BY <1>1, GetKeepsCodeInv
  <1>2. CASE ReadTtl(r)
    <2> DEFINE left == otp[e].ttl
               new == IF left > 0 THEN left ELSE OTP_TTL
               q == [pc |-> "writeBack", email |-> e, code |-> req[r].code,
                     read |-> [code |-> req[r].read.code, attempts |-> req[r].read.attempts,
                               ttl |-> new]]
               told == [req EXCEPT ![r].read.ttl = new]
    <2>1. /\ req[r] \in Requests /\ req[r].pc = "ttl" /\ e \in Emails
          /\ account[e] # "none"
          /\ Genuine(req[r].read.code, e, issued)
          /\ req[r].read.attempts + 1 < OTP_MAX_ATTEMPTS
          /\ UNCHANGED <<account, issued, otp>>
      BY <1>2, EmailKnown DEF ReadTtl, At, CodeInv, Sound, Registered, keyVars
    <2>2. req[r].read \in Otps /\ otp[e] \in Otps
      BY <2>1 DEF Requests, CodeInv
    <2>3. new \in Nat
      BY <2>2 DEF Otps
    <2> HIDE DEF new
    <2>4. q \in Requests
      BY <2>1, <2>2, <2>3 DEF Requests, Otps, Steps
    <2>5. Sound(q, account', issued')
      BY <2>1, <2>4 DEF Sound, Registered
    <2>6. req \in [Reqs -> Requests]
      BY DEF CodeInv
    <2>7. [req[r] EXCEPT !.read.ttl = new] =
             [pc |-> "ttl", email |-> e, code |-> req[r].code,
              read |-> [code |-> req[r].read.code, attempts |-> req[r].read.attempts,
                        ttl |-> new]]
      BY <2>1, <2>2 DEF Requests, Otps
    <2>8. told = [req EXCEPT ![r] = [req[r] EXCEPT !.read.ttl = new]]
      BY <2>6
    <2> DEFINE rec == [req[r] EXCEPT !.read.ttl = new]
    <2> HIDE DEF told, rec
    <2>9. [told EXCEPT ![r].pc = "writeBack"] = [req EXCEPT ![r] = q]
      <3>1. told = [req EXCEPT ![r] = rec]
        BY <2>8 DEF rec
      <3>2. [rec EXCEPT !.pc = "writeBack"] = q
        <4>1. rec = [pc |-> "ttl", email |-> e, code |-> req[r].code,
                     read |-> [code |-> req[r].read.code,
                               attempts |-> req[r].read.attempts, ttl |-> new]]
          BY <2>7 DEF rec
        <4> QED
          BY <4>1
      <3>3. [told EXCEPT ![r].pc = "writeBack"] =
               [req EXCEPT ![r] = [rec EXCEPT !.pc = "writeBack"]]
        BY <2>6, <3>1
      <3> QED
        BY <3>2, <3>3
    <2>10. req' = [req EXCEPT ![r] = q]
      BY <1>2, <2>9 DEF ReadTtl, told, new
    <2> QED
      BY <2>1, <2>5, <2>10, OneRequest, SameGrows
  <1>3. CASE WriteBack(r)
    <2> DEFINE o == [code |-> req[r].read.code, attempts |-> req[r].read.attempts + 1,
                     ttl |-> req[r].read.ttl]
    <2>1. /\ req[r] \in Requests /\ e \in Emails
          /\ account[e] # "none"
          /\ Genuine(req[r].read.code, e, issued)
          /\ req[r].read.attempts + 1 < OTP_MAX_ATTEMPTS
          /\ UNCHANGED <<account, issued>>
      BY <1>3, EmailKnown DEF WriteBack, At, CodeInv, Sound, Registered
    <2>2. req[r].read \in Otps
      BY <2>1 DEF Requests
    <2>3. o \in Otps
      BY <2>1, <2>2 DEF Otps
    <2>4. Stored(o, e, account', issued')
      BY <2>1, <2>3 DEF Stored
    <2> QED
      BY <1>3, <2>1, <2>3, <2>4, Ended, SameGrows DEF WriteBack
  <1>4. CASE DropOtp(r)
    <2>1. e \in Emails /\ UNCHANGED <<account, issued>> /\ req[r].pc # "idle"
      BY <1>4, EmailKnown DEF DropOtp, At
    <2>2. /\ Sound([req[r] EXCEPT !.pc = "setLock"], account', issued')
          /\ req' = [req EXCEPT ![r] = [req[r] EXCEPT !.pc = "setLock"]]
      BY <1>4, <2>1, MovedOn, SameGrows DEF DropOtp, Steps, Registered
    <2> QED
      BY <1>4, <2>1, <2>2, OneRequest, IdleIsSound, SameGrows DEF DropOtp
  <1>5. CASE SetOtpLock(r)
    BY <1>5, Ended, SameGrows DEF SetOtpLock
  <1>6. CASE Activate(r)
    <2>1. e \in Emails /\ UNCHANGED <<issued, otp>>
      BY <1>6, EmailKnown DEF Activate, At, keyVars
    <2>2. Grows(account, issued, account', issued')
      BY <1>6, <2>1 DEF Activate, CodeInv, Tables, Grows, Statuses
    <2>3. /\ Sound([req[r] EXCEPT !.pc = "used"], account', issued')
          /\ req' = [req EXCEPT ![r] = [req[r] EXCEPT !.pc = "used"]]
      BY <1>6, <2>2, MovedOn DEF Activate, At, Steps, Registered
    <2> QED
      BY <2>1, <2>2, <2>3, OneRequest
  <1>7. CASE DropUsed(r)
    <2>1. e \in Emails /\ UNCHANGED <<account, issued>>
      BY <1>7, EmailKnown DEF DropUsed, At
    <2> QED
      BY <1>7, <2>1, Ended, IdleIsSound, SameGrows DEF DropUsed
  <1> QED
    BY <1>1, <1>2, <1>3, <1>4, <1>5, <1>6, <1>7 DEF VerifyStep

\* The steps of resendOtp.
LEMMA ResendKeepsCodeInv ==
    ASSUME CodeInv, NEW r \in Reqs, ResendStep(r)
    PROVE  CodeInv'
  <1>1. CASE FindPending(r)
    BY <1>1, Ended, Continued, SameGrows DEF FindPending, At, Steps, keyVars
  <1>2. CASE CountResend(r)
    <2>1. account[req[r].email] # "none" /\ UNCHANGED <<account, issued, otp>>
      BY <1>2 DEF CountResend, At, CodeInv, Sound, Registered
    <2>2. \E pc \in {"expire", "setLock", "newOtp"} : To(r, pc)
      BY <1>2 DEF CountResend
    <2> QED
      BY <1>2, <2>1, <2>2, Continued DEF CountResend, At, Steps
  <1>3. CASE ExpireResends(r)
    <2>1. account[req[r].email] # "none" /\ UNCHANGED <<account, issued, otp>>
      BY <1>3 DEF ExpireResends, At, CodeInv, Sound, Registered
    <2> QED
      BY <1>3, <2>1, Continued DEF ExpireResends, At, Steps
  <1> QED
    BY <1>1, <1>2, <1>3 DEF ResendStep

\* The steps of login touch neither accounts nor codes.
LEMMA LoginKeepsCodeInv ==
    ASSUME CodeInv, NEW r \in Reqs, LoginStep(r)
    PROVE  CodeInv'
  <1>1. UNCHANGED <<account, issued, otp>> /\ req[r].pc # "idle"
    BY DEF LoginStep, CheckPassword, CountFail, ExpireFails, ResetFails, Sign, At, keyVars
  <1>2. Ends(r) \/ \E pc \in {"fail", "reset", "failExpire", "sign"} : To(r, pc)
    BY DEF LoginStep, CheckPassword, CountFail, ExpireFails, ResetFails, Sign
  <1> QED
    BY <1>1, <1>2, Ended, Continued, SameGrows DEF Steps, Registered

\* Time drops codes.
LEMMA TimeKeepsCodeInv ==
    ASSUME CodeInv, TimePasses
    PROVE  CodeInv'
  <1>1. ASSUME NEW e \in Emails
        PROVE  OtpLater(otp[e]) \in Otps /\ Stored(OtpLater(otp[e]), e, account, issued)
    <2>1. otp[e] \in Otps /\ Stored(otp[e], e, account, issued)
      BY DEF CodeInv
    <2>2. CASE otp[e].ttl <= 1
      BY <2>2, IdleIsSound DEF OtpLater
    <2>3. CASE ~(otp[e].ttl <= 1)
      BY <2>1, <2>3 DEF OtpLater, Otps, Stored
    <2> QED
      BY <2>2, <2>3
  <1> QED
    BY <1>1 DEF TimePasses, CodeInv

\* CodeInv is inductive.
LEMMA CodeInvStep == CodeInv /\ [AccNext]_aVars => CodeInv'
  <1> SUFFICES ASSUME CodeInv, [AccNext]_aVars
               PROVE  CodeInv'
    OBVIOUS
  <1>1. CASE \E r \in Reqs, e \in Emails : Arrives(r, e)
    BY <1>1, ArrivesKeepsCodeInv
  <1>2. CASE \E r \in Reqs : Proceeds(r)
    BY <1>2, RegisterKeepsCodeInv, VerifyKeepsCodeInv, ResendKeepsCodeInv, LoginKeepsCodeInv
       DEF Proceeds
  <1>3. CASE \E r \in Reqs : RequestDies(r)
    BY <1>3, Ended, SameGrows DEF RequestDies, keyVars
  <1>4. CASE \E e \in Emails : LockAccount(e)
    <2>1. /\ UNCHANGED <<req, otp, issued>>
          /\ Grows(account, issued, account', issued')
      BY <1>4 DEF LockAccount, keyVars, CodeInv, Tables, Grows, Statuses
    <2> QED
      BY <2>1, SoundLasts, StoredLasts DEF CodeInv, Grows
  <1>5. CASE TimePasses
    BY <1>5, TimeKeepsCodeInv
  <1>6. CASE UNCHANGED <<account, otp, issued, req>>
    BY <1>6 DEF CodeInv
  <1> QED
    BY <1>1, <1>2, <1>3, <1>4, <1>5, <1>6 DEF AccNext, Logout, keyVars, aVars

\* CodeInv holds in every state.
LEMMA CodeInvAlways == AccSpec => []CodeInv
  BY CodeInvInit, CodeInvStep, PTL DEF AccSpec

\* Codes are stored only for registered addresses: register writes the row
\* first, and a write-back comes from a request that saw the code stored.
THEOREM CodesBelongToAccounts == AccSpec => []CodesHaveAccounts
  <1>1. CodeInv => CodesHaveAccounts
    BY DEF CodeInv, Stored, CodesHaveAccounts
  <1> QED
    BY <1>1, CodeInvAlways, PTL

\* verifyOtp activates an address only for an answer that is a code generated
\* for it, however requests interleave and codes are written back.
THEOREM OnlyCodesActivate == AccSpec => ActivatedByCode
  <1> DEFINE ByCode(e) ==
        account[e] # "ACTIVE" /\ account'[e] = "ACTIVE" =>
            \E r \in Reqs : At(r, "activate") /\ req[r].code \in Codes
                                              /\ issued[req[r].code] = e
  <1>1. ASSUME CodeInv, [AccNext]_aVars, NEW e \in Emails, account[e] # "ACTIVE",
               account'[e] = "ACTIVE"
        PROVE  \E r \in Reqs : At(r, "activate") /\ req[r].code \in Codes
                                                 /\ issued[req[r].code] = e
    <2>1. account \in [Emails -> Statuses] /\ account' # account
      BY <1>1 DEF CodeInv, Tables
    <2>2. ~\E r \in Reqs, f \in Emails : Arrives(r, f)
      BY <2>1 DEF Arrives, Register, AskVerify, AskResend, AskLogin
    <2>3. ~\E f \in Emails : LockAccount(f)
      BY <1>1, <2>1 DEF LockAccount
    <2>4. ~TimePasses /\ ~UNCHANGED aVars /\ ~\E t \in Tokens : Logout(t)
      BY <2>1 DEF TimePasses, aVars, Logout
    <2>5. PICK r \in Reqs : Proceeds(r) \/ RequestDies(r)
      BY <1>1, <2>2, <2>3, <2>4 DEF AccNext
    <2>6. ~RequestDies(r) /\ ~ResendStep(r) /\ ~LoginStep(r)
      BY <2>1 DEF RequestDies, ResendStep, LoginStep, FindPending, CountResend, ExpireResends,
                  CheckPassword, CountFail, ExpireFails, ResetFails, Sign
    <2>7. ~RegisterStep(r)
      BY <1>1, <2>1 DEF RegisterStep, Create, CreateRefused, NewOtp
    <2>8. Activate(r)
      BY <2>1, <2>5, <2>6, <2>7
         DEF Proceeds, VerifyStep, Get, ReadTtl, WriteBack, DropOtp, SetOtpLock, DropUsed
    <2>9. req[r].email = e
      BY <1>1, <2>1, <2>8 DEF Activate
    <2> QED
      BY <1>1, <2>8, <2>9 DEF Activate, At, CodeInv, Sound, Genuine
  <1>2. CodeInv /\ [AccNext]_aVars => [\A e \in Emails : ByCode(e)]_aVars
    BY <1>1
  <1> QED
    BY <1>2, CodeInvAlways, PTL DEF AccSpec, ActivatedByCode

-----------------------------------------------------------------------------
(* The counters: INCR gives a key that has no TTL a request that will.     *)

\* A counter without a count is a key that is not there.
Counter(k) == k \in Counters /\ (k.n = 0 <=> k.ttl = 0)

CountInv ==
    /\ resends \in [Emails -> Counters] /\ fails \in [Emails -> Counters]
    /\ otpLock \in [Emails -> Nat]
    /\ \A e \in Emails : Counter(resends[e]) /\ Counter(fails[e])

\* What INCR, EXPIRE and time do to a counter, and when it loses its TTL.
LEMMA CounterSteps ==
    ASSUME NEW k, Counter(k)
    PROVE  /\ Counter(Incr(k)) /\ Counter(Expire(k)) /\ Counter(CountLater(k))
           /\ Counter(NoCount)
           /\ Expire(k).ttl # Forever /\ NoCount.ttl # Forever
           /\ CountLater(k).ttl = Forever => k.ttl = Forever
           /\ Incr(k).ttl = Forever => First(k) \/ k.ttl = Forever
  <1>1. k \in Counters
    BY DEF Counter
  <1>2. Counter(Incr(k)) /\ (Incr(k).ttl = Forever => First(k) \/ k.ttl = Forever)
    BY <1>1 DEF Counter, Counters, Incr, First
  <1>3. Counter(Expire(k)) /\ Expire(k).ttl # Forever
    BY <1>1 DEF Counter, Counters, Expire
  <1>4. Counter(NoCount) /\ NoCount.ttl # Forever
    BY DEF Counter, Counters, NoCount
  <1>5. Counter(CountLater(k)) /\ (CountLater(k).ttl = Forever => k.ttl = Forever)
    BY <1>1, <1>4 DEF Counter, Counters, CountLater
  <1> QED
    BY <1>2, <1>3, <1>4, <1>5

\* Who counts, who sets the TTL, who resets.
LEMMA CounterChanges ==
    ASSUME CodeInv, CountInv, [AccNext]_aVars
    PROVE  \/ UNCHANGED <<resends, fails>>
           \/ TimePasses
           \/ \E r \in Reqs : \/ CountResend(r)
                             \/ ExpireResends(r)
                             \/ CountFail(r)
                             \/ ExpireFails(r)
                             \/ ResetFails(r)
  BY DEF AccNext, Arrives, Register, AskVerify, AskResend, AskLogin, Proceeds, RegisterStep,
         Create, CreateRefused, NewOtp, VerifyStep, Get, ReadTtl, WriteBack, DropOtp, SetOtpLock,
         Activate, DropUsed, ResendStep, FindPending, LoginStep, CheckPassword, Sign,
         RequestDies, Logout, LockAccount, keyVars, aVars

\* A counter has a count exactly if its key is there, through every step.
LEMMA CountInvStep == CodeInv /\ CountInv /\ [AccNext]_aVars => CountInv'
  <1> SUFFICES ASSUME CodeInv, CountInv, [AccNext]_aVars
               PROVE  CountInv'
    OBVIOUS
  <1>1. otpLock' \in [Emails -> Nat]
    <2>1. CASE \E r \in Reqs : SetOtpLock(r)
      BY <2>1 DEF SetOtpLock, CountInv
    <2>2. CASE TimePasses
      BY <2>2 DEF TimePasses, Less, CountInv
    <2>3. CASE otpLock' = otpLock
      BY <2>3 DEF CountInv
    <2>4. \/ \E r \in Reqs : SetOtpLock(r)
          \/ TimePasses
          \/ otpLock' = otpLock
      BY DEF AccNext, Arrives, Register, AskVerify, AskResend, AskLogin, Proceeds, RegisterStep,
             Create, CreateRefused, NewOtp, VerifyStep, Get, ReadTtl, WriteBack, DropOtp,
             Activate, DropUsed, ResendStep, FindPending, CountResend, ExpireResends, LoginStep,
             CheckPassword, CountFail, ExpireFails, ResetFails, Sign, RequestDies, Logout,
             LockAccount, keyVars, aVars
    <2> QED
      BY <2>1, <2>2, <2>3, <2>4
  <1>2. ASSUME NEW k, NEW e \in Emails, Counter(k)
        PROVE  /\ fails' = [fails EXCEPT ![e] = k] /\ resends' = resends => CountInv'
               /\ resends' = [resends EXCEPT ![e] = k] /\ fails' = fails => CountInv'
    BY <1>1, <1>2 DEF CountInv, Counter
  <1>3. CASE UNCHANGED <<resends, fails>>
    BY <1>1, <1>3 DEF CountInv
  <1>4. CASE TimePasses
    <2>1. \A e \in Emails : Counter(CountLater(resends[e])) /\ Counter(CountLater(fails[e]))
      BY CounterSteps DEF CountInv
    <2> QED
      BY <1>1, <1>4, <2>1 DEF TimePasses, CountInv, Counter
  <1>5. ASSUME NEW r \in Reqs,
               \/ CountResend(r)
               \/ ExpireResends(r)
               \/ CountFail(r)
               \/ ExpireFails(r)
               \/ ResetFails(r)
        PROVE  CountInv'
    <2> DEFINE e == req[r].email
    <2>1. e \in Emails
      BY <1>5, EmailKnown
         DEF CountResend, ExpireResends, CountFail, ExpireFails, ResetFails, At
    <2>2. Counter(resends[e]) /\ Counter(fails[e])
      BY <2>1 DEF CountInv
    <2>3. Counter(Incr(resends[e])) /\ Counter(Expire(resends[e]))
      BY <2>2, CounterSteps
    <2>4. Counter(Incr(fails[e])) /\ Counter(Expire(fails[e])) /\ Counter(NoCount)
      BY <2>2, CounterSteps
    <2> QED
      BY <1>2, <1>5, <2>1, <2>3, <2>4
         DEF CountResend, ExpireResends, CountFail, ExpireFails, ResetFails
  <1> QED
    BY <1>3, <1>4, <1>5, CounterChanges

\* Where no request ends between INCR and EXPIRE.
ExpireIsCalled == "expire" \notin Deaths

\* A request that is about to call EXPIRE stays so until it did.
LEMMA WillExpireLasts ==
    ASSUME ExpireIsCalled, CodeInv, [AccNext]_aVars, NEW pc \in {"expire", "failExpire"},
           NEW e \in Emails, WillExpire(pc, e),
           \A r \in Reqs : At(r, pc) /\ req[r].email = e => ~ExpireResends(r) /\ ~ExpireFails(r)
    PROVE  WillExpire(pc, e)'
  <1>1. PICK s \in Reqs : req[s].pc = pc /\ req[s].email = e
    BY DEF WillExpire, At
  <1> SUFFICES req'[s] = req[s]
    BY <1>1 DEF WillExpire, At
  <1>2. req \in [Reqs -> Requests]
    BY DEF CodeInv
  <1>3. CASE UNCHANGED req
    BY <1>3
  <1>4. ASSUME NEW r \in Reqs, r # s, \E q : req' = [req EXCEPT ![r] = q]
        PROVE  req'[s] = req[s]
    BY <1>2, <1>4
  <1>5. CASE \E r \in Reqs, f \in Emails : Arrives(r, f)
    <2>1. PICK r \in Reqs : req[r].pc = "idle" /\ \E q : req' = [req EXCEPT ![r] = q]
      BY <1>5 DEF Arrives, Register, AskVerify, AskResend, AskLogin, Starts, At
    <2> QED
      BY <1>1, <1>4, <2>1
  <1>6. CASE \E r \in Reqs : RequestDies(r)
    <2>1. PICK r \in Reqs : RequestDies(r)
      BY <1>6
    <2> QED
      BY <1>1, <1>4, <2>1 DEF RequestDies, Ends, ExpireIsCalled
  <1>7. CASE \E r \in Reqs : RegisterStep(r) \/ VerifyStep(r)
    <2>1. PICK r \in Reqs : RegisterStep(r) \/ VerifyStep(r)
      BY <1>7
    <2>2. req[r].pc \notin {"expire", "failExpire"}
      BY <2>1 DEF RegisterStep, Create, CreateRefused, NewOtp, VerifyStep, Get, ReadTtl,
                  WriteBack, DropOtp, SetOtpLock, Activate, DropUsed, At
    <2>3. \A p : p # r => req'[p] = req[p] \/ p \notin Reqs
      BY <2>1, <1>2 DEF RegisterStep, Create, CreateRefused, NewOtp, VerifyStep, Get, ReadTtl,
                 WriteBack, DropOtp, SetOtpLock, Activate, DropUsed, Ends, To
    <2> QED
      BY <1>1, <2>2, <2>3
  <1>8. CASE \E r \in Reqs : ResendStep(r) \/ LoginStep(r)
    <2>1. PICK r \in Reqs : ResendStep(r) \/ LoginStep(r)
      BY <1>8
    <2>2. r # s
      BY <1>1, <2>1 DEF ResendStep, FindPending, CountResend, LoginStep, CheckPassword,
                        CountFail, ResetFails, Sign, At
    <2>3. \E q : req' = [req EXCEPT ![r] = q]
      BY <2>1 DEF ResendStep, FindPending, CountResend, ExpireResends, LoginStep,
                  CheckPassword, CountFail, ExpireFails, ResetFails, Sign, Ends, To
    <2> QED
      BY <1>4, <2>2, <2>3
  <1> QED
    BY <1>3, <1>5, <1>6, <1>7, <1>8
       DEF AccNext, Proceeds, Logout, LockAccount, TimePasses, aVars

\* A counter without a TTL keeps a request that will set it.
LEMMA CountersExpireStep ==
    ASSUME ExpireIsCalled, CodeInv, CountInv, CountersExpire, [AccNext]_aVars
    PROVE  CountersExpire'
  <1>1. ASSUME NEW e \in Emails, resends'[e].ttl = Forever
        PROVE  WillExpire("expire", e)'
    <2>1. Counter(resends[e])
      BY DEF CountInv
    <2>2. CASE resends[e].ttl = Forever
      <3>1. WillExpire("expire", e)
        BY <2>2 DEF CountersExpire
      <3>2. ~\E r \in Reqs : req[r].email = e /\ ExpireResends(r)
        BY <1>1, <2>1, CounterSteps DEF ExpireResends, CountInv
      <3>3. \A r \in Reqs : At(r, "expire") => ~ExpireFails(r)
        BY DEF ExpireFails, At
      <3> QED
        BY <2>2, <3>1, <3>2, <3>3, WillExpireLasts
    <2>3. CASE resends[e].ttl # Forever
      <3>1. PICK r \in Reqs : CountResend(r)
        BY <1>1, <2>1, <2>3, CounterSteps, CounterChanges
           DEF TimePasses, ExpireResends, CountFail, ExpireFails, ResetFails, CountInv
      <3>2. req[r].email = e /\ First(resends[e])
        BY <1>1, <2>1, <2>3, <3>1, CounterSteps DEF CountResend, CountInv
      <3>3. req'[r].pc = "expire" /\ req'[r].email = e
        BY <3>1, <3>2 DEF CountResend, To, CodeInv, Requests
      <3> QED
        BY <3>3 DEF WillExpire, At
    <2> QED
      BY <2>2, <2>3
  <1>2. ASSUME NEW e \in Emails, fails'[e].ttl = Forever
        PROVE  WillExpire("failExpire", e)'
    <2>1. Counter(fails[e])
      BY DEF CountInv
    <2>2. CASE fails[e].ttl = Forever
      <3>1. WillExpire("failExpire", e)
        BY <2>2 DEF CountersExpire
      <3>2. ~\E r \in Reqs : req[r].email = e /\ ExpireFails(r)
        BY <1>2, <2>1, CounterSteps DEF ExpireFails, CountInv
      <3>3. \A r \in Reqs : At(r, "failExpire") => ~ExpireResends(r)
        BY DEF ExpireResends, At
      <3> QED
        BY <2>2, <3>1, <3>2, <3>3, WillExpireLasts
    <2>3. CASE fails[e].ttl # Forever
      <3>1. PICK r \in Reqs : CountFail(r)
        BY <1>2, <2>1, <2>3, CounterSteps, CounterChanges
           DEF TimePasses, CountResend, ExpireResends, ExpireFails, ResetFails, CountInv
      <3>2. req[r].email = e /\ First(fails[e])
        BY <1>2, <2>1, <2>3, <3>1, CounterSteps DEF CountFail, CountInv
      <3>3. req'[r].pc = "failExpire" /\ req'[r].email = e
        BY <3>1, <3>2 DEF CountFail, To, CodeInv, Requests
      <3> QED
        BY <3>3 DEF WillExpire, At
    <2> QED
      BY <2>2, <2>3
  <1> QED
    BY <1>1, <1>2 DEF CountersExpire

\* No lockout is for ever: INCR by login or resendOtp on a fresh counter leaves
\* a request that calls EXPIRE, also when another one reset the counter before.
THEOREM CountersGetTheirTtl == ASSUME ExpireIsCalled PROVE AccSpec => []CountersExpire
  <1>1. AccInit => CountInv /\ CountersExpire
    BY DEF AccInit, CountInv, CountersExpire, Counter, Counters, NoCount
  <1>2. CodeInv /\ CountInv /\ CountersExpire /\ [AccNext]_aVars => CountInv' /\ CountersExpire'
    BY CountInvStep, CountersExpireStep
  <1> QED
    BY <1>1, <1>2, CodeInvAlways, PTL DEF AccSpec

-----------------------------------------------------------------------------
(* Guesses: a request that is admitted is counted once, or not at all.     *)

Parallel == Cardinality(Reqs)

\* What the counter of e and the guesses on their way to it come to.
Spent(e) == fails[e].n + Cardinality(Guesses(e))

\* Sets of requests are finite, and a smaller set has fewer.
LEMMA GuessSets ==
    ASSUME IsFiniteSet(Reqs), NEW S \in SUBSET Reqs, NEW T \in SUBSET S
    PROVE  /\ IsFiniteSet(S) /\ Cardinality(S) \in Nat /\ Parallel \in Nat
           /\ Cardinality(T) \in Nat /\ Cardinality(T) <= Cardinality(S)
           /\ Cardinality(S) <= Parallel
  BY FS_Subset, FS_CardinalityType DEF Parallel

\* The steps that touch the counter of logins, or admit a guess.
LEMMA GuessSteps ==
    ASSUME CodeInv, CountInv, [AccNext]_aVars, NEW e \in Emails
    PROVE  \/ fails[e].n < LOGIN_MAX_FAILS /\ fails' = fails
           \/ Guesses(e)' \subseteq Guesses(e) /\ fails'[e].n <= fails[e].n
           \/ \E r \in Guesses(e) : /\ Guesses(e)' = Guesses(e) \ {r}
                                    /\ fails'[e].n <= fails[e].n + 1
  <1>0. /\ req \in [Reqs -> Requests] /\ fails \in [Emails -> Counters]
        /\ fails[e].n \in Nat
    BY DEF CodeInv, CountInv, Counters
  <1>1. ASSUME NEW r \in Reqs, NEW f \in Emails, AskLogin(r, f)
        PROVE  \/ fails[e].n < LOGIN_MAX_FAILS /\ fails' = fails
               \/ Guesses(e)' \subseteq Guesses(e) /\ fails'[e].n <= fails[e].n
    <2>1. fails' = fails
      BY <1>1 DEF AskLogin, keyVars
    <2>2. CASE f = e
      BY <1>1, <2>1, <2>2 DEF AskLogin
    <2>3. CASE f # e
      <3>1. \A s \in Reqs : s # r => req'[s] = req[s]
        BY <1>0, <1>1 DEF AskLogin, Starts
      <3>2. req'[r].email = f
        BY <1>0, <1>1 DEF AskLogin, Starts, NoReq
      <3> QED
        BY <1>0, <2>1, <2>3, <3>1, <3>2 DEF Guesses
    <2> QED
      BY <2>2, <2>3
  <1>2. ASSUME NEW r \in Reqs, fails' = fails,
               \A s \in Reqs : s # r => req'[s] = req[s],
               req'[r].pc \in {"user", "fail"} =>
                  req[r].pc \in {"user", "fail"} /\ req'[r].email = req[r].email
        PROVE  Guesses(e)' \subseteq Guesses(e) /\ fails'[e].n <= fails[e].n
    BY <1>0, <1>2 DEF Guesses
  <1>3. ASSUME NEW r \in Reqs, CountFail(r)
        PROVE  \/ Guesses(e)' \subseteq Guesses(e) /\ fails'[e].n <= fails[e].n
               \/ \E s \in Guesses(e) : /\ Guesses(e)' = Guesses(e) \ {s}
                                        /\ fails'[e].n <= fails[e].n + 1
    <2> DEFINE f == req[r].email
    <2>1. /\ req[r].pc = "fail" /\ f \in Emails
          /\ fails' = [fails EXCEPT ![f] = Incr(fails[f])]
      BY <1>3, EmailKnown DEF CountFail, At
    <2>2. /\ \A s \in Reqs : s # r => req'[s] = req[s]
          /\ req'[r].pc \notin {"user", "fail"}
      BY <1>0, <1>3 DEF CountFail, To, Ends, NoReq, Requests
    <2>3. CASE f = e
      <3>1. Guesses(e)' = Guesses(e) \ {r} /\ r \in Guesses(e)
        BY <2>1, <2>2, <2>3 DEF Guesses
      <3>2. fails'[e].n <= fails[e].n + 1
        BY <1>0, <2>1, <2>3 DEF Incr
      <3> QED
        BY <3>1, <3>2
    <2>4. CASE f # e
      BY <1>0, <2>1, <2>2, <2>4 DEF Guesses
    <2> QED
      BY <2>3, <2>4
  <1>4. ASSUME NEW r \in Reqs, ResetFails(r) \/ ExpireFails(r)
        PROVE  Guesses(e)' \subseteq Guesses(e) /\ fails'[e].n <= fails[e].n
    <2>1. \A s \in Reqs : s # r => req'[s] = req[s]
      BY <1>0, <1>4 DEF ResetFails, ExpireFails, To, Ends
    <2>2. req'[r].pc \notin {"user", "fail"}
      BY <1>0, <1>4 DEF ResetFails, ExpireFails, To, Ends, NoReq, Requests
    <2>3. fails'[e].n <= fails[e].n
      <3>1. fails' = [fails EXCEPT ![req[r].email] = NoCount]
            \/ fails' = [fails EXCEPT ![req[r].email] = Expire(fails[req[r].email])]
        BY <1>4 DEF ResetFails, ExpireFails
      <3> QED
        BY <1>0, <3>1 DEF NoCount, Expire, Counters
    <2> QED
      BY <2>1, <2>2, <2>3 DEF Guesses
  <1>5. CASE TimePasses
    <2>1. req' = req /\ fails'[e] = CountLater(fails[e])
      BY <1>5 DEF TimePasses
    <2> QED
      BY <1>0, <2>1 DEF Guesses, CountLater, NoCount, Counters
  <1>6. CASE UNCHANGED <<req, fails>>
    BY <1>0, <1>6 DEF Guesses
  <1>7. ASSUME NEW r \in Reqs, NEW f \in Emails, Arrives(r, f), ~AskLogin(r, f)
        PROVE  Guesses(e)' \subseteq Guesses(e) /\ fails'[e].n <= fails[e].n
    <2>1. PICK pc \in {"create", "newOtp", "get", "resend"}, c \in {Typo} \cup Codes :
             Starts(r, pc, f, c)
      BY <1>7 DEF Arrives, Register, AskVerify, AskResend
    <2>2. fails' = fails
      BY <1>7 DEF Arrives, Register, AskVerify, AskResend, keyVars
    <2>3. /\ \A s \in Reqs : s # r => req'[s] = req[s]
          /\ req'[r].pc \notin {"user", "fail"}
      BY <1>0, <2>1 DEF Starts, NoReq
    <2> QED
      BY <1>2, <2>2, <2>3
  <1>8. ASSUME NEW r \in Reqs, Proceeds(r) \/ RequestDies(r),
               ~CountFail(r), ~ResetFails(r), ~ExpireFails(r)
        PROVE  Guesses(e)' \subseteq Guesses(e) /\ fails'[e].n <= fails[e].n
    <2>1. CASE CheckPassword(r)
      <3>1. fails' = fails /\ req[r].pc = "user"
        BY <2>1 DEF CheckPassword, At, keyVars
      <3>2. /\ \A s \in Reqs : s # r => req'[s] = req[s]
            /\ req'[r].pc \in {"user", "fail"} => req'[r].email = req[r].email
        BY <1>0, <2>1 DEF CheckPassword, To, Ends, NoReq, Requests
      <3> QED
        BY <1>2, <3>1, <3>2
    <2>2. CASE RegisterStep(r) \/ ResendStep(r) \/ RequestDies(r) \/ \E t \in Tokens : Sign(r, t)
      <3>0. \/ Create(r) \/ CreateRefused(r) \/ NewOtp(r)
            \/ FindPending(r) \/ CountResend(r) \/ ExpireResends(r)
            \/ RequestDies(r)
            \/ \E t \in Tokens : Sign(r, t)
        BY <2>2 DEF RegisterStep, ResendStep
      <3>1. fails' = fails /\ (Ends(r) \/ \E pc \in {"newOtp", "incr", "expire", "setLock"} : To(r, pc))
        <4>1. CASE Create(r) \/ CreateRefused(r) \/ NewOtp(r)
          BY <4>1 DEF Create, CreateRefused, NewOtp, keyVars
        <4>2. CASE FindPending(r)
          BY <4>2 DEF FindPending, keyVars
        <4>3. CASE CountResend(r)
          BY <4>3 DEF CountResend
        <4>4. CASE ExpireResends(r)
          BY <4>4 DEF ExpireResends
        <4>5. CASE RequestDies(r)
          BY <4>5 DEF RequestDies, keyVars
        <4>6. CASE \E t \in Tokens : Sign(r, t)
          BY <4>6 DEF Sign, keyVars
        <4> QED
          BY <3>0, <4>1, <4>2, <4>3, <4>4, <4>5, <4>6
      <3>2. Ends(r) \/ \E pc \in {"newOtp", "incr", "expire", "setLock"} : To(r, pc)
        BY <3>1
      <3>3. /\ \A s \in Reqs : s # r => req'[s] = req[s]
            /\ req'[r].pc \notin {"user", "fail"}
        BY <1>0, <3>2 DEF To, Ends, NoReq, Requests
      <3> QED
        BY <1>2, <3>1, <3>3
    <2>3. CASE VerifyStep(r)
      <3>1. fails' = fails
        BY <2>3 DEF VerifyStep, Get, ReadTtl, WriteBack, DropOtp, SetOtpLock, Activate, DropUsed,
                    keyVars
      <3>2. CASE Get(r)
        BY <1>0, <1>2, <3>1, <3>2 DEF Get, Ends, NoReq, Requests
      <3>3. CASE ReadTtl(r)
        <4>1. \A s \in Reqs : s # r => req'[s] = req[s]
          BY <1>0, <3>3 DEF ReadTtl, Requests
        <4>2. req'[r].pc \notin {"user", "fail"}
          BY <1>0, <3>3 DEF ReadTtl, Requests
        <4> QED
          BY <1>2, <3>1, <4>1, <4>2
      <3>4. CASE WriteBack(r) \/ DropOtp(r) \/ SetOtpLock(r) \/ Activate(r) \/ DropUsed(r)
        <4>1. Ends(r) \/ \E pc \in {"setLock", "used"} : To(r, pc)
          BY <3>4 DEF WriteBack, DropOtp, SetOtpLock, Activate, DropUsed
        <4>2. /\ \A s \in Reqs : s # r => req'[s] = req[s]
              /\ req'[r].pc \notin {"user", "fail"}
          BY <1>0, <4>1 DEF To, Ends, NoReq, Requests
        <4> QED
          BY <1>2, <3>1, <4>2
      <3> QED
        BY <2>3, <3>2, <3>3, <3>4 DEF VerifyStep
    <2> QED
      BY <1>8, <2>1, <2>2, <2>3 DEF Proceeds, LoginStep
  <1>9. \/ \E r \in Reqs, f \in Emails : Arrives(r, f)
        \/ \E r \in Reqs : Proceeds(r) \/ RequestDies(r)
        \/ UNCHANGED <<req, fails>>
        \/ TimePasses
    BY DEF AccNext, Logout, LockAccount, keyVars, aVars
  <1> QED
    BY <1>1, <1>3, <1>4, <1>5, <1>6, <1>7, <1>8, <1>9

\* Login looks at the lockout and counts in different calls, so guesses sent at
\* once get past LOGIN_MAX_FAILS; never by as many as the requests in progress.
THEOREM LockoutHoldsUpToRequests ==
    ASSUME IsFiniteSet(Reqs), Reqs # {} PROVE AccSpec => []GuessesAreBounded
  <1>1. AccInit => CountInv /\ GuessesAreBounded
    <2> SUFFICES ASSUME AccInit PROVE CountInv /\ GuessesAreBounded
      OBVIOUS
    <2>1. CountInv /\ \A e \in Emails : fails[e].n = 0 /\ Guesses(e) = {}
      BY DEF AccInit, CountInv, Counter, Counters, NoCount, Guesses, NoReq
    <2>2. Cardinality({}) = 0 /\ Cardinality(Reqs) \in Nat
      BY FS_EmptySet, FS_CardinalityType
    <2> QED
      BY <2>1, <2>2 DEF GuessesAreBounded
  <1>2. CodeInv /\ CountInv /\ [AccNext]_aVars => CountInv'
    BY CountInvStep
  <1>3. ASSUME CodeInv, CountInv, CountInv', GuessesAreBounded, [AccNext]_aVars
        PROVE  GuessesAreBounded'
    <2> SUFFICES ASSUME NEW e \in Emails
                 PROVE  (Spent(e) < LOGIN_MAX_FAILS + Parallel)'
      BY DEF GuessesAreBounded, Spent, Parallel
    <2> DEFINE S == Guesses(e)
               T == Guesses(e)'
               n == fails[e].n
               m == fails'[e].n
    <2>1. /\ S \in SUBSET Reqs /\ T \in SUBSET Reqs /\ n \in Nat /\ m \in Nat
          /\ n + Cardinality(S) < LOGIN_MAX_FAILS + Parallel
      BY <1>3 DEF CountInv, Counters, Guesses, GuessesAreBounded, Parallel
    <2>2. /\ Cardinality(S) \in Nat /\ Cardinality(T) \in Nat /\ Parallel \in Nat
          /\ Cardinality(T) <= Parallel /\ IsFiniteSet(S)
      BY <2>1, GuessSets
    <2>3. CASE n < LOGIN_MAX_FAILS /\ m = n
      BY <2>1, <2>2, <2>3 DEF Spent, Parallel
    <2>4. CASE T \subseteq S /\ m <= n
      <3>1. Cardinality(T) <= Cardinality(S)
        BY <2>1, <2>4, GuessSets
      <3> QED
        BY <2>1, <2>2, <2>4, <3>1 DEF Spent, Parallel
    <2>5. ASSUME NEW r \in S, T = S \ {r}, m <= n + 1
          PROVE  m + Cardinality(T) < LOGIN_MAX_FAILS + Parallel
      <3>1. Cardinality(T) = Cardinality(S) - 1
        BY <2>2, <2>5, FS_RemoveElement
      <3> HIDE DEF S, T, n, m
      <3> QED
        BY <2>1, <2>2, <2>5, <3>1
    <2> QED
      BY <1>3, <2>3, <2>4, <2>5, GuessSteps DEF Spent, Parallel
  <1> QED
    BY <1>1, <1>2, <1>3, CodeInvAlways, PTL DEF AccSpec

-----------------------------------------------------------------------------
(* Tokens: the entry of a token in the blacklist lives as long as it.      *)

OutInv ==
    /\ token \in [Tokens -> Nat] /\ blacklist \in [Tokens -> Nat] /\ out \in SUBSET Tokens
    /\ \A t \in out : token[t] <= blacklist[t]

\* The entry of a token in the blacklist runs out no earlier than the token.
LEMMA OutInvStep == OutInv /\ [AccNext]_aVars => OutInv'
  <1> SUFFICES ASSUME OutInv, [AccNext]_aVars
               PROVE  OutInv'
    OBVIOUS
  <1>1. CASE UNCHANGED tokenVars
    BY <1>1 DEF OutInv, tokenVars
  <1>2. CASE \E r \in Reqs, t \in Tokens : Sign(r, t)
    BY <1>2 DEF Sign, OutInv
  <1>3. CASE \E t \in Tokens : Logout(t)
    BY <1>3 DEF Logout, Remaining, OutInv
  <1>4. CASE TimePasses
    BY <1>4 DEF TimePasses, Less, OutInv
  <1>5. ASSUME NEW r \in Reqs, NEW e \in Emails, Arrives(r, e)
        PROVE  UNCHANGED tokenVars
    BY <1>5 DEF Arrives, Register, AskVerify, AskResend, AskLogin, tokenVars
  <1>6. ASSUME NEW r \in Reqs, Proceeds(r)
        PROVE  UNCHANGED tokenVars \/ \E t \in Tokens : Sign(r, t)
    <2>1. CASE RegisterStep(r)
      BY <2>1 DEF RegisterStep, Create, CreateRefused, NewOtp, tokenVars
    <2>2. CASE VerifyStep(r)
      BY <2>2 DEF VerifyStep, Get, ReadTtl, WriteBack, DropOtp, SetOtpLock, Activate, DropUsed,
                  tokenVars
    <2>3. CASE ResendStep(r)
      BY <2>3 DEF ResendStep, FindPending, CountResend, ExpireResends, tokenVars
    <2>4. CASE LoginStep(r)
      BY <2>4 DEF LoginStep, CheckPassword, CountFail, ExpireFails, ResetFails, tokenVars
    <2> QED
      BY <1>6, <2>1, <2>2, <2>3, <2>4 DEF Proceeds
  <1>7. ASSUME NEW r \in Reqs, RequestDies(r) PROVE UNCHANGED tokenVars
    BY <1>7 DEF RequestDies, tokenVars
  <1>8. ASSUME NEW e \in Emails, LockAccount(e) PROVE UNCHANGED tokenVars
    BY <1>8 DEF LockAccount, tokenVars
  <1>9. \/ UNCHANGED tokenVars
        \/ TimePasses
        \/ \E t \in Tokens : Logout(t)
        \/ \E r \in Reqs, t \in Tokens : Sign(r, t)
    <2>1. CASE AccNext
      BY <1>5, <1>6, <1>7, <1>8, <2>1 DEF AccNext
    <2>2. CASE UNCHANGED aVars
      BY <2>2 DEF aVars, tokenVars
    <2> QED
      BY <2>1, <2>2
  <1> QED
    BY <1>1, <1>2, <1>3, <1>4, <1>9

\* So it is in every state.
LEMMA OutInvAlways == AccSpec => []OutInv
  <1>1. AccInit => OutInv
    BY DEF AccInit, OutInv
  <1> QED
    BY <1>1, OutInvStep, PTL DEF AccSpec

\* JwtStrategy refuses a token after its logout until it would have expired.
THEOREM LogoutIsFinal == AccSpec => []LoggedOutStaysOut
  <1>1. OutInv => LoggedOutStaysOut
    BY DEF OutInv, LoggedOutStaysOut, Accepted
  <1> QED
    BY <1>1, OutInvAlways, PTL

\* Type correctness; a stored code has attempts left, whoever writes it back.
THEOREM AccountsTypeCorrect == AccSpec => []AccTypeOK
  <1>1. AccInit => CountInv
    BY DEF AccInit, CountInv, Counter, Counters, NoCount
  <1>2. CodeInv /\ CountInv /\ [AccNext]_aVars => CountInv'
    BY CountInvStep
  <1>3. CodeInv /\ CountInv /\ OutInv => AccTypeOK
    BY DEF CodeInv, CountInv, OutInv, AccTypeOK, Tables, Stored, Requests
  <1> QED
    BY <1>1, <1>2, <1>3, CodeInvAlways, OutInvAlways, PTL DEF AccSpec

=============================================================================
