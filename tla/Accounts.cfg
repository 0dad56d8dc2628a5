\* One address, two requests at a time: registering, answering, resending, logging
\* in, wrongly and rightly, in any interleaving.  A request may end anywhere but
\* between INCR and EXPIRE.  Apart from them two users with two requests at a time
\* move between three addresses by two codes.
CONSTANTS
    Emails = {e1}
    Reqs = {r1, r2}
    Tokens = {t1}
    MaxCodes = 2
    MaxCount = 3
    OTP_TTL = 1
    OTP_MAX_ATTEMPTS = 3
    OTP_MAX_RESENDS = 1
    LOGIN_MAX_FAILS = 2
    LOCK_TTL = 1
    TOKEN_TTL = 2
    Forever = Forever
    NoEmail = NoEmail
    Deaths = {"step"}
    Users = {u1, u2}
    Addresses = {a1, a2, a3}
    Calls = {k1, k2}
    MaxSent = 2
    EMAIL_CHANGE_OTP_TTL = 1
    EMAIL_CHANGE_OTP_MAX_ATTEMPTS = 2
    EMAIL_CHANGE_LOCK_TTL = 1
    Nobody = Nobody
    Nowhere = Nowhere
SPECIFICATION MCSpec
INVARIANTS AccTypeOK CountersExpire CodesHaveAccounts LoggedOutStaysOut GuessesAreBounded
    ChTypeOK OneAccountPerAddress
PROPERTIES ActivatedByCode LockoutEnds MovedByCode
