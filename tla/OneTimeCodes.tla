---------------------------- MODULE OneTimeCodes ----------------------------
(***************************************************************************)
(* OtpService (modules/auth/otp.service.ts) for one phone number: the rows *)
(* of otp_codes, the Redis keys that limit how often a code is sent, and   *)
(* the SMS gateway.  Redis may be out of reach for a while; the limits are *)
(* then not enforced (the service fails open).                             *)
(***************************************************************************)
EXTENDS Naturals, FiniteSets, FiniteSetsExt

CONSTANTS
  Requests,
  Purposes,          \* SIGNUP, LOGIN, RESET
  OTP_MAX_ATTEMPTS,
  OTP_DAILY_CAP,     \* OTP_DAILY_CAP_PER_PHONE
  MaxCodes,          \* bound on the codes created
  RedisFails,        \* may Redis be out of reach?
  None

VARIABLES
  codes,     \* otp_codes, numbered in the order of createdAt
  created,   \* how many there have been
  cooldown,  \* the purposes whose cooldown key exists
  daily,     \* otp:daily counter, saturated at the first value above the cap
  dailyTtl,  \* does that counter have a time to live?
  redis,     \* is Redis reachable?
  metered,   \* messages sent in the counter's day by requests it counted
  guesses,   \* wrong codes compared with each row
  accepted,  \* how often each row's code was accepted
  exec

limits == <<cooldown, daily, dailyTtl, redis>>
vars == <<codes, created, cooldown, daily, dailyTtl, redis, metered, guesses,
          accepted, exec>>

Ids == 1..MaxCodes
CodeStates == {"live", "expired", "used", "deleted"}
Idle == [at |-> "idle", purpose |-> None, code |-> 0, flag |-> FALSE, counted |-> FALSE]

TypeOK ==
  /\ created \in 0..MaxCodes
  /\ codes \in [1..created -> [purpose: Purposes, state: CodeStates, attempts: Nat]]
  /\ cooldown \subseteq Purposes
  /\ daily \in 0..OTP_DAILY_CAP + 1
  /\ dailyTtl \in BOOLEAN /\ redis \in BOOLEAN
  /\ metered \in Nat
  /\ guesses \in [Ids -> Nat] /\ accepted \in [Ids -> Nat]
  /\ exec \in [Requests -> [
       at: {"idle", "count", "expire", "delete", "create", "send", "bounce", "compare"},
       purpose: Purposes \cup {None}, code: 0..MaxCodes, flag: BOOLEAN,
       counted: BOOLEAN]]
  /\ \A r \in Requests : exec[r].at = "compare" => exec[r].code \in 1..created

Init ==
  /\ codes = <<>> /\ created = 0
  /\ cooldown = {} /\ daily = 0 /\ dailyTtl = FALSE /\ redis = TRUE
  /\ metered = 0
  /\ guesses = [c \in Ids |-> 0] /\ accepted = [c \in Ids |-> 0]
  /\ exec = [r \in Requests |-> Idle]

At(r, step) == exec[r].at = step
Goto(r, step) == exec' = [exec EXCEPT ![r].at = step]
Return(r) == exec' = [exec EXCEPT ![r] = Idle]

\* The bound on codes: one is left for every request about to create one.
CodeLeft ==
  created + Cardinality({r \in Requests :
    exec[r].at \in {"count", "expire", "delete", "create"}}) < MaxCodes

----------------------------------------------------------------------------
\* issue, or ensureChallenge when the cooldown is over (ensure): set the
\* cooldown key if it is absent.  Without Redis the limits are skipped.
issue(r, p, ensure) ==
  /\ exec[r] = Idle /\ CodeLeft
  /\ redis => p \notin cooldown
  /\ cooldown' = IF redis THEN cooldown \cup {p} ELSE cooldown
  /\ exec' = [exec EXCEPT ![r] =
       [at |-> IF redis THEN "count" ELSE "delete", purpose |-> p, code |-> 0,
        flag |-> ensure, counted |-> FALSE]]
  /\ UNCHANGED <<codes, created, daily, dailyTtl, redis, metered, guesses, accepted>>

Saturated(n) == IF n > OTP_DAILY_CAP THEN OTP_DAILY_CAP + 1 ELSE n

\* Where a request goes once it knows its count.  Over the cap, issue refuses
\* and ensureChallenge sends the user to verification all the same.
AfterCount(r, n) ==
  IF n <= OTP_DAILY_CAP THEN exec' = [exec EXCEPT ![r].at = "delete", ![r].counted = TRUE]
  ELSE IF exec[r].flag THEN Goto(r, "bounce") ELSE Return(r)

\* incrWithTtl: INCR, and EXPIRE by the request that made the counter 1.
countDaily(r) ==
  /\ At(r, "count")
  /\ IF redis
     THEN /\ daily' = Saturated(daily + 1)
          /\ IF daily = 0 THEN Goto(r, "expire") ELSE AfterCount(r, daily')
     ELSE UNCHANGED daily /\ Goto(r, "delete")
  /\ UNCHANGED <<codes, created, cooldown, dailyTtl, redis, metered, guesses, accepted>>

expireDaily(r) ==
  /\ At(r, "expire")
  /\ dailyTtl' = IF redis /\ daily > 0 THEN TRUE ELSE dailyTtl
  /\ exec' = [exec EXCEPT ![r].at = "delete", ![r].counted = redis]
  /\ UNCHANGED <<codes, created, cooldown, daily, redis, metered, guesses, accepted>>

\* ensureChallenge's catch: the client is told a code was sent.
bounce(r) ==
  /\ At(r, "bounce") /\ Return(r)
  /\ UNCHANGED <<codes, created, limits, metered, guesses, accepted>>

deleteUnused(r) ==
  /\ At(r, "delete")
  /\ codes' = [c \in DOMAIN codes |->
       IF codes[c].purpose = exec[r].purpose /\ codes[c].state \in {"live", "expired"}
       THEN [codes[c] EXCEPT !.state = "deleted"] ELSE codes[c]]
  /\ Goto(r, "create")
  /\ UNCHANGED <<created, limits, metered, guesses, accepted>>

createCode(r) ==
  /\ At(r, "create")
  /\ created' = created + 1
  /\ codes' = [c \in 1..created' |-> IF c \in DOMAIN codes THEN codes[c]
       ELSE [purpose |-> exec[r].purpose, state |-> "live", attempts |-> 0]]
  /\ Goto(r, "send")
  /\ UNCHANGED <<limits, metered, guesses, accepted>>

sendOtp(r) ==
  /\ At(r, "send")
  /\ metered' = IF exec[r].counted THEN metered + 1 ELSE metered
  /\ Return(r)
  /\ UNCHANGED <<codes, created, limits, guesses, accepted>>

\* The newest code of the purpose that is neither used nor expired.
newest(p) ==
  LET live == {c \in DOMAIN codes : codes[c].purpose = p /\ codes[c].state = "live"}
  IN IF live = {} THEN 0 ELSE Max(live)

\* Mutant: the row that was not found is not refused.
verifyMissing(r, p, right) ==
  /\ exec[r] = Idle
  /\ exec' = [exec EXCEPT ![r] = [at |-> "compare", purpose |-> p,
       code |-> newest(p), flag |-> right, counted |-> FALSE]]
  /\ UNCHANGED <<codes, created, limits, metered, guesses, accepted>>

\* verify reads that row and gives up on one with too many attempts.  flag says
\* whether the code the user typed is the row's.
verify(r, p, right) ==
  LET c == newest(p) IN
  /\ exec[r] = Idle
  /\ c # 0 /\ codes[c].attempts < OTP_MAX_ATTEMPTS
  /\ exec' = [exec EXCEPT ![r] =
       [at |-> "compare", purpose |-> p, code |-> c, flag |-> right, counted |-> FALSE]]
  /\ UNCHANGED <<codes, created, limits, metered, guesses, accepted>>

\* Mutant: the attempt is not counted.
compareUncounted(r) ==
  LET c == exec[r].code
      ok == exec[r].flag /\ codes[c].state # "deleted" IN
  /\ At(r, "compare") /\ Return(r)
  /\ guesses' = IF exec[r].flag THEN guesses ELSE [guesses EXCEPT ![c] = @ + 1]
  /\ codes' = IF ok THEN [codes EXCEPT ![c].state = "used"] ELSE codes
  /\ accepted' = IF ok THEN [accepted EXCEPT ![c] = @ + 1] ELSE accepted
  /\ UNCHANGED <<created, limits, metered>>

\* It compares, and writes the row by its id: an update of a row deleted
\* meanwhile throws.
compare(r) ==
  LET c == exec[r].code
      gone == codes[c].state = "deleted" IN
  /\ At(r, "compare") /\ Return(r)
  /\ guesses' = IF exec[r].flag THEN guesses ELSE [guesses EXCEPT ![c] = @ + 1]
  /\ codes' = IF gone THEN codes
              ELSE IF exec[r].flag THEN [codes EXCEPT ![c].state = "used"]
              ELSE [codes EXCEPT ![c].attempts = @ + 1]
  /\ accepted' = IF exec[r].flag /\ ~gone THEN [accepted EXCEPT ![c] = @ + 1]
                 ELSE accepted
  /\ UNCHANGED <<created, limits, metered>>

\* Time passes: the cooldown, the day, a code's time to live.
CooldownEnds(p) ==
  /\ p \in cooldown
  /\ cooldown' = cooldown \ {p}
  /\ UNCHANGED <<codes, created, daily, dailyTtl, redis, metered, guesses, accepted, exec>>

\* No request is slower than a day: none is between its count and its message.
DayEnds ==
  /\ dailyTtl
  /\ \A r \in Requests : exec[r].at \notin {"expire", "delete", "create", "send"}
  /\ daily' = 0 /\ dailyTtl' = FALSE /\ metered' = 0
  /\ UNCHANGED <<codes, created, cooldown, redis, guesses, accepted, exec>>

CodeExpires(c) ==
  /\ c \in DOMAIN codes /\ codes[c].state = "live"
  /\ codes' = [codes EXCEPT ![c].state = "expired"]
  /\ UNCHANGED <<created, limits, metered, guesses, accepted, exec>>

RedisChanges ==
  /\ RedisFails
  /\ redis' = ~redis
  /\ UNCHANGED <<codes, created, cooldown, daily, dailyTtl, metered, guesses, accepted, exec>>

Continue(r) ==
  \/ countDaily(r) \/ expireDaily(r) \/ bounce(r) \/ deleteUnused(r)
  \/ createCode(r) \/ sendOtp(r) \/ compare(r)

Next ==
  \/ \E r \in Requests :
       \/ Continue(r)
       \/ \E p \in Purposes, b \in BOOLEAN : issue(r, p, b) \/ verify(r, p, b)
  \/ \E p \in Purposes : CooldownEnds(p)
  \/ \E c \in Ids : CodeExpires(c)
  \/ DayEnds \/ RedisChanges

\* Requests in flight go on, and keys with a time to live run out.
Spec ==
  /\ Init /\ [][Next]_vars
  /\ \A r \in Requests : WF_vars(Continue(r))
  /\ WF_vars(DayEnds)
----------------------------------------------------------------------------
\* However many requests overlap, at most the daily cap of messages is sent to
\* a phone by requests that could reach Redis, for all purposes together
\* (enforceRateLimits).
MeteredWithinCap == metered <= OTP_DAILY_CAP

\* Wrong codes tried on one row stop at the limit: only requests already past
\* the check when it is reached go over it (verify).
GuessesBounded ==
  \A c \in Ids : guesses[c] < OTP_MAX_ATTEMPTS + Cardinality(Requests)

\* A code that a newer one has replaced is not accepted any more, even by a
\* request that had read it before (issue's deleteMany, verify).
ReplacedNotAccepted ==
  [][\A c \in DOMAIN codes :
       codes[c].state = "deleted" => accepted'[c] = accepted[c]]_vars

\* A code is accepted once ("consumes it on success").
CodeConsumed == \A c \in Ids : accepted[c] <= 1

\* When a limit keeps ensureChallenge from sending a code, one the user can
\* enter exists ("a valid code already exists").
BounceHasCode == \A r \in Requests : At(r, "bounce") => newest(exec[r].purpose) # 0

\* A phone that has used up its day can be sent codes again some day ("Ertaga
\* urinib ko'ring": try tomorrow).
CapLifts == daily > OTP_DAILY_CAP ~> daily <= OTP_DAILY_CAP

-----------------------------------------------------------------------------
\* What the constants are: finitely many requests, and limits that are positive
\* (config/env.ts: int().positive()).
CodesAssumption ==
  /\ IsFiniteSet(Requests) /\ MaxCodes \in Nat
  /\ OTP_MAX_ATTEMPTS \in Nat \ {0} /\ OTP_DAILY_CAP \in Nat \ {0}

\* Where a request stands: before its code is created, between its count and
\* its message, between the check of code c and the comparison.
Creates(h) == h.at \in {"count", "expire", "delete", "create"}
Counts(h) == h.at = "expire" \/ (h.at \in {"delete", "create", "send"} /\ h.counted)
Checks(h, c) == h.at = "compare" /\ h.code = c

Creating == {r \in Requests : Creates(exec[r])}
Counted == {r \in Requests : Counts(exec[r])}
Checking(c) == {r \in Requests : Checks(exec[r], c)}

\* A request knows the purpose of the code it creates, and is not counted
\* before its count.
SenderOK(r) ==
  /\ Creates(exec[r]) => exec[r].purpose \in Purposes
  /\ exec[r].at = "count" => ~exec[r].counted

\* The messages sent, with those that counted requests are about to send.
MeterOK ==
  /\ metered + Cardinality(Counted) <= daily
  /\ metered + Cardinality(Counted) <= OTP_DAILY_CAP

\* A row that was not replaced has counted its wrong codes; those tried, with
\* those about to be, exceed the limit by the requests at most.
RowOK(c) ==
  /\ c > created => guesses[c] = 0
  /\ c <= created /\ codes[c].state # "deleted" => guesses[c] = codes[c].attempts
  /\ guesses[c] + Cardinality(Checking(c)) < OTP_MAX_ATTEMPTS + Cardinality(Requests)

\* The invariant that keeps the limits, and the bound on the codes.
CodesInv ==
  /\ \A r \in Requests : SenderOK(r)
  /\ MeterOK
  /\ \A c \in Ids : RowOK(c)
  /\ created + Cardinality(Creating) <= MaxCodes
=============================================================================
