----------------------------- MODULE LoginGuard -----------------------------
(***************************************************************************)
(* The brute-force guard of AuthService.login for one phone number: the    *)
(* Redis counter login:fail, read before the password is compared,         *)
(* incremented after a wrong one and deleted after the right one.  Redis   *)
(* calls may fail; the guard is then open.                                 *)
(***************************************************************************)
EXTENDS Naturals, FiniteSets

CONSTANTS
  Requests,
  LOGIN_MAX_ATTEMPTS,
  RedisFails     \* may a Redis call fail?

VARIABLES
  fails,      \* login:fail, 0: no key; saturated at MaxFails
  ttl,        \* does the key have a time to live?
  guesses,    \* wrong passwords compared while this key lived and Redis answered
  open,       \* has a Redis call failed since the key was created?
  at          \* where each login is

vars == <<fails, ttl, guesses, open, at>>

\* The bound on the counter: while Redis answers it exceeds the limit by the
\* logins in flight at most; what matters is only whether it is below the limit.
MaxFails == LOGIN_MAX_ATTEMPTS + Cardinality(Requests)

TypeOK ==
  /\ fails \in 0..MaxFails /\ ttl \in BOOLEAN
  /\ guesses \in Nat /\ open \in BOOLEAN
  /\ at \in [Requests -> {"idle", "compare", "increment", "expire", "clear"}]
  /\ ttl => fails > 0

Init ==
  /\ fails = 0 /\ ttl = FALSE /\ guesses = 0 /\ open = FALSE
  /\ at = [r \in Requests |-> "idle"]

Goto(r, step) == at' = [at EXCEPT ![r] = step]

enforceLoginRateLimit(r) ==
  /\ at[r] = "idle" /\ fails < LOGIN_MAX_ATTEMPTS
  /\ Goto(r, "compare")
  /\ UNCHANGED <<fails, ttl, guesses, open>>

\* A locked-out phone is refused before any password is compared.
refuseLogin(r) == at[r] = "idle" /\ fails >= LOGIN_MAX_ATTEMPTS /\ UNCHANGED vars

\* argon2.verify, then registerFailedLogin or clearFailedLogins.
comparePassword(r, right) ==
  /\ at[r] = "compare"
  /\ guesses' = IF right \/ open THEN guesses ELSE guesses + 1
  /\ Goto(r, IF right THEN "clear" ELSE "increment")
  /\ UNCHANGED <<fails, ttl, open>>

\* incrWithTtl: INCR, then EXPIRE by the request that made the counter 1.
registerFailedLogin(r) ==
  /\ at[r] = "increment"
  /\ fails' = IF fails < MaxFails THEN fails + 1 ELSE fails
  /\ Goto(r, IF fails = 0 THEN "expire" ELSE "idle")
  /\ UNCHANGED <<ttl, guesses, open>>

expire(r) ==
  /\ at[r] = "expire"
  /\ ttl' = (fails > 0)
  /\ Goto(r, "idle")
  /\ UNCHANGED <<fails, guesses, open>>

clearFailedLogins(r) ==
  /\ at[r] = "clear"
  /\ fails' = 0 /\ ttl' = FALSE /\ guesses' = 0 /\ open' = FALSE
  /\ Goto(r, "idle")

\* A Redis call fails: the exception is logged and the login goes on as if the
\* call had done its work.
RedisCallFails(r) ==
  /\ RedisFails
  /\ \/ at[r] = "idle" /\ fails >= LOGIN_MAX_ATTEMPTS /\ Goto(r, "compare")
     \/ at[r] \in {"increment", "expire", "clear"} /\ Goto(r, "idle")
  /\ open' = TRUE
  /\ UNCHANGED <<fails, ttl, guesses>>

LockoutEnds ==
  /\ ttl
  /\ fails' = 0 /\ ttl' = FALSE /\ guesses' = 0 /\ open' = FALSE
  /\ UNCHANGED at

Continue(r) ==
  \/ \E right \in BOOLEAN : comparePassword(r, right)
  \/ registerFailedLogin(r) \/ expire(r) \/ clearFailedLogins(r)

Next ==
  \/ \E r \in Requests : 
       enforceLoginRateLimit(r) \/ refuseLogin(r) \/ Continue(r) \/ RedisCallFails(r)
  \/ LockoutEnds

Spec ==
  /\ Init /\ [][Next]_vars
  /\ \A r \in Requests : WF_vars(Continue(r))
  /\ WF_vars(LockoutEnds)
----------------------------------------------------------------------------
\* While Redis answers, at most the limit of wrong passwords, plus the logins
\* already past the check, is compared with the stored hash before the phone
\* is locked out (enforceLoginRateLimit).
GuessesBounded ==
  ~open => guesses < LOGIN_MAX_ATTEMPTS + Cardinality(Requests)

\* A phone that is locked out is let in again some day (LOGIN_LOCKOUT_SECONDS).
LockoutLifts == fails >= LOGIN_MAX_ATTEMPTS ~> fails < LOGIN_MAX_ATTEMPTS

-----------------------------------------------------------------------------
\* What the constants are: finitely many requests, and a limit that is positive
\* (config/env.ts: int().positive()).
LoginAssumption == IsFiniteSet(Requests) /\ LOGIN_MAX_ATTEMPTS \in Nat \ {0}

Where(step) == {r \in Requests : at[r] = step}

\* While Redis answers, every wrong password compared has been counted or is
\* about to be, and the logins past the check exceed the limit by their number
\* at most.
LoginInv ==
  ~open =>
    /\ guesses <= fails + Cardinality(Where("increment"))
    /\ guesses + Cardinality(Where("compare")) < LOGIN_MAX_ATTEMPTS + Cardinality(Requests)
=============================================================================
