----------------------------- MODULE MCServices -----------------------------
(***************************************************************************)
(* The API's services beside the marketplace and the payments, for TLC.    *)
(* They share no row their properties depend on, so a behaviour explores   *)
(* one of them, its part, while the others rest in their initial states.   *)
(* Guarantee is extended, the others are instantiated; a variable that two *)
(* of them call by the same name is renamed.                               *)
(***************************************************************************)
EXTENDS Guarantee, TLC

CONSTANTS
  Parts,       \* the services explored
  Requests,    \* requests of one service that overlap
  Sessions,    \* session rows of the account
  OTP_MAX_ATTEMPTS, OTP_DAILY_CAP, LOGIN_MAX_ATTEMPTS,
  MaxPasswords, MaxCodes,
  TrialDays, MaxDay,
  StoredRatings, StoredJobs, MaxEvents   \* histories of the trust score

VARIABLES
  part,
  status, role, profiles, password, resetTo, referral, verified, sessions,
  lock, audits, exec, failed,
  codes, created, cooldown, daily, dailyTtl, redis, metered, tried, accepted,
  sending,
  fails, ttl, guesses, open, at,
  jobsDone, rating, cancelled, closed, taken, declined, points, checked,
  done, reviews, inserting, ratingFrom, complaints, tierFrom, posting,
  row, now, trial

A == INSTANCE AccountsProofs WITH
  MaxFailures <- 0, failures <- failed
F == INSTANCE AccountsProofs WITH
  Sessions <- {"only"}, failures <- failed
C == INSTANCE CodesProofs WITH
  Purposes <- {"SIGNUP", "RESET"}, RedisFails <- TRUE, guesses <- tried,
  exec <- sending
L == INSTANCE LoginGuard WITH RedisFails <- TRUE
T == INSTANCE TrustScore WITH
  Ratings <- StoredRatings, JobCounts <- StoredJobs, MaxCount <- MaxEvents,
  accepted <- taken, verified <- checked
R == INSTANCE ReputationProofs WITH Ratings <- {2, 3}, closed <- done, exec <- posting
S == INSTANCE Subscriptions WITH
  Callers <- Requests, call <- trial

\* What the theorems about these services assume of their constants.
ASSUME ServicesAssumption ==
  /\ A!AccountsAssumption /\ F!AccountsAssumption /\ C!CodesAssumption
  /\ L!LoginAssumption /\ R!ReputationAssumption /\ S!TrialAssumption
  /\ T!TrustAssumption

accountsVars ==
  <<status, role, profiles, password, resetTo, referral, verified, sessions,
    lock, audits, exec, failed>>
codesVars ==
  <<codes, created, cooldown, daily, dailyTtl, redis, metered, tried, accepted,
    sending>>
loginsVars == <<fails, ttl, guesses, open, at>>
trustVars == <<jobsDone, rating, cancelled, closed, taken, declined, points, checked>>
reviewsVars == <<done, reviews, inserting, ratingFrom, complaints, tierFrom, posting>>
trialVars == <<row, now, trial>>
all == <<part, vars, accountsVars, codesVars, loginsVars, trustVars, reviewsVars, trialVars>>

MCInit ==
  /\ part \in Parts
  /\ Init /\ (part # "guarantee" => paid = [o \in Orders |-> FALSE])
  /\ IF part = "accounts" THEN A!Init ELSE F!Init
  /\ C!Init /\ L!Init /\ R!Init /\ S!Init
  /\ T!Init /\ (part # "trust" => jobsDone = 0 /\ rating = 0)

MCNext ==
  \/ /\ part = "guarantee" /\ Next
     /\ UNCHANGED <<part, accountsVars, codesVars, loginsVars, trustVars, reviewsVars, trialVars>>
  \/ /\ part = "accounts" /\ A!Next
     /\ UNCHANGED <<part, vars, codesVars, loginsVars, trustVars, reviewsVars, trialVars>>
  \/ /\ part = "failing" /\ F!Next
     /\ UNCHANGED <<part, vars, codesVars, loginsVars, trustVars, reviewsVars, trialVars>>
  \/ /\ part = "codes" /\ C!Next
     /\ UNCHANGED <<part, vars, accountsVars, loginsVars, trustVars, reviewsVars, trialVars>>
  \/ /\ part = "logins" /\ L!Next
     /\ UNCHANGED <<part, vars, accountsVars, codesVars, trustVars, reviewsVars, trialVars>>
  \/ /\ part = "trust" /\ T!Next
     /\ UNCHANGED <<part, vars, accountsVars, codesVars, loginsVars, reviewsVars, trialVars>>
  \/ /\ part = "reviews" /\ R!Next
     /\ UNCHANGED <<part, vars, accountsVars, codesVars, loginsVars, trustVars, trialVars>>
  \/ /\ part = "trial" /\ S!Next
     /\ UNCHANGED <<part, vars, accountsVars, codesVars, loginsVars, trustVars, reviewsVars>>

MCSpec == MCInit /\ [][MCNext]_all

\* The fairness of the services whose liveness is checked.
FairSpec ==
  /\ MCSpec
  /\ \A c \in Decisions : WF_vars(part = "guarantee" /\ Step(c))
  /\ \A r \in Requests : WF_accountsVars(part = "failing" /\ F!Continue(r))
  /\ WF_accountsVars(part = "failing" /\ F!AccessTokenExpires("only"))

\* Every service's type invariant.
TypesOK ==
  /\ part = "guarantee" => TypeOK
  /\ part = "accounts" => A!TypeOK
  /\ part = "failing" => F!TypeOK
  /\ part = "codes" => C!TypeOK
  /\ part = "logins" => L!TypeOK
  /\ part = "reviews" => R!TypeOK
  /\ part = "trial" => S!TypeOK

\* A refresh token is exchanged once, however many refreshes, logouts and
\* resets of it overlap (consumeSession).
SingleUse == part = "accounts" => A!SingleUse

\* However requests overlap and whenever Redis is out of reach: no more codes
\* are sent and no more codes and passwords guessed than the limits allow
\* (enforceRateLimits, verify, enforceLoginRateLimit), and a code that a newer
\* one replaced is not accepted any more (issue).
LimitsHold ==
  /\ [](part = "codes" => C!MeteredWithinCap /\ C!GuessesBounded)
  /\ [](part = "logins" => L!GuessesBounded)
  /\ C!ReplacedNotAccepted

\* The score stays in its range, a heap of penalties costs one tier at most,
\* and no event moves the score the wrong way (computeTrustScore).
TrustScoreSound ==
  /\ [](part = "trust" => T!ScoreInRange /\ T!PenaltiesCostOneTier)
  /\ T!EventsMoveScoreRightWay

\* However often the review of an order is sent, the master is charged one
\* complaint for it at most, and for a low rating that is stored (recordEvent).
OneComplaintPerOrder == part = "reviews" => R!OneComplaintPerOrder

\* A suspension that stays ends every session (refresh, JwtAuthGuard).
SuspensionTakesEffect == F!SuspensionTakesEffect

\* When nothing fails, a suspension and the decision of a claim come to be in
\* the audit log (suspend, decideGuaranteeClaim).
AdminActionsAudited == F!SuspensionAudited /\ DecisionAudited

\* The interchangeable values of one service, swapped together with those of
\* another: as each behaviour explores one service, this loses nothing.
Together(X, Y) ==
  {p @@ q : p \in Permutations(X), q \in Permutations(Y)}
MCSymmetry ==
  {p \in Together(Requests, Decisions) :
     (\A r \in Requests : p[r] = r) <=> (\A d \in Decisions : p[d] = d)}
  \cup
  {p \in Together(Sessions, Orders) :
     (\A s \in Sessions : p[s] = s) <=> (\A o \in Orders : p[o] = o)}
=============================================================================
