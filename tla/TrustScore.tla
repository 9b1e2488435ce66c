----------------------------- MODULE TrustScore -----------------------------
(***************************************************************************)
(* The trust score of a master (modules/trust): the formula of             *)
(* computeTrustScore over exact integers, and the events of his history    *)
(* that move its inputs.  Ratings are hundredths, as in the Decimal(3, 2)  *)
(* column; a quotient is kept over its denominator until Math.round.       *)
(***************************************************************************)
EXTENDS Integers

CONSTANTS
  Ratings,    \* values ratingAvg may take, in hundredths
  JobCounts,  \* values jobsDone may start from
  MaxCount    \* bound on each of the counted events

VARIABLES jobsDone, rating, cancelled, closed, accepted, declined, points, verified
vars == <<jobsDone, rating, cancelled, closed, accepted, declined, points, verified>>

TRUST_WEIGHTS == [jobsDone |-> 30, rating |-> 25, responseRate |-> 15,
                  cancellationRate |-> 15, verification |-> 15]
JOBS_DONE_CAP == 50
MAX_PENALTY_DEDUCTION == 20
TRUST_TIER_THRESHOLDS == {40, 60, 80}
PENALTY_RULES == [CANCELLATION |-> 10, NO_SHOW |-> 20, LATE_RESPONSE |-> 3,
                  POOR_QUALITY |-> 8, CUSTOMER_COMPLAINT |-> 5]

atMost(n, cap) == IF n < cap THEN n ELSE cap
atLeast(n, floor) == IF n > floor THEN n ELSE floor

\* Math.round(n / d) for a positive d.
round(n, d) == (2 * n + d) \div (2 * d)

scoreToTier(score) ==
  (IF score >= 40 THEN 1 ELSE 0) + (IF score >= 60 THEN 1 ELSE 0)
    + (IF score >= 80 THEN 1 ELSE 0)

\* part / whole, or what the code takes when nothing has been counted.
over(part, whole, ifNone) == IF whole = 0 THEN <<ifNone, 1>> ELSE <<part, whole>>

\* Mutant: the rate of cancellations where its complement belongs.
keptRateInverted == over(cancelled, cancelled + closed, 1)

keptRate == over(closed, cancelled + closed, 1)
responseRate == over(accepted, accepted + declined, 1)

\* rawScore over the common denominator of its fractions.
rawDenominator == JOBS_DONE_CAP * 500 * keptRate[2] * responseRate[2]
rawScore ==
  LET W == TRUST_WEIGHTS
      D == rawDenominator IN
    W.jobsDone * atMost(jobsDone, JOBS_DONE_CAP) * (D \div JOBS_DONE_CAP)
    + W.rating * rating * (D \div 500)
    + W.responseRate * responseRate[1] * (D \div responseRate[2])
    + W.cancellationRate * keptRate[1] * (D \div keptRate[2])
    + (IF verified THEN W.verification * D ELSE 0)

penaltyDeduction(p) == atMost(p, MAX_PENALTY_DEDUCTION)

scoreWith(p) ==
  atLeast(0, atMost(100,
    round(rawScore - penaltyDeduction(p) * rawDenominator, rawDenominator)))

computeTrustScore == scoreWith(points)

----------------------------------------------------------------------------
Init ==
  /\ jobsDone \in JobCounts /\ rating \in Ratings
  /\ cancelled = 0 /\ closed = 0 /\ accepted = 0 /\ declined = 0 /\ points = 0
  /\ verified = FALSE

history == <<cancelled, closed, accepted, declined>>

\* confirmCompletion closes an order and counts the job.
CloseJob ==
  /\ closed < MaxCount
  /\ closed' = closed + 1 /\ jobsDone' = jobsDone + 1
  /\ UNCHANGED <<rating, cancelled, accepted, declined, points, verified>>

\* The master backs out, and is penalised.
CancelJob ==
  /\ cancelled < MaxCount
  /\ cancelled' = cancelled + 1 /\ points' = points + PENALTY_RULES["CANCELLATION"]
  /\ UNCHANGED <<jobsDone, rating, closed, accepted, declined, verified>>

AcceptOffer ==
  /\ accepted < MaxCount /\ accepted' = accepted + 1
  /\ UNCHANGED <<jobsDone, rating, cancelled, closed, declined, points, verified>>

\* An offer is declined, or runs out and counts as a late response too.
MissOffer(late) ==
  /\ declined < MaxCount /\ declined' = declined + 1
  /\ points' = IF late THEN points + PENALTY_RULES["LATE_RESPONSE"] ELSE points
  /\ UNCHANGED <<jobsDone, rating, cancelled, closed, accepted, verified>>

\* A penalty grows older than PENALTY_LOOKBACK_DAYS.
PenaltyLapses ==
  /\ points > 0
  /\ \E e \in DOMAIN PENALTY_RULES : points' = atLeast(0, points - PENALTY_RULES[e])
  /\ UNCHANGED <<jobsDone, rating, history, verified>>

Verified ==
  /\ ~verified /\ verified' = TRUE
  /\ UNCHANGED <<jobsDone, rating, history, points>>

Next ==
  CloseJob \/ CancelJob \/ AcceptOffer \/ PenaltyLapses \/ Verified
    \/ \E late \in BOOLEAN : MissOffer(late)

Spec == Init /\ [][Next]_vars
----------------------------------------------------------------------------
\* The score is within 0..100 and the tier within 0..3, the highest tier being
\* reached exactly from the highest threshold on (scoreToTier).
ScoreInRange ==
  /\ computeTrustScore \in 0..100
  /\ scoreToTier(computeTrustScore) \in 0..3
  /\ \A t \in TRUST_TIER_THRESHOLDS : scoreToTier(t) = scoreToTier(t - 1) + 1

\* However many points a master has racked up, they cost him at most one tier
\* and never take the score below what it is without them less the maximum
\* (MAX_PENALTY_DEDUCTION).
PenaltiesCostOneTier ==
  /\ scoreToTier(computeTrustScore) >= scoreToTier(scoreWith(0)) - 1
  /\ computeTrustScore >= scoreWith(0) - MAX_PENALTY_DEDUCTION

\* Doing well never lowers the score and doing badly never raises it, whatever
\* the history before: the factors, their defaults for an empty history and the
\* rounding all move the right way (computeTrustScore).
EventsMoveScoreRightWay ==
  [][/\ CloseJob \/ AcceptOffer \/ PenaltyLapses \/ Verified =>
          computeTrustScore' >= computeTrustScore
     /\ CancelJob \/ (\E late \in BOOLEAN : MissOffer(late)) =>
          computeTrustScore' <= computeTrustScore]_vars

----------------------------------------------------------------------------
(* What the theorems assume of the constants, and the inductive invariant. *)

TrustAssumption == Ratings \subseteq 0..500 /\ JobCounts \subseteq Nat /\ MaxCount \in Nat

TrustInv ==
  /\ jobsDone \in Nat /\ rating \in 0..500
  /\ cancelled \in Nat /\ closed \in Nat /\ accepted \in Nat /\ declined \in Nat /\ points \in Nat
  /\ verified \in BOOLEAN
=============================================================================
