----------------------------- MODULE Reputation -----------------------------
(***************************************************************************)
(* Reviews, penalties and the stored trust tier of one master              *)
(* (modules/reviews, modules/penalties, modules/trust).                    *)
(*                                                                         *)
(* What matters of a stored aggregate is which rows it was computed from:  *)
(* ratingAvg is represented by the set of orders whose reviews it          *)
(* averages, trustTier by the facts its score was computed from.  Postgres *)
(* runs transactions at READ COMMITTED: a statement sees what others have  *)
(* committed, and its own transaction's rows.  The notification a penalty  *)
(* ends with is left out.                                                  *)
(***************************************************************************)
EXTENDS Naturals, FiniteSets

CONSTANTS
  Orders,     \* the master's orders
  Ratings,    \* the ratings customers give, of 1..5
  Requests,   \* API requests that may be in flight at the same time
  None

COMPLAINT_RATING_THRESHOLD == 2

VARIABLES
  closed,       \* orders that are CLOSED (and counted in jobsDone)
  reviews,      \* reviews.rating per order, 0: no row committed
  inserting,    \* the review a transaction has inserted and not committed
  ratingFrom,   \* the orders ratingAvg was computed from
  complaints,   \* CUSTOMER_COMPLAINT records per order
  tierFrom,     \* the facts trustTier was computed from
  exec

vars == <<closed, reviews, inserting, ratingFrom, complaints, tierFrom, exec>>

Reviewed == {o \in Orders : reviews[o] # 0}
Penalised == {o \in Orders : complaints[o] > 0}
Facts(rated, jobs, penalised) == [rated |-> rated, jobs |-> jobs, penalised |-> penalised]
NoFacts == Facts({}, {}, {})

Idle == [at |-> "idle", o |-> None, rating |-> 0, saw |-> NoFacts]
Steps == {"idle", "insert", "aggregate", "update", "penalise", "profile",
          "counts", "tier"}

AllFacts == [rated: SUBSET Orders, jobs: SUBSET Orders, penalised: SUBSET Orders]

TypeOK ==
  /\ closed \subseteq Orders
  /\ reviews \in [Orders -> Ratings \cup {0}]
  /\ inserting \in [Orders -> Requests \cup {None}]
  /\ ratingFrom \subseteq Reviewed
  /\ complaints \in [Orders -> Nat]
  /\ tierFrom \in AllFacts
  /\ exec \in [Requests -> [at: Steps, o: Orders \cup {None},
                            rating: Ratings \cup {0}, saw: AllFacts]]

Init ==
  /\ closed = {} /\ ratingFrom = {} /\ tierFrom = NoFacts
  /\ reviews = [o \in Orders |-> 0]
  /\ inserting = [o \in Orders |-> None]
  /\ complaints = [o \in Orders |-> 0]
  /\ exec = [r \in Requests |-> Idle]

At(r, step) == exec[r].at = step
Goto(r, step) == exec' = [exec EXCEPT ![r].at = step]
Saw(r, step, facts) == exec' = [exec EXCEPT ![r].at = step, ![r].saw = facts]
Return(r) == exec' = [exec EXCEPT ![r] = Idle]

----------------------------------------------------------------------------
\* confirmCompletion closes the order and then recomputes the trust tier.
closeOrder(r, o) ==
  /\ exec[r] = Idle /\ o \notin closed
  /\ closed' = closed \cup {o}
  /\ Goto(r, "profile")
  /\ UNCHANGED <<reviews, inserting, ratingFrom, complaints, tierFrom>>

\* ReviewsService.create: the order is CLOSED and has no review yet.
createReview(r, o, rating) ==
  /\ exec[r] = Idle /\ o \in closed /\ reviews[o] = 0
  /\ exec' = [exec EXCEPT ![r] = [at |-> "insert", o |-> o, rating |-> rating, saw |-> NoFacts]]
  /\ UNCHANGED <<closed, reviews, inserting, ratingFrom, complaints, tierFrom>>

\* Mutant: reviews.orderId is not unique.
insertReviewTwice(r) ==
  /\ At(r, "insert")
  /\ inserting' = [inserting EXCEPT ![exec[r].o] = r]
  /\ Goto(r, "aggregate")
  /\ UNCHANGED <<closed, reviews, ratingFrom, complaints, tierFrom>>

\* The insert waits for a transaction inserting a review of the same order, and
\* fails when one is there.
insertReview(r) ==
  LET o == exec[r].o IN
  /\ At(r, "insert") /\ inserting[o] = None
  /\ IF reviews[o] # 0
     THEN UNCHANGED inserting /\ Return(r)
     ELSE /\ inserting' = [inserting EXCEPT ![o] = r]
          /\ Goto(r, "aggregate")
  /\ UNCHANGED <<closed, reviews, ratingFrom, complaints, tierFrom>>

\* The average of the reviews committed so far and of the transaction's own.
aggregate(r) ==
  /\ At(r, "aggregate")
  /\ Saw(r, "update", Facts(Reviewed \cup {exec[r].o}, {}, {}))
  /\ UNCHANGED <<closed, reviews, inserting, ratingFrom, complaints, tierFrom>>

\* The profile is updated and the transaction commits.
updateRating(r) ==
  LET e == exec[r] IN
  /\ At(r, "update")
  /\ reviews' = [reviews EXCEPT ![e.o] = e.rating]
  /\ inserting' = [inserting EXCEPT ![e.o] = None]
  /\ ratingFrom' = e.saw.rated
  /\ Goto(r, IF e.rating <= COMPLAINT_RATING_THRESHOLD THEN "penalise" ELSE "profile")
  /\ UNCHANGED <<closed, complaints, tierFrom>>

\* PenaltiesService.recordEvent: the record, then the trust tier.
recordComplaint(r) ==
  /\ At(r, "penalise")
  /\ complaints' = [complaints EXCEPT ![exec[r].o] = @ + 1]
  /\ Goto(r, "profile")
  /\ UNCHANGED <<closed, reviews, inserting, ratingFrom, tierFrom>>

\* computeTrustScore reads the profile first, the counts after it; ...
readProfile(r) ==
  /\ At(r, "profile")
  /\ Saw(r, "counts", Facts(ratingFrom, closed, {}))
  /\ UNCHANGED <<closed, reviews, inserting, ratingFrom, complaints, tierFrom>>

readCounts(r) ==
  /\ At(r, "counts")
  /\ Saw(r, "tier", Facts(exec[r].saw.rated, exec[r].saw.jobs, Penalised))
  /\ UNCHANGED <<closed, reviews, inserting, ratingFrom, complaints, tierFrom>>

\* ... recomputeTrustTier writes what comes out.
recomputeTrustTier(r) ==
  /\ At(r, "tier")
  /\ tierFrom' = exec[r].saw
  /\ Return(r)
  /\ UNCHANGED <<closed, reviews, inserting, ratingFrom, complaints>>

Continue(r) ==
  \/ insertReview(r) \/ aggregate(r) \/ updateRating(r) \/ recordComplaint(r)
  \/ readProfile(r) \/ readCounts(r) \/ recomputeTrustTier(r)

\* When every order is closed and reviewed, nothing more happens to the master.
Done ==
  /\ Reviewed = Orders /\ \A r \in Requests : exec[r] = Idle
  /\ UNCHANGED vars

Next ==
  \/ Done
  \/ \E r \in Requests :
       \/ Continue(r)
       \/ \E o \in Orders :
            closeOrder(r, o) \/ \E rating \in Ratings : createReview(r, o, rating)

Spec == Init /\ [][Next]_vars
----------------------------------------------------------------------------
Quiet == \A r \in Requests : exec[r] = Idle

\* However often the customer's review of an order is sent, the master is
\* charged at most one complaint for it, and only for a low rating that is
\* stored (create, recordEvent).
OneComplaintPerOrder ==
  \A o \in Orders :
    /\ complaints[o] <= 1
    /\ complaints[o] = 1 => reviews[o] \in 1..COMPLAINT_RATING_THRESHOLD

\* Between requests ratingAvg is the average of all the master's reviews
\* ("real data source for MasterProfile.ratingAvg").
RatingComplete == Quiet => ratingFrom = Reviewed

\* Between requests the stored tier is the one his jobs, rating and penalties
\* give ("The rule IS clear: it's this function, run at well-defined trigger
\* points").
TierCurrent == Quiet => tierFrom = Facts(ratingFrom, closed, Penalised)
----------------------------------------------------------------------------
\* Stars are 1..5, so that 0 stands for no review; None is null.
ReputationAssumption == Ratings \subseteq 1..5 /\ None \notin Requests

\* From its insert on, a request knows its order and rating; while it has a
\* review inserted that is not committed, the order has no other and none was
\* committed; about to penalise, it has committed a low one and no complaint was
\* recorded for it.
RequestOK(r) ==
  LET e == exec[r] IN
  /\ e.at \in {"insert", "aggregate", "update", "penalise"} =>
       e.o \in Orders /\ e.rating \in Ratings
  /\ e.at \in {"aggregate", "update"} => inserting[e.o] = r /\ reviews[e.o] = 0
  /\ e.at = "update" => e.saw.rated \subseteq Reviewed \cup {e.o}
  /\ e.at = "penalise" =>
       /\ reviews[e.o] = e.rating /\ e.rating <= COMPLAINT_RATING_THRESHOLD
       /\ complaints[e.o] = 0

\* No two requests are about to penalise one order.
OnePenalising ==
  \A r, q \in Requests :
    At(r, "penalise") /\ At(q, "penalise") /\ exec[r].o = exec[q].o => r = q

OrderOK(o) ==
  /\ inserting[o] # None =>
       exec[inserting[o]].at \in {"aggregate", "update"} /\ exec[inserting[o]].o = o
  /\ complaints[o] <= 1
  /\ complaints[o] = 1 => reviews[o] \in 1..COMPLAINT_RATING_THRESHOLD

\* The inductive invariant behind OneComplaintPerOrder and the types.
ReputationInv ==
  /\ \A r \in Requests : RequestOK(r)
  /\ OnePenalising
  /\ \A o \in Orders : OrderOK(o)
=============================================================================
