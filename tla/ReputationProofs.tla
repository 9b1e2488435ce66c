--------------------------- MODULE ReputationProofs ---------------------------
(***************************************************************************)
(* The reviews of a master, for any orders, ratings and requests in        *)
(* flight: the types, and one complaint per order at most, for a low       *)
(* rating that is stored.                                                  *)
(***************************************************************************)
EXTENDS Reputation, TLAPS

Handlers == [at: Steps, o: Orders \cup {None}, rating: Ratings \cup {0}, saw: AllFacts]
inserter == {"aggregate", "update"}

\* What a request that moves on is seen as: its new state h, the others' old.
Becomes(r, h) == /\ exec' \in [Requests -> Handlers] /\ exec'[r] = h
                 /\ \A q \in Requests : q # r => exec'[q] = exec[q]

\* A request that starts, goes on or returns changes its own state alone.
LEMMA Moves ==
  ASSUME TypeOK, NEW r \in Requests, NEW h \in Handlers, exec' = [exec EXCEPT ![r] = h]
  PROVE  Becomes(r, h)
BY DEF TypeOK, Becomes, Handlers

\* No row, no facts: what the first states and idle requests hold.
LEMMA Empty == NoFacts \in AllFacts /\ Idle \in Handlers /\ Idle.at = "idle"
BY DEF NoFacts, Facts, AllFacts, Idle, Handlers, Steps

\* The first states have the types and the invariant.
LEMMA InitOK == ReputationAssumption /\ Init => TypeOK /\ ReputationInv
<1> SUFFICES ASSUME ReputationAssumption, Init PROVE TypeOK /\ ReputationInv OBVIOUS
<1>1. TypeOK
  <2>1. exec \in [Requests -> Handlers]
    BY Empty DEF Init
  <2>2. /\ reviews \in [Orders -> Ratings \cup {0}] /\ inserting \in [Orders -> Requests \cup {None}]
        /\ complaints \in [Orders -> Nat]
    BY DEF Init
  <2> QED BY <2>1, <2>2, Empty DEF Init, TypeOK, Handlers
<1>2. \A r \in Requests : RequestOK(r) /\ exec[r].at = "idle"
  BY Empty DEF Init, RequestOK
<1>3. \A o \in Orders : OrderOK(o)
  BY DEF Init, OrderOK
<1> QED BY <1>1, <1>2, <1>3 DEF ReputationInv, OnePenalising, At

-----------------------------------------------------------------------------
(* Steps that write neither a review nor a complaint.                      *)

\* Such a step keeps the invariant, when the request is in order after it and
\* still holds the insert it held.
LEMMA Unwritten ==
  ASSUME ReputationAssumption, TypeOK, ReputationInv, NEW r \in Requests, NEW h \in Handlers,
         Becomes(r, h), UNCHANGED <<reviews, inserting, complaints>>,
         exec[r].at \in inserter => h.at \in inserter /\ h.o = exec[r].o,
         h.at \in inserter => exec[r].at \in inserter,
         h.at = "insert" => h.o \in Orders /\ h.rating \in Ratings,
         h.at \in inserter => h.rating = exec[r].rating,
         h.at = "update" => h.saw.rated \subseteq Reviewed \cup {h.o},
         h.at # "penalise"
  PROVE  ReputationInv'
<1> USE DEF inserter
<1>0. Reviewed' = Reviewed
  BY DEF Reviewed
<1>1. ASSUME NEW q \in Requests PROVE RequestOK(q)'
  <2>1. CASE q = r
    <3>1. h.at \in inserter => /\ h.o \in Orders /\ h.rating \in Ratings
                               /\ inserting[h.o] = r /\ reviews[h.o] = 0
      BY DEF ReputationInv, RequestOK
    <3> QED BY <1>0, <2>1, <3>1 DEF Becomes, RequestOK
  <2>2. CASE q # r
    BY <1>0, <2>2 DEF Becomes, RequestOK, ReputationInv
  <2> QED BY <2>1, <2>2
<1>2. OnePenalising'
  BY DEF Becomes, ReputationInv, OnePenalising, At
<1>3. ASSUME NEW o \in Orders PROVE OrderOK(o)'
  <2>1. OrderOK(o) /\ inserting[o] \in Requests \cup {None}
    BY DEF ReputationInv, TypeOK
  <2> QED BY <2>1 DEF Becomes, OrderOK
<1> QED BY <1>1, <1>2, <1>3 DEF ReputationInv

\* Orders are closed, reviews begun, and the aggregates read and written.
LEMMA UnwrittenKeeps ==
  ASSUME ReputationAssumption, TypeOK, ReputationInv, NEW r \in Requests
  PROVE  \/ \E o \in Orders : closeOrder(r, o) \/ \E rating \in Ratings : createReview(r, o, rating)
         \/ aggregate(r) \/ readProfile(r) \/ readCounts(r) \/ recomputeTrustTier(r)
         => TypeOK' /\ ReputationInv'
<1> USE Empty DEF inserter, At
<1>0. exec[r] \in Handlers /\ exec \in [Requests -> Handlers] /\ Reviewed \subseteq Orders /\ Penalised \subseteq Orders
  BY DEF TypeOK, Handlers, Reviewed, Penalised
<1>1. ASSUME NEW o \in Orders, closeOrder(r, o) PROVE TypeOK' /\ ReputationInv'
  <2> DEFINE h == [exec[r] EXCEPT !.at = "profile"]
  <2>1. h \in Handlers /\ exec' = [exec EXCEPT ![r] = h] /\ UNCHANGED <<reviews, inserting, complaints>>
        /\ exec[r].at = "idle" /\ h.at = "profile"
    BY <1>0, <1>1 DEF closeOrder, Goto, Handlers, Steps
  <2> HIDE DEF h
  <2>2. Becomes(r, h)
    BY <2>1, Moves
  <2>3. ReputationInv'
    BY <2>1, <2>2, Unwritten
  <2> QED BY <1>1, <2>2, <2>3 DEF TypeOK, Becomes, Handlers, closeOrder, Reviewed
<1>2. ASSUME NEW o \in Orders, NEW rating \in Ratings, createReview(r, o, rating) PROVE TypeOK' /\ ReputationInv'
  <2> DEFINE h == [at |-> "insert", o |-> o, rating |-> rating, saw |-> NoFacts]
  <2>1. h \in Handlers /\ exec' = [exec EXCEPT ![r] = h] /\ UNCHANGED <<reviews, inserting, complaints>>
        /\ exec[r].at = "idle" /\ h.at = "insert" /\ h.o = o /\ h.rating = rating
    BY <1>2 DEF createReview, Handlers, Steps
  <2> HIDE DEF h
  <2>2. Becomes(r, h)
    BY <2>1, Moves
  <2>3. ReputationInv'
    BY <2>1, <2>2, Unwritten
  <2> QED BY <1>2, <2>2, <2>3 DEF TypeOK, Becomes, Handlers, createReview, Reviewed
<1>3. ASSUME aggregate(r) PROVE TypeOK' /\ ReputationInv'
  <2> DEFINE F == Facts(Reviewed \cup {exec[r].o}, {}, {})
             h == [exec[r] EXCEPT !.at = "update", !.saw = F]
  <2>0. exec[r].o \in Orders
    BY <1>3 DEF aggregate, ReputationInv, RequestOK
  <2>1. F \in AllFacts /\ F.rated = Reviewed \cup {exec[r].o}
    BY <1>0, <2>0 DEF Facts, AllFacts
  <2>2. exec' = [exec EXCEPT ![r].at = "update", ![r].saw = F] /\ UNCHANGED <<reviews, inserting, complaints>>
        /\ exec[r].at = "aggregate"
    BY <1>3 DEF aggregate, Saw
  <2> HIDE DEF F
  <2>3. h \in Handlers /\ exec' = [exec EXCEPT ![r] = h]
        /\ h.at = "update" /\ h.saw = F /\ h.o = exec[r].o /\ h.rating = exec[r].rating
    BY <1>0, <2>1, <2>2 DEF Handlers, Steps
  <2> HIDE DEF h
  <2>4. Becomes(r, h)
    BY <2>3, Moves
  <2>5. ReputationInv'
    BY <2>1, <2>2, <2>3, <2>4, Unwritten
  <2> QED BY <1>3, <2>4, <2>5 DEF TypeOK, Becomes, Handlers, aggregate, Reviewed
<1>4. ASSUME readProfile(r) PROVE TypeOK' /\ ReputationInv'
  <2> DEFINE F == Facts(ratingFrom, closed, {})
             h == [exec[r] EXCEPT !.at = "counts", !.saw = F]
  <2>1. F \in AllFacts
    BY <1>0 DEF Facts, AllFacts, TypeOK
  <2>2. exec' = [exec EXCEPT ![r].at = "counts", ![r].saw = F] /\ UNCHANGED <<reviews, inserting, complaints>>
        /\ exec[r].at = "profile"
    BY <1>4 DEF readProfile, Saw
  <2> HIDE DEF F
  <2>3. h \in Handlers /\ exec' = [exec EXCEPT ![r] = h] /\ h.at = "counts"
    BY <1>0, <2>1, <2>2 DEF Handlers, Steps
  <2> HIDE DEF h
  <2>4. Becomes(r, h)
    BY <2>3, Moves
  <2>5. ReputationInv'
    BY <2>2, <2>3, <2>4, Unwritten
  <2> QED BY <1>4, <2>4, <2>5 DEF TypeOK, Becomes, Handlers, readProfile, Reviewed
<1>5. ASSUME readCounts(r) PROVE TypeOK' /\ ReputationInv'
  <2> DEFINE F == Facts(exec[r].saw.rated, exec[r].saw.jobs, Penalised)
             h == [exec[r] EXCEPT !.at = "tier", !.saw = F]
  <2>1. F \in AllFacts
    BY <1>0 DEF Facts, AllFacts, Handlers
  <2>2. exec' = [exec EXCEPT ![r].at = "tier", ![r].saw = F] /\ UNCHANGED <<reviews, inserting, complaints>>
        /\ exec[r].at = "counts"
    BY <1>5 DEF readCounts, Saw
  <2> HIDE DEF F
  <2>3. h \in Handlers /\ exec' = [exec EXCEPT ![r] = h] /\ h.at = "tier"
    BY <1>0, <2>1, <2>2 DEF Handlers, Steps
  <2> HIDE DEF h
  <2>4. Becomes(r, h)
    BY <2>3, Moves
  <2>5. ReputationInv'
    BY <2>2, <2>3, <2>4, Unwritten
  <2> QED BY <1>5, <2>4, <2>5 DEF TypeOK, Becomes, Handlers, readCounts, Reviewed
<1>6. ASSUME recomputeTrustTier(r) PROVE TypeOK' /\ ReputationInv'
  <2>1. exec' = [exec EXCEPT ![r] = Idle] /\ UNCHANGED <<reviews, inserting, complaints>> /\ exec[r].at = "tier"
    BY <1>6 DEF recomputeTrustTier, Return
  <2>2. Becomes(r, Idle)
    BY <2>1, Moves
  <2>3. ReputationInv'
    BY <2>1, <2>2, Unwritten
  <2> QED BY <1>0, <1>6, <2>2, <2>3 DEF TypeOK, Becomes, Handlers, recomputeTrustTier, Reviewed
<1> QED BY <1>1, <1>2, <1>3, <1>4, <1>5, <1>6

-----------------------------------------------------------------------------
(* The review's transaction, and the complaint.                            *)

\* The insert is alone: the order has no review, committed or not.
LEMMA InsertKeeps ==
  ASSUME ReputationAssumption, TypeOK, ReputationInv, NEW r \in Requests, insertReview(r)
  PROVE  TypeOK' /\ ReputationInv'
<1> USE Empty DEF At
<1> DEFINE o == exec[r].o
<1>0. exec[r] \in Handlers /\ exec[r].at = "insert" /\ o \in Orders /\ exec[r].rating \in Ratings /\ inserting[o] = None
  BY DEF insertReview, ReputationInv, RequestOK, TypeOK, Handlers
<1>1. CASE reviews[o] # 0
  <2>1. exec' = [exec EXCEPT ![r] = Idle] /\ UNCHANGED <<reviews, inserting, complaints>>
    BY <1>1 DEF insertReview, Return
  <2>2. Becomes(r, Idle)
    BY <2>1, Moves
  <2>3. ReputationInv'
    BY <1>0, <2>1, <2>2, Unwritten DEF inserter
  <2> QED BY <2>1, <2>2, <2>3 DEF TypeOK, Becomes, Handlers, insertReview, Reviewed
<1>2. CASE reviews[o] = 0
  <2> DEFINE h == [exec[r] EXCEPT !.at = "aggregate"]
  <2>1. /\ h \in Handlers /\ exec' = [exec EXCEPT ![r] = h]
        /\ h.at = "aggregate" /\ h.o = o /\ h.rating = exec[r].rating
    BY <1>0, <1>2 DEF insertReview, Goto, Handlers, Steps, TypeOK
  <2>2. /\ inserting' \in [Orders -> Requests \cup {None}] /\ inserting'[o] = r
        /\ \A p \in Orders : p # o => inserting'[p] = inserting[p]
        /\ UNCHANGED <<reviews, complaints>>
    BY <1>0, <1>2 DEF insertReview, TypeOK
  <2> HIDE DEF h
  <2>3. Becomes(r, h)
    BY <2>1, Moves
  <2> HIDE DEF o
  <2>4. ASSUME NEW q \in Requests PROVE RequestOK(q)'
    <3>0. Reviewed' = Reviewed
      BY <2>2 DEF Reviewed
    <3>1. CASE q = r
      BY <1>0, <1>2, <2>1, <2>2, <2>3, <3>1 DEF Becomes, RequestOK
    <3>2. CASE q # r
      <4>1. RequestOK(q) /\ (exec[q].at \in {"aggregate", "update"} => exec[q].o # o)
        BY <1>0 DEF ReputationInv, RequestOK, ReputationAssumption
      <4> QED BY <2>2, <2>3, <3>0, <3>2, <4>1 DEF Becomes, RequestOK
    <3> QED BY <3>1, <3>2
  <2>5. OnePenalising'
    BY <2>1, <2>3 DEF Becomes, ReputationInv, OnePenalising
  <2>6. ASSUME NEW p \in Orders PROVE OrderOK(p)'
    <3>1. OrderOK(p) /\ inserting[p] \in Requests \cup {None} /\ inserting[p] # r
      BY <1>0 DEF ReputationInv, TypeOK, OrderOK, ReputationAssumption
    <3>2. CASE p = o
      BY <2>1, <2>2, <2>3, <3>1, <3>2 DEF Becomes, OrderOK
    <3>3. CASE p # o
      BY <2>1, <2>2, <2>3, <3>1, <3>3 DEF Becomes, OrderOK
    <3> QED BY <3>2, <3>3
  <2> QED BY <2>2, <2>3, <2>4, <2>5, <2>6 DEF ReputationInv, TypeOK, Becomes, Handlers, insertReview, Reviewed
<1> QED BY <1>1, <1>2


\* The commit: the first review of its order, so no complaint is recorded or
\* about to be.
LEMMA UpdateKeeps ==
  ASSUME ReputationAssumption, TypeOK, ReputationInv, NEW r \in Requests, updateRating(r)
  PROVE  TypeOK' /\ ReputationInv'
<1> USE DEF At
<1> DEFINE e == exec[r]
           h == [e EXCEPT !.at = IF e.rating <= COMPLAINT_RATING_THRESHOLD THEN "penalise" ELSE "profile"]
<1>1. /\ e \in Handlers /\ e.at = "update" /\ e.o \in Orders /\ e.rating \in Ratings /\ e.rating \in 1..5
      /\ inserting[e.o] = r /\ reviews[e.o] = 0 /\ e.saw.rated \subseteq Reviewed \cup {e.o}
      /\ complaints[e.o] = 0 /\ complaints \in [Orders -> Nat]
  <2>1. e \in Handlers /\ e.at = "update" /\ RequestOK(r)
    BY DEF updateRating, TypeOK, Handlers, ReputationInv
  <2>2. e.o \in Orders /\ e.rating \in Ratings /\ inserting[e.o] = r /\ reviews[e.o] = 0 /\ e.saw.rated \subseteq Reviewed \cup {e.o}
    BY <2>1 DEF RequestOK
  <2>3. OrderOK(e.o) /\ complaints[e.o] \in Nat
    BY <2>2 DEF ReputationInv, TypeOK
  <2>4. complaints[e.o] = 0
    BY <2>2, <2>3 DEF OrderOK, COMPLAINT_RATING_THRESHOLD
  <2>5. e.rating \in 1..5
    BY <2>2 DEF ReputationAssumption
  <2> QED BY <2>1, <2>2, <2>4, <2>5 DEF TypeOK
<1>2. /\ h \in Handlers /\ exec' = [exec EXCEPT ![r] = h] /\ h.o = e.o /\ h.rating = e.rating
      /\ h.at = IF e.rating <= COMPLAINT_RATING_THRESHOLD THEN "penalise" ELSE "profile"
  BY <1>1 DEF updateRating, Goto, Handlers, Steps, TypeOK
<1>3. /\ reviews' \in [Orders -> Ratings \cup {0}] /\ reviews'[e.o] = e.rating
      /\ \A p \in Orders : p # e.o => reviews'[p] = reviews[p]
      /\ inserting' \in [Orders -> Requests \cup {None}] /\ inserting'[e.o] = None
      /\ \A p \in Orders : p # e.o => inserting'[p] = inserting[p]
      /\ UNCHANGED <<closed, complaints, tierFrom>> /\ ratingFrom' = e.saw.rated
  BY <1>1 DEF updateRating, TypeOK
<1> HIDE DEF h, e
<1>4. Becomes(r, h)
  BY <1>2, Moves
<1>5. Reviewed' = Reviewed \cup {e.o}
  BY <1>1, <1>3 DEF Reviewed, TypeOK, ReputationAssumption
<1>6. ASSUME NEW q \in Requests, q # r
      PROVE  /\ RequestOK(q)'
             /\ exec[q].at \in {"aggregate", "update", "penalise"} => exec[q].o # e.o
  <2>1. RequestOK(q) /\ exec'[q] = exec[q]
    BY <1>4, <1>6 DEF ReputationInv, Becomes
  <2>2. exec[q].at \in {"aggregate", "update"} => exec[q].o # e.o
    BY <1>1, <1>6, <2>1 DEF RequestOK
  <2>3. exec[q].at = "penalise" => exec[q].o # e.o
    BY <1>1, <2>1 DEF RequestOK, ReputationAssumption
  <2> QED BY <1>3, <1>5, <2>1, <2>2, <2>3 DEF RequestOK
<1>7. RequestOK(r)'
  BY <1>1, <1>2, <1>3, <1>4 DEF Becomes, RequestOK
<1>8. OnePenalising'
  BY <1>2, <1>4, <1>6 DEF Becomes, ReputationInv, OnePenalising
<1>9. ASSUME NEW p \in Orders PROVE OrderOK(p)'
  <2>1. OrderOK(p) /\ inserting[p] \in Requests \cup {None}
    BY DEF ReputationInv, TypeOK
  <2>2. CASE p = e.o
    BY <1>1, <1>3, <2>2 DEF OrderOK
  <2>3. CASE p # e.o
    <3>1. inserting[p] # r
      BY <1>1, <2>1, <2>3 DEF OrderOK, e, ReputationAssumption
    <3> QED BY <1>3, <1>4, <2>1, <2>3, <3>1 DEF OrderOK, Becomes
  <2> QED BY <2>2, <2>3
<1>10. TypeOK'
  BY <1>1, <1>3, <1>4, <1>5 DEF TypeOK, Becomes, Handlers
<1> QED BY <1>6, <1>7, <1>8, <1>9, <1>10 DEF ReputationInv

\* The complaint of a review that is stored, the only one about to be recorded.
LEMMA ComplaintKeeps ==
  ASSUME ReputationAssumption, TypeOK, ReputationInv, NEW r \in Requests, recordComplaint(r)
  PROVE  TypeOK' /\ ReputationInv'
<1> USE DEF At
<1> DEFINE e == exec[r]
           h == [e EXCEPT !.at = "profile"]
<1>1. /\ e \in Handlers /\ e.at = "penalise" /\ e.o \in Orders /\ e.rating \in Ratings
      /\ reviews[e.o] = e.rating /\ e.rating \in 1..COMPLAINT_RATING_THRESHOLD /\ complaints[e.o] = 0
  <2>1. e \in Handlers /\ e.at = "penalise" /\ RequestOK(r)
    BY DEF recordComplaint, TypeOK, Handlers, ReputationInv
  <2>2. /\ e.o \in Orders /\ e.rating \in Ratings /\ reviews[e.o] = e.rating
        /\ e.rating <= COMPLAINT_RATING_THRESHOLD /\ complaints[e.o] = 0
    BY <2>1 DEF RequestOK
  <2>3. e.rating \in 1..5
    BY <2>2 DEF ReputationAssumption
  <2> QED BY <2>1, <2>2, <2>3 DEF COMPLAINT_RATING_THRESHOLD
<1>2. h \in Handlers /\ exec' = [exec EXCEPT ![r] = h] /\ h.at = "profile"
  BY <1>1 DEF recordComplaint, Goto, Handlers, Steps, TypeOK
<1>3. /\ complaints' \in [Orders -> Nat] /\ complaints'[e.o] = 1
      /\ \A p \in Orders : p # e.o => complaints'[p] = complaints[p]
      /\ UNCHANGED <<closed, reviews, inserting, ratingFrom, tierFrom>>
  BY <1>1 DEF recordComplaint, TypeOK
<1> HIDE DEF h, e
<1>4. Becomes(r, h)
  BY <1>2, Moves
<1>5. Reviewed' = Reviewed
  BY <1>3 DEF Reviewed
<1>6. ASSUME NEW q \in Requests PROVE RequestOK(q)'
  <2>1. CASE q = r
    BY <1>2, <1>4, <2>1 DEF Becomes, RequestOK
  <2>2. CASE q # r
    <3>1. RequestOK(q) /\ (exec[q].at = "penalise" => exec[q].o # e.o)
      BY <1>1, <2>2 DEF ReputationInv, OnePenalising, e
    <3> QED BY <1>3, <1>4, <1>5, <2>2, <3>1 DEF Becomes, RequestOK
  <2> QED BY <2>1, <2>2
<1>7. OnePenalising'
  BY <1>2, <1>4 DEF Becomes, ReputationInv, OnePenalising
<1>8. ASSUME NEW p \in Orders PROVE OrderOK(p)'
  <2>1. OrderOK(p) /\ inserting[p] \in Requests \cup {None} /\ inserting[p] # r
    BY <1>1 DEF ReputationInv, TypeOK, OrderOK, e, ReputationAssumption
  <2>2. CASE p = e.o
    BY <1>1, <1>3, <1>4, <2>1, <2>2 DEF Becomes, OrderOK
  <2>3. CASE p # e.o
    BY <1>3, <1>4, <2>1, <2>3 DEF Becomes, OrderOK
  <2> QED BY <2>2, <2>3
<1>9. TypeOK'
  BY <1>3, <1>4, <1>5 DEF TypeOK, Becomes, Handlers
<1> QED BY <1>6, <1>7, <1>8, <1>9 DEF ReputationInv

-----------------------------------------------------------------------------
(* The theorems.                                                           *)

\* Every step, and every stutter, keeps the types and the invariant.
LEMMA StepKeeps ==
  ASSUME ReputationAssumption, TypeOK, ReputationInv, [Next]_vars PROVE TypeOK' /\ ReputationInv'
<1>1. CASE UNCHANGED vars
  <2>1. Reviewed' = Reviewed
    BY <1>1 DEF vars, Reviewed
  <2>2. TypeOK'
    BY <1>1, <2>1 DEF vars, TypeOK
  <2>3. (\A q \in Requests : RequestOK(q)') /\ (\A o \in Orders : OrderOK(o)') /\ OnePenalising'
    BY <1>1, <2>1 DEF vars, ReputationInv, RequestOK, OrderOK, OnePenalising, At
  <2> QED BY <2>2, <2>3 DEF ReputationInv
<1>2. ASSUME NEW r \in Requests,
             \/ Continue(r)
             \/ \E o \in Orders : closeOrder(r, o) \/ \E rating \in Ratings : createReview(r, o, rating)
      PROVE  TypeOK' /\ ReputationInv'
  BY <1>2, UnwrittenKeeps, InsertKeeps, UpdateKeeps, ComplaintKeeps DEF Continue
<1> QED BY <1>1, <1>2 DEF Next, Done

\* Every variable keeps its type, and a request about to record a complaint is
\* the only one for its order, whose low rating is stored (create, recordEvent).
THEOREM ReputationTypes == ASSUME ReputationAssumption PROVE Spec => [](TypeOK /\ ReputationInv)
<1>1. Init => TypeOK /\ ReputationInv
  BY InitOK
<1>2. TypeOK /\ ReputationInv /\ [Next]_vars => (TypeOK /\ ReputationInv)'
  BY StepKeeps
<1> QED BY <1>1, <1>2, PTL DEF Spec

\* However often the review of an order is sent, the master is charged one
\* complaint for it at most, and for a low rating that is stored.
THEOREM ComplaintsOnce == ASSUME ReputationAssumption PROVE Spec => []OneComplaintPerOrder
<1>1. ReputationInv => OneComplaintPerOrder
  BY DEF ReputationInv, OrderOK, OneComplaintPerOrder
<1> QED BY <1>1, ReputationTypes, PTL
=============================================================================
