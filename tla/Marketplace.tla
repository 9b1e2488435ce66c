---------------------------- MODULE Marketplace ----------------------------
(***************************************************************************)
(* The order and dispatch services running together, with the failures     *)
(* that can strike a handler between two of its steps, and the properties  *)
(* their combination is meant to have.                                     *)
(***************************************************************************)
EXTENDS OrdersService, DispatchService

\* Verification, suspension, the online switch, calendar slots and the trust
\* recomputations all change who may be offered a job, at any time.
AvailabilityChanges(m) ==
  /\ available' = IF m \in available THEN available \ {m} ELSE available \cup {m}
  /\ UNCHANGED <<orderRow, lock, dispatchRows, jobs, masterRows, exec, failures>>

\* A handler throws (database or Redis out of reach) or its process dies.  An
\* open transaction rolls back; a worker's job is put back for another attempt
\* while it has one; nothing takes up what a request left undone.
HandlerFails(s) ==
  LET e == exec[s] IN
  /\ e # Idle
  /\ failures < MaxFailures
  /\ failures' = failures + 1
  /\ lock' = [o \in Orders |-> IF lock[o] = s THEN None ELSE lock[o]]
  /\ jobs' = IF e.job = None \/ jobs[e.o][e.job] = 0 THEN jobs
             ELSE [jobs EXCEPT ![e.o][e.job] = @ - 1]
  /\ Return(s)
  /\ UNCHANGED <<orderRow, dispatchRows, masterRows, available>>

\* The attempt fails before handleOfferExpiry's first write.
JobAttemptFails(o, m) ==
  /\ jobs[o][m] > 0 /\ expired[o][m] /\ ~Running(o, m)
  /\ failures < MaxFailures
  /\ failures' = failures + 1
  /\ jobs' = [jobs EXCEPT ![o][m] = @ - 1]
  /\ UNCHANGED <<orderRow, lock, dispatchRows, masterRows, available, exec>>

\* BullMQ takes a job whose worker stopped renewing it for stalled and hands it
\* to another worker, while the first one is still at it.
JobStalls(w) ==
  /\ exec[w].job # None
  /\ failures < MaxFailures
  /\ failures' = failures + 1
  /\ exec' = [exec EXCEPT ![w].job = None]
  /\ UNCHANGED <<orderRow, lock, dispatchRows, jobs, masterRows, available>>

\* The next step of a handler in flight.
Step(s) ==
  \/ updateDraft(s) \/ diagnose(s) \/ submit(s) \/ cancel(s) \/ confirmCompletion(s)
  \/ startEnRoute(s) \/ startService(s) \/ completeService(s)
  \/ cancelByMaster(s) \/ recordCancellation(s)
  \/ cascadeNext(s) \/ pickCandidate(s) \/ createOffer(s) \/ enqueueExpiry(s)
  \/ recordLateResponse(s) \/ commitAccept(s)
  \/ failSearch(s) \/ expireOrder(s) \/ expireHistory(s)

\* A request arrives and runs up to its first await that matters.
Request(s, o) ==
  \/ \E op \in CustomerOps : CustomerRead(s, o, op)
  \/ \E edit \in Tiers \cup Locations : EditRead(s, o, edit)
  \/ \E op \in MasterOps : MasterRead(s, o, op)
  \/ \E m \in Masters : acceptOffer(s, o, m)
  \/ \E m \in Masters : declineOffer(s, o, m)

Next ==
  \/ \E o \in Orders : createDraft(o)
  \/ \E s \in Requests, o \in Orders : Request(s, o)
  \/ \E s \in Slots : Step(s)
  \/ \E w \in Workers, o \in Orders, m \in Masters : handleOfferExpiry(w, o, m)
  \/ \E o \in Orders, m \in Masters : OfferTimesOut(o, m)
  \/ \E m \in Masters : AvailabilityChanges(m)
  \/ \E s \in Slots : HandlerFails(s)
  \/ \E o \in Orders, m \in Masters : JobAttemptFails(o, m)
  \/ \E w \in Workers : JobStalls(w)

Spec == Init /\ [][Next]_vars

\* The event loop runs every handler whose await has been answered, an idle
\* worker takes a due job, and time passes.  Nobody is obliged to send a request.
Fairness ==
  /\ \A s \in Slots : WF_vars(Step(s))
  /\ \A w \in Workers :
       WF_vars(\E o \in Orders, m \in Masters : handleOfferExpiry(w, o, m))
  /\ \A o \in Orders, m \in Masters : WF_vars(OfferTimesOut(o, m))

FairSpec == Spec /\ Fairness

----------------------------------------------------------------------------
\* An order is out with at most one master at a time (schema.prisma, the
\* OrderDispatch comment): whatever cascades, declines, expiries and retries
\* overlap, two rows of one order are never OFFERED together.
SequentialOffers ==
  \A o \in Orders : \A m1, m2 \in Masters :
    dispatch[o][m1] = "OFFERED" /\ dispatch[o][m2] = "OFFERED" => m1 = m2

\* The ACCEPTED row and orders.masterId always agree, so exactly one master
\* holds an assigned order (the FOR UPDATE comment of acceptOffer).
OneAccepted ==
  \A o \in Orders : \A m \in Masters : dispatch[o][m] = "ACCEPTED" <=> masterId[o] = m

\* The half of OneAccepted that needs no help from the customer's client: the
\* master on the order is one whose offer was accepted, and an order that is
\* being worked on has a master.
AssignedMasterAccepted ==
  \A o \in Orders :
    /\ masterId[o] # None => dispatch[o][masterId[o]] = "ACCEPTED"
    /\ status[o] \in ACTIVE_MASTER_JOB_STATUSES => masterId[o] # None

\* A late response is penalised once per offer however often its expiry job is
\* retried or redelivered, and an honest decline never is (handleOfferExpiry).
OneLatePenalty ==
  \A o \in Orders : \A m \in Masters :
    /\ late[o][m] <= 1
    /\ late[o][m] = 1 => dispatch[o][m] \notin {None, "OFFERED", "DECLINED", "WITHDRAWN"}

\* Once an order has been quoted, and through the rest of its life, the price
\* range is the one for the request as it now stands (updateDraft voids it).
QuoteCurrent ==
  \A o \in Orders :
    status[o] \in {"PRICED", "SEARCHING", "EXPIRED", "CLOSED", "CANCELLED_BY_MASTER"}
                    \cup ACTIVE_MASTER_JOB_STATUSES
      => quote[o] = tier[o]

\* jobsDone counts the orders the master's customers confirmed, each once
\* (confirmCompletion).
JobsDoneCounted ==
  \A m \in Masters :
    jobsDone[m] = Cardinality({o \in Orders : status[o] = "CLOSED" /\ masterId[o] = m})

\* Every history row continues from the one before it and records the status
\* just written: cancel and failSearch, which race, cannot both leave a row.
HistoryChain ==
  [][\A o \in Orders : hist'[o] # hist[o] =>
       hist'[o].from = hist[o].to /\ hist'[o].to = status'[o]]_vars

\* A (order, master) pair is offered at most once: no answer is ever undone to
\* OFFERED, and no row disappears.
NoSecondOffer ==
  [][\A o \in Orders : \A m \in Masters :
       dispatch[o][m] # None => dispatch'[o][m] # None
                                /\ (dispatch'[o][m] = "OFFERED" => dispatch[o][m] = "OFFERED")]_vars

Lifecycle == INSTANCE OrderLifecycle

\* The services implement the order's lifecycle: no interleaving of handlers
\* takes an edge that is not in the transition table, touches two orders at
\* once, or changes the master of an order.
ImplementsLifecycle == Lifecycle!Spec

----------------------------------------------------------------------------
\* A search ends: with an assignment, a cancellation or the pool exhausted.
SearchEnds ==
  \A o \in Orders : status[o] = "SEARCHING" ~> status[o] # "SEARCHING"

\* Every offer is answered, withdrawn or expired, also when its order is gone.
OffersResolve ==
  \A o \in Orders : \A m \in Masters :
    dispatch[o][m] = "OFFERED" ~> dispatch[o][m] # "OFFERED"

\* An offer that expired during a search is followed by another offer or by the
\* end of the search: handleOfferExpiry always reaches its cascade.
ExpiredOfferMovesOn ==
  \A o \in Orders : \A m \in Masters :
    dispatch[o][m] = "EXPIRED" /\ status[o] = "SEARCHING"
      ~> \/ status[o] # "SEARCHING"
         \/ \E m2 \in Masters : dispatch[o][m2] = "OFFERED"

\* A master who backs out of a job is penalised, once (cancelByMaster).
CancellationPenalised ==
  \A o \in Orders : \A m \in Masters :
    status[o] = "CANCELLED_BY_MASTER" /\ masterId[o] = m ~> cancellations[o][m] = 1

----------------------------------------------------------------------------
\* A master has at most one job on his plate (ACTIVE_MASTER_JOB_STATUSES and
\* getCurrentJob).
OneJobPerMaster ==
  \A o1, o2 \in Orders :
    /\ masterId[o1] # None /\ masterId[o1] = masterId[o2]
    /\ status[o1] \in ACTIVE_MASTER_JOB_STATUSES
    /\ status[o2] \in ACTIVE_MASTER_JOB_STATUSES
    => o1 = o2

\* Once a master has the order no other offer of it is open: the rest are
\* WITHDRAWN (schema.prisma, the OrderDispatch comment).
RestWithdrawn ==
  \A o \in Orders : \A m \in Masters :
    status[o] \in ACTIVE_MASTER_JOB_STATUSES => dispatch[o][m] # "OFFERED"
----------------------------------------------------------------------------
(***************************************************************************)
(* The inductive invariants behind the theorems of MarketplaceProofs.      *)
(***************************************************************************)

\* What a handler in flight carries: an order, the master its step needs, and a
\* status its operation was allowed to leave when it was read.
HandlerOK(s, e) ==
  /\ e.at = "idle" => e = Idle
  /\ e.at # "idle" => e.o \in Orders
  /\ e.at \in {"offer", "enqueue", "late", "accept", "penalise", "confirmCompletion"}
              \cup MasterOps => e.m \in Masters
  /\ e.at \in (CustomerOps \ {"updateDraft"}) \cup MasterOps
       => canTransition(e.seen, Target[e.at])
  /\ e.at = "updateDraft"
       => e.seen \in EDITABLE_STATUSES /\ e.data \in Tiers \cup {"address", "point"}
  /\ e.at = "diagnose" => e.data \in Tiers
  /\ e.at \in {"expire", "expireHistory"} => e.seen = "SEARCHING"
  /\ e.at \in CustomerOps => s \in Requests

ExecOK == \A s \in Slots : HandlerOK(s, exec[s])

\* The row lock belongs to the accept in flight, and the order it read as
\* SEARCHING stays so until it commits.
LockOK ==
  /\ \A o \in Orders, s \in Slots :
       lock[o] = s <=> exec[s].at = "accept" /\ exec[s].o = o
  /\ \A s \in Slots : exec[s].at = "accept" => status[exec[s].o] = "SEARCHING"

\* A late-response penalty about to be recorded is the offer's first, and the
\* only one on its way.
PenaltyOK ==
  /\ \A s \in Slots : exec[s].at = "late" =>
       /\ late[exec[s].o][exec[s].m] = 0
       /\ dispatch[exec[s].o][exec[s].m] \in {"EXPIRED", "ACCEPTED"}
  /\ \A s1, s2 \in Slots :
       /\ exec[s1].at = "late" /\ exec[s2].at = "late"
       /\ exec[s1].o = exec[s2].o /\ exec[s1].m = exec[s2].m
       => s1 = s2
  /\ \A o \in Orders : \A m \in Masters :
       /\ late[o][m] <= 1
       /\ late[o][m] # 0 => dispatch[o][m] \in {"EXPIRED", "ACCEPTED"}

\* Under SerialEdits, an edit, diagnosis or submission in flight is the only
\* customer request about its order, and the status it read is current.
EditsOK ==
  /\ \A s1, s2 \in Slots :
       /\ exec[s1].at \in UnguardedOps /\ exec[s2].at \in CustomerOps
       /\ exec[s1].o = exec[s2].o
       => s1 = s2
  /\ \A s \in Slots : exec[s].at \in UnguardedOps => status[exec[s].o] = exec[s].seen

\* Before its submission an order has no offer, no master, and nobody but its
\* customer at work on it.
Unsubmitted == {None, "DRAFT", "PRICED"}
QuietOK ==
  \A o \in Orders : status[o] \in Unsubmitted =>
    /\ masterId[o] = None
    /\ \A m \in Masters : dispatch[o][m] = None
    /\ \A s \in Slots : exec[s].o = o => exec[s].at \in CustomerOps

\* One baton per order: an open offer, or a handler looking for the next
\* master, never two of either, never both.
Cascading(s, o) == exec[s].o = o /\ exec[s].at \in CascadeSteps
BatonOK ==
  \A o \in Orders :
    /\ \A m1, m2 \in Masters :
         dispatch[o][m1] = "OFFERED" /\ dispatch[o][m2] = "OFFERED" => m1 = m2
    /\ \A s1, s2 \in Slots : Cascading(s1, o) /\ Cascading(s2, o) => s1 = s2
    /\ \A s \in Slots, m \in Masters : Cascading(s, o) => dispatch[o][m] # "OFFERED"

\* A master is attached when the order leaves SEARCHING for ASSIGNED, no sooner.
AssignmentOK ==
  \A o \in Orders :
    /\ masterId[o] # None => status[o] \notin Unsubmitted \cup {"SEARCHING"}
    /\ \A m \in Masters : dispatch[o][m] = "ACCEPTED" <=> masterId[o] = m

IInv == TypeOK /\ ExecOK /\ LockOK
SerialInv == EditsOK /\ QuietOK /\ BatonOK /\ AssignmentOK

\* The newest history row records the status, but for the row of an expiry that
\* failSearch has yet to insert (and never will, if its process died).
HistoryOK ==
  /\ \A o \in Orders : hist[o].to # status[o] =>
       status[o] = "EXPIRED" /\ hist[o].to = "SEARCHING"
  /\ \A s \in Slots : exec[s].at = "expireHistory" => hist[exec[s].o].to # status[exec[s].o]
  /\ \A s1, s2 \in Slots :
       /\ exec[s1].at = "expireHistory" /\ exec[s2].at = "expireHistory"
       /\ exec[s1].o = exec[s2].o
       => s1 = s2

\* A confirmation in flight credits the master the order has.
Confirmed(m) == {o \in Orders : status[o] = "CLOSED" /\ masterId[o] = m}
CreditOK ==
  /\ \A s \in Slots : exec[s].at = "confirmCompletion" => exec[s].m = masterId[exec[s].o]
  /\ \A m \in Masters : IsFiniteSet(Confirmed(m)) /\ jobsDone[m] = Cardinality(Confirmed(m))

RowInv == HistoryOK /\ CreditOK
=============================================================================
