------------------------- MODULE DispatchService  -------------------------
(***************************************************************************)
(* DispatchService and DispatchWorker (apps/api/src/modules/dispatch): the *)
(* cascade that offers a submitted order to one master after another, the  *)
(* master's answer, the expiry of an unanswered offer, and the end of a    *)
(* search that found nobody.                                               *)
(***************************************************************************)
EXTENDS OrderStore

\* A master occupied by another order is not eligible for this one.
Busy(m) ==
  \E o \in Orders : masterId[o] = m /\ status[o] \in ACTIVE_MASTER_JOB_STATUSES

\* The candidate query.  Skill and distance are Reach; verification, account,
\* trust tier, online flag and today's calendar are `available`.
findEligibleCandidates(o, attempt) ==
  {m \in available : /\ Reach[o][m] <= attempt
                     /\ dispatch[o][m] = None
                     /\ ~Busy(m)}

\* cascadeNext, first statement: is the order still searching, and complete?
cascadeNext(s) ==
  LET e == exec[s] IN
  /\ e.at = "cascade"
  /\ IF status[e.o] # "SEARCHING"
     THEN Return(s) /\ jobs' = JobsAfterReturn(s)
     ELSE Goto(s, IF loc[e.o] = "point" THEN "query" ELSE "failSearch") /\ UNCHANGED jobs
  /\ UNCHANGED <<orderRow, lock, dispatchRows, masterRows, available, failures>>

\* Mutant: the exhausted pool is not reported.
pickCandidateOrGiveUp(s) ==
  LET e == exec[s]
      candidates == findEligibleCandidates(e.o, e.attempt)
  IN
  /\ e.at = "query"
  /\ \/ /\ candidates = {} /\ e.attempt = 1
        /\ exec' = [exec EXCEPT ![s] = Cascade(e.o, 2, e.job)]
     \/ /\ candidates = {} /\ e.attempt = 2
        /\ Return(s)
     \/ \E m \in candidates :
          exec' = [exec EXCEPT ![s] = Handler("offer", e.o, m, None, None, e.attempt, e.job)]
  /\ UNCHANGED <<orderRow, lock, dispatchRows, jobs, masterRows, available, failures>>

\* The query and the weighted random pick; an empty pool is retried once with
\* the wider radius, then given up.
pickCandidate(s) ==
  LET e == exec[s]
      candidates == findEligibleCandidates(e.o, e.attempt)
  IN
  /\ e.at = "query"
  /\ \/ /\ candidates = {} /\ e.attempt = 1
        /\ exec' = [exec EXCEPT ![s] = Cascade(e.o, 2, e.job)]
     \/ /\ candidates = {} /\ e.attempt = 2
        /\ Goto(s, "failSearch")
     \/ \E m \in candidates :
          exec' = [exec EXCEPT ![s] = Handler("offer", e.o, m, None, None, e.attempt, e.job)]
  /\ UNCHANGED <<orderRow, lock, dispatchRows, jobs, masterRows, available, failures>>

\* Mutant: no unique (orderId, masterId): the row is offered again.
createOfferWithoutUniqueKey(s) ==
  LET e == exec[s] IN
  /\ e.at = "offer"
  /\ RowFree(e.o)
  /\ dispatch' = [dispatch EXCEPT ![e.o][e.m] = "OFFERED"]
  /\ Goto(s, "enqueue")
  /\ UNCHANGED <<orderRow, lock, expired, jobs, masterRows, available, failures>>

\* orderDispatch.create: the unique (orderId, masterId) key refuses a master
\* another cascade has offered the order meanwhile, and the pass starts over.
createOffer(s) ==
  LET e == exec[s] IN
  /\ e.at = "offer"
  /\ RowFree(e.o)
  /\ IF dispatch[e.o][e.m] = None
     THEN /\ dispatch' = [dispatch EXCEPT ![e.o][e.m] = "OFFERED"]
          /\ Goto(s, "enqueue")
     ELSE /\ exec' = [exec EXCEPT ![s] = Cascade(e.o, e.attempt, e.job)]
          /\ UNCHANGED dispatch
  /\ UNCHANGED <<orderRow, lock, expired, jobs, masterRows, available, failures>>

\* Mutant: the expiry job is not enqueued.
enqueueExpiryForgotten(s) ==
  /\ exec[s].at = "enqueue"
  /\ jobs' = JobsAfterReturn(s)
  /\ Return(s)
  /\ UNCHANGED <<orderRow, lock, dispatchRows, masterRows, available, failures>>

\* Mutant: one attempt too many.
enqueueExpiryExtraAttempt(s) ==
  LET e == exec[s] IN
  /\ e.at = "enqueue"
  /\ jobs' = [JobsAfterReturn(s) EXCEPT ![e.o][e.m] = attempts + 1]
  /\ Return(s)
  /\ UNCHANGED <<orderRow, lock, dispatchRows, masterRows, available, failures>>

\* queue.add of the expiry job, after which only notifications are left.
enqueueExpiry(s) ==
  LET e == exec[s] IN
  /\ e.at = "enqueue"
  /\ jobs' = [JobsAfterReturn(s) EXCEPT ![e.o][e.m] = attempts]
  /\ Return(s)
  /\ UNCHANGED <<orderRow, lock, dispatchRows, masterRows, available, failures>>

----------------------------------------------------------------------------
\* Time passes an offer's expiresAt.
OfferTimesOut(o, m) ==
  /\ dispatch[o][m] = "OFFERED"
  /\ ~expired[o][m]
  /\ expired' = [expired EXCEPT ![o][m] = TRUE]
  /\ UNCHANGED <<orderRow, lock, dispatch, jobs, masterRows, available, exec, failures>>

Running(o, m) == \E w \in Workers : exec[w].o = o /\ exec[w].job = m

\* Mutant: the expiry write is not conditioned on OFFERED.
handleOfferExpiryUnguarded(w, o, m) ==
  /\ jobs[o][m] > 0 /\ expired[o][m] /\ ~Running(o, m)
  /\ dispatch' = [dispatch EXCEPT ![o][m] = "EXPIRED"]
  /\ Start(w, Handler("late", o, m, None, None, 1, m))
  /\ UNCHANGED <<orderRow, lock, expired, jobs, masterRows, available, failures>>

\* A worker takes the due job and runs handleOfferExpiry's guarded write; an
\* offer that has been answered completes the job there and then.
handleOfferExpiry(w, o, m) ==
  /\ jobs[o][m] > 0 /\ expired[o][m] /\ ~Running(o, m)
  /\ IF dispatch[o][m] = "OFFERED"
     THEN /\ dispatch' = [dispatch EXCEPT ![o][m] = "EXPIRED"]
          /\ Start(w, Handler("late", o, m, None, None, 1, m))
          /\ UNCHANGED jobs
     ELSE /\ exec[w] = Idle
          /\ jobs' = [jobs EXCEPT ![o][m] = 0]
          /\ UNCHANGED <<dispatch, exec>>
  /\ UNCHANGED <<orderRow, lock, expired, masterRows, available, failures>>

\* recordEvent(LATE_RESPONSE), then on to the next candidate.
recordLateResponse(s) ==
  LET e == exec[s] IN
  /\ e.at = "late"
  /\ RowFree(e.o)
  /\ late' = [late EXCEPT ![e.o][e.m] = @ + 1]
  /\ exec' = [exec EXCEPT ![s] = Cascade(e.o, 1, e.job)]
  /\ UNCHANGED <<orderRow, lock, dispatchRows, jobs, cancellations, jobsDone,
                 available, failures>>

----------------------------------------------------------------------------
\* Mutant: the row is not locked, so two accepts may both read SEARCHING.
acceptOfferUnlocked(s, o, m) ==
  /\ RowFree(o)
  /\ dispatch[o][m] = "OFFERED" /\ ~expired[o][m]
  /\ canTransition(status[o], "ASSIGNED")
  /\ Start(s, Handler("accept", o, m, None, None, 1, None))
  /\ UNCHANGED <<orderRow, lock, dispatchRows, jobs, masterRows, available, failures>>

\* acceptOffer up to its first write: SELECT ... FOR UPDATE on the order, the
\* reads of order and offer, the checks.
acceptOffer(s, o, m) ==
  /\ RowFree(o)
  /\ dispatch[o][m] = "OFFERED" /\ ~expired[o][m]
  /\ canTransition(status[o], "ASSIGNED")
  /\ Start(s, Handler("accept", o, m, None, None, 1, None))
  /\ lock' = [lock EXCEPT ![o] = s]
  /\ UNCHANGED <<orderRow, dispatchRows, jobs, masterRows, available, failures>>

\* The transaction's writes and its commit.  The offer is written whatever it
\* has become since it was read: its row is not locked by the SELECT.
commitAccept(s) ==
  LET e == exec[s] IN
  /\ e.at = "accept"
  /\ dispatch' = [dispatch EXCEPT ![e.o] =
       [x \in Masters |-> IF x = e.m THEN "ACCEPTED"
                          ELSE IF @[x] = "OFFERED" THEN "WITHDRAWN" ELSE @[x]]]
  /\ WriteStatus(e.o, status[e.o], "ASSIGNED")
  /\ masterId' = [masterId EXCEPT ![e.o] = e.m]
  /\ lock' = [lock EXCEPT ![e.o] = None]
  /\ Return(s)
  /\ UNCHANGED <<tier, quote, loc, expired, jobs, masterRows, available, failures>>

\* Mutant: the cascade is started but the answer is not stored.
declineOfferNotStored(s, o, m) ==
  /\ dispatch[o][m] = "OFFERED"
  /\ Start(s, Cascade(o, 1, None))
  /\ UNCHANGED <<orderRow, lock, dispatchRows, jobs, masterRows, available, failures>>

\* declineOffer's guarded write; the master's request then runs the cascade.
declineOffer(s, o, m) ==
  /\ dispatch[o][m] = "OFFERED"
  /\ dispatch' = [dispatch EXCEPT ![o][m] = "DECLINED"]
  /\ Start(s, Cascade(o, 1, None))
  /\ UNCHANGED <<orderRow, lock, expired, jobs, masterRows, available, failures>>

----------------------------------------------------------------------------
\* failSearch: the read and check, the guarded write, the history row.
failSearch(s) ==
  LET e == exec[s] IN
  /\ e.at = "failSearch"
  /\ IF canTransition(status[e.o], "EXPIRED")
     THEN /\ exec' = [exec EXCEPT ![s] = Handler("expire", e.o, None, status[e.o], None, 1, e.job)]
          /\ UNCHANGED jobs
     ELSE Return(s) /\ jobs' = JobsAfterReturn(s)
  /\ UNCHANGED <<orderRow, lock, dispatchRows, masterRows, available, failures>>

expireOrder(s) ==
  LET e == exec[s] IN
  /\ e.at = "expire"
  /\ RowFree(e.o)
  /\ IF status[e.o] = e.seen
     THEN /\ status' = [status EXCEPT ![e.o] = "EXPIRED"]
          /\ Goto(s, "expireHistory") /\ UNCHANGED jobs
     ELSE UNCHANGED status /\ Return(s) /\ jobs' = JobsAfterReturn(s)
  /\ UNCHANGED <<masterId, tier, quote, loc, hist, lock, dispatchRows, masterRows,
                 available, failures>>

expireHistory(s) ==
  LET e == exec[s] IN
  /\ e.at = "expireHistory"
  /\ RowFree(e.o)
  /\ hist' = [hist EXCEPT ![e.o] = [from |-> e.seen, to |-> "EXPIRED"]]
  /\ Return(s) /\ jobs' = JobsAfterReturn(s)
  /\ UNCHANGED <<status, masterId, tier, quote, loc, lock, dispatchRows, masterRows,
                 available, failures>>
=============================================================================
