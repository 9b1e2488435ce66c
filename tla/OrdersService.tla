------------------------- MODULE OrdersService  -------------------------
(***************************************************************************)
(* OrdersService (apps/api/src/modules/orders/orders.service.ts): the      *)
(* customer's operations on a request up to its submission, cancellation   *)
(* and confirmation, and the assigned master's operations on the job.      *)
(*                                                                         *)
(* Each operation is two actions.  The first (CustomerRead, MasterRead,    *)
(* EditRead) loads the order and runs the checks; the second writes.       *)
(* updateDraft, diagnose and submit write whatever the row has become;     *)
(* the other operations write only if the status is still the one read.    *)
(***************************************************************************)
EXTENDS OrderStore

\* The status each operation asks canTransition for.
Target ==
  [diagnose |-> "PRICED", submit |-> "SEARCHING",
   cancel |-> "CANCELLED_BY_CUSTOMER", confirmCompletion |-> "CLOSED",
   startEnRoute |-> "EN_ROUTE", startService |-> "IN_PROGRESS",
   completeService |-> "COMPLETED", cancelByMaster |-> "CANCELLED_BY_MASTER"]

Reading(op, o, m, data) ==
  Handler(op, o, m, status[o], data, 1, None)

createDraft(o) ==
  /\ status[o] = None
  /\ WriteStatus(o, None, "DRAFT")
  /\ UNCHANGED <<masterId, tier, quote, loc, lock, dispatchRows, jobs,
                 masterRows, available, exec, failures>>

\* getOwned and the checks of diagnose, submit, cancel and confirmCompletion.
\* diagnose keeps the tier it will price, confirmCompletion the master it
\* will credit.
CustomerRead(s, o, op) ==
  /\ op \in CustomerOps \ {"updateDraft"}
  /\ ~CustomerWaits(o, op)
  /\ canTransition(status[o], Target[op])
  /\ op = "submit" => loc[o] # "none"
  /\ op = "confirmCompletion" => masterId[o] # None
  /\ Start(s, Reading(op, o, masterId[o], tier[o]))
  /\ UNCHANGED <<orderRow, lock, dispatchRows, jobs, masterRows, available, failures>>

\* updateDraft's read.  The edit is a new tier (or description or category:
\* the tier stays and the quote is void all the same) or a place, which is
\* never taken back once given.
EditRead(s, o, edit) ==
  /\ ~CustomerWaits(o, "updateDraft")
  /\ status[o] \in EDITABLE_STATUSES
  /\ edit \in Tiers \cup {"address", "point"}
  /\ Start(s, Reading("updateDraft", o, None, edit))
  /\ UNCHANGED <<orderRow, lock, dispatchRows, jobs, masterRows, available, failures>>

\* Mutant: the tier is missing from invalidatesQuote.
invalidatesQuoteWithoutTier(e) == FALSE

invalidatesQuote(e) == e.seen = "PRICED" /\ e.data \in Tiers

updateDraft(s) ==
  LET e == exec[s] IN
  /\ e.at = "updateDraft"
  /\ RowFree(e.o)
  /\ IF e.data \in Tiers
     THEN tier' = [tier EXCEPT ![e.o] = e.data] /\ UNCHANGED loc
     ELSE /\ loc' = IF loc[e.o] = "point" THEN loc ELSE [loc EXCEPT ![e.o] = e.data]
          /\ UNCHANGED tier
  /\ IF invalidatesQuote(e)
     THEN WriteStatus(e.o, "PRICED", "DRAFT") /\ quote' = [quote EXCEPT ![e.o] = None]
     ELSE UNCHANGED <<status, hist, quote>>
  /\ Return(s)
  /\ UNCHANGED <<masterId, lock, dispatchRows, jobs, masterRows, available, failures>>

\* The write after the AI call, or the refusal when no category could be found.
diagnose(s) ==
  LET e == exec[s] IN
  /\ e.at = "diagnose"
  /\ \/ /\ RowFree(e.o)
        /\ WriteStatus(e.o, e.seen, "PRICED")
        /\ quote' = [quote EXCEPT ![e.o] = e.data]
     \/ UNCHANGED <<status, hist, quote>>
  /\ Return(s)
  /\ UNCHANGED <<masterId, tier, loc, lock, dispatchRows, jobs, masterRows,
                 available, failures>>

\* The write; then startDispatch goes on in the background of the request.
submit(s) ==
  LET e == exec[s] IN
  /\ e.at = "submit"
  /\ RowFree(e.o)
  /\ WriteStatus(e.o, e.seen, "SEARCHING")
  /\ exec' = [exec EXCEPT ![s] = Cascade(e.o, 1, None)]
  /\ UNCHANGED <<masterId, tier, quote, loc, lock, dispatchRows, jobs,
                 masterRows, available, failures>>

cancel(s) ==
  /\ exec[s].at = "cancel"
  /\ GuardedWrite(s, Target["cancel"])
  /\ Return(s)
  /\ UNCHANGED <<masterId, tier, quote, loc, lock, dispatchRows, jobs,
                 masterRows, available, failures>>

\* Mutant: jobsDone is incremented outside the guarded write's transaction.
confirmCompletionUnguardedCount(s) ==
  LET e == exec[s] IN
  /\ e.at = "confirmCompletion"
  /\ GuardedWrite(s, Target["confirmCompletion"])
  /\ jobsDone' = [jobsDone EXCEPT ![e.m] = @ + 1]
  /\ Return(s)
  /\ UNCHANGED <<masterId, tier, quote, loc, lock, dispatchRows, jobs,
                 late, cancellations, available, failures>>

\* The guarded write and the master's jobsDone in one transaction.  The trust
\* recomputation that follows is covered by AvailabilityChanges.
confirmCompletion(s) ==
  LET e == exec[s] IN
  /\ e.at = "confirmCompletion"
  /\ GuardedWrite(s, Target["confirmCompletion"])
  /\ jobsDone' = IF status[e.o] = e.seen
                 THEN [jobsDone EXCEPT ![e.m] = @ + 1] ELSE jobsDone
  /\ Return(s)
  /\ UNCHANGED <<masterId, tier, quote, loc, lock, dispatchRows, jobs,
                 late, cancellations, available, failures>>

----------------------------------------------------------------------------
\* getOwnedByMaster and the check of the four operations on a job.
MasterRead(s, o, op) ==
  /\ op \in MasterOps
  /\ masterId[o] # None
  /\ canTransition(status[o], Target[op])
  /\ Start(s, Reading(op, o, masterId[o], None))
  /\ UNCHANGED <<orderRow, lock, dispatchRows, jobs, masterRows, available, failures>>

\* transitionByMaster, and completeService's own copy of it (the amount, which
\* has been checked against the quoted range, is data).
jobTransition(s, op) ==
  /\ exec[s].at = op
  /\ GuardedWrite(s, Target[op])
  /\ Return(s)
  /\ UNCHANGED <<masterId, tier, quote, loc, lock, dispatchRows, jobs,
                 masterRows, available, failures>>

startEnRoute(s) == jobTransition(s, "startEnRoute")
startService(s) == jobTransition(s, "startService")
completeService(s) == jobTransition(s, "completeService")

\* Mutant: the penalty is forgotten.
cancelByMasterForFree(s) ==
  /\ exec[s].at = "cancelByMaster"
  /\ GuardedWrite(s, Target["cancelByMaster"])
  /\ Return(s)
  /\ UNCHANGED <<masterId, tier, quote, loc, lock, dispatchRows, jobs,
                 masterRows, available, failures>>

\* The guarded write; the winner goes on to record the penalty.
cancelByMaster(s) ==
  LET e == exec[s] IN
  /\ e.at = "cancelByMaster"
  /\ GuardedWrite(s, Target["cancelByMaster"])
  /\ IF status[e.o] = e.seen THEN Goto(s, "penalise") ELSE Return(s)
  /\ UNCHANGED <<masterId, tier, quote, loc, lock, dispatchRows, jobs,
                 masterRows, available, failures>>

recordCancellation(s) ==
  LET e == exec[s] IN
  /\ e.at = "penalise"
  /\ RowFree(e.o)
  /\ cancellations' = [cancellations EXCEPT ![e.o][e.m] = @ + 1]
  /\ Return(s)
  /\ UNCHANGED <<orderRow, lock, dispatchRows, jobs, late, jobsDone, available, failures>>
=============================================================================
