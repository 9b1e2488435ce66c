----------------------------- MODULE OrderStore -----------------------------
(***************************************************************************)
(* The state shared by the order and the dispatch services: the rows of    *)
(* the orders, order_dispatches, order_status_history, penalty_records and *)
(* master_profiles tables they read and write, the BullMQ queue of         *)
(* offer-expiry jobs, and the handlers in flight.                          *)
(*                                                                         *)
(* A handler is an asynchronous function.  Between two awaits it runs      *)
(* alone, and at each await any other handler may run, so a handler is cut *)
(* into one action per database statement that another handler could       *)
(* observe, or that could observe another handler.  exec[s] is a handler   *)
(* in flight: where it is, and what it read on the way there.              *)
(***************************************************************************)
EXTENDS OrderStates, Naturals, FiniteSets

CONSTANTS
  Orders,         \* order ids
  Masters,        \* master (professional) ids
  Tiers,          \* service tiers; stands for every field a quote depends on
  Requests,       \* API requests that may be in flight at the same time
  Workers,        \* BullMQ workers, each running one expiry job at a time
  Reach,          \* Reach[o][m]: the first radius pass (1 or 2) whose area
                  \* takes in master m for order o; 3 when no pass does
  SerialEdits,    \* is an edit, diagnosis or submission of an order never in
                  \* flight together with another request of its customer?
  MaxFailures,    \* bound on handlers that die, throw or stall
  None

Slots == Requests \cup Workers

\* offerExpiry jobs are retried: attempts: 3 in the queue's job options.
attempts == 3

DispatchStatus ==
  {"OFFERED", "ACCEPTED", "DECLINED", "EXPIRED", "WITHDRAWN"}

Locations == {"none", "address", "point"}

ASSUME StoreAssumption ==
  /\ Reach \in [Orders -> [Masters -> 1..3]]
  /\ SerialEdits \in BOOLEAN
  /\ MaxFailures \in Nat
  /\ Requests \cap Workers = {}
  /\ None \notin Slots \cup Masters \cup Orders \cup Tiers
  /\ None \notin OrderStatus \cup DispatchStatus
  /\ Tiers \cap (Locations \cup OrderStatus) = {}

VARIABLES
  status,        \* orders.status, None before the order is created
  masterId,      \* orders.masterId
  tier,          \* orders.serviceTier
  quote,         \* the tier priceMin/priceMax were computed for, or None
  loc,           \* what is known of the place: nothing, a text, a point
  hist,          \* the newest order_status_history row
  lock,          \* the accept transaction holding the row FOR UPDATE
  dispatch,      \* order_dispatches.status per (order, master), None: no row
  expired,       \* has order_dispatches.expiresAt passed?
  jobs,          \* attempts left for the offer's expiry job, 0: no job
  late,          \* LATE_RESPONSE penalty records per (order, master)
  cancellations, \* CANCELLATION penalty records per (order, master)
  jobsDone,      \* master_profiles.jobsDone
  available,     \* masters who are verified, online, trusted enough, free today
  exec,          \* handlers in flight
  failures       \* handlers that have failed so far

orderRow     == <<status, masterId, tier, quote, loc, hist>>
dispatchRows == <<dispatch, expired>>
masterRows   == <<late, cancellations, jobsDone>>
vars == <<status, masterId, tier, quote, loc, hist, lock, dispatch, expired,
          jobs, late, cancellations, jobsDone, available, exec, failures>>

\* Where a handler in flight is: it has read the order and is about to write
\* it (the two sets of operations), or it is inside the dispatch service.
CustomerOps == {"updateDraft", "diagnose", "submit", "cancel", "confirmCompletion"}
MasterOps == {"startEnRoute", "startService", "completeService", "cancelByMaster"}
CascadeSteps == {"late", "cascade", "query", "offer"}
FailSearchSteps == {"failSearch", "expire", "expireHistory"}
Steps == CustomerOps \cup MasterOps \cup CascadeSteps \cup FailSearchSteps
           \cup {"accept", "enqueue", "penalise"}

Handler(at, o, m, seen, data, attempt, job) ==
  [at |-> at, o |-> o, m |-> m, seen |-> seen, data |-> data,
   attempt |-> attempt, job |-> job]

Idle == Handler("idle", None, None, None, None, 1, None)

\* A handler about to run cascadeNext(o, attempt), on behalf of the expiry job
\* of master `job`'s offer or (None) of a request.
Cascade(o, attempt, job) == Handler("cascade", o, None, None, None, attempt, job)

Execs ==
  [at: Steps \cup {"idle"}, o: Orders \cup {None}, m: Masters \cup {None},
   seen: OrderStatus \cup {None}, data: Tiers \cup Locations \cup {None},
   attempt: 1..2, job: Masters \cup {None}]

TypeOK ==
  /\ status \in [Orders -> OrderStatus \cup {None}]
  /\ masterId \in [Orders -> Masters \cup {None}]
  /\ tier \in [Orders -> Tiers]
  /\ quote \in [Orders -> Tiers \cup {None}]
  /\ loc \in [Orders -> Locations]
  /\ hist \in [Orders -> [from: OrderStatus \cup {None}, to: OrderStatus \cup {None}]]
  /\ lock \in [Orders -> Slots \cup {None}]
  /\ dispatch \in [Orders -> [Masters -> DispatchStatus \cup {None}]]
  /\ expired \in [Orders -> [Masters -> BOOLEAN]]
  /\ jobs \in [Orders -> [Masters -> 0..attempts]]
  /\ late \in [Orders -> [Masters -> Nat]]
  /\ cancellations \in [Orders -> [Masters -> Nat]]
  /\ jobsDone \in [Masters -> Nat]
  /\ available \in SUBSET Masters
  /\ exec \in [Slots -> Execs]
  /\ failures \in 0..MaxFailures

Init ==
  /\ status = [o \in Orders |-> None]
  /\ masterId = [o \in Orders |-> None]
  /\ tier \in [Orders -> Tiers]
  /\ quote = [o \in Orders |-> None]
  /\ loc = [o \in Orders |-> "none"]
  /\ hist = [o \in Orders |-> [from |-> None, to |-> None]]
  /\ lock = [o \in Orders |-> None]
  /\ dispatch = [o \in Orders |-> [m \in Masters |-> None]]
  /\ expired = [o \in Orders |-> [m \in Masters |-> FALSE]]
  /\ jobs = [o \in Orders |-> [m \in Masters |-> 0]]
  /\ late = [o \in Orders |-> [m \in Masters |-> 0]]
  /\ cancellations = [o \in Orders |-> [m \in Masters |-> 0]]
  /\ jobsDone = [m \in Masters |-> 0]
  /\ available = Masters
  /\ exec = [s \in Slots |-> Idle]
  /\ failures = 0

----------------------------------------------------------------------------
\* A handler starts, moves on to its next await, or ends.
Start(s, e) == exec[s] = Idle /\ exec' = [exec EXCEPT ![s] = e]
Goto(s, step) == exec' = [exec EXCEPT ![s].at = step]
Return(s) == exec' = [exec EXCEPT ![s] = Idle]

\* The job a worker was running is complete when its handler ends.
JobsAfterReturn(s) ==
  IF exec[s].job = None THEN jobs
  ELSE [jobs EXCEPT ![exec[s].o][exec[s].job] = 0]

\* Everything that writes the order's row, or inserts a row whose foreign key
\* points at it, waits for the transaction that holds the row FOR UPDATE.
RowFree(o) == lock[o] = None

\* order.update / updateMany with its order_status_history row.
WriteStatus(o, from, to) ==
  /\ status' = [status EXCEPT ![o] = to]
  /\ hist' = [hist EXCEPT ![o] = [from |-> from, to |-> to]]

\* Mutant: update({ where: { id } }), whatever the status has become.
GuardedWriteUnguarded(s, to) ==
  /\ RowFree(exec[s].o)
  /\ WriteStatus(exec[s].o, exec[s].seen, to)

\* updateMany({ where: { id, status: order.status } }): the guarded write, which
\* changes nothing (count = 0) when the status is no longer the one read.
GuardedWrite(s, to) ==
  LET o == exec[s].o IN
  /\ RowFree(o)
  /\ IF status[o] = exec[s].seen
     THEN WriteStatus(o, exec[s].seen, to)
     ELSE UNCHANGED <<status, hist>>

\* The operations whose write is not conditioned on the status they read.
UnguardedOps == {"updateDraft", "diagnose", "submit"}

\* Under SerialEdits the client holds a request back while one it would overlap
\* with is unanswered.  Nothing in the API does: the assumption is the client's.
CustomerWaits(o, op) ==
  /\ SerialEdits
  /\ \E s \in Requests :
       /\ exec[s].o = o
       /\ \/ op \in UnguardedOps /\ exec[s].at \in CustomerOps
          \/ exec[s].at \in UnguardedOps
=============================================================================
