------------------------- MODULE MarketplaceProofs -------------------------
(***************************************************************************)
(* What holds of the order and dispatch services for any number of orders, *)
(* masters, tiers, requests in flight and workers; in its second half what *)
(* holds when a customer's requests do not overlap.                        *)
(***************************************************************************)
EXTENDS Marketplace, FiniteSetTheorems, TLAPS

----------------------------------------------------------------------------
(* The handlers in flight. *)

\* The constructor builds a well-typed handler from well-typed fields.
LEMMA HandlerType ==
  ASSUME NEW at \in Steps \cup {"idle"}, NEW o \in Orders \cup {None},
         NEW m \in Masters \cup {None}, NEW seen \in OrderStatus \cup {None},
         NEW data \in Tiers \cup Locations \cup {None}, NEW attempt \in 1..2,
         NEW job \in Masters \cup {None}
  PROVE  Handler(at, o, m, seen, data, attempt, job) \in Execs
BY DEF Handler, Execs

\* An idle slot is well typed and carries nothing.
LEMMA IdleOK == Idle \in Execs /\ \A s \in Slots : HandlerOK(s, Idle)
BY DEF Idle, Handler, Execs, HandlerOK, CustomerOps, MasterOps

\* Replacing one slot's handler by a proper one keeps all of them proper.
LEMMA ExecSet ==
  ASSUME exec \in [Slots -> Execs], ExecOK, NEW s \in Slots, NEW e \in Execs,
         HandlerOK(s, e), exec' = [exec EXCEPT ![s] = e]
  PROVE  exec' \in [Slots -> Execs] /\ ExecOK'
<1>1. \A x \in Slots : exec'[x] = IF x = s THEN e ELSE exec[x]
  OBVIOUS
<1>2. ExecOK'
  BY <1>1 DEF ExecOK
<1> QED BY <1>2

\* Goto replaces the handler's place and nothing else.
LEMMA GotoIs ==
  ASSUME exec \in [Slots -> Execs], NEW s \in Slots, NEW step, Goto(s, step)
  PROVE  exec' = [exec EXCEPT ![s] =
           Handler(step, exec[s].o, exec[s].m, exec[s].seen, exec[s].data,
                   exec[s].attempt, exec[s].job)]
<1> DEFINE e == exec[s]
<1>1. e \in Execs
  OBVIOUS
<1>2. [e EXCEPT !.at = step] = Handler(step, e.o, e.m, e.seen, e.data, e.attempt, e.job)
  BY <1>1 DEF Handler, Execs
<1>3. exec' = [exec EXCEPT ![s] = [e EXCEPT !.at = step]]
  BY DEF Goto
<1> QED BY <1>2, <1>3

\* A stalled job's handler goes on without the job.
LEMMA StallIs ==
  ASSUME exec \in [Slots -> Execs], NEW w \in Slots,
         exec' = [exec EXCEPT ![w].job = None]
  PROVE  exec' = [exec EXCEPT ![w] =
           Handler(exec[w].at, exec[w].o, exec[w].m, exec[w].seen, exec[w].data,
                   exec[w].attempt, None)]
<1> DEFINE e == exec[w]
<1>1. e \in Execs
  OBVIOUS
<1>2. [e EXCEPT !.job = None] = Handler(e.at, e.o, e.m, e.seen, e.data, e.attempt, None)
  BY <1>1 DEF Handler, Execs
<1>3. exec' = [exec EXCEPT ![w] = [e EXCEPT !.job = None]]
  OBVIOUS
<1> QED BY <1>2, <1>3

\* The fields of a handler in flight are well typed.
LEMMA Fields ==
  ASSUME exec \in [Slots -> Execs], NEW s \in Slots
  PROVE  /\ exec[s] \in Execs
         /\ exec[s].at \in Steps \cup {"idle"}
         /\ exec[s].o \in Orders \cup {None}
         /\ exec[s].m \in Masters \cup {None}
         /\ exec[s].seen \in OrderStatus \cup {None}
         /\ exec[s].data \in Tiers \cup Locations \cup {None}
         /\ exec[s].attempt \in 1..2
         /\ exec[s].job \in Masters \cup {None}
BY DEF Execs

----------------------------------------------------------------------------
(* The writes. *)

\* A status write keeps the order's row and its history well typed.
LEMMA WriteType ==
  ASSUME TypeOK, NEW o \in Orders, NEW from \in OrderStatus \cup {None},
         NEW to \in OrderStatus, WriteStatus(o, from, to)
  PROVE  /\ status' \in [Orders -> OrderStatus \cup {None}]
         /\ hist' \in [Orders -> [from: OrderStatus \cup {None}, to: OrderStatus \cup {None}]]
BY DEF TypeOK, WriteStatus

\* So does a guarded one, which may write nothing.
LEMMA GuardedType ==
  ASSUME TypeOK, NEW s \in Slots, exec[s].o \in Orders, NEW to \in OrderStatus,
         GuardedWrite(s, to)
  PROVE  /\ status' \in [Orders -> OrderStatus \cup {None}]
         /\ hist' \in [Orders -> [from: OrderStatus \cup {None}, to: OrderStatus \cup {None}]]
<1>1. exec[s].seen \in OrderStatus \cup {None}
  BY Fields DEF TypeOK
<1>2. CASE status[exec[s].o] = exec[s].seen
  BY <1>1, <1>2, WriteType DEF GuardedWrite
<1>3. CASE status[exec[s].o] # exec[s].seen
  BY <1>3 DEF GuardedWrite, TypeOK
<1> QED BY <1>2, <1>3

\* Ending a handler keeps the queue well typed.
LEMMA JobsAfterReturnType ==
  ASSUME TypeOK, NEW s \in Slots, exec[s].o \in Orders
  PROVE  JobsAfterReturn(s) \in [Orders -> [Masters -> 0..attempts]]
<1>1. exec[s].job \in Masters \cup {None}
  BY Fields DEF TypeOK
<1>2. 0 \in 0..attempts
  BY DEF attempts
<1> QED BY <1>1, <1>2 DEF JobsAfterReturn, TypeOK

\* A handler that ends leaves proper handlers.
LEMMA ReturnOK ==
  ASSUME TypeOK, ExecOK, NEW s \in Slots, Return(s)
  PROVE  exec' \in [Slots -> Execs] /\ ExecOK'
BY IdleOK, ExecSet DEF Return, TypeOK

\* So does one that starts an await it carries the right data for.
LEMMA GotoOK ==
  ASSUME TypeOK, ExecOK, NEW s \in Slots, NEW step \in Steps, Goto(s, step),
         HandlerOK(s, Handler(step, exec[s].o, exec[s].m, exec[s].seen, exec[s].data,
                              exec[s].attempt, exec[s].job))
  PROVE  exec' \in [Slots -> Execs] /\ ExecOK'
<1> DEFINE e == Handler(step, exec[s].o, exec[s].m, exec[s].seen, exec[s].data,
                        exec[s].attempt, exec[s].job)
<1>1. exec' = [exec EXCEPT ![s] = e]
  BY GotoIs DEF TypeOK
<1>2. e \in Execs
  BY Fields, HandlerType DEF TypeOK
<1> HIDE DEF e
<1> QED BY <1>1, <1>2, ExecSet DEF TypeOK, e

\* And one that starts.
LEMMA CascadeOK ==
  ASSUME TypeOK, ExecOK, NEW s \in Slots, NEW o \in Orders, NEW attempt \in 1..2,
         NEW job \in Masters \cup {None},
         exec' = [exec EXCEPT ![s] = Cascade(o, attempt, job)]
  PROVE  exec' \in [Slots -> Execs] /\ ExecOK'
<1>1. Cascade(o, attempt, job) \in Execs
  BY HandlerType DEF Cascade, Steps, CascadeSteps
<1>2. HandlerOK(s, Cascade(o, attempt, job))
  BY DEF Cascade, Handler, HandlerOK, CustomerOps, MasterOps
<1> QED BY <1>1, <1>2, ExecSet DEF TypeOK

\* A handler of the service carries the order it is about.
LEMMA OrderOf ==
  ASSUME TypeOK, ExecOK, NEW s \in Slots, exec[s].at # "idle"
  PROVE  exec[s].o \in Orders
BY DEF ExecOK, HandlerOK

\* The statuses the operations write are statuses.
LEMMA Targets ==
  /\ Target["diagnose"] = "PRICED" /\ Target["submit"] = "SEARCHING"
  /\ Target["cancel"] = "CANCELLED_BY_CUSTOMER"
  /\ Target["confirmCompletion"] = "CLOSED"
  /\ Target["startEnRoute"] = "EN_ROUTE" /\ Target["startService"] = "IN_PROGRESS"
  /\ Target["completeService"] = "COMPLETED"
  /\ Target["cancelByMaster"] = "CANCELLED_BY_MASTER"
BY DEF Target

LEMMA Statuses ==
  {"DRAFT", "PRICED", "SEARCHING", "ASSIGNED", "EN_ROUTE", "IN_PROGRESS",
   "COMPLETED", "CLOSED", "CANCELLED_BY_CUSTOMER", "CANCELLED_BY_MASTER",
   "EXPIRED"} \subseteq OrderStatus
BY DEF OrderStatus

----------------------------------------------------------------------------
(* Types, and what the handlers carry. *)

LEMMA InitOK == Init => TypeOK /\ ExecOK
<1> SUFFICES ASSUME Init PROVE TypeOK /\ ExecOK
  OBVIOUS
<1>1. exec \in [Slots -> Execs] /\ ExecOK
  BY IdleOK DEF Init, ExecOK
<1>2. TypeOK
  BY <1>1, StoreAssumption DEF Init, TypeOK, Locations, attempts
<1> QED BY <1>1, <1>2

\* The customer's operations.
LEMMA CustomerStepOK ==
  ASSUME TypeOK, ExecOK, NEW s \in Slots,
         updateDraft(s) \/ diagnose(s) \/ submit(s) \/ cancel(s) \/ confirmCompletion(s)
  PROVE  TypeOK' /\ ExecOK'
<1> USE Statuses, StoreAssumption DEF dispatchRows, masterRows
<1>1. CASE updateDraft(s)
  <2>1. exec[s].o \in Orders /\ exec[s].data \in Tiers \cup {"address", "point"}
    BY <1>1 DEF updateDraft, ExecOK, HandlerOK
  <2>2. exec' \in [Slots -> Execs] /\ ExecOK'
    BY <1>1, ReturnOK DEF updateDraft
  <2>3. /\ status' \in [Orders -> OrderStatus \cup {None}]
        /\ hist' \in [Orders -> [from: OrderStatus \cup {None}, to: OrderStatus \cup {None}]]
    BY <1>1, <2>1, WriteType DEF updateDraft, TypeOK
  <2>4. tier' \in [Orders -> Tiers]
    BY <1>1, <2>1 DEF updateDraft, TypeOK
  <2>6. quote' \in [Orders -> Tiers \cup {None}]
    BY <1>1, <2>1 DEF updateDraft, TypeOK
  <2>5. loc' \in [Orders -> Locations]
    BY <1>1, <2>1 DEF updateDraft, TypeOK, Locations
  <2> QED BY <1>1, <2>2, <2>3, <2>4, <2>5, <2>6 DEF updateDraft, TypeOK
<1>2. CASE diagnose(s)
  <2>1. exec[s].o \in Orders /\ exec[s].data \in Tiers /\ exec[s].seen \in OrderStatus \cup {None}
    BY <1>2, Fields DEF diagnose, ExecOK, HandlerOK, TypeOK
  <2>2. exec' \in [Slots -> Execs] /\ ExecOK'
    BY <1>2, ReturnOK DEF diagnose
  <2>3. /\ status' \in [Orders -> OrderStatus \cup {None}]
        /\ hist' \in [Orders -> [from: OrderStatus \cup {None}, to: OrderStatus \cup {None}]]
    BY <1>2, <2>1, WriteType DEF diagnose, TypeOK
  <2>4. quote' \in [Orders -> Tiers \cup {None}]
    BY <1>2, <2>1 DEF diagnose, TypeOK
  <2> QED BY <1>2, <2>2, <2>3, <2>4 DEF diagnose, TypeOK
<1>3. CASE submit(s)
  <2>1. exec[s].o \in Orders /\ exec[s].seen \in OrderStatus \cup {None}
    BY <1>3, OrderOf, Fields DEF submit, TypeOK
  <2>2. exec' \in [Slots -> Execs] /\ ExecOK'
    <3>1. 1 \in 1..2
      OBVIOUS
    <3> QED BY <1>3, <2>1, <3>1, CascadeOK DEF submit
  <2>3. /\ status' \in [Orders -> OrderStatus \cup {None}]
        /\ hist' \in [Orders -> [from: OrderStatus \cup {None}, to: OrderStatus \cup {None}]]
    BY <1>3, <2>1, WriteType DEF submit
  <2> QED BY <1>3, <2>2, <2>3 DEF submit, TypeOK
<1>4. CASE cancel(s)
  <2>1. exec' \in [Slots -> Execs] /\ ExecOK'
    BY <1>4, ReturnOK DEF cancel
  <2>2. /\ status' \in [Orders -> OrderStatus \cup {None}]
        /\ hist' \in [Orders -> [from: OrderStatus \cup {None}, to: OrderStatus \cup {None}]]
    BY <1>4, OrderOf, GuardedType, Targets DEF cancel
  <2> QED BY <1>4, <2>1, <2>2 DEF cancel, TypeOK
<1>5. CASE confirmCompletion(s)
  <2>1. exec[s].m \in Masters
    BY <1>5 DEF confirmCompletion, ExecOK, HandlerOK
  <2>2. jobsDone' \in [Masters -> Nat]
    BY <1>5, <2>1 DEF confirmCompletion, TypeOK
  <2> QED BY <1>5, <2>2, OrderOf, ReturnOK, GuardedType, Targets DEF confirmCompletion, TypeOK
<1> QED BY <1>1, <1>2, <1>3, <1>4, <1>5

\* The master's operations on the job.
LEMMA MasterStepOK ==
  ASSUME TypeOK, ExecOK, NEW s \in Slots,
         \/ startEnRoute(s) \/ startService(s) \/ completeService(s)
         \/ cancelByMaster(s) \/ recordCancellation(s)
  PROVE  TypeOK' /\ ExecOK'
<1> USE Statuses, StoreAssumption DEF dispatchRows, masterRows, orderRow
<1>1. ASSUME NEW op \in MasterOps, jobTransition(s, op), Target[op] \in OrderStatus
      PROVE  TypeOK' /\ ExecOK'
  BY <1>1, OrderOf, ReturnOK, GuardedType DEF jobTransition, TypeOK, MasterOps
<1>2. CASE startEnRoute(s) \/ startService(s) \/ completeService(s)
  BY <1>1, <1>2, Targets DEF startEnRoute, startService, completeService, MasterOps
<1>3. CASE cancelByMaster(s)
  <2>1. exec[s].o \in Orders /\ exec[s].m \in Masters
    BY <1>3 DEF cancelByMaster, ExecOK, HandlerOK, MasterOps
  <2>2. exec' \in [Slots -> Execs] /\ ExecOK'
    <3>1. CASE Return(s)
      BY <3>1, ReturnOK
    <3>2. CASE Goto(s, "penalise")
      <4>1. HandlerOK(s, Handler("penalise", exec[s].o, exec[s].m, exec[s].seen,
                                 exec[s].data, exec[s].attempt, exec[s].job))
        BY <2>1 DEF HandlerOK, Handler, CustomerOps, MasterOps
      <4> QED BY <3>2, <4>1, GotoOK DEF Steps
    <3> QED BY <1>3, <3>1, <3>2 DEF cancelByMaster
  <2> QED BY <1>3, <2>1, <2>2, GuardedType, Targets DEF cancelByMaster, TypeOK
<1>4. CASE recordCancellation(s)
  <2>1. exec[s].o \in Orders /\ exec[s].m \in Masters
    BY <1>4 DEF recordCancellation, ExecOK, HandlerOK
  <2>2. cancellations' \in [Orders -> [Masters -> Nat]]
    BY <1>4, <2>1 DEF recordCancellation, TypeOK
  <2> QED BY <1>4, <2>2, ReturnOK DEF recordCancellation, TypeOK
<1> QED BY <1>2, <1>3, <1>4

\* The cascade.
LEMMA CascadeStepOK ==
  ASSUME TypeOK, ExecOK, NEW s \in Slots,
         \/ cascadeNext(s) \/ pickCandidate(s) \/ createOffer(s)
         \/ enqueueExpiry(s) \/ recordLateResponse(s)
  PROVE  TypeOK' /\ ExecOK'
<1> DEFINE e == exec[s]
<1> USE DEF dispatchRows, masterRows, orderRow
<1>0. /\ e.o \in Orders
      /\ e.job \in Masters \cup {None} /\ e.attempt \in 1..2 /\ {1, 2} \subseteq 1..2
  BY OrderOf, Fields DEF cascadeNext, pickCandidate, createOffer, enqueueExpiry,
                         recordLateResponse, TypeOK
<1>1. CASE cascadeNext(s)
  <2>1. exec' \in [Slots -> Execs] /\ ExecOK'
    <3>1. ASSUME NEW step \in {"query", "failSearch"}, Goto(s, step)
          PROVE  exec' \in [Slots -> Execs] /\ ExecOK'
      <4>1. HandlerOK(s, Handler(step, e.o, e.m, e.seen, e.data, e.attempt, e.job))
        BY <1>0 DEF HandlerOK, Handler, CustomerOps, MasterOps
      <4> QED BY <3>1, <4>1, GotoOK DEF Steps, CascadeSteps, FailSearchSteps
    <3> QED BY <1>1, <3>1, ReturnOK DEF cascadeNext
  <2>2. jobs' \in [Orders -> [Masters -> 0..attempts]]
    BY <1>0, <1>1, JobsAfterReturnType DEF cascadeNext, TypeOK
  <2> QED BY <1>1, <2>1, <2>2 DEF cascadeNext, TypeOK
<1>2. CASE pickCandidate(s)
  <2>1. exec' \in [Slots -> Execs] /\ ExecOK'
    <3>1. CASE exec' = [exec EXCEPT ![s] = Cascade(e.o, 2, e.job)]
      BY <1>0, <3>1, CascadeOK
    <3>2. CASE Goto(s, "failSearch")
      <4>1. HandlerOK(s, Handler("failSearch", e.o, e.m, e.seen, e.data, e.attempt, e.job))
        BY <1>0 DEF HandlerOK, Handler, CustomerOps, MasterOps
      <4> QED BY <3>2, <4>1, GotoOK DEF Steps, FailSearchSteps
    <3>3. ASSUME NEW m \in Masters,
                 exec' = [exec EXCEPT ![s] = Handler("offer", e.o, m, None, None, e.attempt, e.job)]
          PROVE  exec' \in [Slots -> Execs] /\ ExecOK'
      <4>1. HandlerOK(s, Handler("offer", e.o, m, None, None, e.attempt, e.job))
        BY <1>0 DEF HandlerOK, Handler, CustomerOps, MasterOps
      <4>2. Handler("offer", e.o, m, None, None, e.attempt, e.job) \in Execs
        BY <1>0, HandlerType DEF Steps, CascadeSteps
      <4> QED BY <3>3, <4>1, <4>2, ExecSet DEF TypeOK
    <3>4. findEligibleCandidates(e.o, e.attempt) \subseteq Masters
      BY DEF findEligibleCandidates, TypeOK
    <3> QED BY <1>2, <3>1, <3>2, <3>3, <3>4 DEF pickCandidate
  <2> QED BY <1>2, <2>1 DEF pickCandidate, TypeOK
<1>3. CASE createOffer(s)
  <2>1. e.m \in Masters
    BY <1>3 DEF createOffer, ExecOK, HandlerOK
  <2>2. exec' \in [Slots -> Execs] /\ ExecOK'
    <3>1. CASE exec' = [exec EXCEPT ![s] = Cascade(e.o, e.attempt, e.job)]
      BY <1>0, <3>1, CascadeOK
    <3>2. CASE Goto(s, "enqueue")
      <4>1. HandlerOK(s, Handler("enqueue", e.o, e.m, e.seen, e.data, e.attempt, e.job))
        BY <1>0, <2>1 DEF HandlerOK, Handler, CustomerOps, MasterOps
      <4> QED BY <3>2, <4>1, GotoOK DEF Steps
    <3> QED BY <1>3, <3>1, <3>2 DEF createOffer
  <2>3. dispatch' \in [Orders -> [Masters -> DispatchStatus \cup {None}]]
    <3>1. "OFFERED" \in DispatchStatus
      BY DEF DispatchStatus
    <3>2. dispatch \in [Orders -> [Masters -> DispatchStatus \cup {None}]]
      BY DEF TypeOK
    <3>3. dispatch' = dispatch \/ dispatch' = [dispatch EXCEPT ![e.o][e.m] = "OFFERED"]
      BY <1>3 DEF createOffer
    <3> QED BY <1>0, <2>1, <3>1, <3>2, <3>3
  <2> QED BY <1>3, <2>2, <2>3 DEF createOffer, TypeOK
<1>4. CASE enqueueExpiry(s)
  <2>1. e.m \in Masters
    BY <1>4 DEF enqueueExpiry, ExecOK, HandlerOK
  <2>2. jobs' \in [Orders -> [Masters -> 0..attempts]]
    <3>1. attempts \in 0..attempts
      BY DEF attempts
    <3>2. JobsAfterReturn(s) \in [Orders -> [Masters -> 0..attempts]]
      BY <1>0, JobsAfterReturnType
    <3> QED BY <1>0, <1>4, <2>1, <3>1, <3>2 DEF enqueueExpiry
  <2> QED BY <1>4, <2>2, ReturnOK DEF enqueueExpiry, TypeOK
<1>5. CASE recordLateResponse(s)
  <2>1. e.m \in Masters
    BY <1>5 DEF recordLateResponse, ExecOK, HandlerOK
  <2>2. late' \in [Orders -> [Masters -> Nat]]
    BY <1>0, <1>5, <2>1 DEF recordLateResponse, TypeOK
  <2>3. exec' \in [Slots -> Execs] /\ ExecOK'
    BY <1>0, <1>5, CascadeOK DEF recordLateResponse
  <2> QED BY <1>5, <2>2, <2>3 DEF recordLateResponse, TypeOK
<1> QED BY <1>1, <1>2, <1>3, <1>4, <1>5

\* The end of a search: an assignment, or nobody found.
LEMMA EndStepOK ==
  ASSUME TypeOK, ExecOK, NEW s \in Slots,
         commitAccept(s) \/ failSearch(s) \/ expireOrder(s) \/ expireHistory(s)
  PROVE  TypeOK' /\ ExecOK'
<1> DEFINE e == exec[s]
<1> USE Statuses, StoreAssumption DEF dispatchRows, masterRows, orderRow
<1>0. /\ e.o \in Orders /\ status[e.o] \in OrderStatus \cup {None}
      /\ e.job \in Masters \cup {None} /\ e.seen \in OrderStatus \cup {None}
  BY OrderOf, Fields DEF commitAccept, failSearch, expireOrder, expireHistory, TypeOK
<1>1. CASE commitAccept(s)
  <2>1. e.m \in Masters
    BY <1>1 DEF commitAccept, ExecOK, HandlerOK
  <2>2. dispatch' \in [Orders -> [Masters -> DispatchStatus \cup {None}]]
    <3>1. {"ACCEPTED", "WITHDRAWN"} \subseteq DispatchStatus
      BY DEF DispatchStatus
    <3> QED BY <1>0, <1>1, <2>1, <3>1 DEF commitAccept, TypeOK
  <2>3. /\ status' \in [Orders -> OrderStatus \cup {None}]
        /\ hist' \in [Orders -> [from: OrderStatus \cup {None}, to: OrderStatus \cup {None}]]
    BY <1>0, <1>1, WriteType DEF commitAccept
  <2>4. masterId' \in [Orders -> Masters \cup {None}] /\ lock' \in [Orders -> Slots \cup {None}]
    BY <1>0, <1>1, <2>1 DEF commitAccept, TypeOK
  <2> QED BY <1>1, <2>2, <2>3, <2>4, ReturnOK DEF commitAccept, TypeOK
<1>2. CASE failSearch(s)
  <2>1. exec' \in [Slots -> Execs] /\ ExecOK'
    <3> DEFINE x == Handler("expire", e.o, None, status[e.o], None, 1, e.job)
    <3>1. CASE canTransition(status[e.o], "EXPIRED")
      <4>1. status[e.o] = "SEARCHING"
        BY <3>1 DEF canTransition, TRANSITIONS
      <4>2. HandlerOK(s, x)
        BY <1>0, <4>1 DEF HandlerOK, Handler, CustomerOps, MasterOps
      <4>3. x \in Execs
        <5>1. 1 \in 1..2 /\ "expire" \in Steps \cup {"idle"}
          BY DEF Steps, FailSearchSteps
        <5> QED BY <1>0, <5>1, HandlerType
      <4>4. exec' = [exec EXCEPT ![s] = x]
        BY <1>2, <3>1 DEF failSearch
      <4> HIDE DEF x
      <4> QED BY <4>2, <4>3, <4>4, ExecSet DEF TypeOK
    <3>2. CASE ~canTransition(status[e.o], "EXPIRED")
      BY <1>2, <3>2, ReturnOK DEF failSearch
    <3> QED BY <3>1, <3>2
  <2>2. jobs' \in [Orders -> [Masters -> 0..attempts]]
    BY <1>0, <1>2, JobsAfterReturnType DEF failSearch, TypeOK
  <2> QED BY <1>2, <2>1, <2>2 DEF failSearch, TypeOK
<1>3. CASE expireOrder(s)
  <2>1. exec' \in [Slots -> Execs] /\ ExecOK'
    <3>1. CASE Goto(s, "expireHistory")
      <4>1. e.seen = "SEARCHING"
        BY <1>3 DEF expireOrder, ExecOK, HandlerOK
      <4>2. HandlerOK(s, Handler("expireHistory", e.o, e.m, e.seen, e.data, e.attempt, e.job))
        BY <1>0, <4>1 DEF HandlerOK, Handler, CustomerOps, MasterOps
      <4> QED BY <3>1, <4>2, GotoOK DEF Steps, FailSearchSteps
    <3> QED BY <1>3, <3>1, ReturnOK DEF expireOrder
  <2>2. jobs' \in [Orders -> [Masters -> 0..attempts]]
    BY <1>0, <1>3, JobsAfterReturnType DEF expireOrder, TypeOK
  <2>3. status' \in [Orders -> OrderStatus \cup {None}]
    <3>1. status' = status \/ status' = [status EXCEPT ![e.o] = "EXPIRED"]
      BY <1>3 DEF expireOrder
    <3>2. status \in [Orders -> OrderStatus \cup {None}]
      BY DEF TypeOK
    <3> QED BY <1>0, <3>1, <3>2
  <2> QED BY <1>3, <2>1, <2>2, <2>3 DEF expireOrder, TypeOK
<1>4. CASE expireHistory(s)
  <2>1. jobs' \in [Orders -> [Masters -> 0..attempts]]
    BY <1>0, <1>4, JobsAfterReturnType DEF expireHistory
  <2>2. hist' \in [Orders -> [from: OrderStatus \cup {None}, to: OrderStatus \cup {None}]]
    BY <1>0, <1>4 DEF expireHistory, TypeOK
  <2> QED BY <1>4, <2>1, <2>2, ReturnOK DEF expireHistory, TypeOK
<1> QED BY <1>1, <1>2, <1>3, <1>4

\* A request arrives.
LEMMA RequestOK ==
  ASSUME TypeOK, ExecOK, NEW s \in Requests, NEW o \in Orders, Request(s, o)
  PROVE  TypeOK' /\ ExecOK'
<1> USE Statuses, StoreAssumption DEF dispatchRows, masterRows, orderRow
<1>0. /\ s \in Slots /\ status[o] \in OrderStatus \cup {None} /\ 1 \in 1..2
      /\ masterId[o] \in Masters \cup {None} /\ tier[o] \in Tiers
  BY DEF Slots, TypeOK
<1>1. ASSUME NEW e \in Execs, Start(s, e), HandlerOK(s, e)
      PROVE  exec' \in [Slots -> Execs] /\ ExecOK'
  BY <1>0, <1>1, ExecSet DEF Start, TypeOK
<1>2. ASSUME NEW op \in CustomerOps, CustomerRead(s, o, op)
      PROVE  TypeOK' /\ ExecOK'
  <2> DEFINE e == Reading(op, o, masterId[o], tier[o])
  <2>1. e \in Execs
    <3>1. op \in Steps
      BY DEF Steps
    <3> QED BY <1>0, <3>1, HandlerType DEF Reading
  <2>2. op = "confirmCompletion" => masterId[o] \in Masters
    BY <1>0, <1>2 DEF CustomerRead
  <2>3. HandlerOK(s, e)
    BY <1>0, <1>2, <2>2 DEF HandlerOK, Reading, Handler, CustomerRead, CustomerOps, MasterOps
  <2> QED BY <1>1, <1>2, <2>1, <2>3 DEF CustomerRead, TypeOK
<1>3. ASSUME NEW edit \in Tiers \cup Locations, EditRead(s, o, edit)
      PROVE  TypeOK' /\ ExecOK'
  <2> DEFINE e == Reading("updateDraft", o, None, edit)
  <2>1. e \in Execs
    <3>1. "updateDraft" \in Steps
      BY DEF Steps, CustomerOps
    <3> QED BY <1>0, <3>1, HandlerType DEF Reading
  <2>2. HandlerOK(s, e)
    BY <1>0, <1>3 DEF HandlerOK, Reading, Handler, EditRead, CustomerOps, MasterOps
  <2> QED BY <1>1, <1>3, <2>1, <2>2 DEF EditRead, TypeOK
<1>4. ASSUME NEW op \in MasterOps, MasterRead(s, o, op)
      PROVE  TypeOK' /\ ExecOK'
  <2> DEFINE e == Reading(op, o, masterId[o], None)
  <2>1. e \in Execs
    <3>1. op \in Steps
      BY DEF Steps
    <3> QED BY <1>0, <3>1, HandlerType DEF Reading
  <2>2. masterId[o] \in Masters
    BY <1>0, <1>4 DEF MasterRead
  <2>3. HandlerOK(s, e)
    BY <1>0, <1>4, <2>2 DEF HandlerOK, Reading, Handler, MasterRead, CustomerOps, MasterOps
  <2> QED BY <1>1, <1>4, <2>1, <2>3 DEF MasterRead, TypeOK
<1>5. ASSUME NEW m \in Masters, acceptOffer(s, o, m)
      PROVE  TypeOK' /\ ExecOK'
  <2> DEFINE e == Handler("accept", o, m, None, None, 1, None)
  <2>1. e \in Execs
    BY <1>0, HandlerType DEF Steps
  <2>2. HandlerOK(s, e)
    BY <1>0 DEF HandlerOK, Handler, CustomerOps, MasterOps
  <2>3. lock' \in [Orders -> Slots \cup {None}]
    BY <1>0, <1>5 DEF acceptOffer, TypeOK
  <2> QED BY <1>1, <1>5, <2>1, <2>2, <2>3 DEF acceptOffer, TypeOK
<1>6. ASSUME NEW m \in Masters, declineOffer(s, o, m)
      PROVE  TypeOK' /\ ExecOK'
  <2>1. dispatch' \in [Orders -> [Masters -> DispatchStatus \cup {None}]]
    <3>1. "DECLINED" \in DispatchStatus
      BY DEF DispatchStatus
    <3> QED BY <1>6, <3>1 DEF declineOffer, TypeOK
  <2>2. exec' \in [Slots -> Execs] /\ ExecOK'
    BY <1>0, <1>6, CascadeOK DEF declineOffer, Start
  <2> QED BY <1>6, <2>1, <2>2 DEF declineOffer, TypeOK
<1> QED BY <1>2, <1>3, <1>4, <1>5, <1>6 DEF Request

\* Time, availability, workers and failures.
LEMMA EnvironmentOK ==
  ASSUME TypeOK, ExecOK,
         \/ \E o \in Orders : createDraft(o)
         \/ \E w \in Workers, o \in Orders, m \in Masters : handleOfferExpiry(w, o, m)
         \/ \E o \in Orders, m \in Masters : OfferTimesOut(o, m)
         \/ \E m \in Masters : AvailabilityChanges(m)
         \/ \E s \in Slots : HandlerFails(s)
         \/ \E o \in Orders, m \in Masters : JobAttemptFails(o, m)
         \/ \E w \in Workers : JobStalls(w)
  PROVE  TypeOK' /\ ExecOK'
<1> USE Statuses, StoreAssumption DEF dispatchRows, masterRows, orderRow
<1>0. exec' = exec => ExecOK'
  BY DEF ExecOK
<1>1. ASSUME NEW o \in Orders, createDraft(o) PROVE TypeOK' /\ ExecOK'
  BY <1>0, <1>1, WriteType DEF createDraft, TypeOK
<1>2. ASSUME NEW w \in Workers, NEW o \in Orders, NEW m \in Masters, handleOfferExpiry(w, o, m)
      PROVE  TypeOK' /\ ExecOK'
  <2> DEFINE e == Handler("late", o, m, None, None, 1, m)
  <2>1. w \in Slots /\ 1 \in 1..2
    BY DEF Slots
  <2>2. e \in Execs
    BY <2>1, HandlerType DEF Steps, CascadeSteps
  <2>3. HandlerOK(w, e)
    BY DEF HandlerOK, Handler, CustomerOps, MasterOps
  <2>4. exec' = exec \/ exec' = [exec EXCEPT ![w] = e]
    BY <1>2 DEF handleOfferExpiry, Start
  <2> HIDE DEF e
  <2>5. exec' \in [Slots -> Execs] /\ ExecOK'
    BY <1>0, <2>1, <2>2, <2>3, <2>4, ExecSet DEF TypeOK
  <2>6. dispatch' \in [Orders -> [Masters -> DispatchStatus \cup {None}]]
    <3>1. "EXPIRED" \in DispatchStatus
      BY DEF DispatchStatus
    <3>2. dispatch' = dispatch \/ dispatch' = [dispatch EXCEPT ![o][m] = "EXPIRED"]
      BY <1>2 DEF handleOfferExpiry
    <3>3. dispatch \in [Orders -> [Masters -> DispatchStatus \cup {None}]]
      BY DEF TypeOK
    <3>4. CASE dispatch' = [dispatch EXCEPT ![o][m] = "EXPIRED"]
      BY <3>1, <3>3, <3>4
    <3> QED BY <3>2, <3>3, <3>4
  <2>7. jobs' \in [Orders -> [Masters -> 0..attempts]]
    <3>1. 0 \in 0..attempts
      BY DEF attempts
    <3>2. jobs' = jobs \/ jobs' = [jobs EXCEPT ![o][m] = 0]
      BY <1>2 DEF handleOfferExpiry
    <3>3. jobs \in [Orders -> [Masters -> 0..attempts]]
      BY DEF TypeOK
    <3>4. CASE jobs' = [jobs EXCEPT ![o][m] = 0]
      BY <3>1, <3>3, <3>4
    <3> QED BY <3>2, <3>3, <3>4
  <2> QED BY <1>2, <2>5, <2>6, <2>7 DEF handleOfferExpiry, TypeOK
<1>3. ASSUME NEW o \in Orders, NEW m \in Masters, OfferTimesOut(o, m)
      PROVE  TypeOK' /\ ExecOK'
  BY <1>0, <1>3 DEF OfferTimesOut, TypeOK
<1>4. ASSUME NEW m \in Masters, AvailabilityChanges(m)
      PROVE  TypeOK' /\ ExecOK'
  BY <1>0, <1>4 DEF AvailabilityChanges, TypeOK
<1>5. ASSUME NEW s \in Slots, HandlerFails(s)
      PROVE  TypeOK' /\ ExecOK'
  <2>1. exec' \in [Slots -> Execs] /\ ExecOK'
    BY <1>5, ReturnOK DEF HandlerFails
  <2>2. exec[s].o \in Orders /\ exec[s].job \in Masters \cup {None}
    BY <1>5, Fields DEF HandlerFails, ExecOK, HandlerOK, TypeOK
  <2>3. jobs' \in [Orders -> [Masters -> 0..attempts]]
    <3> DEFINE o == exec[s].o
               m == exec[s].job
    <3>1. jobs' = IF m = None \/ jobs[o][m] = 0 THEN jobs ELSE [jobs EXCEPT ![o][m] = @ - 1]
      BY <1>5 DEF HandlerFails
    <3>2. jobs \in [Orders -> [Masters -> 0..attempts]] /\ attempts \in Nat
      BY StoreAssumption DEF TypeOK, attempts
    <3> HIDE DEF o, m
    <3>3. CASE m = None \/ jobs[o][m] = 0
      BY <3>1, <3>2, <3>3
    <3>4. CASE m # None /\ jobs[o][m] # 0
      <4>1. o \in Orders /\ m \in Masters
        BY <2>2, <3>4 DEF o, m
      <4>2. PICK n \in 0..attempts : n = jobs[o][m]
        BY <3>2, <4>1
      <4>3. n # 0 /\ n \in Nat /\ n <= attempts
        BY <3>2, <3>4, <4>2
      <4>4. n - 1 \in 0..attempts
        BY <3>2, <4>3
      <4>5. jobs[o][m] - 1 \in 0..attempts
        BY <4>2, <4>4
      <4> QED BY <3>1, <3>2, <3>4, <4>1, <4>5
    <3> QED BY <3>3, <3>4
  <2>4. lock' \in [Orders -> Slots \cup {None}]
    BY <1>5 DEF HandlerFails, TypeOK
  <2>5. failures' \in 0..MaxFailures
    <3>1. failures \in 0..MaxFailures /\ failures < MaxFailures /\ failures' = failures + 1
      BY <1>5 DEF HandlerFails, TypeOK
    <3> QED BY <3>1, StoreAssumption
  <2> QED BY <1>5, <2>1, <2>3, <2>4, <2>5 DEF HandlerFails, TypeOK
<1>6. ASSUME NEW o \in Orders, NEW m \in Masters, JobAttemptFails(o, m)
      PROVE  TypeOK' /\ ExecOK'
  <2>1. jobs' \in [Orders -> [Masters -> 0..attempts]] /\ failures' \in 0..MaxFailures
    BY <1>6 DEF JobAttemptFails, TypeOK, attempts
  <2> QED BY <1>0, <1>6, <2>1 DEF JobAttemptFails, TypeOK
<1>7. ASSUME NEW w \in Workers, JobStalls(w)
      PROVE  TypeOK' /\ ExecOK'
  <2> DEFINE e == Handler(exec[w].at, exec[w].o, exec[w].m, exec[w].seen, exec[w].data,
                          exec[w].attempt, None)
  <2>1. w \in Slots
    BY DEF Slots
  <2>2. e \in Execs
    BY <2>1, Fields, HandlerType DEF TypeOK
  <2>3. exec[w].at # "idle"
    BY <1>7, <2>1 DEF JobStalls, ExecOK, HandlerOK, Idle, Handler
  <2>4. HandlerOK(w, e)
    BY <2>1, <2>3 DEF ExecOK, HandlerOK, Handler
  <2>5. exec' = [exec EXCEPT ![w] = e]
    BY <1>7, <2>1, StallIs DEF JobStalls, TypeOK
  <2> HIDE DEF e
  <2>6. exec' \in [Slots -> Execs] /\ ExecOK'
    BY <2>1, <2>2, <2>4, <2>5, ExecSet DEF TypeOK
  <2>7. failures' \in 0..MaxFailures
    BY <1>7 DEF JobStalls, TypeOK
  <2> QED BY <1>7, <2>6, <2>7 DEF JobStalls, TypeOK
<1> QED BY <1>1, <1>2, <1>3, <1>4, <1>5, <1>6, <1>7

LEMMA StepOK ==
  ASSUME TypeOK, ExecOK, [Next]_vars
  PROVE  TypeOK' /\ ExecOK'
<1>1. CASE UNCHANGED vars
  BY <1>1 DEF vars, TypeOK, ExecOK
<1>2. ASSUME NEW s \in Slots, Step(s)
      PROVE  TypeOK' /\ ExecOK'
  BY <1>2, CustomerStepOK, MasterStepOK, CascadeStepOK, EndStepOK DEF Step
<1>3. CASE Next
  BY <1>2, <1>3, RequestOK, EnvironmentOK DEF Next
<1> QED BY <1>1, <1>3

\* Every variable keeps its type, and a handler in flight carries the order, the
\* master and the status its next write needs: no step of any service reads a
\* field it was never given.
THEOREM Types == Spec => [](TypeOK /\ ExecOK)
<1>1. TypeOK /\ ExecOK /\ [Next]_vars => (TypeOK /\ ExecOK)'
  BY StepOK
<1> QED BY <1>1, InitOK, PTL DEF Spec

-----------------------------------------------------------------------------
(* The safety properties that hold however the customer's requests overlap *)
(* (SerialEdits or not) and whatever fails.                                 *)

\* What a step may do to a row of order_dispatches: create it OFFERED, answer,
\* expire or withdraw it while it is OFFERED, or accept it, and then the order
\* goes to its master.
Answered == {"DECLINED", "EXPIRED", "WITHDRAWN"}
RowStep(o, m) ==
  \/ dispatch'[o][m] = dispatch[o][m]
  \/ dispatch[o][m] = None /\ dispatch'[o][m] = "OFFERED"
  \/ dispatch[o][m] = "OFFERED" /\ dispatch'[o][m] \in Answered
  \/ dispatch'[o][m] = "ACCEPTED" /\ masterId'[o] = m

\* The four actions that write dispatch rows write them so.
LEMMA RowSteps ==
  ASSUME TypeOK, ExecOK, [Next]_vars, NEW o \in Orders, NEW m \in Masters
  PROVE  RowStep(o, m)
<1> USE DEF dispatchRows, masterRows, orderRow
<1>1. CASE UNCHANGED dispatch
  BY <1>1 DEF RowStep
<1>2. ASSUME NEW s \in Slots, createOffer(s)
      PROVE  RowStep(o, m)
  <2>1. exec[s].o \in Orders /\ exec[s].m \in Masters
    BY <1>2 DEF createOffer, ExecOK, HandlerOK
  <2>2. \/ dispatch' = dispatch
        \/ /\ dispatch[exec[s].o][exec[s].m] = None
           /\ dispatch' = [dispatch EXCEPT ![exec[s].o][exec[s].m] = "OFFERED"]
    BY <1>2 DEF createOffer
  <2>3. dispatch \in [Orders -> [Masters -> DispatchStatus \cup {None}]]
    BY DEF TypeOK
  <2> QED BY <2>1, <2>2, <2>3 DEF RowStep
<1>3. ASSUME NEW s \in Slots, commitAccept(s)
      PROVE  RowStep(o, m)
  <2>1. exec[s].o \in Orders /\ exec[s].m \in Masters
    BY <1>3 DEF commitAccept, ExecOK, HandlerOK
  <2>2. masterId'[exec[s].o] = exec[s].m
    BY <1>3, <2>1 DEF commitAccept, TypeOK
  <2> QED BY <1>3, <2>1, <2>2 DEF commitAccept, TypeOK, RowStep, Answered
<1>4. ASSUME NEW w \in Workers, NEW o2 \in Orders, NEW m2 \in Masters, handleOfferExpiry(w, o2, m2)
      PROVE  RowStep(o, m)
  <2>1. \/ dispatch' = dispatch
        \/ dispatch[o2][m2] = "OFFERED" /\ dispatch' = [dispatch EXCEPT ![o2][m2] = "EXPIRED"]
    BY <1>4 DEF handleOfferExpiry
  <2>2. dispatch \in [Orders -> [Masters -> DispatchStatus \cup {None}]]
    BY DEF TypeOK
  <2> QED BY <2>1, <2>2 DEF RowStep, Answered
<1>5. ASSUME NEW s \in Requests, NEW o2 \in Orders, NEW m2 \in Masters, declineOffer(s, o2, m2)
      PROVE  RowStep(o, m)
  <2>1. dispatch[o2][m2] = "OFFERED" /\ dispatch' = [dispatch EXCEPT ![o2][m2] = "DECLINED"]
    BY <1>5 DEF declineOffer
  <2>2. dispatch \in [Orders -> [Masters -> DispatchStatus \cup {None}]]
    BY DEF TypeOK
  <2> QED BY <2>1, <2>2 DEF RowStep, Answered
<1>6. ASSUME NEW s \in Slots, Step(s)
      PROVE  RowStep(o, m)
  <2>1. CASE createOffer(s) \/ commitAccept(s)
    BY <1>2, <1>3, <2>1
  <2>2. CASE ~createOffer(s) /\ ~commitAccept(s)
    BY <1>1, <1>6, <2>2
       DEF Step, updateDraft, diagnose, submit, cancel, confirmCompletion, startEnRoute,
           startService, completeService, jobTransition, cancelByMaster, recordCancellation,
           cascadeNext, pickCandidate, enqueueExpiry, recordLateResponse, failSearch,
           expireOrder, expireHistory
  <2> QED BY <2>1, <2>2
<1>7. ASSUME NEW s \in Requests, NEW o2 \in Orders, Request(s, o2)
      PROVE  RowStep(o, m)
  BY <1>1, <1>5, <1>7 DEF Request, CustomerRead, EditRead, MasterRead, acceptOffer
<1> QED BY <1>1, <1>4, <1>6, <1>7 
        DEF Next, vars, createDraft, OfferTimesOut, AvailabilityChanges, HandlerFails,
            JobAttemptFails, JobStalls

\* An (order, master) pair is offered at most once, and its row never
\* disappears: the unique key of order_dispatches, and the guards of accept,
\* decline and expiry, for any overlap of cascades.
THEOREM NoSecondOfferHolds == Spec => NoSecondOffer
<1>1. ASSUME TypeOK, ExecOK, [Next]_vars
      PROVE  [\A o \in Orders : \A m \in Masters :
                dispatch[o][m] # None => dispatch'[o][m] # None
                   /\ (dispatch'[o][m] = "OFFERED" => dispatch[o][m] = "OFFERED")]_vars
  <2>1. None \notin {"OFFERED", "ACCEPTED"} \cup Answered
    BY StoreAssumption DEF DispatchStatus, Answered
  <2>2. ASSUME NEW o \in Orders, NEW m \in Masters, dispatch[o][m] # None
        PROVE  /\ dispatch'[o][m] # None
               /\ dispatch'[o][m] = "OFFERED" => dispatch[o][m] = "OFFERED"
    BY <1>1, <2>1, <2>2, RowSteps DEF RowStep, Answered
  <2> QED BY <2>2
<1> QED BY <1>1, Types, PTL DEF Spec, NoSecondOffer

----------------------------------------------------------------------------
\* What a step may do to an order's status: a write of updateDraft, diagnose or
\* submit, or an edge of the table; only commitAccept assigns.
StatusStep(o) ==
  \/ status'[o] = status[o]
  \/ status'[o] \in {"DRAFT", "PRICED", "SEARCHING"}
  \/ canTransition(status[o], status'[o]) /\ status'[o] # "ASSIGNED"
  \/ status'[o] = "ASSIGNED" /\ masterId'[o] \in Masters

\* What a step may do to an order's master: nothing, or an acceptance.
MasterStep(o) ==
  \/ masterId'[o] = masterId[o]
  \/ masterId'[o] \in Masters /\ dispatch'[o][masterId'[o]] = "ACCEPTED"

\* The guarded write takes the edge from the status the handler read.
LEMMA GuardedEdge ==
  ASSUME TypeOK, ExecOK, NEW s \in Slots,
         NEW op \in {"cancel", "confirmCompletion"} \cup MasterOps,
         exec[s].at = op, GuardedWrite(s, Target[op]), NEW o \in Orders
  PROVE  StatusStep(o)
<1>1. exec[s].o \in Orders /\ canTransition(exec[s].seen, Target[op])
  BY DEF ExecOK, HandlerOK, CustomerOps, MasterOps
<1>2. Target[op] # "ASSIGNED"
  BY Targets DEF MasterOps
<1>3. \/ status' = status
      \/ /\ status[exec[s].o] = exec[s].seen
         /\ status' = [status EXCEPT ![exec[s].o] = Target[op]]
  BY DEF GuardedWrite, WriteStatus
<1> QED BY <1>1, <1>2, <1>3 DEF StatusStep, TypeOK

LEMMA StatusSteps ==
  ASSUME TypeOK, ExecOK, [Next]_vars, NEW o \in Orders
  PROVE  StatusStep(o) /\ MasterStep(o)
<1> USE DEF dispatchRows, masterRows, orderRow
<1>1. CASE UNCHANGED <<status, masterId>>
  BY <1>1 DEF StatusStep, MasterStep
<1>2. ASSUME NEW s \in Slots, updateDraft(s) \/ diagnose(s) \/ submit(s)
      PROVE  StatusStep(o) /\ MasterStep(o)
  <2>1. exec[s].o \in Orders
    BY <1>2, OrderOf DEF updateDraft, diagnose, submit
  <2>2. \/ status' = status
        \/ \E to \in {"DRAFT", "PRICED", "SEARCHING"} : status' = [status EXCEPT ![exec[s].o] = to]
    BY <1>2 DEF updateDraft, diagnose, submit, WriteStatus
  <2>3. masterId' = masterId
    BY <1>2 DEF updateDraft, diagnose, submit
  <2> QED BY <2>1, <2>2, <2>3 DEF StatusStep, MasterStep, TypeOK
<1>3. ASSUME NEW s \in Slots,
             \/ cancel(s) \/ confirmCompletion(s) \/ cancelByMaster(s)
             \/ startEnRoute(s) \/ startService(s) \/ completeService(s)
      PROVE  StatusStep(o) /\ MasterStep(o)
  <2>1. \E op \in {"cancel", "confirmCompletion"} \cup MasterOps :
          exec[s].at = op /\ GuardedWrite(s, Target[op])
    BY <1>3 DEF cancel, confirmCompletion, cancelByMaster, startEnRoute, startService,
                completeService, jobTransition, MasterOps
  <2>2. masterId' = masterId
    BY <1>3 DEF cancel, confirmCompletion, cancelByMaster, startEnRoute, startService,
                completeService, jobTransition
  <2> QED BY <2>1, <2>2, GuardedEdge DEF MasterStep
<1>4. ASSUME NEW s \in Slots, commitAccept(s)
      PROVE  StatusStep(o) /\ MasterStep(o)
  <2>1. exec[s].o \in Orders /\ exec[s].m \in Masters
    BY <1>4 DEF commitAccept, ExecOK, HandlerOK
  <2>2. /\ status' = [status EXCEPT ![exec[s].o] = "ASSIGNED"]
        /\ masterId' = [masterId EXCEPT ![exec[s].o] = exec[s].m]
        /\ dispatch'[exec[s].o][exec[s].m] = "ACCEPTED"
    BY <1>4, <2>1 DEF commitAccept, WriteStatus, TypeOK
  <2>3. CASE o = exec[s].o
    BY <2>1, <2>2, <2>3 DEF StatusStep, MasterStep, TypeOK
  <2>4. CASE o # exec[s].o
    BY <2>1, <2>2, <2>4 DEF StatusStep, MasterStep, TypeOK
  <2> QED BY <2>3, <2>4
<1>5. ASSUME NEW s \in Slots, expireOrder(s)
      PROVE  StatusStep(o) /\ MasterStep(o)
  <2>1. exec[s].o \in Orders /\ exec[s].seen = "SEARCHING"
    BY <1>5 DEF expireOrder, ExecOK, HandlerOK
  <2>2. \/ status' = status
        \/ status[exec[s].o] = "SEARCHING" /\ status' = [status EXCEPT ![exec[s].o] = "EXPIRED"]
    BY <1>5, <2>1 DEF expireOrder
  <2>3. canTransition("SEARCHING", "EXPIRED")
    BY DEF canTransition, TRANSITIONS
  <2>4. masterId' = masterId
    BY <1>5 DEF expireOrder
  <2> QED BY <2>1, <2>2, <2>3, <2>4 DEF StatusStep, MasterStep, TypeOK
<1>6. ASSUME NEW s \in Slots, Step(s)
      PROVE  StatusStep(o) /\ MasterStep(o)
  BY <1>1, <1>2, <1>3, <1>4, <1>5, <1>6
     DEF Step, recordCancellation, cascadeNext, pickCandidate, createOffer, enqueueExpiry,
         recordLateResponse, failSearch, expireHistory
<1>7. ASSUME NEW s \in Requests, NEW o2 \in Orders, Request(s, o2)
      PROVE  StatusStep(o) /\ MasterStep(o)
  BY <1>1, <1>7 DEF Request, CustomerRead, EditRead, MasterRead, acceptOffer, declineOffer
<1>8. ASSUME NEW o2 \in Orders, createDraft(o2)
      PROVE  StatusStep(o) /\ MasterStep(o)
  BY <1>8 DEF createDraft, WriteStatus, StatusStep, MasterStep, TypeOK
<1> QED BY <1>1, <1>6, <1>7, <1>8
        DEF Next, vars, handleOfferExpiry, OfferTimesOut, AvailabilityChanges, HandlerFails,
            JobAttemptFails, JobStalls

\* The only edges into the statuses of a job, other than the assignment, come
\* from one of them.
LEMMA ActiveEdges ==
  ASSUME NEW from, NEW to \in ACTIVE_MASTER_JOB_STATUSES \ {"ASSIGNED"},
         canTransition(from, to)
  PROVE  from \in ACTIVE_MASTER_JOB_STATUSES
BY DEF canTransition, TRANSITIONS, ACTIVE_MASTER_JOB_STATUSES

\* An order's master is one who accepted it, and an order in a job status has
\* one, although the offer is answered, expired and withdrawn by handlers that
\* hold no lock on it.
THEOREM AssignedMasterAcceptedHolds == Spec => []AssignedMasterAccepted
<1>1. Init => AssignedMasterAccepted
  BY StoreAssumption DEF Init, AssignedMasterAccepted, ACTIVE_MASTER_JOB_STATUSES, OrderStatus
<1>2. ASSUME TypeOK, ExecOK, AssignedMasterAccepted, [Next]_vars
      PROVE  AssignedMasterAccepted'
  <2>1. SUFFICES ASSUME NEW o \in Orders
                 PROVE  /\ masterId'[o] # None => dispatch'[o][masterId'[o]] = "ACCEPTED"
                        /\ status'[o] \in ACTIVE_MASTER_JOB_STATUSES => masterId'[o] # None
    BY DEF AssignedMasterAccepted
  <2>2. StatusStep(o) /\ MasterStep(o) /\ (masterId[o] # None => RowStep(o, masterId[o]))
    BY <1>2, StatusSteps, RowSteps DEF TypeOK
  <2>3. masterId'[o] # None => dispatch'[o][masterId'[o]] = "ACCEPTED"
    BY <1>2, <2>2, StoreAssumption DEF MasterStep, RowStep, AssignedMasterAccepted, DispatchStatus
  <2>4. ASSUME status'[o] \in ACTIVE_MASTER_JOB_STATUSES
        PROVE  masterId'[o] # None
    <3>1. masterId[o] # None => masterId'[o] # None
      BY <2>2, StoreAssumption DEF MasterStep
    <3>2. status[o] \in ACTIVE_MASTER_JOB_STATUSES \/ masterId'[o] \in Masters
      BY <2>2, <2>4, ActiveEdges DEF StatusStep, ACTIVE_MASTER_JOB_STATUSES
    <3> QED BY <1>2, <3>1, <3>2, StoreAssumption DEF AssignedMasterAccepted
  <2> QED BY <2>3, <2>4
<1> QED BY <1>1, <1>2, Types, PTL DEF Spec

----------------------------------------------------------------------------
\* No handler comes to the point of recording a late response but the expiry
\* worker whose guarded write won.
LateFrame ==
  /\ late' = late
  /\ \A s \in Slots : exec'[s].at = "late" =>
       exec[s].at = "late" /\ exec'[s].o = exec[s].o /\ exec'[s].m = exec[s].m

\* A slot that moves on to anything else changes nothing about late responses.
LEMMA LateSlot ==
  ASSUME TypeOK, late' = late, NEW s \in Slots, NEW e, e.at # "late",
         exec' = [exec EXCEPT ![s] = e]
  PROVE  LateFrame
<1>1. \A x \in Slots : exec'[x] = IF x = s THEN e ELSE exec[x]
  BY DEF TypeOK
<1> QED BY <1>1 DEF LateFrame

LEMMA LateReturn ==
  ASSUME TypeOK, late' = late, NEW s \in Slots, Return(s)
  PROVE  LateFrame
BY LateSlot DEF Return, Idle, Handler

LEMMA LateGoto ==
  ASSUME TypeOK, late' = late, NEW s \in Slots, NEW step, step # "late", Goto(s, step)
  PROVE  LateFrame
<1> DEFINE e == Handler(step, exec[s].o, exec[s].m, exec[s].seen, exec[s].data,
                        exec[s].attempt, exec[s].job)
<1>1. exec' = [exec EXCEPT ![s] = e]
  BY GotoIs DEF TypeOK
<1>2. e.at # "late"
  BY DEF Handler
<1> HIDE DEF e
<1> QED BY <1>1, <1>2, LateSlot

LEMMA LateCascade ==
  ASSUME TypeOK, late' = late, NEW s \in Slots, NEW o, NEW attempt, NEW job,
         exec' = [exec EXCEPT ![s] = Cascade(o, attempt, job)]
  PROVE  LateFrame
BY LateSlot DEF Cascade, Handler

LEMMA LateFrames ==
  ASSUME TypeOK, ExecOK, [Next]_vars,
         ~ \E s \in Slots : recordLateResponse(s),
         ~ \E w \in Workers, o \in Orders, m \in Masters : handleOfferExpiry(w, o, m)
  PROVE  LateFrame
<1> USE DEF dispatchRows, masterRows, orderRow
<1>1. CASE UNCHANGED <<late, exec>>
  BY <1>1 DEF LateFrame
<1>2. ASSUME NEW s \in Slots, Step(s)
      PROVE  LateFrame
  <2>1. late' = late
    BY <1>2 DEF Step, updateDraft, diagnose, submit, cancel, confirmCompletion, startEnRoute,
                startService, completeService, jobTransition, cancelByMaster,
                recordCancellation, cascadeNext, pickCandidate, createOffer, enqueueExpiry,
                commitAccept, failSearch, expireOrder, expireHistory
  <2>2. CASE Return(s)
    BY <2>1, <2>2, LateReturn
  <2>3. ASSUME NEW step, step # "late", Goto(s, step)
        PROVE  LateFrame
    BY <2>1, <2>3, LateGoto
  <2>4. ASSUME NEW o, NEW attempt, NEW job, exec' = [exec EXCEPT ![s] = Cascade(o, attempt, job)]
        PROVE  LateFrame
    BY <2>1, <2>4, LateCascade
  <2>5. CASE pickCandidate(s)
    <3>1. ASSUME NEW m,
                 exec' = [exec EXCEPT ![s] =
                   Handler("offer", exec[s].o, m, None, None, exec[s].attempt, exec[s].job)]
          PROVE  LateFrame
      BY <2>1, <3>1, LateSlot DEF Handler
    <3> QED BY <2>3, <2>4, <2>5, <3>1 DEF pickCandidate
  <2>6. CASE failSearch(s)
    <3>1. ASSUME exec' = [exec EXCEPT ![s] =
                   Handler("expire", exec[s].o, None, status[exec[s].o], None, 1, exec[s].job)]
          PROVE  LateFrame
      BY <2>1, <3>1, LateSlot DEF Handler
    <3> QED BY <2>2, <2>6, <3>1 DEF failSearch
  <2>7. CASE updateDraft(s) \/ diagnose(s) \/ cancel(s) \/ confirmCompletion(s)
    BY <2>2, <2>7 DEF updateDraft, diagnose, cancel, confirmCompletion
  <2>8. CASE submit(s)
    BY <2>4, <2>8 DEF submit
  <2>9. CASE startEnRoute(s) \/ startService(s) \/ completeService(s) \/ recordCancellation(s)
    BY <2>2, <2>9 DEF startEnRoute, startService, completeService, jobTransition, recordCancellation
  <2>10. CASE cancelByMaster(s)
    BY <2>2, <2>3, <2>10 DEF cancelByMaster
  <2>11. CASE cascadeNext(s)
    BY <2>2, <2>3, <2>11 DEF cascadeNext
  <2>12. CASE createOffer(s)
    BY <2>3, <2>4, <2>12 DEF createOffer
  <2>13. CASE enqueueExpiry(s) \/ commitAccept(s) \/ expireHistory(s)
    BY <2>2, <2>13 DEF enqueueExpiry, commitAccept, expireHistory
  <2>14. CASE expireOrder(s)
    BY <2>2, <2>3, <2>14 DEF expireOrder
  <2> QED BY <1>2, <2>5, <2>6, <2>7, <2>8, <2>9, <2>10, <2>11, <2>12, <2>13, <2>14 DEF Step
<1>3. ASSUME NEW s \in Requests, NEW o \in Orders, Request(s, o)
      PROVE  LateFrame
  <2>1. s \in Slots
    BY DEF Slots
  <2>2. ASSUME NEW op \in CustomerOps, CustomerRead(s, o, op) PROVE LateFrame
    BY <2>1, <2>2, LateSlot DEF CustomerRead, Start, Reading, Handler, CustomerOps
  <2>3. ASSUME NEW edit, EditRead(s, o, edit) PROVE LateFrame
    BY <2>1, <2>3, LateSlot DEF EditRead, Start, Reading, Handler
  <2>4. ASSUME NEW op \in MasterOps, MasterRead(s, o, op) PROVE LateFrame
    BY <2>1, <2>4, LateSlot DEF MasterRead, Start, Reading, Handler, MasterOps
  <2>5. ASSUME NEW m \in Masters, acceptOffer(s, o, m) PROVE LateFrame
    BY <2>1, <2>5, LateSlot DEF acceptOffer, Start, Handler
  <2>6. ASSUME NEW m \in Masters, declineOffer(s, o, m) PROVE LateFrame
    BY <2>1, <2>6, LateCascade DEF declineOffer, Start
  <2> QED BY <1>3, <2>2, <2>3, <2>4, <2>5, <2>6 DEF Request
<1>4. ASSUME NEW s \in Slots, HandlerFails(s)
      PROVE  LateFrame
  BY <1>4, LateReturn DEF HandlerFails
<1>5. ASSUME NEW w \in Workers, JobStalls(w)
      PROVE  LateFrame
  <2> DEFINE e == Handler(exec[w].at, exec[w].o, exec[w].m, exec[w].seen, exec[w].data,
                          exec[w].attempt, None)
  <2>1. w \in Slots
    BY DEF Slots
  <2>2. exec' = [exec EXCEPT ![w] = e]
    BY <1>5, <2>1, StallIs DEF JobStalls, TypeOK
  <2>3. e.at = exec[w].at /\ e.o = exec[w].o /\ e.m = exec[w].m
    BY DEF Handler
  <2> HIDE DEF e
  <2>4. \A x \in Slots : exec'[x] = IF x = w THEN e ELSE exec[x]
    BY <2>1, <2>2 DEF TypeOK
  <2> QED BY <1>5, <2>3, <2>4 DEF JobStalls, LateFrame
<1> QED BY <1>1, <1>2, <1>3, <1>4, <1>5
        DEF Next, vars, createDraft, OfferTimesOut, AvailabilityChanges, JobAttemptFails

\* PenaltyOK survives every step.
LEMMA PenaltyStep ==
  ASSUME TypeOK, ExecOK, PenaltyOK, [Next]_vars
  PROVE  PenaltyOK'
<1> DEFINE Penalised == {"EXPIRED", "ACCEPTED"}
<1>1. \A o \in Orders, m \in Masters :
        dispatch[o][m] \in Penalised => dispatch'[o][m] \in Penalised
  BY RowSteps, StoreAssumption DEF RowStep, DispatchStatus
<1>2. \A s \in Slots : exec[s].at = "late" => exec[s].o \in Orders /\ exec[s].m \in Masters
  BY DEF ExecOK, HandlerOK
<1>3. CASE LateFrame
  BY <1>1, <1>2, <1>3 DEF LateFrame, PenaltyOK
<1>4. ASSUME NEW s \in Slots, recordLateResponse(s)
      PROVE  PenaltyOK'
  <2> DEFINE o == exec[s].o  m == exec[s].m
  <2>1. o \in Orders /\ m \in Masters /\ exec[s].at = "late"
    BY <1>2, <1>4 DEF recordLateResponse
  <2>2. late' = [late EXCEPT ![o][m] = late[o][m] + 1] /\ dispatch' = dispatch
    BY <1>4 DEF recordLateResponse, dispatchRows
  <2>3. \A x \in Slots : exec'[x].at = "late" => x # s /\ exec'[x] = exec[x]
    BY <1>4 DEF recordLateResponse, Cascade, Handler, TypeOK
  <2>4. late[o][m] = 0 /\ dispatch[o][m] \in Penalised
    BY <2>1 DEF PenaltyOK
  <2>5. \A x \in Slots : exec'[x].at = "late" => exec[x].o # o \/ exec[x].m # m
    BY <2>1, <2>3 DEF PenaltyOK
  <2>6. \A o2 \in Orders, m2 \in Masters :
          late'[o2][m2] = IF o2 = o /\ m2 = m THEN 1 ELSE late[o2][m2]
    BY <2>1, <2>2, <2>4 DEF TypeOK
  <2> HIDE DEF o, m
  <2> QED BY <1>2, <2>1, <2>2, <2>3, <2>4, <2>5, <2>6 DEF PenaltyOK
<1>5. ASSUME NEW w \in Workers, NEW o \in Orders, NEW m \in Masters, handleOfferExpiry(w, o, m)
      PROVE  PenaltyOK'
  <2>1. CASE dispatch[o][m] # "OFFERED"
    BY <2>1, <1>1, <1>2, <1>5 DEF handleOfferExpiry, masterRows, PenaltyOK
  <2>2. CASE dispatch[o][m] = "OFFERED"
    <3> DEFINE e == Handler("late", o, m, None, None, 1, m)
    <3>1. late' = late /\ dispatch'[o][m] = "EXPIRED"
      BY <1>5, <2>2 DEF handleOfferExpiry, masterRows, TypeOK
    <3>2. late[o][m] = 0
      BY <2>2 DEF PenaltyOK
    <3>3. \A x \in Slots : exec[x].at = "late" => exec[x].o # o \/ exec[x].m # m
      BY <2>2 DEF PenaltyOK
    <3>4. w \in Slots /\ exec' = [exec EXCEPT ![w] = e]
      BY <1>5, <2>2 DEF handleOfferExpiry, Start, Slots
    <3>5. e.at = "late" /\ e.o = o /\ e.m = m
      BY DEF Handler
    <3> HIDE DEF e
    <3>6. \A x \in Slots : exec'[x] = IF x = w THEN e ELSE exec[x]
      BY <3>4 DEF TypeOK
    <3> QED BY <1>1, <1>2, <3>1, <3>2, <3>3, <3>5, <3>6 DEF PenaltyOK
  <2> QED BY <2>1, <2>2
<1> QED BY <1>3, <1>4, <1>5, LateFrames

\* A master is penalised at most once for an offer left unanswered, and never
\* for one he declined or that was withdrawn, however often the expiry job runs:
\* the worker that turns OFFERED into EXPIRED is the only one to go on.
THEOREM OneLatePenaltyHolds == Spec => []OneLatePenalty
<1>1. Init => PenaltyOK
  BY DEF Init, PenaltyOK, Idle, Handler
<1>2. PenaltyOK => OneLatePenalty
  <2> SUFFICES ASSUME PenaltyOK, NEW o \in Orders, NEW m \in Masters
               PROVE  /\ late[o][m] <= 1
                      /\ late[o][m] = 1 => dispatch[o][m] \notin {None, "OFFERED", "DECLINED", "WITHDRAWN"}
    BY DEF OneLatePenalty
  <2>1. None \notin {"EXPIRED", "ACCEPTED"}
    BY StoreAssumption DEF DispatchStatus
  <2> QED BY <2>1 DEF PenaltyOK
<1>3. TypeOK /\ ExecOK /\ PenaltyOK /\ [Next]_vars => PenaltyOK'
  BY PenaltyStep
<1> QED BY <1>1, <1>2, <1>3, Types, PTL DEF Spec

-----------------------------------------------------------------------------
(***************************************************************************)
(* What holds of Marketplace when an edit, a diagnosis or a submission of  *)
(* an order never overlaps another request of its customer (SerialEdits).  *)
(*                                                                         *)
(* The invariant is SerialInv with LockOK.  BatonOK alone is not enough:   *)
(* a submission starts a cascade, so nobody else may be at work on an      *)
(* order that is still PRICED (QuietOK), and the status the submission     *)
(* read must be current when it writes (EditsOK).  A commit must find the  *)
(* order as it was when its row was locked (LockOK), without a master      *)
(* (AssignmentOK).                                                         *)
(***************************************************************************)

Serial == LockOK /\ SerialInv

\* The places of a handler the invariant tells apart.
LEMMA Places ==
  /\ UnguardedOps \subseteq CustomerOps
  /\ CustomerOps \cap CascadeSteps = {} /\ CustomerOps \cap MasterOps = {}
  /\ CascadeSteps \cap MasterOps = {}
  /\ {"accept", "idle", "enqueue", "penalise", "failSearch", "expire", "expireHistory"}
       \cap (CustomerOps \cup CascadeSteps \cup MasterOps) = {}
BY DEF UnguardedOps, CustomerOps, CascadeSteps, MasterOps

\* An edit, diagnosis or submission has read DRAFT or PRICED.
LEMMA EditReads ==
  ASSUME TypeOK, ExecOK, NEW s \in Slots, exec[s].at \in UnguardedOps
  PROVE  /\ exec[s].o \in Orders /\ s \in Requests
         /\ exec[s].seen \in {"DRAFT", "PRICED"}
         /\ exec[s].at = "submit" => exec[s].seen = "PRICED"
<1>1. exec[s].o \in Orders /\ s \in Requests
  BY DEF ExecOK, HandlerOK, UnguardedOps, CustomerOps
<1>2. CASE exec[s].at = "updateDraft"
  BY <1>1, <1>2 DEF ExecOK, HandlerOK, EDITABLE_STATUSES
<1>3. CASE exec[s].at = "diagnose"
  <2>1. canTransition(exec[s].seen, "PRICED")
    BY <1>3, Targets DEF ExecOK, HandlerOK, CustomerOps
  <2> QED BY <1>1, <1>3, <2>1 DEF canTransition, TRANSITIONS
<1>4. CASE exec[s].at = "submit"
  <2>1. canTransition(exec[s].seen, "SEARCHING")
    BY <1>4, Targets DEF ExecOK, HandlerOK, CustomerOps
  <2> QED BY <1>1, <1>4, <2>1 DEF canTransition, TRANSITIONS
<1> QED BY <1>2, <1>3, <1>4 DEF UnguardedOps

----------------------------------------------------------------------------
(* What the steps of a slot do to the invariant. *)

\* A handler ends without a word.
LEMMA SerialReturn ==
  ASSUME TypeOK, Serial, NEW s \in Slots, Return(s), exec[s].at # "accept",
         UNCHANGED <<status, masterId, dispatch, lock>>
  PROVE  Serial'
<1>1. \A x \in Slots : exec'[x] = IF x = s THEN Idle ELSE exec[x]
  BY DEF Return, TypeOK
<1>2. Idle.at = "idle" /\ Idle.o \notin Orders
  BY StoreAssumption DEF Idle, Handler
<1> HIDE DEF Idle
<1>3. LockOK'
  BY <1>1, <1>2 DEF Serial, LockOK
<1>4. EditsOK'
  BY <1>1, <1>2, Places DEF Serial, SerialInv, EditsOK
<1>5. QuietOK'
  BY <1>1, <1>2 DEF Serial, SerialInv, QuietOK
<1>6. BatonOK'
  BY <1>1, <1>2 DEF Serial, SerialInv, BatonOK, Cascading
<1>7. AssignmentOK'
  BY DEF Serial, SerialInv, AssignmentOK
<1> QED BY <1>3, <1>4, <1>5, <1>6, <1>7 DEF Serial, SerialInv

\* A handler of the dispatch service moves on.
LEMMA SerialMove ==
  ASSUME TypeOK, Serial, NEW s \in Slots, NEW e, exec' = [exec EXCEPT ![s] = e],
         e.o = exec[s].o,
         exec[s].at \notin CustomerOps \cup {"accept"},
         e.at \notin CustomerOps \cup {"accept"},
         e.at \in CascadeSteps => exec[s].at \in CascadeSteps,
         UNCHANGED <<status, masterId, dispatch, lock>>
  PROVE  Serial'
<1>1. \A x \in Slots : exec'[x] = IF x = s THEN e ELSE exec[x]
  BY DEF TypeOK
<1>3. LockOK'
  BY <1>1 DEF Serial, LockOK
<1>4. EditsOK'
  BY <1>1, Places DEF Serial, SerialInv, EditsOK
<1>5. QuietOK'
  BY <1>1 DEF Serial, SerialInv, QuietOK
<1>6. BatonOK'
  BY <1>1 DEF Serial, SerialInv, BatonOK, Cascading
<1>7. AssignmentOK'
  BY DEF Serial, SerialInv, AssignmentOK
<1> QED BY <1>3, <1>4, <1>5, <1>6, <1>7 DEF Serial, SerialInv

\* A status write that takes an order where no cascade, edit or acceptance is
\* at work on it.
LEMMA SerialWrite ==
  ASSUME TypeOK, ExecOK, Serial, NEW s \in Slots, NEW e, exec' = [exec EXCEPT ![s] = e],
         exec[s].o \in Orders, NEW to, status' = [status EXCEPT ![exec[s].o] = to],
         to \notin Unsubmitted \cup {"SEARCHING"},
         lock[exec[s].o] = None,
         exec[s].at # "accept",
         e.at \notin CustomerOps \cup CascadeSteps \cup {"accept"},
         e.o = exec[s].o \/ e = Idle,
         \A x \in Slots : x # s /\ exec[x].at \in UnguardedOps => exec[x].o # exec[s].o,
         UNCHANGED <<masterId, dispatch, lock>>
  PROVE  Serial'
<1> DEFINE o == exec[s].o
<1>1. \A x \in Slots : exec'[x] = IF x = s THEN e ELSE exec[x]
  BY DEF TypeOK
<1>2. \A x \in Orders : status'[x] = IF x = o THEN to ELSE status[x]
  BY DEF TypeOK
<1>3. Idle.o \notin Orders /\ None \notin Slots
  BY StoreAssumption DEF Idle, Handler
<1>9. o = exec[s].o /\ o \in Orders /\ lock[o] = None
  OBVIOUS
<1> HIDE DEF Idle, o
<1>4. LockOK'
  BY <1>1, <1>2, <1>3, <1>9 DEF Serial, LockOK
<1>5. EditsOK'
  <2>1. ASSUME NEW x \in Slots, exec'[x].at \in UnguardedOps
        PROVE  status'[exec'[x].o] = exec'[x].seen
    BY <1>1, <1>2, <1>9, <2>1, Places, EditReads DEF Serial, SerialInv, EditsOK
  <2> QED BY <1>1, <2>1, Places DEF Serial, SerialInv, EditsOK
<1>6. QuietOK'
  BY <1>1, <1>2, <1>3, <1>9 DEF Serial, SerialInv, QuietOK
<1>7. BatonOK'
  BY <1>1, <1>9 DEF Serial, SerialInv, BatonOK, Cascading
<1>8. AssignmentOK'
  BY <1>2, <1>9 DEF Serial, SerialInv, AssignmentOK
<1> QED BY <1>4, <1>5, <1>6, <1>7, <1>8 DEF Serial, SerialInv

----------------------------------------------------------------------------
(* The customer's operations. *)

LEMMA SerialCreate ==
  ASSUME TypeOK, ExecOK, Serial, NEW o \in Orders, createDraft(o)
  PROVE  Serial'
<1> USE DEF dispatchRows
<1>1. /\ status[o] = None /\ \A x \in Orders : status'[x] = IF x = o THEN "DRAFT" ELSE status[x]
      /\ UNCHANGED <<exec, masterId, dispatch, lock>>
  BY DEF createDraft, WriteStatus, TypeOK
<1>2. \A x \in Slots : exec[x].at \in UnguardedOps => exec[x].o \in Orders \ {o}
  <2>1. None \notin {"DRAFT", "PRICED"}
    BY StoreAssumption DEF OrderStatus
  <2> QED BY <1>1, <2>1, EditReads DEF Serial, SerialInv, EditsOK
<1>3. LockOK'
  <2>1. None # "SEARCHING"
    BY StoreAssumption DEF OrderStatus
  <2>2. \A x \in Slots : exec[x].at = "accept" => exec[x].o \in Orders
    BY DEF ExecOK, HandlerOK
  <2> QED BY <1>1, <2>1, <2>2 DEF Serial, LockOK
<1>4. EditsOK'
  BY <1>1, <1>2 DEF Serial, SerialInv, EditsOK
<1>5. QuietOK'
  BY <1>1 DEF Serial, SerialInv, QuietOK, Unsubmitted
<1>6. BatonOK'
  BY <1>1 DEF Serial, SerialInv, BatonOK, Cascading
<1>7. AssignmentOK'
  BY <1>1 DEF Serial, SerialInv, AssignmentOK, Unsubmitted
<1> QED BY <1>3, <1>4, <1>5, <1>6, <1>7 DEF Serial, SerialInv

\* A customer's request reads the order: by SerialEdits it meets no edit of it,
\* and no other request of the customer if it is one itself.
LEMMA SerialCustomerRead ==
  ASSUME TypeOK, ExecOK, Serial, SerialEdits, NEW s \in Requests, NEW o \in Orders,
         NEW op \in CustomerOps, ~CustomerWaits(o, op),
         NEW e, exec' = [exec EXCEPT ![s] = e], exec[s] = Idle,
         e.at = op, e.o = o, e.seen = status[o],
         UNCHANGED <<status, masterId, dispatch, lock>>
  PROVE  Serial'
<1>1. s \in Slots /\ \A x \in Slots : exec'[x] = IF x = s THEN e ELSE exec[x]
  BY DEF Slots, TypeOK
<1>2. exec[s].at = "idle" /\ exec[s].o \notin Orders
  BY StoreAssumption DEF Idle, Handler
<1>3. \A x \in Slots : exec[x].at \in CustomerOps => x \in Requests
  BY DEF ExecOK, HandlerOK
<1>4. \A x \in Slots : exec[x].o = o => exec[x].at \notin UnguardedOps
  BY <1>3, Places DEF CustomerWaits
<1>10. op \in UnguardedOps => \A x \in Slots : exec[x].o = o => exec[x].at \notin CustomerOps
  BY <1>3, Places DEF CustomerWaits
<1>5. LockOK'
  BY <1>1, <1>2, Places DEF Serial, LockOK
<1>6. EditsOK'
  <2>1. ASSUME NEW x \in Slots, NEW y \in Slots, x # y,
               exec'[x].at \in UnguardedOps, exec'[y].at \in CustomerOps,
               exec'[x].o = exec'[y].o
        PROVE  FALSE
    <3>1. CASE x = s
      <4>1. op \in UnguardedOps /\ exec[y].o = o /\ exec[y].at \in CustomerOps
        BY <1>1, <2>1, <3>1
      <4> QED BY <1>10, <4>1
    <3>2. CASE y = s
      <4>1. exec[x].o = o /\ exec[x].at \in UnguardedOps
        BY <1>1, <2>1, <3>2
      <4> QED BY <1>4, <4>1
    <3>3. CASE x # s /\ y # s
      BY <1>1, <2>1, <3>3 DEF Serial, SerialInv, EditsOK
    <3> QED BY <3>1, <3>2, <3>3
  <2>2. \A x \in Slots : exec'[x].at \in UnguardedOps => status'[exec'[x].o] = exec'[x].seen
    BY <1>1 DEF Serial, SerialInv, EditsOK
  <2> QED BY <2>1, <2>2 DEF EditsOK
<1>7. QuietOK'
  BY <1>1 DEF Serial, SerialInv, QuietOK
<1>8. BatonOK'
  BY <1>1, Places DEF Serial, SerialInv, BatonOK, Cascading
<1>9. AssignmentOK'
  BY DEF Serial, SerialInv, AssignmentOK
<1> QED BY <1>5, <1>6, <1>7, <1>8, <1>9 DEF Serial, SerialInv

\* The write of an edit or a diagnosis: the order stays unsubmitted.
LEMMA SerialEdit ==
  ASSUME TypeOK, ExecOK, Serial, NEW s \in Slots, updateDraft(s) \/ diagnose(s)
  PROVE  Serial'
<1> DEFINE o == exec[s].o
<1>0. /\ exec[s].at \in UnguardedOps /\ exec[s].at \in CustomerOps /\ exec[s].at # "accept"
      /\ Return(s) /\ UNCHANGED <<masterId, dispatch, lock>>
  BY DEF updateDraft, diagnose, UnguardedOps, CustomerOps, dispatchRows
<1>1. o \in Orders /\ status[o] \in {"DRAFT", "PRICED"}
  BY <1>0, EditReads DEF Serial, SerialInv, EditsOK
<1>2. CASE UNCHANGED status
  BY <1>0, <1>2, SerialReturn
<1>3. ASSUME NEW to \in {"DRAFT", "PRICED"}, status' = [status EXCEPT ![o] = to]
      PROVE  Serial'
  <2>1. \A x \in Slots : exec'[x] = IF x = s THEN Idle ELSE exec[x]
    BY <1>0 DEF Return, TypeOK
  <2>2. \A x \in Orders : status'[x] = IF x = o THEN to ELSE status[x]
    BY <1>3 DEF TypeOK
  <2>3. Idle.at = "idle" /\ Idle.o \notin Orders
    BY StoreAssumption DEF Idle, Handler
  <2>4. \A x \in Slots : exec[x].at \in UnguardedOps /\ x # s => exec[x].o \in Orders \ {o}
    BY <1>0, EditReads DEF Serial, SerialInv, EditsOK
  <2> HIDE DEF Idle, o
  <2>5. LockOK'
    <3>1. \A x \in Slots : exec[x].at = "accept" => exec[x].o \in Orders \ {o}
      BY <1>1 DEF ExecOK, HandlerOK, Serial, LockOK
    <3> QED BY <1>0, <2>1, <2>2, <2>3, <3>1 DEF Serial, LockOK
  <2>6. EditsOK'
    BY <2>1, <2>2, <2>3, <2>4, Places DEF Serial, SerialInv, EditsOK
  <2>7. QuietOK'
    BY <1>0, <1>1, <2>1, <2>2, <2>3 DEF Serial, SerialInv, QuietOK, Unsubmitted
  <2>8. BatonOK'
    BY <1>0, <2>1, <2>3 DEF Serial, SerialInv, BatonOK, Cascading
  <2>9. AssignmentOK'
    BY <1>0, <1>1, <2>2 DEF Serial, SerialInv, AssignmentOK, Unsubmitted
  <2> QED BY <2>5, <2>6, <2>7, <2>8, <2>9 DEF Serial, SerialInv
<1>4. UNCHANGED status \/ \E to \in {"DRAFT", "PRICED"} : status' = [status EXCEPT ![o] = to]
  BY DEF updateDraft, diagnose, WriteStatus
<1> QED BY <1>2, <1>3, <1>4

\* The write of a submission: the order was PRICED, so nobody else is at work on
\* it, and the cascade that starts is the first.
LEMMA SerialSubmit ==
  ASSUME TypeOK, ExecOK, Serial, NEW s \in Slots, submit(s)
  PROVE  Serial'
<1> DEFINE o == exec[s].o  e == Cascade(o, 1, None)
<1>0. /\ exec[s].at = "submit" /\ exec[s].at \in UnguardedOps /\ exec[s].at \in CustomerOps
      /\ UNCHANGED <<masterId, dispatch, lock>>
      /\ exec' = [exec EXCEPT ![s] = e] /\ status' = [status EXCEPT ![o] = "SEARCHING"]
  BY DEF submit, WriteStatus, UnguardedOps, CustomerOps, dispatchRows
<1>1. o \in Orders /\ status[o] = "PRICED"
  BY <1>0, EditReads DEF Serial, SerialInv, EditsOK
<1>2. e.at = "cascade" /\ e.o = o /\ "cascade" \in CascadeSteps
  BY DEF Cascade, Handler, CascadeSteps
<1>3. \A x \in Slots : exec[x].o = o => exec[x].at \in CustomerOps
  BY <1>1 DEF Serial, SerialInv, QuietOK, Unsubmitted
<1>4. masterId[o] = None /\ \A m \in Masters : dispatch[o][m] = None
  BY <1>1 DEF Serial, SerialInv, QuietOK, Unsubmitted
<1>5. \A x \in Slots : exec[x].at \in UnguardedOps /\ x # s => exec[x].o \in Orders \ {o}
  BY <1>0, EditReads DEF Serial, SerialInv, EditsOK
<1> HIDE DEF o, e
<1>6. \A x \in Slots : exec'[x] = IF x = s THEN e ELSE exec[x]
  BY <1>0 DEF TypeOK
<1>7. \A x \in Orders : status'[x] = IF x = o THEN "SEARCHING" ELSE status[x]
  BY <1>0 DEF TypeOK
<1>8. LockOK'
  <2>1. \A x \in Slots : exec[x].at = "accept" => exec[x].o \in Orders
    BY DEF ExecOK, HandlerOK
  <2> QED BY <1>0, <1>2, <1>6, <1>7, <2>1 DEF Serial, LockOK
<1>9. EditsOK'
  BY <1>2, <1>5, <1>6, <1>7, Places DEF Serial, SerialInv, EditsOK
<1>10. QuietOK'
  <2>1. "SEARCHING" \notin Unsubmitted
    BY StoreAssumption DEF Unsubmitted, OrderStatus
  <2> QED BY <1>0, <1>2, <1>6, <1>7, <2>1 DEF Serial, SerialInv, QuietOK
<1>11. BatonOK'
  <2>1. \A m \in Masters : dispatch[o][m] # "OFFERED"
    BY <1>4, StoreAssumption DEF DispatchStatus
  <2> QED BY <1>0, <1>2, <1>3, <1>6, <2>1, Places DEF Serial, SerialInv, BatonOK, Cascading
<1>12. AssignmentOK'
  BY <1>0, <1>4, <1>7 DEF Serial, SerialInv, AssignmentOK
<1> QED BY <1>8, <1>9, <1>10, <1>11, <1>12 DEF Serial, SerialInv

----------------------------------------------------------------------------
(* The guarded writes. *)

\* The operations with a guarded write: a cancellation or a confirmation meets no
\* edit by EditsOK, a master's operation none because the order has left PRICED.
LEMMA SerialGuarded ==
  ASSUME TypeOK, ExecOK, Serial, NEW s \in Slots,
         NEW op \in {"cancel", "confirmCompletion"} \cup MasterOps,
         exec[s].at = op, GuardedWrite(s, Target[op]),
         Return(s) \/ (status[exec[s].o] = exec[s].seen /\ Goto(s, "penalise")),
         UNCHANGED <<masterId, dispatch, lock>>
  PROVE  Serial'
<1>0. op # "accept" /\ op \notin UnguardedOps
  BY DEF MasterOps, UnguardedOps
<1>1. exec[s].o \in Orders /\ canTransition(exec[s].seen, Target[op])
  BY DEF ExecOK, HandlerOK, CustomerOps, MasterOps
<1>2. CASE status[exec[s].o] # exec[s].seen
  BY <1>0, <1>2, SerialReturn DEF GuardedWrite
<1>3. CASE status[exec[s].o] = exec[s].seen
  <2>1. status' = [status EXCEPT ![exec[s].o] = Target[op]] /\ lock[exec[s].o] = None
    BY <1>3 DEF GuardedWrite, WriteStatus, RowFree
  <2>2. Target[op] \notin Unsubmitted \cup {"SEARCHING"}
    <3>1. Target[op] \in OrderStatus
      BY Targets, Statuses DEF MasterOps
    <3>2. Target[op] \notin {"DRAFT", "PRICED", "SEARCHING"}
      BY Targets DEF MasterOps
    <3> QED BY <3>1, <3>2, StoreAssumption DEF Unsubmitted
  <2>3. ASSUME NEW x \in Slots, x # s, exec[x].at \in UnguardedOps
        PROVE  exec[x].o # exec[s].o
    <3>1. CASE op \in CustomerOps
      BY <2>3, <3>1 DEF Serial, SerialInv, EditsOK
    <3>2. CASE op \in MasterOps
      <4>1. exec[s].seen \notin {"DRAFT", "PRICED"}
        BY <1>1, <3>2, Targets DEF MasterOps, canTransition, TRANSITIONS
      <4> QED BY <1>3, <2>3, <4>1, EditReads DEF Serial, SerialInv, EditsOK
    <3> QED BY <3>1, <3>2 DEF CustomerOps
  <2>4. CASE Return(s)
    <3>1. exec' = [exec EXCEPT ![s] = Idle] /\ Idle.at \notin CustomerOps \cup CascadeSteps \cup {"accept"}
      BY <2>4 DEF Return, Idle, Handler, CustomerOps, CascadeSteps
    <3> QED BY <1>0, <1>1, <2>1, <2>2, <2>3, <3>1, SerialWrite
  <2>5. CASE Goto(s, "penalise")
    <3> DEFINE e == Handler("penalise", exec[s].o, exec[s].m, exec[s].seen, exec[s].data,
                            exec[s].attempt, exec[s].job)
    <3>1. exec' = [exec EXCEPT ![s] = e]
      BY <2>5, GotoIs DEF TypeOK
    <3>2. e.o = exec[s].o /\ e.at = "penalise" /\ e.at \notin CustomerOps \cup CascadeSteps \cup {"accept"}
      BY DEF Handler, CustomerOps, CascadeSteps
    <3> HIDE DEF e
    <3> QED BY <1>0, <1>1, <2>1, <2>2, <2>3, <3>1, <3>2, SerialWrite
  <2> QED BY <2>4, <2>5
<1> QED BY <1>2, <1>3

\* The search ends without a master.
LEMMA SerialExpire ==
  ASSUME TypeOK, ExecOK, Serial, NEW s \in Slots, expireOrder(s)
  PROVE  Serial'
<1>0. exec[s].at = "expire" /\ lock[exec[s].o] = None /\ UNCHANGED <<masterId, dispatch, lock>>
  BY DEF expireOrder, RowFree, dispatchRows
<1>1. exec[s].o \in Orders /\ exec[s].seen = "SEARCHING"
  BY <1>0 DEF ExecOK, HandlerOK
<1>2. CASE status[exec[s].o] # exec[s].seen
  BY <1>0, <1>2, SerialReturn DEF expireOrder
<1>3. CASE status[exec[s].o] = exec[s].seen
  <2> DEFINE e == Handler("expireHistory", exec[s].o, exec[s].m, exec[s].seen, exec[s].data,
                          exec[s].attempt, exec[s].job)
  <2>1. status' = [status EXCEPT ![exec[s].o] = "EXPIRED"] /\ exec' = [exec EXCEPT ![s] = e]
    BY <1>3, GotoIs DEF expireOrder, TypeOK
  <2>2. e.o = exec[s].o /\ e.at \notin CustomerOps \cup CascadeSteps \cup {"accept"}
    BY DEF Handler, CustomerOps, CascadeSteps
  <2>3. "EXPIRED" \notin Unsubmitted \cup {"SEARCHING"}
    BY StoreAssumption DEF Unsubmitted, OrderStatus
  <2>4. \A x \in Slots : x # s /\ exec[x].at \in UnguardedOps => exec[x].o # exec[s].o
    BY <1>1, <1>3, EditReads DEF Serial, SerialInv, EditsOK
  <2> HIDE DEF e
  <2> QED BY <1>0, <1>1, <2>1, <2>2, <2>3, <2>4, SerialWrite
<1> QED BY <1>2, <1>3

----------------------------------------------------------------------------
(* The master's side. *)

\* A master's request reads an order that has a master: it is past the search.
LEMMA SerialMasterRead ==
  ASSUME TypeOK, ExecOK, Serial, NEW s \in Slots, NEW o \in Orders, masterId[o] # None,
         NEW e, exec' = [exec EXCEPT ![s] = e], exec[s] = Idle,
         e.at \in MasterOps, e.o = o,
         UNCHANGED <<status, masterId, dispatch, lock>>
  PROVE  Serial'
<1>1. \A x \in Slots : exec'[x] = IF x = s THEN e ELSE exec[x]
  BY DEF TypeOK
<1>2. exec[s].at = "idle" /\ exec[s].o \notin Orders
  BY StoreAssumption DEF Idle, Handler
<1>3. status[o] \notin Unsubmitted
  BY DEF Serial, SerialInv, AssignmentOK
<1>4. LockOK'
  BY <1>1, <1>2, Places DEF Serial, LockOK
<1>5. EditsOK'
  BY <1>1, Places DEF Serial, SerialInv, EditsOK
<1>6. QuietOK'
  BY <1>1, <1>3 DEF Serial, SerialInv, QuietOK
<1>7. BatonOK'
  BY <1>1, Places DEF Serial, SerialInv, BatonOK, Cascading
<1>8. AssignmentOK'
  BY DEF Serial, SerialInv, AssignmentOK
<1> QED BY <1>4, <1>5, <1>6, <1>7, <1>8 DEF Serial, SerialInv

\* An acceptance locks the row of an order it finds SEARCHING.
LEMMA SerialAccept ==
  ASSUME TypeOK, ExecOK, Serial, NEW s \in Slots, NEW o \in Orders, NEW m \in Masters,
         acceptOffer(s, o, m)
  PROVE  Serial'
<1> DEFINE e == Handler("accept", o, m, None, None, 1, None)
<1>0. /\ exec[s] = Idle /\ exec' = [exec EXCEPT ![s] = e]
      /\ lock[o] = None /\ lock' = [lock EXCEPT ![o] = s]
      /\ canTransition(status[o], "ASSIGNED")
      /\ UNCHANGED <<status, masterId, dispatch>>
  BY DEF acceptOffer, Start, RowFree, orderRow, dispatchRows
<1>1. e.at = "accept" /\ e.o = o
  BY DEF Handler
<1>2. exec[s].at = "idle" /\ exec[s].o \notin Orders /\ None \notin Slots
  BY <1>0, StoreAssumption DEF Idle, Handler
<1>3. status[o] = "SEARCHING"
  BY <1>0 DEF canTransition, TRANSITIONS
<1>4. status[o] \notin Unsubmitted
  BY <1>3, StoreAssumption DEF Unsubmitted, OrderStatus
<1> HIDE DEF e
<1>5. \A x \in Slots : exec'[x] = IF x = s THEN e ELSE exec[x]
  BY <1>0 DEF TypeOK
<1>6. \A x \in Orders : lock'[x] = IF x = o THEN s ELSE lock[x]
  BY <1>0 DEF TypeOK
<1>7. LockOK'
  <2>1. ASSUME NEW x \in Orders, NEW y \in Slots
        PROVE  lock'[x] = y <=> exec'[y].at = "accept" /\ exec'[y].o = x
    BY <1>0, <1>1, <1>2, <1>5, <1>6 DEF Serial, LockOK
  <2>2. \A y \in Slots : exec'[y].at = "accept" => status'[exec'[y].o] = "SEARCHING"
    BY <1>0, <1>1, <1>3, <1>5 DEF Serial, LockOK
  <2> QED BY <2>1, <2>2 DEF LockOK
<1>8. EditsOK'
  BY <1>0, <1>1, <1>5, Places DEF Serial, SerialInv, EditsOK
<1>9. QuietOK'
  BY <1>0, <1>1, <1>4, <1>5 DEF Serial, SerialInv, QuietOK
<1>10. BatonOK'
  BY <1>0, <1>1, <1>5, Places DEF Serial, SerialInv, BatonOK, Cascading
<1>11. AssignmentOK'
  BY <1>0 DEF Serial, SerialInv, AssignmentOK
<1> QED BY <1>7, <1>8, <1>9, <1>10, <1>11 DEF Serial, SerialInv

\* An offer is declined or expires: its handler takes the baton from it.
LEMMA SerialAnswer ==
  ASSUME TypeOK, ExecOK, Serial, NEW s \in Slots, NEW o \in Orders, NEW m \in Masters,
         NEW a \in {"DECLINED", "EXPIRED"}, dispatch[o][m] = "OFFERED",
         dispatch' = [dispatch EXCEPT ![o][m] = a],
         NEW e, exec' = [exec EXCEPT ![s] = e], exec[s] = Idle,
         e.at \in CascadeSteps, e.o = o,
         UNCHANGED <<status, masterId, lock>>
  PROVE  Serial'
<1>1. \A x \in Slots : exec'[x] = IF x = s THEN e ELSE exec[x]
  BY DEF TypeOK
<1>2. exec[s].at = "idle" /\ exec[s].o \notin Orders
  BY StoreAssumption DEF Idle, Handler
<1>3. \A x \in Orders, y \in Masters :
        dispatch'[x][y] = IF x = o /\ y = m THEN a ELSE dispatch[x][y]
  BY DEF TypeOK
<1>4. status[o] \notin Unsubmitted
  BY StoreAssumption DEF DispatchStatus, Serial, SerialInv, QuietOK
<1>5. LockOK'
  BY <1>1, <1>2, Places DEF Serial, LockOK
<1>6. EditsOK'
  BY <1>1, Places DEF Serial, SerialInv, EditsOK
<1>7. QuietOK'
  BY <1>1, <1>3, <1>4 DEF Serial, SerialInv, QuietOK
<1>8. BatonOK'
  <2>1. \A x \in Slots : ~Cascading(x, o)
    BY DEF Serial, SerialInv, BatonOK
  <2>2. \A y \in Masters : dispatch'[o][y] # "OFFERED"
    BY <1>3 DEF Serial, SerialInv, BatonOK
  <2> QED BY <1>1, <1>3, <2>1, <2>2 DEF Serial, SerialInv, BatonOK, Cascading
<1>9. AssignmentOK'
  BY <1>3 DEF Serial, SerialInv, AssignmentOK
<1> QED BY <1>5, <1>6, <1>7, <1>8, <1>9 DEF Serial, SerialInv

\* The cascade makes an offer: the baton goes from the handler to the offer.
LEMMA SerialOffer ==
  ASSUME TypeOK, ExecOK, Serial, NEW s \in Slots, createOffer(s)
  PROVE  Serial'
<1> DEFINE o == exec[s].o  m == exec[s].m
<1>0. /\ exec[s].at = "offer" /\ exec[s].at \in CascadeSteps
      /\ exec[s].at \notin CustomerOps \cup {"accept"}
      /\ UNCHANGED <<status, masterId, lock>>
  BY DEF createOffer, CascadeSteps, CustomerOps, orderRow
<1>1. o \in Orders /\ m \in Masters
  BY <1>0 DEF ExecOK, HandlerOK
<1>2. CASE dispatch[o][m] # None
  <2> DEFINE e == Cascade(o, exec[s].attempt, exec[s].job)
  <2>1. exec' = [exec EXCEPT ![s] = e] /\ UNCHANGED dispatch
    BY <1>2 DEF createOffer
  <2>2. e.o = exec[s].o /\ e.at \notin CustomerOps \cup {"accept"}
    BY DEF Cascade, Handler, CustomerOps
  <2> HIDE DEF e
  <2> QED BY <1>0, <2>1, <2>2, SerialMove
<1>3. CASE dispatch[o][m] = None
  <2> DEFINE e == Handler("enqueue", exec[s].o, exec[s].m, exec[s].seen, exec[s].data,
                          exec[s].attempt, exec[s].job)
  <2>1. exec' = [exec EXCEPT ![s] = e] /\ dispatch' = [dispatch EXCEPT ![o][m] = "OFFERED"]
    BY <1>3, GotoIs DEF createOffer, TypeOK
  <2>2. e.o = o /\ e.at = "enqueue"
    BY DEF Handler
  <2>3. status[o] \notin Unsubmitted
    BY <1>0, <1>1 DEF Serial, SerialInv, QuietOK
  <2>4. \A x \in Slots : x # s => ~Cascading(x, o)
    BY <1>0, <1>1 DEF Serial, SerialInv, BatonOK, Cascading
  <2>5. \A y \in Masters : dispatch[o][y] # "OFFERED"
    BY <1>0, <1>1 DEF Serial, SerialInv, BatonOK, Cascading
  <2>6. masterId[o] # m
    BY <1>1, <1>3, StoreAssumption DEF Serial, SerialInv, AssignmentOK, DispatchStatus
  <2> HIDE DEF e, o, m
  <2>7. \A x \in Slots : exec'[x] = IF x = s THEN e ELSE exec[x]
    BY <2>1 DEF TypeOK
  <2>8. \A x \in Orders, y \in Masters :
          dispatch'[x][y] = IF x = o /\ y = m THEN "OFFERED" ELSE dispatch[x][y]
    BY <1>1, <2>1 DEF TypeOK
  <2>9. LockOK'
    BY <1>0, <2>2, <2>7 DEF Serial, LockOK
  <2>10. EditsOK'
    BY <1>0, <2>2, <2>7, Places DEF Serial, SerialInv, EditsOK
  <2>11. QuietOK'
    BY <1>0, <2>2, <2>3, <2>7, <2>8 DEF Serial, SerialInv, QuietOK
  <2>12. BatonOK'
    BY <2>2, <2>4, <2>5, <2>7, <2>8, Places DEF Serial, SerialInv, BatonOK, Cascading
  <2>13. AssignmentOK'
    BY <1>0, <2>6, <2>8 DEF Serial, SerialInv, AssignmentOK
  <2> QED BY <2>9, <2>10, <2>11, <2>12, <2>13 DEF Serial, SerialInv
<1> QED BY <1>2, <1>3

\* The acceptance commits: the order was SEARCHING and without a master.
LEMMA SerialCommit ==
  ASSUME TypeOK, ExecOK, Serial, NEW s \in Slots, commitAccept(s)
  PROVE  Serial'
<1> DEFINE o == exec[s].o  m == exec[s].m
<1>0. /\ exec[s].at = "accept"
      /\ status' = [status EXCEPT ![o] = "ASSIGNED"]
      /\ masterId' = [masterId EXCEPT ![o] = m]
      /\ lock' = [lock EXCEPT ![o] = None]
      /\ dispatch' = [dispatch EXCEPT ![o] =
           [x \in Masters |-> IF x = m THEN "ACCEPTED"
                              ELSE IF dispatch[o][x] = "OFFERED" THEN "WITHDRAWN" ELSE dispatch[o][x]]]
      /\ exec' = [exec EXCEPT ![s] = Idle]
  BY DEF commitAccept, WriteStatus, Return
<1>1. o \in Orders /\ m \in Masters
  BY <1>0 DEF ExecOK, HandlerOK
<1>2. status[o] = "SEARCHING" /\ lock[o] = s
  BY <1>0, <1>1 DEF Serial, LockOK
<1>3. masterId[o] = None /\ \A y \in Masters : dispatch[o][y] # "ACCEPTED"
  BY <1>1, <1>2, StoreAssumption DEF Serial, SerialInv, AssignmentOK
<1>4. Idle.at = "idle" /\ Idle.o \notin Orders /\ None \notin Slots \cup Masters
  BY StoreAssumption DEF Idle, Handler
<1>5. \A x \in Slots : exec[x].at \in UnguardedOps => exec[x].o \in Orders \ {o}
  BY <1>2, EditReads DEF Serial, SerialInv, EditsOK
<1>14. \A x \in Slots : exec[x].at = "accept" => exec[x].o \in Orders
  BY DEF ExecOK, HandlerOK
<1>15. o = exec[s].o
  OBVIOUS
<1> HIDE DEF Idle, o, m
<1>6. \A x \in Slots : exec'[x] = IF x = s THEN Idle ELSE exec[x]
  BY <1>0 DEF TypeOK
<1>7. \A x \in Orders : /\ status'[x] = IF x = o THEN "ASSIGNED" ELSE status[x]
                        /\ masterId'[x] = IF x = o THEN m ELSE masterId[x]
                        /\ lock'[x] = IF x = o THEN None ELSE lock[x]
  BY <1>0 DEF TypeOK
<1>8. \A x \in Orders, y \in Masters :
        dispatch'[x][y] = IF x # o THEN dispatch[x][y]
                          ELSE IF y = m THEN "ACCEPTED"
                          ELSE IF dispatch[o][y] = "OFFERED" THEN "WITHDRAWN" ELSE dispatch[o][y]
  BY <1>0, <1>1 DEF TypeOK
<1>9. LockOK'
  <2>1. ASSUME NEW x \in Orders, NEW y \in Slots
        PROVE  lock'[x] = y <=> exec'[y].at = "accept" /\ exec'[y].o = x
    BY <1>0, <1>2, <1>4, <1>6, <1>7, <1>15 DEF Serial, LockOK
  <2>2. ASSUME NEW y \in Slots, exec'[y].at = "accept"
        PROVE  status'[exec'[y].o] = "SEARCHING"
    <3>1. y # s /\ exec'[y] = exec[y]
      BY <1>4, <1>6, <2>2
    <3>2. exec[y].o \in Orders /\ exec[y].o # o
      BY <1>1, <1>2, <1>14, <2>2, <3>1 DEF Serial, LockOK
    <3> QED BY <1>7, <2>2, <3>1, <3>2 DEF Serial, LockOK
  <2> QED BY <2>1, <2>2 DEF LockOK
<1>10. EditsOK'
  BY <1>4, <1>5, <1>6, <1>7, Places DEF Serial, SerialInv, EditsOK
<1>11. QuietOK'
  <2>1. "ASSIGNED" \notin Unsubmitted
    BY StoreAssumption DEF Unsubmitted, OrderStatus
  <2> QED BY <1>4, <1>6, <1>7, <1>8, <2>1 DEF Serial, SerialInv, QuietOK
<1>12. BatonOK'
  BY <1>4, <1>6, <1>8 DEF Serial, SerialInv, BatonOK, Cascading
<1>13. AssignmentOK'
  <2>1. "ASSIGNED" \notin Unsubmitted \cup {"SEARCHING"}
    BY StoreAssumption DEF Unsubmitted, OrderStatus
  <2> QED BY <1>1, <1>3, <1>7, <1>8, <2>1 DEF Serial, SerialInv, AssignmentOK
<1> QED BY <1>9, <1>10, <1>11, <1>12, <1>13 DEF Serial, SerialInv

----------------------------------------------------------------------------
(* The other steps of the dispatch service, failures, and all steps. *)

\* A handler dies or throws; the transaction it was in rolls back.
LEMMA SerialFails ==
  ASSUME TypeOK, ExecOK, Serial, NEW s \in Slots, HandlerFails(s)
  PROVE  Serial'
<1>0. Return(s) /\ UNCHANGED <<status, masterId, dispatch>>
  BY DEF HandlerFails, orderRow, dispatchRows
<1>1. \A x \in Slots : exec'[x] = IF x = s THEN Idle ELSE exec[x]
  BY <1>0 DEF Return, TypeOK
<1>2. Idle.at = "idle" /\ Idle.o \notin Orders /\ None \notin Slots
  BY StoreAssumption DEF Idle, Handler
<1>3. \A x \in Orders : lock'[x] = IF lock[x] = s THEN None ELSE lock[x]
  BY DEF HandlerFails
<1> HIDE DEF Idle
<1>4. LockOK'
  BY <1>0, <1>1, <1>2, <1>3 DEF Serial, LockOK
<1>5. EditsOK'
  BY <1>0, <1>1, <1>2, Places DEF Serial, SerialInv, EditsOK
<1>6. QuietOK'
  BY <1>0, <1>1, <1>2 DEF Serial, SerialInv, QuietOK
<1>7. BatonOK'
  BY <1>0, <1>1, <1>2 DEF Serial, SerialInv, BatonOK, Cascading
<1>8. AssignmentOK'
  BY <1>0 DEF Serial, SerialInv, AssignmentOK
<1> QED BY <1>4, <1>5, <1>6, <1>7, <1>8 DEF Serial, SerialInv

\* A stalled job's handler goes on as it was.
LEMMA SerialStalls ==
  ASSUME TypeOK, ExecOK, Serial, NEW w \in Slots, JobStalls(w)
  PROVE  Serial'
<1> DEFINE e == Handler(exec[w].at, exec[w].o, exec[w].m, exec[w].seen, exec[w].data,
                        exec[w].attempt, None)
<1>0. exec' = [exec EXCEPT ![w] = e] /\ UNCHANGED <<status, masterId, dispatch, lock>>
  BY StallIs DEF JobStalls, orderRow, dispatchRows, TypeOK
<1>1. e.at = exec[w].at /\ e.o = exec[w].o /\ e.seen = exec[w].seen
  BY DEF Handler
<1> HIDE DEF e
<1>2. \A x \in Slots : exec'[x] = IF x = w THEN e ELSE exec[x]
  BY <1>0 DEF TypeOK
<1>3. \A x \in Slots : exec'[x].at = exec[x].at /\ exec'[x].o = exec[x].o /\ exec'[x].seen = exec[x].seen
  BY <1>1, <1>2
<1>4. LockOK'
  BY <1>0, <1>3 DEF Serial, LockOK
<1>5. EditsOK'
  BY <1>0, <1>3 DEF Serial, SerialInv, EditsOK
<1>6. QuietOK'
  BY <1>0, <1>3 DEF Serial, SerialInv, QuietOK
<1>7. BatonOK'
  BY <1>0, <1>3 DEF Serial, SerialInv, BatonOK, Cascading
<1>8. AssignmentOK'
  BY <1>0 DEF Serial, SerialInv, AssignmentOK
<1> QED BY <1>4, <1>5, <1>6, <1>7, <1>8 DEF Serial, SerialInv

\* The steps of the cascade and of failSearch that leave order, offers and row
\* lock alone, and the two penalties.
LEMMA SerialMoves ==
  ASSUME TypeOK, ExecOK, Serial, NEW s \in Slots,
         \/ cascadeNext(s) \/ pickCandidate(s) \/ enqueueExpiry(s) \/ recordLateResponse(s)
         \/ recordCancellation(s) \/ failSearch(s) \/ expireHistory(s)
  PROVE  Serial'
<1>0. /\ UNCHANGED <<status, masterId, dispatch, lock>>
      /\ exec[s].at \in CascadeSteps \cup {"enqueue", "penalise", "failSearch", "expireHistory"}
  BY DEF cascadeNext, pickCandidate, enqueueExpiry, recordLateResponse, recordCancellation,
         failSearch, expireHistory, orderRow, dispatchRows, CascadeSteps
<1>1. exec[s].at \notin CustomerOps \cup {"accept"}
  BY <1>0 DEF CascadeSteps, CustomerOps
<1>2. CASE Return(s)
  BY <1>0, <1>1, <1>2, SerialReturn
<1>3. ASSUME NEW at \in {"query", "failSearch"}, Goto(s, at), exec[s].at \in CascadeSteps
      PROVE  Serial'
  <2> DEFINE e == Handler(at, exec[s].o, exec[s].m, exec[s].seen, exec[s].data,
                          exec[s].attempt, exec[s].job)
  <2>1. exec' = [exec EXCEPT ![s] = e]
    BY <1>3, GotoIs DEF TypeOK
  <2>2. e.o = exec[s].o /\ e.at \notin CustomerOps \cup {"accept"}
    BY DEF Handler, CustomerOps
  <2> HIDE DEF e
  <2> QED BY <1>0, <1>1, <1>3, <2>1, <2>2, SerialMove
<1>4. ASSUME NEW at \in {"cascade", "offer", "expire"}, NEW m, NEW seen, NEW a, NEW j,
             at # "expire" => exec[s].at \in CascadeSteps,
             exec' = [exec EXCEPT ![s] = Handler(at, exec[s].o, m, seen, None, a, j)]
      PROVE  Serial'
  <2> DEFINE e == Handler(at, exec[s].o, m, seen, None, a, j)
  <2>1. exec' = [exec EXCEPT ![s] = e]
    BY <1>4
  <2>2. /\ e.o = exec[s].o /\ e.at \notin CustomerOps \cup {"accept"}
        /\ e.at \in CascadeSteps => at # "expire"
    BY DEF Handler, CustomerOps, CascadeSteps
  <2> HIDE DEF e
  <2> QED BY <1>0, <1>1, <1>4, <2>1, <2>2, SerialMove
<1>5. CASE cascadeNext(s)
  BY <1>2, <1>3, <1>5 DEF cascadeNext, CascadeSteps
<1>6. CASE pickCandidate(s)
  <2>1. exec[s].at \in CascadeSteps
    BY <1>6 DEF pickCandidate, CascadeSteps
  <2>2. CASE Goto(s, "failSearch")
    BY <1>3, <2>1, <2>2
  <2>3. CASE exec' = [exec EXCEPT ![s] = Cascade(exec[s].o, 2, exec[s].job)]
    BY <1>4, <2>1, <2>3 DEF Cascade
  <2>4. ASSUME NEW m, exec' = [exec EXCEPT ![s] =
                 Handler("offer", exec[s].o, m, None, None, exec[s].attempt, exec[s].job)]
        PROVE  Serial'
    BY <1>4, <2>1, <2>4
  <2> QED BY <1>6, <2>2, <2>3, <2>4 DEF pickCandidate
<1>7. CASE recordLateResponse(s)
  <2>1. exec' = [exec EXCEPT ![s] = Handler("cascade", exec[s].o, None, None, None, 1, exec[s].job)]
    BY <1>7 DEF recordLateResponse, Cascade
  <2>2. exec[s].at \in CascadeSteps
    BY <1>7 DEF recordLateResponse, CascadeSteps
  <2> QED BY <1>4, <2>1, <2>2
<1>8. CASE failSearch(s)
  BY <1>2, <1>4, <1>8 DEF failSearch
<1>9. CASE enqueueExpiry(s) \/ recordCancellation(s) \/ expireHistory(s)
  BY <1>2, <1>9 DEF enqueueExpiry, recordCancellation, expireHistory
<1> QED BY <1>5, <1>6, <1>7, <1>8, <1>9

\* A request arrives.
LEMMA SerialRequest ==
  ASSUME TypeOK, ExecOK, Serial, SerialEdits, NEW s \in Requests, NEW o \in Orders,
         Request(s, o)
  PROVE  Serial'
<1> USE DEF orderRow, dispatchRows
<1>0. s \in Slots
  BY DEF Slots
<1>1. ASSUME NEW op \in CustomerOps, NEW m, NEW data, ~CustomerWaits(o, op),
             Start(s, Reading(op, o, m, data)),
             UNCHANGED <<status, masterId, dispatch, lock>>
      PROVE  Serial'
  <2> DEFINE e == Reading(op, o, m, data)
  <2>1. exec[s] = Idle /\ exec' = [exec EXCEPT ![s] = e]
    BY <1>1 DEF Start
  <2>2. e.at = op /\ e.o = o /\ e.seen = status[o]
    BY DEF Reading, Handler
  <2> HIDE DEF e
  <2> QED BY <1>1, <2>1, <2>2, SerialCustomerRead
<1>2. ASSUME NEW op \in CustomerOps, CustomerRead(s, o, op)
      PROVE  Serial'
  BY <1>1, <1>2 DEF CustomerRead
<1>3. ASSUME NEW edit, EditRead(s, o, edit)
      PROVE  Serial'
  <2>1. "updateDraft" \in CustomerOps
    BY DEF CustomerOps
  <2> QED BY <1>1, <1>3, <2>1 DEF EditRead
<1>4. ASSUME NEW op \in MasterOps, MasterRead(s, o, op)
      PROVE  Serial'
  <2> DEFINE e == Reading(op, o, masterId[o], None)
  <2>1. /\ exec[s] = Idle /\ exec' = [exec EXCEPT ![s] = e] /\ masterId[o] # None
        /\ UNCHANGED <<status, masterId, dispatch, lock>>
    BY <1>4 DEF MasterRead, Start
  <2>2. e.at \in MasterOps /\ e.o = o
    BY DEF Reading, Handler
  <2> HIDE DEF e
  <2> QED BY <1>0, <2>1, <2>2, SerialMasterRead
<1>5. ASSUME NEW m \in Masters, acceptOffer(s, o, m)
      PROVE  Serial'
  BY <1>0, <1>5, SerialAccept
<1>6. ASSUME NEW m \in Masters, declineOffer(s, o, m)
      PROVE  Serial'
  <2> DEFINE e == Cascade(o, 1, None)
  <2>1. /\ exec[s] = Idle /\ exec' = [exec EXCEPT ![s] = e] /\ dispatch[o][m] = "OFFERED"
        /\ dispatch' = [dispatch EXCEPT ![o][m] = "DECLINED"]
        /\ UNCHANGED <<status, masterId, lock>>
    BY <1>6 DEF declineOffer, Start
  <2>2. e.at \in CascadeSteps /\ e.o = o
    BY DEF Cascade, Handler, CascadeSteps
  <2> HIDE DEF e
  <2> QED BY <1>0, <2>1, <2>2, SerialAnswer
<1> QED BY <1>2, <1>3, <1>4, <1>5, <1>6 DEF Request

\* A worker takes an expiry job.
LEMMA SerialExpiry ==
  ASSUME TypeOK, ExecOK, Serial, NEW w \in Workers, NEW o \in Orders, NEW m \in Masters,
         handleOfferExpiry(w, o, m)
  PROVE  Serial'
<1>0. w \in Slots /\ UNCHANGED <<status, masterId, lock>>
  BY DEF Slots, handleOfferExpiry, orderRow
<1>1. CASE dispatch[o][m] = "OFFERED"
  <2> DEFINE e == Handler("late", o, m, None, None, 1, m)
  <2>1. /\ exec[w] = Idle /\ exec' = [exec EXCEPT ![w] = e]
        /\ dispatch' = [dispatch EXCEPT ![o][m] = "EXPIRED"]
    BY <1>1 DEF handleOfferExpiry, Start
  <2>2. e.at \in CascadeSteps /\ e.o = o
    BY DEF Handler, CascadeSteps
  <2> HIDE DEF e
  <2> QED BY <1>0, <1>1, <2>1, <2>2, SerialAnswer
<1>2. CASE dispatch[o][m] # "OFFERED"
  <2>1. UNCHANGED <<dispatch, exec>>
    BY <1>2 DEF handleOfferExpiry
  <2> QED BY <1>0, <2>1 DEF Serial, SerialInv, LockOK, EditsOK, QuietOK, BatonOK, Cascading, AssignmentOK
<1> QED BY <1>1, <1>2

LEMMA SerialStep ==
  ASSUME TypeOK, ExecOK, Serial, SerialEdits, [Next]_vars
  PROVE  Serial'
<1>1. CASE UNCHANGED <<status, masterId, dispatch, lock, exec>>
  BY <1>1 DEF Serial, SerialInv, LockOK, EditsOK, QuietOK, BatonOK, Cascading, AssignmentOK
<1>2. ASSUME NEW s \in Slots, Step(s)
      PROVE  Serial'
  <2>1. CASE cancel(s) \/ confirmCompletion(s)
    <3>1. ASSUME NEW op \in {"cancel", "confirmCompletion"}, exec[s].at = op,
                 GuardedWrite(s, Target[op]), Return(s), UNCHANGED <<masterId, dispatch, lock>>
          PROVE  Serial'
      BY <3>1, SerialGuarded
    <3> QED BY <2>1, <3>1 DEF cancel, confirmCompletion, dispatchRows
  <2>2. ASSUME NEW op \in MasterOps, jobTransition(s, op)
        PROVE  Serial'
    BY <2>2, SerialGuarded DEF jobTransition, dispatchRows
  <2>3. CASE cancelByMaster(s)
    <3>1. "cancelByMaster" \in MasterOps
      BY DEF MasterOps
    <3> QED BY <2>3, <3>1, SerialGuarded DEF cancelByMaster, dispatchRows
  <2>4. CASE startEnRoute(s) \/ startService(s) \/ completeService(s)
    BY <2>2, <2>4 DEF startEnRoute, startService, completeService, MasterOps
  <2> QED BY <1>2, <2>1, <2>3, <2>4, SerialEdit, SerialSubmit, SerialExpire, SerialOffer,
             SerialCommit, SerialMoves DEF Step
<1>3. CASE \E o \in Orders : createDraft(o)
  BY <1>3, SerialCreate
<1>4. CASE \E s \in Requests, o \in Orders : Request(s, o)
  BY <1>4, SerialRequest
<1>5. CASE \E w \in Workers, o \in Orders, m \in Masters : handleOfferExpiry(w, o, m)
  BY <1>5, SerialExpiry
<1>6. CASE \E s \in Slots : HandlerFails(s)
  BY <1>6, SerialFails
<1>7. CASE \E w \in Workers : JobStalls(w)
  BY <1>7, SerialStalls DEF Slots
<1>8. CASE \/ \E o \in Orders, m \in Masters : OfferTimesOut(o, m)
           \/ \E m \in Masters : AvailabilityChanges(m)
           \/ \E o \in Orders, m \in Masters : JobAttemptFails(o, m)
  BY <1>1, <1>8 DEF OfferTimesOut, AvailabilityChanges, JobAttemptFails, orderRow, dispatchRows
<1>9. CASE UNCHANGED vars
  BY <1>1, <1>9 DEF vars
<1> QED BY <1>2, <1>3, <1>4, <1>5, <1>6, <1>7, <1>8, <1>9 DEF Next

LEMMA SerialInit == Init => Serial
<1> SUFFICES ASSUME Init PROVE Serial
  OBVIOUS
<1>1. \A s \in Slots : exec[s].at = "idle" /\ exec[s].o \notin Orders
  BY StoreAssumption DEF Init, Idle, Handler
<1>2. /\ None \notin Slots \cup Masters \cup {"OFFERED", "ACCEPTED", "SEARCHING"}
      /\ None \in Unsubmitted
  BY StoreAssumption DEF OrderStatus, DispatchStatus, Unsubmitted
<1>3. \A o \in Orders : status[o] = None /\ masterId[o] = None /\ lock[o] = None
  BY DEF Init
<1>4. \A o \in Orders, m \in Masters : dispatch[o][m] = None
  BY DEF Init
<1>5. LockOK
  BY <1>1, <1>2, <1>3 DEF LockOK
<1>6. EditsOK
  BY <1>1, Places DEF EditsOK
<1>7. QuietOK
  BY <1>1, <1>3, <1>4 DEF QuietOK
<1>8. BatonOK
  BY <1>1, <1>2, <1>4 DEF BatonOK, Cascading
<1>9. AssignmentOK
  BY <1>2, <1>3, <1>4 DEF AssignmentOK
<1> QED BY <1>5, <1>6, <1>7, <1>8, <1>9 DEF Serial, SerialInv

----------------------------------------------------------------------------
\* An order is out with one master at a time, however declines, expiries,
\* retries and failures overlap, as long as the customer's client does not
\* overlap an edit, diagnosis or submission with another request.
THEOREM SequentialOffersHolds == ASSUME SerialEdits PROVE Spec => []SequentialOffers
<1>1. TypeOK /\ ExecOK /\ Serial /\ [Next]_vars => Serial'
  BY SerialStep
<1>2. Serial => SequentialOffers
  BY DEF Serial, SerialInv, BatonOK, SequentialOffers
<1> QED BY <1>1, <1>2, SerialInit, Types, PTL DEF Spec

\* Under the same assumption an order has exactly the master whose offer it
\* shows as ACCEPTED: the lock taken by acceptOffer is enough.
THEOREM OneAcceptedHolds == ASSUME SerialEdits PROVE Spec => []OneAccepted
<1>1. TypeOK /\ ExecOK /\ Serial /\ [Next]_vars => Serial'
  BY SerialStep
<1>2. Serial => OneAccepted
  BY DEF Serial, SerialInv, AssignmentOK, OneAccepted
<1> QED BY <1>1, <1>2, SerialInit, Types, PTL DEF Spec

-----------------------------------------------------------------------------
(* The refinement of OrderLifecycle: every step takes one edge of the      *)
(* transition table of one order, assigns it to a master, or leaves status *)
(* and master of every order alone.                                        *)
(*                                                                         *)
(* The unguarded writes need EditsOK: the status they read is the status   *)
(* they overwrite.  The acceptance needs LockOK and AssignmentOK: the      *)
(* order it assigns is still SEARCHING and has no master.                  *)

\* An edge of the table, as the services and as the abstract module see it.
LEMMA EdgeIsMove ==
  ASSUME NEW o \in Orders, NEW to \in OrderStatus, to # "ASSIGNED",
         canTransition(status[o], to), status' = [status EXCEPT ![o] = to],
         UNCHANGED masterId
  PROVE  Lifecycle!Next
<1>1. to \in Lifecycle!OrderStatus
  BY DEF OrderStatus, Lifecycle!OrderStatus
<1>2. Lifecycle!canTransition(status[o], to)
  BY DEF canTransition, TRANSITIONS, Lifecycle!canTransition, Lifecycle!TRANSITIONS
<1>3. Lifecycle!Move(o, to)
  BY <1>2 DEF Lifecycle!Move
<1> QED BY <1>1, <1>3 DEF Lifecycle!Next

\* What the operations of OrdersService write.
LEMMA OrderWriteIsMove ==
  ASSUME TypeOK, ExecOK, Serial, NEW s \in Slots,
         \/ updateDraft(s) \/ diagnose(s) \/ submit(s) \/ cancel(s) \/ confirmCompletion(s)
         \/ startEnRoute(s) \/ startService(s) \/ completeService(s) \/ cancelByMaster(s)
  PROVE  Lifecycle!Next \/ UNCHANGED <<status, masterId>>
<1> USE Statuses
<1>1. CASE updateDraft(s)
  <2>1. /\ exec[s].at \in UnguardedOps /\ UNCHANGED masterId
        /\ UNCHANGED status \/ /\ exec[s].seen = "PRICED"
                               /\ status' = [status EXCEPT ![exec[s].o] = "DRAFT"]
    BY <1>1 DEF updateDraft, WriteStatus, UnguardedOps, invalidatesQuote
  <2>2. exec[s].o \in Orders /\ status[exec[s].o] = exec[s].seen
    BY <2>1, EditReads DEF Serial, SerialInv, EditsOK
  <2>3. canTransition("PRICED", "DRAFT")
    BY DEF canTransition, TRANSITIONS
  <2> QED BY <2>1, <2>2, <2>3, EdgeIsMove
<1>2. CASE diagnose(s)
  <2>1. /\ exec[s].at = "diagnose" /\ exec[s].at \in UnguardedOps /\ UNCHANGED masterId
        /\ UNCHANGED status \/ status' = [status EXCEPT ![exec[s].o] = "PRICED"]
    BY <1>2 DEF diagnose, WriteStatus, UnguardedOps
  <2>2. exec[s].o \in Orders /\ status[exec[s].o] = exec[s].seen
    BY <2>1, EditReads DEF Serial, SerialInv, EditsOK
  <2>3. canTransition(exec[s].seen, "PRICED")
    BY <2>1, Targets DEF ExecOK, HandlerOK, CustomerOps
  <2> QED BY <2>1, <2>2, <2>3, EdgeIsMove
<1>3. CASE submit(s)
  <2>1. /\ exec[s].at = "submit" /\ exec[s].at \in UnguardedOps /\ UNCHANGED masterId
        /\ status' = [status EXCEPT ![exec[s].o] = "SEARCHING"]
    BY <1>3 DEF submit, WriteStatus, UnguardedOps
  <2>2. exec[s].o \in Orders /\ status[exec[s].o] = exec[s].seen
    BY <2>1, EditReads DEF Serial, SerialInv, EditsOK
  <2>3. canTransition(exec[s].seen, "SEARCHING")
    BY <2>1, Targets DEF ExecOK, HandlerOK, CustomerOps
  <2> QED BY <2>1, <2>2, <2>3, EdgeIsMove
<1>4. ASSUME NEW op \in {"cancel", "confirmCompletion"} \cup MasterOps,
             exec[s].at = op, GuardedWrite(s, Target[op]), UNCHANGED masterId
      PROVE  Lifecycle!Next \/ UNCHANGED <<status, masterId>>
  <2>1. exec[s].o \in Orders /\ canTransition(exec[s].seen, Target[op])
    BY <1>4 DEF ExecOK, HandlerOK, CustomerOps, MasterOps
  <2>2. Target[op] \in OrderStatus /\ Target[op] # "ASSIGNED"
    BY Targets DEF MasterOps
  <2>3. \/ UNCHANGED status
        \/ /\ status[exec[s].o] = exec[s].seen
           /\ status' = [status EXCEPT ![exec[s].o] = Target[op]]
    BY <1>4 DEF GuardedWrite, WriteStatus
  <2> QED BY <1>4, <2>1, <2>2, <2>3, EdgeIsMove
<1>5. CASE cancel(s) \/ confirmCompletion(s)
  BY <1>4, <1>5 DEF cancel, confirmCompletion
<1>6. CASE startEnRoute(s) \/ startService(s) \/ completeService(s) \/ cancelByMaster(s)
  BY <1>4, <1>6 DEF startEnRoute, startService, completeService, jobTransition,
                    cancelByMaster, MasterOps
<1> QED BY <1>1, <1>2, <1>3, <1>5, <1>6

LEMMA CommitIsAssign ==
  ASSUME TypeOK, ExecOK, Serial, NEW s \in Slots, commitAccept(s)
  PROVE  Lifecycle!Next
<1> DEFINE o == exec[s].o  m == exec[s].m
<1>1. /\ exec[s].at = "accept" /\ status' = [status EXCEPT ![o] = "ASSIGNED"]
      /\ masterId' = [masterId EXCEPT ![o] = m]
  BY DEF commitAccept, WriteStatus
<1>2. o \in Orders /\ m \in Masters
  BY <1>1 DEF ExecOK, HandlerOK
<1>3. status[o] = "SEARCHING" /\ masterId[o] = None
  BY <1>1, <1>2 DEF Serial, SerialInv, LockOK, AssignmentOK
<1>4. Lifecycle!canTransition(status[o], "ASSIGNED")
  BY <1>3 DEF Lifecycle!canTransition, Lifecycle!TRANSITIONS
<1>5. Lifecycle!Assign(o, m)
  BY <1>1, <1>3, <1>4 DEF Lifecycle!Assign
<1> QED BY <1>2, <1>5 DEF Lifecycle!Next

LEMMA ExpireIsMove ==
  ASSUME TypeOK, ExecOK, NEW s \in Slots, expireOrder(s)
  PROVE  Lifecycle!Next \/ UNCHANGED <<status, masterId>>
<1>1. /\ exec[s].at = "expire" /\ UNCHANGED masterId
      /\ UNCHANGED status \/ /\ status[exec[s].o] = exec[s].seen
                             /\ status' = [status EXCEPT ![exec[s].o] = "EXPIRED"]
  BY DEF expireOrder
<1>2. exec[s].o \in Orders /\ exec[s].seen = "SEARCHING"
  BY <1>1 DEF ExecOK, HandlerOK
<1>3. canTransition("SEARCHING", "EXPIRED")
  BY DEF canTransition, TRANSITIONS
<1> QED BY <1>1, <1>2, <1>3, Statuses, EdgeIsMove

LEMMA LifecycleStep ==
  ASSUME TypeOK, ExecOK, Serial, [Next]_vars
  PROVE  [Lifecycle!Next]_<<status, masterId>>
<1> USE DEF orderRow
<1>1. ASSUME NEW s \in Slots, Step(s)
      PROVE  Lifecycle!Next \/ UNCHANGED <<status, masterId>>
  <2>1. CASE \/ cascadeNext(s) \/ pickCandidate(s) \/ createOffer(s) \/ enqueueExpiry(s)
             \/ recordLateResponse(s) \/ recordCancellation(s) \/ failSearch(s)
             \/ expireHistory(s)
    BY <2>1 DEF cascadeNext, pickCandidate, createOffer, enqueueExpiry, recordLateResponse,
                recordCancellation, failSearch, expireHistory
  <2> QED BY <1>1, <2>1, OrderWriteIsMove, CommitIsAssign, ExpireIsMove DEF Step
<1>2. ASSUME NEW o \in Orders, createDraft(o)
      PROVE  Lifecycle!Next
  <2>1. Lifecycle!Create(o)
    BY <1>2 DEF createDraft, WriteStatus, Lifecycle!Create
  <2> QED BY <2>1 DEF Lifecycle!Next
<1>3. ASSUME NEW s \in Requests, NEW o \in Orders, Request(s, o)
      PROVE  UNCHANGED <<status, masterId>>
  BY <1>3 DEF Request, CustomerRead, EditRead, MasterRead, acceptOffer, declineOffer
<1>4. CASE \/ \E w \in Workers, o \in Orders, m \in Masters : handleOfferExpiry(w, o, m)
           \/ \E o \in Orders, m \in Masters : OfferTimesOut(o, m)
           \/ \E m \in Masters : AvailabilityChanges(m)
           \/ \E s \in Slots : HandlerFails(s)
           \/ \E o \in Orders, m \in Masters : JobAttemptFails(o, m)
           \/ \E w \in Workers : JobStalls(w)
  BY <1>4 DEF handleOfferExpiry, OfferTimesOut, AvailabilityChanges, HandlerFails,
              JobAttemptFails, JobStalls
<1>5. CASE UNCHANGED vars
  BY <1>5 DEF vars
<1> QED BY <1>1, <1>2, <1>3, <1>4, <1>5 DEF Next

\* The refinement: no interleaving of handlers, failure or retry takes an order
\* along an edge that is not in TRANSITIONS, reassigns it, or moves two orders
\* at once, given a client that does not overlap edits with other requests.
THEOREM LifecycleRefined == ASSUME SerialEdits PROVE Spec => ImplementsLifecycle
<1>1. TypeOK /\ ExecOK /\ Serial /\ [Next]_vars => Serial'
  BY SerialStep
<1>2. TypeOK /\ ExecOK /\ Serial /\ [Next]_vars => [Lifecycle!Next]_<<status, masterId>>
  BY LifecycleStep
<1>3. Init => Lifecycle!Init
  BY DEF Init, Lifecycle!Init
<1> QED BY <1>1, <1>2, <1>3, SerialInit, Types, PTL
        DEF Spec, ImplementsLifecycle, Lifecycle!Spec

-----------------------------------------------------------------------------
(* What the rows of an order say: its history, its master's count of jobs. *)

\* The handlers in flight that RowInv speaks of, unless they began in this step.
Watched == {"expireHistory", "confirmCompletion"}
OldHandlers ==
  \A x \in Slots : exec'[x].at \in Watched =>
    /\ exec'[x].at = exec[x].at /\ exec'[x].o = exec[x].o
    /\ exec'[x].m = exec[x].m /\ exec'[x].data = exec[x].data

\* HistoryChain of one step.
Chained ==
  \A o \in Orders : hist'[o] # hist[o] => hist'[o].from = hist[o].to /\ hist'[o].to = status'[o]

\* Nothing leaves a status that ends an order.
LEMMA FinalEdges ==
  ASSUME NEW from, NEW to, canTransition(from, to)
  PROVE  /\ from \notin {"EXPIRED", "CLOSED"}
         /\ to = "CLOSED" => from = "COMPLETED"
         /\ to = "ASSIGNED" => from = "SEARCHING"
BY DEF canTransition, TRANSITIONS

\* The order of a handler RowInv speaks of.
LEMMA WatchedOrder ==
  ASSUME ExecOK, NEW x \in Slots, exec[x].at \in Watched
  PROVE  exec[x].o \in Orders /\ (exec[x].at = "confirmCompletion" => exec[x].m \in Masters)
BY DEF ExecOK, HandlerOK, Watched

\* A step that leaves the rows alone.
LEMMA RowKept ==
  ASSUME TypeOK, ExecOK, RowInv, OldHandlers,
         UNCHANGED <<status, masterId, hist, jobsDone>>
  PROVE  RowInv' /\ Chained
<1>1. HistoryOK'
  BY DEF RowInv, HistoryOK, OldHandlers, Watched
<1>2. CreditOK'
  BY DEF RowInv, CreditOK, OldHandlers, Watched, Confirmed
<1> QED BY <1>1, <1>2 DEF RowInv, Chained

\* A write along an edge with its history row: an order with a way on has had
\* its last row written, so no expiry is about to add one.
LEMMA HistoryWrite ==
  ASSUME TypeOK, ExecOK, RowInv, OldHandlers, NEW o \in Orders, NEW to,
         canTransition(status[o], to),
         status' = [status EXCEPT ![o] = to],
         hist' = [hist EXCEPT ![o] = [from |-> status[o], to |-> to]]
  PROVE  HistoryOK' /\ Chained
<1>1. \A p \in Orders : /\ status'[p] = IF p = o THEN to ELSE status[p]
                        /\ hist'[p] = IF p = o THEN [from |-> status[o], to |-> to] ELSE hist[p]
  BY DEF TypeOK
<1>2. hist[o].to = status[o]
  BY FinalEdges DEF RowInv, HistoryOK
<1>3. \A x \in Slots : exec[x].at = "expireHistory" => exec[x].o \in Orders \ {o}
  BY <1>2, WatchedOrder DEF RowInv, HistoryOK, Watched
<1>4. HistoryOK'
  BY <1>1, <1>3 DEF RowInv, HistoryOK, OldHandlers, Watched
<1> QED BY <1>1, <1>2, <1>4 DEF Chained

\* The order's master stays, or is the first one.
MasterKept(o) ==
  \/ masterId' = masterId
  \/ masterId[o] = None /\ \E m \in Masters : masterId' = [masterId EXCEPT ![o] = m]

\* A write along an edge that closes no order credits nobody; a master who is
\* about to be credited keeps his order.
LEMMA CreditWrite ==
  ASSUME TypeOK, ExecOK, RowInv, OldHandlers, NEW o \in Orders, NEW to,
         canTransition(status[o], to), to # "CLOSED",
         status' = [status EXCEPT ![o] = to], UNCHANGED jobsDone, MasterKept(o)
  PROVE  CreditOK'
<1>1. \A p \in Orders : status'[p] = IF p = o THEN to ELSE status[p]
  BY DEF TypeOK
<1>2. /\ \A p \in Orders : p # o => masterId'[p] = masterId[p]
      /\ masterId[o] # None => masterId'[o] = masterId[o]
  BY DEF TypeOK, MasterKept
<1>3. \A m \in Masters : Confirmed(m)' = Confirmed(m)
  BY <1>1, <1>2, FinalEdges DEF Confirmed
<1>4. ASSUME NEW x \in Slots, exec'[x].at = "confirmCompletion" PROVE exec'[x].m = masterId'[exec'[x].o]
  <2>1. /\ exec[x].at = "confirmCompletion" /\ exec'[x].o = exec[x].o /\ exec'[x].m = exec[x].m
        /\ exec[x].m = masterId[exec[x].o]
    BY <1>4 DEF OldHandlers, Watched, RowInv, CreditOK
  <2>2. exec[x].o \in Orders /\ exec[x].m # None
    BY <2>1, WatchedOrder, StoreAssumption DEF Watched
  <2> QED BY <1>2, <2>1, <2>2
<1> QED BY <1>3, <1>4 DEF RowInv, CreditOK

\* A handler that moves on to a place RowInv does not watch, or ends.
LEMMA OldAfter ==
  ASSUME TypeOK, NEW s \in Slots
  PROVE  /\ \A e : exec' = [exec EXCEPT ![s] = e] /\ e.at \notin Watched => OldHandlers
         /\ Return(s) => OldHandlers
         /\ \A step \in Steps : Goto(s, step) /\ step \notin Watched => OldHandlers
         /\ exec' = exec => OldHandlers
<1>1. ASSUME NEW e, exec' = [exec EXCEPT ![s] = e], e.at \notin Watched PROVE OldHandlers
  BY <1>1 DEF TypeOK, OldHandlers
<1>2. Idle.at \notin Watched
  BY DEF Idle, Handler, Watched
<1>3. ASSUME NEW step \in Steps, Goto(s, step), step \notin Watched PROVE OldHandlers
  <2>1. \A x \in Slots : exec'[x].at = IF x = s THEN step ELSE exec[x].at
    BY <1>3 DEF Goto, TypeOK, Execs
  <2>2. \A x \in Slots : x # s => exec'[x] = exec[x]
    BY <1>3 DEF Goto, TypeOK
  <2> QED BY <1>3, <2>1, <2>2 DEF OldHandlers
<1> QED BY <1>1, <1>2, <1>3 DEF Return, OldHandlers

\* The customer's creation and edits.
LEMMA RowCreate ==
  ASSUME TypeOK, ExecOK, RowInv, NEW o \in Orders, createDraft(o)
  PROVE  RowInv' /\ Chained
<1>1. /\ status[o] = None /\ None \notin OrderStatus
      /\ \A p \in Orders : /\ status'[p] = IF p = o THEN "DRAFT" ELSE status[p]
                           /\ hist'[p] = IF p = o THEN [from |-> None, to |-> "DRAFT"] ELSE hist[p]
      /\ UNCHANGED <<masterId, tier, quote, jobsDone, exec>>
  BY StoreAssumption DEF createDraft, WriteStatus, TypeOK, masterRows
<1>2. hist[o].to = None
  BY <1>1 DEF RowInv, HistoryOK, OrderStatus
<1>3. \A x \in Slots : exec[x].at = "expireHistory" => exec[x].o \in Orders \ {o}
  BY <1>1, <1>2, WatchedOrder DEF RowInv, HistoryOK, Watched
<1>4. HistoryOK'
  BY <1>1, <1>3 DEF RowInv, HistoryOK
<1>5. \A m \in Masters : Confirmed(m)' = Confirmed(m)
  BY <1>1 DEF Confirmed, OrderStatus
<1>6. CreditOK'
  BY <1>1, <1>5 DEF RowInv, CreditOK
<1> QED BY <1>1, <1>2, <1>4, <1>6 DEF RowInv, Chained

\* A write along an edge that is not a confirmation, with its history row.
LEMMA RowWrite ==
  ASSUME TypeOK, ExecOK, RowInv, OldHandlers, NEW o \in Orders, NEW to,
         canTransition(status[o], to), to # "CLOSED",
         status' = [status EXCEPT ![o] = to],
         hist' = [hist EXCEPT ![o] = [from |-> status[o], to |-> to]],
         UNCHANGED jobsDone, MasterKept(o)
  PROVE  RowInv' /\ Chained
BY HistoryWrite, CreditWrite DEF RowInv

\* An edit invalidates a quote from the status it read, which is still there.
LEMMA RowEdit ==
  ASSUME TypeOK, ExecOK, Serial, RowInv, NEW s \in Slots, updateDraft(s)
  PROVE  RowInv' /\ Chained
<1> DEFINE o == exec[s].o
<1>1. /\ exec[s].at = "updateDraft" /\ "updateDraft" \in UnguardedOps
      /\ UNCHANGED <<masterId, jobsDone>> /\ Return(s)
  BY DEF updateDraft, UnguardedOps, masterRows
<1>2. o \in Orders /\ status[o] = exec[s].seen /\ exec[s].seen \in {"DRAFT", "PRICED"}
  BY <1>1, EditReads DEF Serial, SerialInv, EditsOK
<1>3. OldHandlers
  BY <1>1, OldAfter
<1>4. CASE UNCHANGED <<status, hist>>
  BY <1>1, <1>3, <1>4, RowKept
<1>5. CASE /\ exec[s].seen = "PRICED" /\ status' = [status EXCEPT ![o] = "DRAFT"]
           /\ hist' = [hist EXCEPT ![o] = [from |-> status[o], to |-> "DRAFT"]]
  <2>1. canTransition(status[o], "DRAFT")
    BY <1>2, <1>5 DEF canTransition, TRANSITIONS
  <2>2. MasterKept(o)
    BY <1>1 DEF MasterKept
  <2> QED BY <1>1, <1>2, <1>3, <1>5, <2>1, <2>2, RowWrite
<1> QED BY <1>2, <1>4, <1>5 DEF updateDraft, invalidatesQuote, WriteStatus

\* A diagnosis writes PRICED over the status it read.
LEMMA RowDiagnose ==
  ASSUME TypeOK, ExecOK, Serial, RowInv, NEW s \in Slots, diagnose(s)
  PROVE  RowInv' /\ Chained
<1> DEFINE o == exec[s].o
<1>1. /\ exec[s].at = "diagnose" /\ "diagnose" \in UnguardedOps /\ UNCHANGED <<masterId, jobsDone>>
      /\ Return(s)
  BY DEF diagnose, UnguardedOps, masterRows
<1>2. o \in Orders /\ status[o] = exec[s].seen
  BY <1>1, EditReads DEF Serial, SerialInv, EditsOK
<1>3. OldHandlers
  BY <1>1, OldAfter
<1>4. canTransition(status[o], "PRICED")
  BY <1>1, <1>2, Targets DEF ExecOK, HandlerOK, CustomerOps
<1>5. CASE UNCHANGED <<status, hist>>
  BY <1>1, <1>3, <1>5, RowKept
<1>6. CASE /\ status' = [status EXCEPT ![o] = "PRICED"]
           /\ hist' = [hist EXCEPT ![o] = [from |-> status[o], to |-> "PRICED"]]
  <2>1. MasterKept(o)
    BY <1>1 DEF MasterKept
  <2> QED BY <1>1, <1>2, <1>3, <1>4, <1>6, <2>1, RowWrite
<1> QED BY <1>2, <1>5, <1>6 DEF diagnose, WriteStatus

\* A submission, and the guarded writes of a cancellation and of the master.
LEMMA RowSubmit ==
  ASSUME TypeOK, ExecOK, Serial, RowInv, NEW s \in Slots, submit(s)
  PROVE  RowInv' /\ Chained
<1> DEFINE o == exec[s].o
<1>1. /\ exec[s].at = "submit" /\ "submit" \in UnguardedOps
      /\ UNCHANGED <<masterId, tier, quote, jobsDone>>
      /\ exec' = [exec EXCEPT ![s] = Cascade(o, 1, None)]
  BY DEF submit, UnguardedOps, masterRows
<1>2. o \in Orders /\ status[o] = exec[s].seen
  BY <1>1, EditReads DEF Serial, SerialInv, EditsOK
<1>3. Cascade(o, 1, None).at \notin Watched
  BY DEF Cascade, Handler, Watched
<1>4. OldHandlers
  BY <1>1, <1>3, OldAfter
<1>5. canTransition(status[o], "SEARCHING")
  BY <1>1, <1>2, Targets DEF ExecOK, HandlerOK, CustomerOps
<1>6. /\ status' = [status EXCEPT ![o] = "SEARCHING"]
      /\ hist' = [hist EXCEPT ![o] = [from |-> status[o], to |-> "SEARCHING"]]
  BY <1>2 DEF submit, WriteStatus
<1>7. MasterKept(o) /\ UNCHANGED <<tier, quote, jobsDone>>
  BY <1>1 DEF MasterKept
<1> HIDE DEF o
<1> QED BY <1>2, <1>4, <1>5, <1>6, <1>7, RowWrite

LEMMA RowGuarded ==
  ASSUME TypeOK, ExecOK, RowInv, NEW s \in Slots, NEW op \in {"cancel"} \cup MasterOps,
         exec[s].at = op, GuardedWrite(s, Target[op]), OldHandlers,
         UNCHANGED <<masterId, tier, quote, jobsDone>>
  PROVE  RowInv' /\ Chained
<1> DEFINE o == exec[s].o  to == Target[op]
<1>1. o \in Orders /\ canTransition(exec[s].seen, to) /\ to \notin {"PRICED", "CLOSED"}
  BY Targets DEF ExecOK, HandlerOK, CustomerOps, MasterOps
<1>2. CASE status[o] = exec[s].seen
  <2>1. /\ status' = [status EXCEPT ![o] = to]
        /\ hist' = [hist EXCEPT ![o] = [from |-> status[o], to |-> to]]
    BY <1>2 DEF GuardedWrite, WriteStatus
  <2>2. MasterKept(o) /\ UNCHANGED <<tier, quote, jobsDone>> /\ canTransition(status[o], to)
    BY <1>1, <1>2 DEF MasterKept
  <2> HIDE DEF o, to
  <2> QED BY <1>1, <2>1, <2>2, RowWrite
<1>3. CASE status[o] # exec[s].seen
  BY <1>3, RowKept DEF GuardedWrite
<1> QED BY <1>2, <1>3

\* A confirmation closes the order and credits its master, in one transaction.
LEMMA RowConfirm ==
  ASSUME TypeOK, ExecOK, RowInv, NEW s \in Slots, confirmCompletion(s)
  PROVE  RowInv' /\ Chained
<1>0. exec[s].o \in Orders /\ exec[s].m \in Masters
  BY DEF confirmCompletion, ExecOK, HandlerOK
<1> PICK o \in Orders, m \in Masters : o = exec[s].o /\ m = exec[s].m
  BY <1>0
<1>1. /\ exec[s].at = "confirmCompletion" /\ UNCHANGED <<masterId, tier, quote>> /\ Return(s)
      /\ GuardedWrite(s, "CLOSED")
      /\ jobsDone' = IF status[o] = exec[s].seen THEN [jobsDone EXCEPT ![m] = @ + 1] ELSE jobsDone
  BY Targets DEF confirmCompletion
<1>2. o \in Orders /\ m \in Masters /\ m = masterId[o] /\ canTransition(exec[s].seen, "CLOSED")
  BY <1>1, Targets DEF ExecOK, HandlerOK, CustomerOps, RowInv, CreditOK
<1>3. OldHandlers
  BY <1>1, OldAfter
<1>4. CASE status[o] # exec[s].seen
  BY <1>1, <1>3, <1>4, RowKept DEF GuardedWrite
<1>5. CASE status[o] = exec[s].seen
  <2>1. /\ status' = [status EXCEPT ![o] = "CLOSED"]
        /\ hist' = [hist EXCEPT ![o] = [from |-> status[o], to |-> "CLOSED"]]
        /\ jobsDone' = [jobsDone EXCEPT ![m] = @ + 1]
    BY <1>1, <1>5 DEF GuardedWrite, WriteStatus
  <2>2. canTransition(status[o], "CLOSED") /\ status[o] = "COMPLETED"
    BY <1>2, <1>5, FinalEdges
  <2>3. HistoryOK' /\ Chained
    BY <1>2, <1>3, <2>1, <2>2, HistoryWrite
  <2>5. \A p \in Orders : status'[p] = IF p = o THEN "CLOSED" ELSE status[p]
    BY <2>1 DEF TypeOK
  <2>6. Confirmed(m)' = Confirmed(m) \cup {o} /\ o \notin Confirmed(m)
    <3>1. masterId' = masterId /\ o \in Orders /\ masterId[o] = m /\ status[o] # "CLOSED"
      BY <1>1, <1>2, <2>2
    <3> QED BY <2>5, <3>1 DEF Confirmed
  <2>7. IsFiniteSet(Confirmed(m)') /\ Cardinality(Confirmed(m)') = Cardinality(Confirmed(m)) + 1
    <3>1. IsFiniteSet(Confirmed(m))
      BY DEF RowInv, CreditOK
    <3>2. \A S : \A x : IsFiniteSet(S) /\ x \notin S =>
            IsFiniteSet(S \cup {x}) /\ Cardinality(S \cup {x}) = Cardinality(S) + 1
      BY FS_AddElement
    <3> QED BY <2>6, <3>1, <3>2
  <2>8. ASSUME NEW x \in Masters, x # m PROVE Confirmed(x)' = Confirmed(x)
    BY <1>1, <1>2, <2>5, <2>8 DEF Confirmed
  <2>9. \A x \in Masters : jobsDone'[x] = IF x = m THEN jobsDone[x] + 1 ELSE jobsDone[x]
    BY <1>2, <2>1 DEF TypeOK
  <2>10. \A x \in Masters : IsFiniteSet(Confirmed(x)') /\ jobsDone'[x] = Cardinality(Confirmed(x)')
    BY <2>7, <2>8, <2>9 DEF RowInv, CreditOK
  <2>11. \A x \in Slots : exec'[x].at = "confirmCompletion" => exec'[x].m = masterId'[exec'[x].o]
    BY <1>1, <1>3 DEF RowInv, CreditOK, OldHandlers, Watched
  <2>12. CreditOK'
    BY <2>10, <2>11 DEF CreditOK
  <2> QED BY <2>3, <2>12 DEF RowInv
<1> QED BY <1>4, <1>5

\* An acceptance gives the order its first master.
LEMMA RowCommit ==
  ASSUME TypeOK, ExecOK, Serial, RowInv, NEW s \in Slots, commitAccept(s)
  PROVE  RowInv' /\ Chained
<1> DEFINE o == exec[s].o  m == exec[s].m
<1>1. /\ exec[s].at = "accept" /\ Return(s) /\ UNCHANGED <<tier, quote, jobsDone>>
      /\ status' = [status EXCEPT ![o] = "ASSIGNED"]
      /\ hist' = [hist EXCEPT ![o] = [from |-> status[o], to |-> "ASSIGNED"]]
      /\ masterId' = [masterId EXCEPT ![o] = m]
  BY DEF commitAccept, WriteStatus, masterRows
<1>2. o \in Orders /\ m \in Masters
  BY <1>1 DEF ExecOK, HandlerOK
<1>3. status[o] = "SEARCHING" /\ masterId[o] = None
  BY <1>1, <1>2 DEF Serial, SerialInv, LockOK, AssignmentOK
<1>4. canTransition(status[o], "ASSIGNED")
  BY <1>3 DEF canTransition, TRANSITIONS
<1>5. MasterKept(o) /\ OldHandlers
  BY <1>1, <1>2, <1>3, OldAfter DEF MasterKept
<1> HIDE DEF o, m
<1> QED BY <1>1, <1>2, <1>4, <1>5, RowWrite

\* The expiry writes the status first and the history row in a later statement:
\* between the two, nothing else is written to the order.
LEMMA RowExpire ==
  ASSUME TypeOK, ExecOK, RowInv, NEW s \in Slots, expireOrder(s)
  PROVE  RowInv' /\ Chained
<1> DEFINE o == exec[s].o
<1>1. exec[s].at = "expire" /\ UNCHANGED <<masterId, tier, quote, hist, jobsDone>>
  BY DEF expireOrder, masterRows
<1>2. o \in Orders /\ exec[s].seen = "SEARCHING"
  BY <1>1 DEF ExecOK, HandlerOK
<1>3. CASE status[o] # "SEARCHING"
  <2>1. UNCHANGED status /\ Return(s)
    BY <1>2, <1>3 DEF expireOrder
  <2> QED BY <1>1, <2>1, OldAfter, RowKept
<1>4. CASE status[o] = "SEARCHING"
  <2>1. status' = [status EXCEPT ![o] = "EXPIRED"] /\ Goto(s, "expireHistory")
    BY <1>2, <1>4 DEF expireOrder
  <2>2. \A p \in Orders : status'[p] = IF p = o THEN "EXPIRED" ELSE status[p]
    BY <2>1 DEF TypeOK
  <2>3. /\ \A x \in Slots : x # s => exec'[x] = exec[x]
        /\ exec'[s].at = "expireHistory" /\ exec'[s].o = o
    BY <2>1 DEF Goto, TypeOK, Execs
  <2>4. hist[o].to = "SEARCHING" /\ \A x \in Slots : exec[x].at = "expireHistory" => exec[x].o \in Orders \ {o}
    BY <1>2, <1>4, WatchedOrder DEF RowInv, HistoryOK, Watched
  <2> HIDE DEF o
  <2>6. \A p \in Orders : hist'[p].to # status'[p] => status'[p] = "EXPIRED" /\ hist'[p].to = "SEARCHING"
    BY <1>1, <2>2, <2>4 DEF RowInv, HistoryOK
  <2>7. \A x \in Slots : exec'[x].at = "expireHistory" => hist'[exec'[x].o].to # status'[exec'[x].o]
    BY <1>1, <1>2, <2>2, <2>3, <2>4 DEF RowInv, HistoryOK
  <2>8. ASSUME NEW x \in Slots, NEW y \in Slots, exec'[x].at = "expireHistory", exec'[y].at = "expireHistory",
               exec'[x].o = exec'[y].o
        PROVE  x = y
    BY <2>3, <2>4, <2>8 DEF RowInv, HistoryOK
  <2>9. \A m \in Masters : Confirmed(m)' = Confirmed(m)
    BY <1>1, <1>2, <1>4, <2>2 DEF Confirmed
  <2>10. CreditOK'
    BY <1>1, <2>3, <2>9 DEF RowInv, CreditOK
  <2> QED BY <1>1, <2>6, <2>7, <2>8, <2>10 DEF RowInv, HistoryOK, Chained
<1> QED BY <1>3, <1>4

LEMMA RowExpired ==
  ASSUME TypeOK, ExecOK, RowInv, NEW s \in Slots, expireHistory(s)
  PROVE  RowInv' /\ Chained
<1> DEFINE o == exec[s].o
<1>1. /\ exec[s].at = "expireHistory" /\ exec[s].seen = "SEARCHING" /\ o \in Orders
      /\ UNCHANGED <<status, masterId, tier, quote, jobsDone>> /\ Return(s)
  BY DEF expireHistory, masterRows, ExecOK, HandlerOK
<1>2. hist[o].to = "SEARCHING" /\ status[o] = "EXPIRED"
  BY <1>1 DEF RowInv, HistoryOK
<1>3. \A p \in Orders : hist'[p] = IF p = o THEN [from |-> "SEARCHING", to |-> "EXPIRED"] ELSE hist[p]
  BY <1>1 DEF expireHistory, TypeOK
<1>4. /\ \A x \in Slots : x # s => exec'[x] = exec[x]
      /\ exec'[s].at = "idle"
  BY <1>1 DEF Return, TypeOK, Idle, Handler
<1>5. \A x \in Slots : x # s /\ exec[x].at = "expireHistory" => exec[x].o \in Orders \ {o}
  BY <1>1, WatchedOrder DEF RowInv, HistoryOK, Watched
<1> HIDE DEF o
<1>6. CreditOK'
  BY <1>1, <1>4 DEF RowInv, CreditOK, Confirmed
<1>7. HistoryOK'
  BY <1>1, <1>2, <1>3, <1>4, <1>5 DEF RowInv, HistoryOK
<1> QED BY <1>1, <1>2, <1>3, <1>6, <1>7 DEF RowInv, Chained

\* The customer's request reads the order: a confirmation carries the master it
\* will credit.
LEMMA RowRead ==
  ASSUME TypeOK, RowInv, NEW s \in Requests, NEW o \in Orders, NEW op, CustomerRead(s, o, op)
  PROVE  RowInv' /\ Chained
<1>1. /\ \A x \in Slots : x # s => exec'[x] = exec[x]
      /\ exec'[s].at = op /\ exec'[s].o = o
      /\ exec'[s].m = masterId[o] /\ exec'[s].data = tier[o]
      /\ op # "expireHistory"
  BY DEF CustomerRead, CustomerOps, Start, Reading, Handler, TypeOK, Slots
<1>2. UNCHANGED <<status, masterId, tier, quote, hist, jobsDone>>
  BY DEF CustomerRead, orderRow, masterRows
<1>4. HistoryOK'
  BY <1>1, <1>2 DEF RowInv, HistoryOK
<1>5. \A m \in Masters : Confirmed(m)' = Confirmed(m)
  BY <1>2 DEF Confirmed
<1>6. CreditOK'
  BY <1>1, <1>2, <1>5 DEF RowInv, CreditOK
<1> QED BY <1>2, <1>4, <1>6 DEF RowInv, Chained

\* The other requests, the cascade and the environment leave the rows alone.
LEMMA RowRequest ==
  ASSUME TypeOK, ExecOK, RowInv, NEW s \in Requests, NEW o \in Orders, Request(s, o)
  PROVE  RowInv' /\ Chained
<1>1. s \in Slots
  BY DEF Slots
<1>2. ASSUME NEW e, Start(s, e), e.at \notin Watched,
             UNCHANGED <<status, masterId, tier, quote, hist, jobsDone>>
      PROVE  RowInv' /\ Chained
  BY <1>1, <1>2, OldAfter, RowKept DEF Start
<1>3. CASE \E op \in CustomerOps : CustomerRead(s, o, op)
  BY <1>3, RowRead
<1>4. ASSUME NEW edit, EditRead(s, o, edit)
      PROVE  RowInv' /\ Chained
  <2>1. Reading("updateDraft", o, None, edit).at \notin Watched
    BY DEF Reading, Handler, Watched
  <2> QED BY <1>2, <1>4, <2>1 DEF EditRead, orderRow, masterRows
<1>5. ASSUME NEW op \in MasterOps, MasterRead(s, o, op)
      PROVE  RowInv' /\ Chained
  <2>1. Reading(op, o, masterId[o], None).at \notin Watched
    BY DEF Reading, Handler, Watched, MasterOps
  <2> QED BY <1>2, <1>5, <2>1 DEF MasterRead, orderRow, masterRows
<1>6. ASSUME NEW m \in Masters, acceptOffer(s, o, m)
      PROVE  RowInv' /\ Chained
  <2>1. Handler("accept", o, m, None, None, 1, None).at \notin Watched
    BY DEF Handler, Watched
  <2> QED BY <1>2, <1>6, <2>1 DEF acceptOffer, orderRow, masterRows
<1>7. ASSUME NEW m \in Masters, declineOffer(s, o, m)
      PROVE  RowInv' /\ Chained
  <2>1. Cascade(o, 1, None).at \notin Watched
    BY DEF Cascade, Handler, Watched
  <2> QED BY <1>2, <1>7, <2>1 DEF declineOffer, orderRow, masterRows
<1> QED BY <1>3, <1>4, <1>5, <1>6, <1>7 DEF Request

LEMMA RowCascade ==
  ASSUME TypeOK, ExecOK, RowInv, NEW s \in Slots,
         \/ cascadeNext(s) \/ pickCandidate(s) \/ createOffer(s) \/ enqueueExpiry(s)
         \/ recordLateResponse(s) \/ recordCancellation(s) \/ failSearch(s)
  PROVE  RowInv' /\ Chained
<1>1. UNCHANGED <<status, masterId, tier, quote, hist, jobsDone>>
  BY DEF cascadeNext, pickCandidate, createOffer, enqueueExpiry, recordLateResponse,
         recordCancellation, failSearch, orderRow, masterRows
<1>2. \A o, attempt, job : Cascade(o, attempt, job).at \notin Watched
  BY DEF Cascade, Handler, Watched
<1>3. \A o, m, attempt, job : Handler("offer", o, m, None, None, attempt, job).at \notin Watched
  BY DEF Handler, Watched
<1>4. \A o, seen, job : Handler("expire", o, None, seen, None, 1, job).at \notin Watched
  BY DEF Handler, Watched
<1>5. /\ {"query", "failSearch", "enqueue"} \subseteq Steps
      /\ {"query", "failSearch", "enqueue"} \cap Watched = {}
  BY DEF Steps, CascadeSteps, FailSearchSteps, Watched
<1>6. CASE cascadeNext(s)
  <2>1. Return(s) \/ Goto(s, "query") \/ Goto(s, "failSearch")
    BY <1>6 DEF cascadeNext
  <2> QED BY <1>1, <1>5, <2>1, OldAfter, RowKept
<1>7. CASE pickCandidate(s)
  <2>1. \/ \E o, attempt, job : exec' = [exec EXCEPT ![s] = Cascade(o, attempt, job)]
        \/ Goto(s, "failSearch")
        \/ \E o, m, attempt, job :
             exec' = [exec EXCEPT ![s] = Handler("offer", o, m, None, None, attempt, job)]
    BY <1>7 DEF pickCandidate
  <2> QED BY <1>1, <1>2, <1>3, <1>5, <2>1, OldAfter, RowKept
<1>8. CASE createOffer(s)
  <2>1. \/ \E o, attempt, job : exec' = [exec EXCEPT ![s] = Cascade(o, attempt, job)]
        \/ Goto(s, "enqueue")
    BY <1>8 DEF createOffer
  <2> QED BY <1>1, <1>2, <1>5, <2>1, OldAfter, RowKept
<1>9. CASE enqueueExpiry(s) \/ recordCancellation(s)
  BY <1>1, <1>9, OldAfter, RowKept DEF enqueueExpiry, recordCancellation
<1>10. CASE recordLateResponse(s)
  <2>1. exec' = [exec EXCEPT ![s] = Cascade(exec[s].o, 1, exec[s].job)]
    BY <1>10 DEF recordLateResponse
  <2> QED BY <1>1, <1>2, <2>1, OldAfter, RowKept
<1>11. CASE failSearch(s)
  <2>1. \/ \E o, seen, job : exec' = [exec EXCEPT ![s] = Handler("expire", o, None, seen, None, 1, job)]
        \/ Return(s)
    BY <1>11 DEF failSearch
  <2> QED BY <1>1, <1>4, <2>1, OldAfter, RowKept
<1> QED BY <1>6, <1>7, <1>8, <1>9, <1>10, <1>11

LEMMA RowEnvironment ==
  ASSUME TypeOK, ExecOK, RowInv,
         \/ \E w \in Workers, o \in Orders, m \in Masters : handleOfferExpiry(w, o, m)
         \/ \E o \in Orders, m \in Masters : OfferTimesOut(o, m)
         \/ \E m \in Masters : AvailabilityChanges(m)
         \/ \E s \in Slots : HandlerFails(s)
         \/ \E o \in Orders, m \in Masters : JobAttemptFails(o, m)
         \/ \E w \in Workers : JobStalls(w)
         \/ UNCHANGED vars
  PROVE  RowInv' /\ Chained
<1>1. UNCHANGED <<status, masterId, tier, quote, hist, jobsDone>>
  BY DEF handleOfferExpiry, OfferTimesOut, AvailabilityChanges, HandlerFails, JobAttemptFails,
         JobStalls, vars, orderRow, masterRows
<1>2. ASSUME NEW w \in Workers, NEW o \in Orders, NEW m \in Masters, handleOfferExpiry(w, o, m)
      PROVE  OldHandlers
  <2>1. Handler("late", o, m, None, None, 1, m).at \notin Watched /\ w \in Slots
    BY DEF Handler, Watched, Slots
  <2>2. exec' = exec \/ exec' = [exec EXCEPT ![w] = Handler("late", o, m, None, None, 1, m)]
    BY <1>2 DEF handleOfferExpiry, Start
  <2> QED BY <2>1, <2>2, OldAfter
<1>3. ASSUME NEW s \in Slots, HandlerFails(s)
      PROVE  OldHandlers
  BY <1>3, OldAfter DEF HandlerFails
<1>4. ASSUME NEW w \in Workers, JobStalls(w)
      PROVE  OldHandlers
  <2>1. w \in Slots /\ exec' = [exec EXCEPT ![w].job = None]
    BY <1>4 DEF JobStalls, Slots
  <2>2. \A x \in Slots : exec'[x].at = exec[x].at /\ exec'[x].o = exec[x].o
                         /\ exec'[x].m = exec[x].m /\ exec'[x].data = exec[x].data
    BY <2>1, StallIs DEF TypeOK, Handler
  <2> QED BY <2>2 DEF OldHandlers
<1>5. CASE \/ \E o \in Orders, m \in Masters : OfferTimesOut(o, m)
           \/ \E m \in Masters : AvailabilityChanges(m)
           \/ \E o \in Orders, m \in Masters : JobAttemptFails(o, m)
           \/ UNCHANGED vars
  <2>1. exec' = exec
    BY <1>5 DEF OfferTimesOut, AvailabilityChanges, JobAttemptFails, vars
  <2> QED BY <1>1, <2>1, RowKept DEF OldHandlers
<1>6. CASE \/ \E w \in Workers, o \in Orders, m \in Masters : handleOfferExpiry(w, o, m)
           \/ \E s \in Slots : HandlerFails(s)
           \/ \E w \in Workers : JobStalls(w)
  BY <1>1, <1>2, <1>3, <1>4, <1>6, RowKept
<1> QED BY <1>5, <1>6

LEMMA RowInvStep ==
  ASSUME TypeOK, ExecOK, Serial, RowInv, [Next]_vars
  PROVE  RowInv' /\ Chained
<1>1. ASSUME NEW s \in Slots, Step(s)
      PROVE  RowInv' /\ Chained
  <2>1. CASE cancel(s)
    <3>1. Return(s) /\ UNCHANGED <<masterId, tier, quote, jobsDone>>
      BY <2>1 DEF cancel, masterRows
    <3> QED BY <2>1, <3>1, OldAfter, RowGuarded DEF cancel
  <2>2. ASSUME NEW op \in MasterOps, jobTransition(s, op)
        PROVE  RowInv' /\ Chained
    <3>1. Return(s) /\ UNCHANGED <<masterId, tier, quote, jobsDone>>
      BY <2>2 DEF jobTransition, masterRows
    <3> QED BY <2>2, <3>1, OldAfter, RowGuarded DEF jobTransition
  <2>3. CASE cancelByMaster(s)
    <3>1. /\ Return(s) \/ Goto(s, "penalise")
          /\ UNCHANGED <<masterId, tier, quote, jobsDone>>
          /\ exec[s].at = "cancelByMaster" /\ GuardedWrite(s, Target["cancelByMaster"])
      BY <2>3 DEF cancelByMaster, masterRows
    <3>2. "penalise" \in Steps /\ "penalise" \notin Watched /\ "cancelByMaster" \in MasterOps
      BY DEF Steps, Watched, MasterOps
    <3>3. OldHandlers
      BY <3>1, <3>2, OldAfter
    <3> QED BY <3>1, <3>2, <3>3, RowGuarded
  <2>4. CASE startEnRoute(s) \/ startService(s) \/ completeService(s)
    BY <2>2, <2>4 DEF startEnRoute, startService, completeService, MasterOps
  <2> QED BY <1>1, <2>1, <2>3, <2>4, RowEdit, RowDiagnose, RowSubmit, RowConfirm, RowCommit,
             RowExpire, RowExpired, RowCascade DEF Step
<1> QED BY <1>1, RowCreate, RowRequest, RowEnvironment DEF Next

LEMMA RowInit == Init => RowInv
<1> SUFFICES ASSUME Init PROVE RowInv
  OBVIOUS
<1>1. \A s \in Slots : exec[s].at = "idle"
  BY DEF Init, Idle, Handler
<1>2. \A o \in Orders : status[o] = None /\ hist[o].to = None
  BY DEF Init
<1>4. HistoryOK
  BY <1>1, <1>2 DEF HistoryOK
<1>5. \A m \in Masters : Confirmed(m) = {} /\ jobsDone[m] = 0
  BY <1>2, StoreAssumption DEF Confirmed, OrderStatus, Init
<1>6. CreditOK
  BY <1>1, <1>5, FS_EmptySet DEF CreditOK
<1> QED BY <1>4, <1>6 DEF RowInv

-----------------------------------------------------------------------------
\* Two confirmations of one order, or a confirmation whose handler dies, never
\* credit the master twice or another master: jobsDone is the number of orders
\* his customers closed.
THEOREM JobsDoneCountedHolds == ASSUME SerialEdits PROVE Spec => []JobsDoneCounted
<1>1. TypeOK /\ ExecOK /\ Serial /\ [Next]_vars => Serial'
  BY SerialStep
<1>2. TypeOK /\ ExecOK /\ Serial /\ RowInv /\ [Next]_vars => RowInv'
  BY RowInvStep
<1>3. RowInv => JobsDoneCounted
  BY DEF RowInv, CreditOK, Confirmed, JobsDoneCounted
<1> QED BY <1>1, <1>2, <1>3, SerialInit, RowInit, Types, PTL DEF Spec

\* The history is a chain: a row begins where the last one ended and records
\* the status of the order, also the row failSearch inserts in a statement of
\* its own after the write.
THEOREM HistoryChainHolds == ASSUME SerialEdits PROVE Spec => HistoryChain
<1>1. TypeOK /\ ExecOK /\ Serial /\ [Next]_vars => Serial'
  BY SerialStep
<1>2. TypeOK /\ ExecOK /\ Serial /\ RowInv /\ [Next]_vars => RowInv'
  BY RowInvStep
<1>3. TypeOK /\ ExecOK /\ Serial /\ RowInv /\ [Next]_vars
        => [\A o \in Orders : hist'[o] # hist[o] =>
              hist'[o].from = hist[o].to /\ hist'[o].to = status'[o]]_vars
  BY RowInvStep DEF Chained
<1> QED BY <1>1, <1>2, <1>3, SerialInit, RowInit, Types, PTL DEF Spec, HistoryChain
=============================================================================
