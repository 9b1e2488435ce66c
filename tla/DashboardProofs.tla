--------------------------- MODULE DashboardProofs ---------------------------
(***************************************************************************)
(* The theorems of the master's dashboard, for any orders, any requests in *)
(* flight, any bounds and however the page is opened: the types, and that  *)
(* the amount a job is completed with was typed for that job.              *)
(***************************************************************************)
EXTENDS MasterPage, FiniteSetTheorems, TLAPS

Rows == {"OFFERED", "ACCEPTED", "DECLINED", "EXPIRED"}

\* The bounds are numbers, and None is the name of nothing else.
LEMMA Constants ==
  ASSUME PageAssumption
  PROVE  /\ MaxMedia \in Nat /\ MaxToggles \in Nat /\ MaxReopens \in Nat /\ MaxUploads \in Nat /\ MaxLost \in Nat
         /\ IsFiniteSet(Calls) /\ None \notin Orders /\ None \notin CallKinds /\ None \notin Rows
BY DEF PageAssumption, Rows

\* The edges of the table that the page's actions and the customer's take.
LEMMA Edges ==
  \A s : /\ canTransition(s, "ASSIGNED") => s = "SEARCHING"
         /\ canTransition(s, "EN_ROUTE") => s = "ASSIGNED"
         /\ canTransition(s, "IN_PROGRESS") => s = "EN_ROUTE"
         /\ canTransition(s, "COMPLETED") => s = "IN_PROGRESS"
         /\ canTransition(s, "CANCELLED_BY_MASTER") => s \in {"ASSIGNED", "EN_ROUTE"}
         /\ canTransition(s, "CLOSED") => s = "COMPLETED"
BY DEF canTransition, TRANSITIONS

-----------------------------------------------------------------------------
(* The server.                                                             *)

\* What TypeOK says of the server, with what a late response needs.
ServerOK ==
  /\ status \in [Orders -> OrderStatus] /\ row \in [Orders -> Rows \cup {None}]
  /\ due \in [Orders -> BOOLEAN] /\ late \in [Orders -> 0..1] /\ answered \in [Orders -> BOOLEAN]
  /\ online \in BOOLEAN /\ LateOK
  /\ \A o \in Orders : /\ row[o] = "ACCEPTED" => status[o] # "SEARCHING"
                       /\ row[o] # "ACCEPTED" => status[o] \in {"SEARCHING", "CANCELLED_BY_CUSTOMER"}

\* The variables of the server it is about.
serverRows == <<status, row, due, late, answered, online>>

\* Dispatch, time and the customer keep it.
LEMMA OutsideServer ==
  ASSUME PageAssumption, ServerOK, NEW o \in Orders,
         cascadeNext(o) \/ timePasses(o) \/ handleOfferExpiry(o) \/ customerCancels(o) \/ confirmCompletion(o)
  PROVE  ServerOK'
<1> USE DEF ServerOK, LateOK, Rows
<1>0. "CANCELLED_BY_CUSTOMER" \in OrderStatus /\ "CLOSED" \in OrderStatus /\ None \notin Rows
  BY Constants DEF OrderStatus
<1>1. CASE cascadeNext(o)
  BY <1>0, <1>1 DEF cascadeNext
<1>2. CASE timePasses(o)
  BY <1>2 DEF timePasses
<1>3. CASE handleOfferExpiry(o)
  <2>1. late[o] = 0
    BY <1>3 DEF handleOfferExpiry
  <2>2. late' = [late EXCEPT ![o] = 1] /\ row' = [row EXCEPT ![o] = "EXPIRED"] /\ row[o] = "OFFERED"
    BY <1>3, <2>1 DEF handleOfferExpiry
  <2>3. UNCHANGED <<status, due, answered, online>>
    BY <1>3 DEF handleOfferExpiry
  <2>4. late' \in [Orders -> 0..1] /\ row' \in [Orders -> Rows \cup {None}] /\ LateOK'
    BY <2>2
  <2> QED BY <2>2, <2>3, <2>4
<1>4. CASE customerCancels(o)
  BY <1>0, <1>4 DEF customerCancels
<1>5. CASE confirmCompletion(o)
  <2>1. row[o] = "ACCEPTED"
    BY <1>5, Edges DEF confirmCompletion
  <2> QED BY <1>0, <1>5, <2>1 DEF confirmCompletion
<1> QED BY <1>1, <1>2, <1>3, <1>4, <1>5

\* The endpoints keep it: only an accepted offer makes an order a job of his,
\* and only a job can be moved on.
LEMMA EndpointsServer ==
  ASSUME PageAssumption, ServerOK, NEW c \in Calls, CallOK(c),
         serveAccept(c) \/ serveDecline(c) \/ setMasterAvailability(c) \/ serveJob(c)
  PROVE  ServerOK'
<1> USE DEF ServerOK, LateOK
<1> DEFINE o == call[c].o
<1>0. {"ASSIGNED", "EN_ROUTE", "IN_PROGRESS", "COMPLETED", "CANCELLED_BY_MASTER"} \subseteq OrderStatus
  BY DEF OrderStatus
<1>1. call[c] # NoCall /\ (call[c].kind # "toggle" => o \in Orders) /\ (call[c].kind = "toggle" => call[c].to \in BOOLEAN)
  <2>1. call[c].at = "sent"
    BY DEF serveAccept, serveDecline, setMasterAvailability, serveJob, Serving
  <2>2. call[c] # NoCall
    BY <2>1 DEF NoCall
  <2> QED BY <2>2 DEF CallOK
<1>2. CASE serveAccept(c)
  <2>1. o \in Orders
    BY <1>1, <1>2 DEF serveAccept, Serving
  <2> DEFINE ok == row[o] = "OFFERED" /\ ~due[o] /\ canTransition(status[o], "ASSIGNED")
  <2>2. /\ row' = IF ok THEN [row EXCEPT ![o] = "ACCEPTED"] ELSE row
        /\ status' = IF ok THEN [status EXCEPT ![o] = "ASSIGNED"] ELSE status
        /\ answered' = [answered EXCEPT ![o] = @ \/ (row[o] = "OFFERED" /\ ~due[o])]
        /\ UNCHANGED <<due, late, online>>
    BY <1>2 DEF serveAccept, InTime
  <2>3. answered' \in [Orders -> BOOLEAN]
    BY <2>1, <2>2
  <2>4. CASE ok
    <3>1. row' = [row EXCEPT ![o] = "ACCEPTED"] /\ status' = [status EXCEPT ![o] = "ASSIGNED"] /\ row[o] = "OFFERED"
      BY <2>2, <2>4
    <3>2. row' \in [Orders -> Rows \cup {None}] /\ status' \in [Orders -> OrderStatus]
      BY <1>0, <2>1, <3>1 DEF Rows
    <3> HIDE DEF ok, o
    <3> QED BY <2>1, <2>2, <2>3, <3>1, <3>2
  <2>5. CASE ~ok
    BY <2>2, <2>3, <2>5
  <2> QED BY <2>4, <2>5
<1>3. CASE serveDecline(c)
  <2>1. o \in Orders
    BY <1>1, <1>3 DEF serveDecline, Serving
  <2>2. /\ row' = IF row[o] = "OFFERED" THEN [row EXCEPT ![o] = "DECLINED"] ELSE row
        /\ answered' = [answered EXCEPT ![o] = @ \/ (row[o] = "OFFERED" /\ ~due[o])]
        /\ UNCHANGED <<status, due, late, online>>
    BY <1>3 DEF serveDecline, InTime
  <2>3. answered' \in [Orders -> BOOLEAN] /\ row' \in [Orders -> Rows \cup {None}]
    BY <2>1, <2>2 DEF Rows
  <2> HIDE DEF o
  <2> QED BY <2>1, <2>2, <2>3
<1>4. CASE setMasterAvailability(c)
  BY <1>1, <1>4 DEF setMasterAvailability, Serving
<1>5. CASE serveJob(c)
  <2>1. call[c].kind \in JobKinds /\ o \in Orders
    BY <1>1, <1>5 DEF serveJob, Serving, JobKinds
  <2> DEFINE to == Target(call[c].kind)
  <2>2. to \in {"EN_ROUTE", "IN_PROGRESS", "COMPLETED", "CANCELLED_BY_MASTER"}
    BY <2>1 DEF Target, JobKinds
  <2>3. \/ UNCHANGED status
        \/ canTransition(status[o], to) /\ status' = [status EXCEPT ![o] = to]
    BY <1>5 DEF serveJob
  <2>4. UNCHANGED <<row, due, late, answered, online>>
    BY <1>5 DEF serveJob
  <2> HIDE DEF o, to
  <2>5. CASE UNCHANGED status
    BY <2>4, <2>5
  <2>6. CASE canTransition(status[o], to) /\ status' = [status EXCEPT ![o] = to]
    <3>1. status[o] \notin {"SEARCHING", "CANCELLED_BY_CUSTOMER"}
      BY <2>2, <2>6, Edges
    <3>2. row[o] = "ACCEPTED" /\ to \in OrderStatus /\ to # "SEARCHING"
      BY <1>0, <2>1, <2>2, <3>1
    <3> QED BY <2>1, <2>4, <2>6, <3>2
  <2> QED BY <2>3, <2>5, <2>6
<1> QED BY <1>2, <1>3, <1>4, <1>5

\* Every step of the page keeps it.
LEMMA ServerKept ==
  ASSUME PageAssumption, ServerOK, \A c \in Calls : CallOK(c), [Next]_vars
  PROVE  ServerOK'
<1>1. CASE UNCHANGED serverRows
  BY <1>1 DEF serverRows, ServerOK, LateOK
<1>2. CASE UNCHANGED vars
  BY <1>1, <1>2 DEF vars, serverRows
<1>3. CASE Query \/ (\E q \in Queries : fetchFails(q)) \/ reopen \/ setConfirmingCancel
           \/ setShowCompleteForm \/ \E b \in BOOLEAN : setFinalAmount(b)
  BY <1>1, <1>3 DEF serverRows, server, Query, orderUpdated, offerReceived, serverReads, fetched, fetchFails,
     reopen, setConfirmingCancel, setShowCompleteForm, setFinalAmount
<1>4. ASSUME NEW c \in Calls, Click(c) \/ requestLost(c) PROVE ServerOK'
  BY <1>1, <1>4 DEF serverRows, server, Click, acceptOffer, declineOffer, toggleAvailability, uploadEvidence,
     jobAction, requestLost
<1>5. ASSUME NEW c \in Calls, Serve(c) PROVE ServerOK'
  <2>1. CASE addJobMedia(c) \/ saveMediaFile(c) \/ onSuccess(c) \/ onError(c)
    BY <1>1, <2>1 DEF serverRows, server, addJobMedia, saveMediaFile, onSuccess, onError
  <2> QED BY <1>5, <2>1, EndpointsServer DEF Serve
<1> QED BY <1>2, <1>3, <1>4, <1>5, OutsideServer DEF Next

-----------------------------------------------------------------------------
(* The requests in flight.                                                 *)

\* A request as its fields.
Request(kind, at, o, asked, to, mount) ==
  [kind |-> kind, at |-> at, o |-> o, asked |-> asked, to |-> to, mount |-> mount]

\* What a request asks for, whatever became of it.
CallsOK == call = [c \in Calls |-> call[c]] /\ \A c \in Calls : CallOK(c)

\* A request that is gone.
LEMMA CallGone == ASSUME CallsOK, NEW c \in Calls, call' = [call EXCEPT ![c] = NoCall] PROVE CallsOK'
<1>1. call' = [d \in Calls |-> IF d = c THEN NoCall ELSE call[d]]
  BY DEF CallsOK
<1>2. \A d \in Calls : call'[d] = IF d = c THEN NoCall ELSE call[d]
  BY <1>1
<1>3. ASSUME NEW d \in Calls PROVE CallOK(d)'
  <2>1. CASE d = c
    BY <1>2, <2>1 DEF CallOK, NoCall
  <2>2. CASE d # c
    BY <1>2, <2>2 DEF CallsOK, CallOK
  <2> QED BY <2>1, <2>2
<1> QED BY <1>1, <1>2, <1>3 DEF CallsOK

\* A request that got further is the request it was.
LEMMA CallMoves ==
  ASSUME PageAssumption, CallsOK, NEW c \in Calls, call[c].at # "idle",
         NEW at \in {"sent", "checked", "ok", "refused"}, at = "checked" => call[c].kind = "upload",
         call' = [call EXCEPT ![c].at = at]
  PROVE  /\ CallsOK' /\ call'[c].at = at
         /\ \A d \in Calls : d # c => call'[d].at = call[d].at
         /\ \A d \in Calls : call'[d].kind = call[d].kind /\ call'[d].o = call[d].o
<1> DEFINE e == call[c]
           f == Request(e.kind, at, e.o, e.asked, e.to, e.mount)
<1>1. e = Request(e.kind, e.at, e.o, e.asked, e.to, e.mount) /\ e # NoCall
  BY DEF CallsOK, CallOK, Request, NoCall
<1>2. [e EXCEPT !.at = at] = f
  BY <1>1 DEF Request
<1>3. call' = [d \in Calls |-> IF d = c THEN f ELSE call[d]]
  BY <1>2 DEF CallsOK
<1>4. \A d \in Calls : call'[d] = IF d = c THEN f ELSE call[d]
  BY <1>3
<1>5. ASSUME NEW d \in Calls PROVE CallOK(d)'
  <2>1. CASE d = c
    <3>1. call'[d] = f /\ CallOK(c)
      BY <1>4, <2>1 DEF CallsOK
    <3> QED BY <1>1, <3>1 DEF CallOK, Request
  <2>2. CASE d # c
    BY <1>4, <2>2 DEF CallsOK, CallOK
  <2> QED BY <2>1, <2>2
<1>6. CallsOK'
  BY <1>3, <1>4, <1>5 DEF CallsOK
<1>7. ASSUME NEW d \in Calls
      PROVE  /\ call'[d].kind = call[d].kind /\ call'[d].o = call[d].o
             /\ d # c => call'[d].at = call[d].at
             /\ d = c => call'[d].at = at
  BY <1>4 DEF Request
<1> QED BY <1>6, <1>7

\* A request that is sent.
LEMMA CallSent ==
  ASSUME PageAssumption, CallsOK, NEW c \in Calls, NEW kind \in CallKinds, NEW o, NEW asked, NEW to,
         Send(c, kind, o, asked, to),
         kind = "toggle" => to \in BOOLEAN, kind # "toggle" => o \in Orders,
         kind = "complete" => to \in Amounts /\ to.job = o
  PROVE  /\ CallsOK' /\ call[c] = NoCall
         /\ \A d \in Calls : call'[d] = IF d = c THEN Request(kind, "sent", o, asked, to, used.reopens) ELSE call[d]
<1> DEFINE f == Request(kind, "sent", o, asked, to, used.reopens)
<1>1. call' = [d \in Calls |-> IF d = c THEN f ELSE call[d]] /\ call[c] = NoCall
  BY DEF Send, CallsOK, Request
<1>2. \A d \in Calls : call'[d] = IF d = c THEN f ELSE call[d]
  BY <1>1
<1>3. ASSUME NEW d \in Calls PROVE CallOK(d)'
  <2>1. CASE d = c
    <3>1. call'[d] = f
      BY <1>2, <2>1
    <3> QED BY <3>1 DEF CallOK, Request
  <2>2. CASE d # c
    BY <1>2, <2>2 DEF CallsOK, CallOK
  <2> QED BY <2>1, <2>2
<1>4. CallsOK'
  BY <1>1, <1>2, <1>3 DEF CallsOK
<1> QED BY <1>1, <1>2, <1>4

\* The page's own state and what it has cached.
ViewOK ==
  /\ view \in [profile : BOOLEAN, offer : Orders \cup {None}, job : JobViews \cup {None}]
  /\ local \in [confirming : Orders \cup {None}, form : BOOLEAN, amount : Amounts \cup {None}, pending : SUBSET JobKinds]
  /\ fetch = [q \in Queries |-> fetch[q]] /\ \A q \in Queries : FetchOK(q)
  /\ AmountOK

\* An order that a button of the page is about is an order.
LEMMA ShownJob ==
  ASSUME PageAssumption, ViewOK, view.job # None
  PROVE  view.job \in JobViews /\ view.job.id \in Orders
BY DEF ViewOK, JobViews

\* Clicks send what they should: a job is completed with its own amount.
LEMMA ClicksSend ==
  ASSUME PageAssumption, CallsOK, ViewOK, NEW c \in Calls, Click(c)
  PROVE  CallsOK'
<1>0. JobKinds \subseteq CallKinds /\ {"accept", "decline", "toggle", "upload"} \subseteq CallKinds
      /\ "toggle" \notin JobKinds /\ "complete" \notin {"accept", "decline", "toggle", "upload"}
  BY DEF CallKinds, JobKinds
<1>1. CASE acceptOffer(c)
  <2>1. Send(c, "accept", view.offer, None, None) /\ view.offer \in Orders
    BY <1>1 DEF acceptOffer, cardShown, ViewOK
  <2> QED BY <1>0, <2>1, CallSent
<1>2. CASE declineOffer(c)
  <2>1. Send(c, "decline", view.offer, None, None) /\ view.offer \in Orders
    BY <1>2 DEF declineOffer, cardShown, ViewOK
  <2> QED BY <1>0, <2>1, CallSent
<1>3. CASE toggleAvailability(c)
  <2>1. Send(c, "toggle", None, None, ~view.profile) /\ (~view.profile) \in BOOLEAN
    BY <1>3 DEF toggleAvailability
  <2> QED BY <1>0, <2>1, CallSent
<1>4. CASE uploadEvidence(c)
  <2>1. Send(c, "upload", view.job.id, None, None) /\ view.job # None
    BY <1>4 DEF uploadEvidence
  <2> QED BY <1>0, <2>1, ShownJob, CallSent
<1>5. ASSUME NEW k \in JobKinds, jobAction(c, k) PROVE CallsOK'
  <2> DEFINE o == view.job.id
             asked == IF k = "cancel" THEN local.confirming ELSE None
             to == IF k = "complete" THEN local.amount ELSE None
  <2>1. Send(c, k, o, asked, to) /\ view.job # None
    BY <1>5 DEF jobAction, offersAction
  <2>2. o \in Orders
    BY <2>1, ShownJob
  <2>3. k = "complete" => to \in Amounts /\ to.job = o
    BY <1>5 DEF jobAction, ViewOK, AmountOK
  <2> HIDE DEF o, asked, to
  <2> QED BY <1>0, <2>1, <2>2, <2>3, CallSent
<1> QED BY <1>1, <1>2, <1>3, <1>4, <1>5 DEF Click

\* Every step keeps what the requests in flight ask for.
LEMMA CallsKept ==
  ASSUME PageAssumption, CallsOK, ViewOK, [Next]_vars
  PROVE  CallsOK'
<1>0. ASSUME UNCHANGED call PROVE CallsOK'
  BY <1>0 DEF CallsOK, CallOK
<1>1. CASE UNCHANGED vars
  BY <1>0, <1>1 DEF vars
<1>2. CASE Query \/ (\E q \in Queries : fetchFails(q)) \/ reopen \/ setConfirmingCancel
           \/ setShowCompleteForm \/ \E b \in BOOLEAN : setFinalAmount(b)
  BY <1>0, <1>2 DEF Query, orderUpdated, offerReceived, serverReads, fetched, fetchFails,
     reopen, setConfirmingCancel, setShowCompleteForm, setFinalAmount
<1>3. ASSUME NEW o \in Orders, cascadeNext(o) \/ timePasses(o) \/ handleOfferExpiry(o)
                               \/ customerCancels(o) \/ confirmCompletion(o)
      PROVE  CallsOK'
  BY <1>0, <1>3 DEF cascadeNext, timePasses, handleOfferExpiry, customerCancels, confirmCompletion
<1>4. ASSUME NEW c \in Calls, Serve(c) \/ requestLost(c) PROVE CallsOK'
  <2>1. CASE serveAccept(c) \/ serveDecline(c) \/ setMasterAvailability(c) \/ serveJob(c) \/ requestLost(c)
    <3>1. PICK at \in {"ok", "refused"} : call' = [call EXCEPT ![c].at = at] /\ call[c].at # "idle"
      BY <2>1 DEF serveAccept, serveDecline, setMasterAvailability, serveJob, requestLost, Answer, Serving
    <3> QED BY <3>1, CallMoves
  <2>2. CASE addJobMedia(c)
    <3>1. PICK at \in {"checked", "refused"} : call' = [call EXCEPT ![c].at = at]
      BY <2>2 DEF addJobMedia
    <3>2. call[c].at # "idle" /\ call[c].kind = "upload"
      BY <2>2 DEF addJobMedia, Serving
    <3> QED BY <3>1, <3>2, CallMoves
  <2>3. CASE saveMediaFile(c)
    <3>1. call' = [call EXCEPT ![c].at = "ok"] /\ call[c].at # "idle"
      BY <2>3 DEF saveMediaFile, Answer
    <3> QED BY <3>1, CallMoves
  <2>4. CASE onSuccess(c) \/ onError(c)
    BY <2>4, CallGone DEF onSuccess, onError
  <2> QED BY <1>4, <2>1, <2>2, <2>3, <2>4 DEF Serve
<1> QED BY <1>1, <1>2, <1>3, <1>4, ClicksSend DEF Next

-----------------------------------------------------------------------------
(* The page.                                                               *)

\* What the services answer a query with is data of the query.
LEMMA AnswersTyped ==
  ASSUME PageAssumption, ServerOK, NEW q \in Queries, NEW v \in Server(q)
  PROVE  v \in Data(q)
<1> USE DEF Server, Data, Queries
<1>1. CASE q = "profile"
  BY <1>1 DEF ServerOK
<1>2. CASE q = "offer"
  BY <1>2 DEF CurrentOffers, OpenOffers
<1>3. CASE q = "job"
  BY <1>3 DEF CurrentJobs, Jobs, JobViews, ServerOK
<1> QED BY <1>1, <1>2, <1>3

\* A fetch that starts over or stops is none to worry about, and others stay.
LEMMA FetchMoves ==
  ASSUME ViewOK, fetch' = [q \in Queries |-> fetch'[q]],
         \A q \in Queries : fetch'[q] \in {fetch[q], NoFetch, Sent}
  PROVE  \A q \in Queries : FetchOK(q)'
BY DEF ViewOK, FetchOK, NoFetch, Sent

\* What has been cached is data, and an amount belongs to the job it shows.
LEMMA FetchedKeeps ==
  ASSUME PageAssumption, ViewOK, NEW q \in Queries, fetched(q)
  PROVE  ViewOK'
<1>1. PICK v \in Data(q) : fetch[q] = [at |-> "read", val |-> v]
  BY DEF fetched, ViewOK, FetchOK, NoFetch, Sent
<1>2. fetch[q].val = v
  BY <1>1
<1>3. view' = [view EXCEPT ![q] = v] /\ local' = IF q = "job" THEN withJob(v) ELSE local
  BY <1>2 DEF fetched
<1>4. view' \in [profile : BOOLEAN, offer : Orders \cup {None}, job : JobViews \cup {None}]
  <2>1. CASE q = "profile"
    BY <1>3, <2>1 DEF ViewOK, Data
  <2>2. CASE q = "offer"
    BY <1>3, <2>2 DEF ViewOK, Data
  <2>3. CASE q = "job"
    BY <1>3, <2>3 DEF ViewOK, Data
  <2> QED BY <2>1, <2>2, <2>3 DEF Queries
<1>5. fetch' = [p \in Queries |-> fetch'[p]] /\ \A p \in Queries : fetch'[p] \in {fetch[p], NoFetch, Sent}
  <2>1. PICK f \in EnabledOffer(view') :
          fetch' = [p \in Queries |-> IF p = q THEN NoFetch ELSE IF p = "offer" THEN f ELSE fetch[p]]
    BY DEF fetched
  <2>2. f \in {fetch["offer"], Sent}
    BY <2>1 DEF EnabledOffer
  <2> QED BY <2>1, <2>2
<1>6. local' \in [confirming : Orders \cup {None}, form : BOOLEAN, amount : Amounts \cup {None}, pending : SUBSET JobKinds]
  BY <1>3 DEF ViewOK, withJob
<1>7. AmountOK'
  <2>1. CASE q # "job"
    <3>1. view'.job = view.job /\ local' = local
      BY <1>3, <2>1 DEF ViewOK, Queries
    <3> QED BY <3>1 DEF ViewOK, AmountOK
  <2>2. CASE q = "job" /\ idOf(v) # idOf(view.job)
    <3>1. local'.amount = None
      BY <1>3, <2>2 DEF ViewOK, withJob
    <3> QED BY <3>1 DEF AmountOK
  <2>3. CASE q = "job" /\ idOf(v) = idOf(view.job)
    <3>1. local' = local /\ view'.job = v
      BY <1>3, <2>3 DEF ViewOK, withJob
    <3>2. view.job # None => v # None /\ v.id = view.job.id
      <4>1. view.job # None => idOf(view.job) = view.job.id /\ view.job.id # None
        BY ShownJob, Constants DEF idOf
      <4> QED BY <2>3, <4>1 DEF idOf
    <3> QED BY <3>1, <3>2 DEF ViewOK, AmountOK
  <2> QED BY <2>1, <2>2, <2>3
<1> QED BY <1>4, <1>5, <1>6, <1>7, FetchMoves DEF ViewOK

\* The answer to a request closes what it was about, and no job takes over
\* another's amount.
LEMMA SuccessKeeps ==
  ASSUME PageAssumption, ViewOK, NEW c \in Calls, CallOK(c), onSuccess(c)
  PROVE  ViewOK'
<1> DEFINE k == call[c].kind
<1>1. call[c] # NoCall /\ (k = "toggle" => call[c].to \in BOOLEAN)
  <2>1. call[c] # NoCall
    BY DEF onSuccess, NoCall
  <2> QED BY <2>1 DEF CallOK
<1>2. view' = [view EXCEPT !.profile = IF k = "toggle" THEN call[c].to ELSE @,
                           !.offer = IF k \in {"accept", "decline"} \/ (k = "toggle" /\ ~call[c].to)
                                       THEN None ELSE @]
  BY DEF onSuccess
<1>3. local' = IF ~Here(c) THEN local
               ELSE [local EXCEPT !.pending = @ \ {k},
                                  !.form = @ /\ k # "complete",
                                  !.amount = IF k = "complete" THEN None ELSE @,
                                  !.confirming = IF k = "cancel" THEN None ELSE @]
  BY DEF onSuccess
<1>4. fetch' = [q \in Queries |-> fetch'[q]] /\ \A q \in Queries : fetch'[q] \in {fetch[q], NoFetch, Sent}
  <2>1. PICK f \in EnabledOffer(view') :
          fetch' = [fetch EXCEPT !["offer"] = f, !["job"] = IF k \in {"decline", "toggle"} THEN @ ELSE Sent]
    BY DEF onSuccess
  <2>2. f \in {fetch["offer"], Sent}
    BY <2>1 DEF EnabledOffer
  <2> QED BY <2>1, <2>2 DEF ViewOK, Queries
<1> HIDE DEF k
<1>5. view' \in [profile : BOOLEAN, offer : Orders \cup {None}, job : JobViews \cup {None}] /\ view'.job = view.job
  BY <1>1, <1>2 DEF ViewOK
<1>6. /\ local' \in [confirming : Orders \cup {None}, form : BOOLEAN, amount : Amounts \cup {None}, pending : SUBSET JobKinds]
      /\ local'.amount \in {local.amount, None}
  BY <1>3 DEF ViewOK
<1>7. AmountOK'
  BY <1>5, <1>6 DEF ViewOK, AmountOK
<1> QED BY <1>4, <1>5, <1>6, <1>7, FetchMoves DEF ViewOK

\* Every step keeps the page's types, and the amount with its job.
LEMMA ViewKept ==
  ASSUME PageAssumption, ServerOK, ViewOK, CallsOK, [Next]_vars
  PROVE  ViewOK'
<1>0. ASSUME UNCHANGED <<view, fetch, local>> PROVE ViewOK'
  BY <1>0 DEF ViewOK, FetchOK, AmountOK
<1>1. CASE UNCHANGED vars
  BY <1>0, <1>1 DEF vars
\* What is left of a step that caches nothing new for the job and the profile.
<1>2. ASSUME view' = view \/ \E o \in Orders : view' = [view EXCEPT !.offer = o],
             local' \in [confirming : Orders \cup {None}, form : BOOLEAN, amount : Amounts \cup {None}, pending : SUBSET JobKinds],
             local'.amount \in {None, local.amount} \/ (view.job # None /\ local'.amount.job = view.job.id),
             fetch' = [q \in Queries |-> fetch'[q]], \A q \in Queries : FetchOK(q)'
      PROVE  ViewOK'
  <2>1. view' \in [profile : BOOLEAN, offer : Orders \cup {None}, job : JobViews \cup {None}] /\ view'.job = view.job
    BY <1>2 DEF ViewOK
  <2>2. AmountOK'
    BY <1>2, <2>1 DEF ViewOK, AmountOK
  <2> QED BY <1>2, <2>1, <2>2 DEF ViewOK
<1>3. UNCHANGED fetch => fetch' = [q \in Queries |-> fetch'[q]] /\ \A q \in Queries : FetchOK(q)'
  BY DEF ViewOK, FetchOK
<1>4. UNCHANGED local => /\ local' \in [confirming : Orders \cup {None}, form : BOOLEAN,
                                        amount : Amounts \cup {None}, pending : SUBSET JobKinds]
                         /\ local'.amount = local.amount
  BY DEF ViewOK
<1>5. ASSUME NEW q \in Queries, serverReads(q) PROVE ViewOK'
  <2>1. PICK v \in Server(q) : fetch' = [fetch EXCEPT ![q] = [at |-> "read", val |-> v]]
    BY <1>5 DEF serverReads
  <2>2. v \in Data(q)
    BY AnswersTyped
  <2>3. fetch' = [p \in Queries |-> IF p = q THEN [at |-> "read", val |-> v] ELSE fetch[p]]
    BY <2>1 DEF ViewOK
  <2>4. \A p \in Queries : FetchOK(p)'
    BY <2>2, <2>3 DEF ViewOK, FetchOK
  <2> QED BY <1>2, <1>4, <1>5, <2>3, <2>4 DEF serverReads
<1>6. ASSUME NEW q \in Queries, fetchFails(q) PROVE ViewOK'
  <2>1. fetch' = [p \in Queries |-> IF p = q THEN NoFetch ELSE fetch[p]] /\ UNCHANGED <<view, local>>
    BY <1>6 DEF fetchFails, ViewOK
  <2>2. \A p \in Queries : fetch'[p] \in {fetch[p], NoFetch, Sent}
    BY <2>1
  <2> QED BY <1>2, <1>4, <2>1, <2>2, FetchMoves
<1>7. ASSUME NEW o \in Orders, offerReceived(o) PROVE ViewOK'
  BY <1>2, <1>3, <1>4, <1>7 DEF offerReceived
<1>8. CASE orderUpdated
  <2>1. fetch' = [q \in Queries |-> IF q = "job" THEN Sent ELSE fetch[q]] /\ UNCHANGED <<view, local>>
    BY <1>8 DEF orderUpdated, ViewOK
  <2>2. \A q \in Queries : fetch'[q] \in {fetch[q], NoFetch, Sent}
    BY <2>1
  <2> QED BY <1>2, <1>4, <2>1, <2>2, FetchMoves
<1>9. CASE reopen
  <2>1. local' = Fresh /\ UNCHANGED view
        /\ fetch' \in {fetch, [q \in Queries |-> IF q = "offer" /\ ~view.profile THEN fetch[q] ELSE Sent]}
    BY <1>9 DEF reopen
  <2>2. fetch' = [q \in Queries |-> fetch'[q]] /\ \A q \in Queries : fetch'[q] \in {fetch[q], NoFetch, Sent}
    BY <2>1 DEF ViewOK
  <2>3. local' \in [confirming : Orders \cup {None}, form : BOOLEAN, amount : Amounts \cup {None}, pending : SUBSET JobKinds]
        /\ local'.amount = None
    BY <2>1 DEF Fresh
  <2> QED BY <1>2, <2>1, <2>2, <2>3, FetchMoves
<1>10. CASE setConfirmingCancel
  <2>1. local' = [local EXCEPT !.confirming = IF @ = None THEN view.job.id ELSE None] /\ view.job # None
        /\ UNCHANGED <<view, fetch>>
    BY <1>10 DEF setConfirmingCancel, offersAction
  <2>2. view.job.id \in Orders
    BY <2>1, ShownJob
  <2>3. local' \in [confirming : Orders \cup {None}, form : BOOLEAN, amount : Amounts \cup {None}, pending : SUBSET JobKinds]
        /\ local'.amount = local.amount
    BY <2>1, <2>2 DEF ViewOK
  <2> QED BY <1>2, <1>3, <2>1, <2>3
<1>11. CASE setShowCompleteForm
  <2>1. local' = [local EXCEPT !.form = ~@] /\ UNCHANGED <<view, fetch>>
    BY <1>11 DEF setShowCompleteForm
  <2>2. local' \in [confirming : Orders \cup {None}, form : BOOLEAN, amount : Amounts \cup {None}, pending : SUBSET JobKinds]
        /\ local'.amount = local.amount
    BY <2>1 DEF ViewOK
  <2> QED BY <1>2, <1>3, <2>1, <2>2
<1>12. ASSUME NEW b \in BOOLEAN, setFinalAmount(b) PROVE ViewOK'
  <2>1. local' = [local EXCEPT !.amount = [job |-> view.job.id, inRange |-> b]] /\ view.job # None
        /\ UNCHANGED <<view, fetch>>
    BY <1>12 DEF setFinalAmount, offersAction
  <2>2. [job |-> view.job.id, inRange |-> b] \in Amounts
    BY <2>1, ShownJob DEF Amounts
  <2>3. local' \in [confirming : Orders \cup {None}, form : BOOLEAN, amount : Amounts \cup {None}, pending : SUBSET JobKinds]
        /\ local'.amount.job = view.job.id
    BY <2>1, <2>2 DEF ViewOK
  <2> QED BY <1>2, <1>3, <2>1, <2>3
<1>13. ASSUME NEW c \in Calls, Click(c) PROVE ViewOK'
  <2>1. CASE acceptOffer(c) \/ declineOffer(c) \/ toggleAvailability(c) \/ uploadEvidence(c)
    BY <1>0, <2>1 DEF acceptOffer, declineOffer, toggleAvailability, uploadEvidence
  <2>2. ASSUME NEW k \in JobKinds, jobAction(c, k) PROVE ViewOK'
    <3>1. local' = [local EXCEPT !.pending = @ \cup {k}] /\ UNCHANGED <<view, fetch>>
      BY <2>2 DEF jobAction
    <3>2. local' \in [confirming : Orders \cup {None}, form : BOOLEAN, amount : Amounts \cup {None}, pending : SUBSET JobKinds]
          /\ local'.amount = local.amount
      BY <3>1 DEF ViewOK
    <3> QED BY <1>2, <1>3, <3>1, <3>2
  <2> QED BY <1>13, <2>1, <2>2 DEF Click
<1>14. ASSUME NEW c \in Calls, Serve(c) \/ requestLost(c) PROVE ViewOK'
  <2>1. CASE serveAccept(c) \/ serveDecline(c) \/ setMasterAvailability(c) \/ serveJob(c) \/ addJobMedia(c)
             \/ saveMediaFile(c) \/ requestLost(c)
    BY <1>0, <2>1 DEF serveAccept, serveDecline, setMasterAvailability, serveJob, addJobMedia, saveMediaFile,
       requestLost, server
  <2>2. CASE onError(c)
    <3>1. local' = (IF Here(c) THEN [local EXCEPT !.pending = @ \ {call[c].kind}] ELSE local)
          /\ UNCHANGED <<view, fetch>>
      BY <2>2 DEF onError
    <3>2. local' \in [confirming : Orders \cup {None}, form : BOOLEAN, amount : Amounts \cup {None}, pending : SUBSET JobKinds]
          /\ local'.amount = local.amount
      BY <3>1 DEF ViewOK
    <3> QED BY <1>2, <1>3, <3>1, <3>2
  <2> QED BY <1>14, <2>1, <2>2, SuccessKeeps DEF Serve, CallsOK
<1>15. ASSUME NEW o \in Orders, cascadeNext(o) \/ timePasses(o) \/ handleOfferExpiry(o)
                                \/ customerCancels(o) \/ confirmCompletion(o)
       PROVE  ViewOK'
  BY <1>0, <1>15 DEF cascadeNext, timePasses, handleOfferExpiry, customerCancels, confirmCompletion
<1> QED BY <1>1, <1>5, <1>6, <1>7, <1>8, <1>9, <1>10, <1>11, <1>12, <1>13, <1>14, <1>15, FetchedKeeps DEF Next, Query

-----------------------------------------------------------------------------
(* The uploads.                                                            *)

\* What has happened so far stays within its bounds; files are counted.
UsedOK ==
  /\ used \in [toggles : 0..MaxToggles, reopens : 0..MaxReopens, uploads : 0..MaxUploads, lost : 0..MaxLost]
  /\ media \in [Orders -> 0..MaxUploads]
  /\ UploadsOK

\* The uploads under way are finitely many.
LEMMA UploadsCount ==
  ASSUME PageAssumption, NEW S \in SUBSET Calls
  PROVE  IsFiniteSet(S) /\ Cardinality(S) \in Nat
BY Constants, FS_Subset, FS_CardinalityType

\* Uploads that end, or that nothing happens to, need no new room.
LEMMA UploadsShrink ==
  ASSUME PageAssumption, UsedOK, UNCHANGED media, UNCHANGED used.uploads,
         \A o \in Orders : Uploading(o)' \subseteq Uploading(o)
  PROVE  UploadsOK' /\ media' \in [Orders -> 0..MaxUploads]
<1> SUFFICES ASSUME NEW o \in Orders
             PROVE  media'[o] + Cardinality(Uploading(o)') <= used'.uploads
  BY DEF UploadsOK, UsedOK
<1>1. Uploading(o) \in SUBSET Calls
  BY DEF Uploading
<1>2. IsFiniteSet(Uploading(o)) /\ Cardinality(Uploading(o)) \in Nat
  BY <1>1, UploadsCount
<1>3. Cardinality(Uploading(o)') <= Cardinality(Uploading(o)) /\ Cardinality(Uploading(o)') \in Nat
  BY <1>2, FS_Subset, FS_CardinalityType
<1>4. PICK n, m, k, u \in Nat : n = Cardinality(Uploading(o)) /\ m = Cardinality(Uploading(o)')
                                /\ k = media[o] /\ u = used.uploads
  BY <1>2, <1>3 DEF UsedOK
<1>5. m <= n /\ k + n <= u
  BY <1>3, <1>4 DEF UsedOK, UploadsOK
<1>6. k + m <= u
  BY <1>5
<1> QED BY <1>4, <1>6

\* So it is when no request joins the uploads.
LEMMA NoUpload ==
  ASSUME PageAssumption, UsedOK, UNCHANGED media, UNCHANGED used.uploads,
         \A d \in Calls : call'[d].kind = "upload" /\ call'[d].at \in {"sent", "checked"}
                            => /\ call[d].kind = "upload" /\ call[d].at \in {"sent", "checked"}
                               /\ call[d].o = call'[d].o
  PROVE  UploadsOK' /\ media' \in [Orders -> 0..MaxUploads]
<1>1. \A o \in Orders : Uploading(o)' \subseteq Uploading(o)
  BY DEF Uploading
<1> QED BY <1>1, UploadsShrink

\* A new upload is counted when it is sent.
LEMMA UploadSent ==
  ASSUME PageAssumption, UsedOK, CallsOK, ViewOK, NEW c \in Calls, uploadEvidence(c)
  PROVE  UsedOK'
<1> DEFINE f == Request("upload", "sent", view.job.id, None, None, used.reopens)
<1>1. Send(c, "upload", view.job.id, None, None) /\ view.job.id \in Orders
  BY ShownJob DEF uploadEvidence
<1>2. \A d \in Calls : d # c => call'[d] = call[d]
  BY <1>1, CallSent DEF CallKinds
<1>3. used' = [used EXCEPT !.uploads = @ + 1] /\ used.uploads < MaxUploads /\ UNCHANGED media
  BY DEF uploadEvidence, Count, server
<1>4. used' \in [toggles : 0..MaxToggles, reopens : 0..MaxReopens, uploads : 0..MaxUploads, lost : 0..MaxLost]
      /\ used'.uploads = used.uploads + 1
  BY <1>3, Constants DEF UsedOK
<1>5. ASSUME NEW o \in Orders PROVE media'[o] + Cardinality(Uploading(o)') <= used'.uploads
  <2> DEFINE X == Uploading(o)
             Y == Uploading(o)'
  <2>1. X \in SUBSET Calls /\ Y \subseteq X \cup {c} /\ X \cup {c} \in SUBSET Calls
    BY <1>2 DEF Uploading
  <2>2. media[o] + Cardinality(X) <= used.uploads /\ media[o] \in Nat /\ used.uploads \in Nat
    BY DEF UsedOK, UploadsOK
  <2> HIDE DEF X, Y
  <2>3. IsFiniteSet(X) /\ Cardinality(X) \in Nat /\ IsFiniteSet(X \cup {c}) /\ Cardinality(X \cup {c}) \in Nat
    BY <2>1, UploadsCount
  <2>4. Cardinality(Y) <= Cardinality(X \cup {c}) /\ Cardinality(Y) \in Nat
    BY <2>1, <2>3, FS_Subset, FS_CardinalityType
  <2>5. Cardinality(X \cup {c}) <= Cardinality(X) + 1
    BY <2>3, FS_AddElement
  <2>6. PICK n, m, x, k, u \in Nat : n = Cardinality(X) /\ m = Cardinality(Y) /\ x = Cardinality(X \cup {c})
                                     /\ k = media[o] /\ u = used.uploads
    BY <2>2, <2>3, <2>4
  <2>7. k + m <= u + 1
    <3>1. m <= x /\ x <= n + 1 /\ k + n <= u
      BY <2>2, <2>4, <2>5, <2>6
    <3> QED BY <3>1
  <2> QED BY <1>3, <1>4, <2>6, <2>7 DEF Y
<1> QED BY <1>3, <1>4, <1>5 DEF UsedOK, UploadsOK

\* A file that is stored was one of the uploads under way.
LEMMA FileSaved ==
  ASSUME PageAssumption, UsedOK, CallsOK, NEW c \in Calls, saveMediaFile(c)
  PROVE  UsedOK'
<1>1. PICK s \in Orders : s = call[c].o /\ call[c].at = "checked" /\ call[c].kind = "upload"
  <2>1. call[c].at = "checked"
    BY DEF saveMediaFile
  <2>2. call[c] # NoCall
    BY <2>1 DEF NoCall
  <2> QED BY <2>1, <2>2 DEF CallsOK, CallOK
<1>2. call' = [call EXCEPT ![c].at = "ok"]
  BY DEF saveMediaFile, Answer
<1>3. /\ call'[c].at = "ok"
      /\ \A d \in Calls : d # c => call'[d].at = call[d].at
      /\ \A d \in Calls : call'[d].kind = call[d].kind /\ call'[d].o = call[d].o
  BY <1>1, <1>2, CallMoves
<1>4. media' = [media EXCEPT ![s] = @ + 1] /\ UNCHANGED used
  BY <1>1 DEF saveMediaFile
<1>5. ASSUME NEW o \in Orders
      PROVE  media'[o] + Cardinality(Uploading(o)') <= used.uploads /\ media'[o] \in Nat
             /\ Cardinality(Uploading(o)') \in Nat
  <2> DEFINE X == Uploading(o)
             Y == Uploading(o)'
  <2>1. X \in SUBSET Calls /\ Y = X \ {c} /\ (c \in X <=> o = s)
    BY <1>1, <1>3 DEF Uploading
  <2>2. media[o] + Cardinality(X) <= used.uploads /\ media[o] \in Nat /\ used.uploads \in Nat
    BY DEF UsedOK, UploadsOK
  <2> HIDE DEF X, Y
  <2>3. IsFiniteSet(X) /\ Cardinality(X) \in Nat /\ Cardinality(Y) \in Nat
    BY <2>1, UploadsCount
  <2>4. CASE o = s
    <3>1. Cardinality(Y) = Cardinality(X) - 1 /\ media'[o] = media[o] + 1
      BY <1>4, <2>1, <2>3, <2>4, FS_RemoveElement DEF UsedOK
    <3>2. PICK n, m, k, u \in Nat : n = Cardinality(X) /\ m = Cardinality(Y) /\ k = media[o] /\ u = used.uploads
      BY <2>2, <2>3
    <3>3. m = n - 1 /\ k + n <= u
      BY <2>2, <3>1, <3>2
    <3>4. k + 1 + m <= u /\ k + 1 \in Nat
      BY <3>3
    <3> QED BY <2>3, <3>1, <3>2, <3>4 DEF Y
  <2>5. CASE o # s
    <3>1. Y = X /\ media'[o] = media[o]
      BY <1>4, <2>1, <2>5 DEF UsedOK
    <3> QED BY <2>2, <2>3, <3>1 DEF Y
  <2> QED BY <2>4, <2>5
<1>6. media' \in [Orders -> 0..MaxUploads]
  <2>1. media'[s] \in 0..MaxUploads
    <3> DEFINE files == media'[s]
               rest == Cardinality(Uploading(s)')
    <3>1. used.uploads \in Nat /\ used.uploads <= MaxUploads
      BY Constants DEF UsedOK
    <3>2. files + rest <= used.uploads /\ files \in Nat /\ rest \in Nat
      BY <1>1, <1>5
    <3> HIDE DEF files, rest
    <3>3. PICK m, k, u \in Nat : m = rest /\ k = files /\ u = used.uploads
      BY <3>1, <3>2
    <3>4. k + m <= u /\ u <= MaxUploads
      BY <3>1, <3>2, <3>3
    <3>5. k \in 0..MaxUploads
      BY <3>4, Constants
    <3> QED BY <3>3, <3>5 DEF files
  <2>2. media' = [media EXCEPT ![s] = media'[s]]
    BY <1>1, <1>4 DEF UsedOK
  <2> QED BY <2>1, <2>2 DEF UsedOK
<1>7. UploadsOK'
  BY <1>4, <1>5 DEF UploadsOK
<1> QED BY <1>4, <1>6, <1>7 DEF UsedOK

\* Every step keeps the bounds, and the files within the uploads.
LEMMA UsedKept ==
  ASSUME PageAssumption, UsedOK, CallsOK, ViewOK, [Next]_vars
  PROVE  UsedOK'
<1> DEFINE Bounds == [toggles : 0..MaxToggles, reopens : 0..MaxReopens, uploads : 0..MaxUploads, lost : 0..MaxLost]
<1>0. ASSUME UNCHANGED <<media, call>>, used' \in Bounds, used'.uploads = used.uploads PROVE UsedOK'
  <2>1. UploadsOK' /\ media' \in [Orders -> 0..MaxUploads]
    BY <1>0, NoUpload
  <2> QED BY <1>0, <2>1 DEF UsedOK
<1>1. used \in Bounds
  BY DEF UsedOK
<1>2. ASSUME NEW f \in {"toggles", "reopens", "lost"}, Count(f),
             f = "toggles" => used.toggles < MaxToggles, f = "reopens" => used.reopens < MaxReopens,
             f = "lost" => used.lost < MaxLost
      PROVE  used' \in Bounds /\ used'.uploads = used.uploads
  <2>1. CASE f = "toggles"
    BY <1>1, <1>2, <2>1, Constants DEF Count
  <2>2. CASE f = "reopens"
    BY <1>1, <1>2, <2>2, Constants DEF Count
  <2>3. CASE f = "lost"
    BY <1>1, <1>2, <2>3, Constants DEF Count
  <2> QED BY <1>2, <2>1, <2>2, <2>3
<1>3. CASE UNCHANGED vars
  BY <1>0, <1>1, <1>3 DEF vars
<1>4. CASE Query \/ setConfirmingCancel \/ setShowCompleteForm \/ \E b \in BOOLEAN : setFinalAmount(b)
  BY <1>0, <1>1, <1>4 DEF Query, orderUpdated, offerReceived, serverReads, fetched, server,
     setConfirmingCancel, setShowCompleteForm, setFinalAmount
<1>5. ASSUME NEW q \in Queries, fetchFails(q) PROVE UsedOK'
  <2>1. Count("lost") /\ used.lost < MaxLost /\ UNCHANGED <<media, call>>
    BY <1>5 DEF fetchFails, server
  <2> QED BY <1>0, <1>2, <2>1
<1>6. CASE reopen
  <2>1. Count("reopens") /\ used.reopens < MaxReopens /\ UNCHANGED <<media, call>>
    BY <1>6 DEF reopen, server
  <2> QED BY <1>0, <1>2, <2>1
<1>7. ASSUME NEW o \in Orders, cascadeNext(o) \/ timePasses(o) \/ handleOfferExpiry(o)
                               \/ customerCancels(o) \/ confirmCompletion(o)
      PROVE  UsedOK'
  BY <1>0, <1>1, <1>7 DEF cascadeNext, timePasses, handleOfferExpiry, customerCancels, confirmCompletion
\* What is left of a request that moves on, and is no new upload.
<1>8. ASSUME NEW c \in Calls, UNCHANGED media, used' \in Bounds, used'.uploads = used.uploads,
             \A d \in Calls : d # c => call'[d] = call[d],
             call'[c].kind = "upload" /\ call'[c].at \in {"sent", "checked"}
               => call[c].kind = "upload" /\ call[c].at \in {"sent", "checked"} /\ call[c].o = call'[c].o
      PROVE  UsedOK'
  <2>1. UploadsOK' /\ media' \in [Orders -> 0..MaxUploads]
    BY <1>8, NoUpload
  <2> QED BY <1>8, <2>1 DEF UsedOK
<1>9. ASSUME NEW c \in Calls, Click(c), ~uploadEvidence(c) PROVE UsedOK'
  <2>1. \E kind, o, asked, to : Send(c, kind, o, asked, to) /\ kind # "upload"
    BY <1>9 DEF Click, acceptOffer, declineOffer, toggleAvailability, jobAction, JobKinds
  <2>2. \A d \in Calls : d # c => call'[d] = call[d]
    BY <2>1 DEF Send, CallsOK
  <2>3. call'[c].kind # "upload"
    BY <2>1 DEF Send, CallsOK
  <2>4. used' \in Bounds /\ used'.uploads = used.uploads /\ UNCHANGED media
    <3>1. CASE toggleAvailability(c)
      BY <1>2, <3>1 DEF toggleAvailability, server
    <3>2. CASE acceptOffer(c) \/ declineOffer(c) \/ \E k \in JobKinds : jobAction(c, k)
      BY <1>1, <3>2 DEF acceptOffer, declineOffer, jobAction, server
    <3> QED BY <1>9, <3>1, <3>2 DEF Click
  <2> QED BY <1>8, <2>2, <2>3, <2>4
<1>10. ASSUME NEW c \in Calls, Serve(c) \/ requestLost(c), ~saveMediaFile(c) PROVE UsedOK'
  <2>1. UNCHANGED media /\ used' \in Bounds /\ used'.uploads = used.uploads
    <3>1. CASE requestLost(c)
      BY <1>2, <3>1 DEF requestLost, server
    <3>2. CASE serveAccept(c) \/ serveDecline(c) \/ setMasterAvailability(c) \/ serveJob(c)
      BY <1>1, <3>2 DEF serveAccept, serveDecline, setMasterAvailability, serveJob
    <3>3. CASE addJobMedia(c) \/ onSuccess(c) \/ onError(c)
      BY <1>1, <3>3 DEF addJobMedia, onSuccess, onError, server
    <3> QED BY <1>10, <3>1, <3>2, <3>3 DEF Serve
  <2>2. CASE onSuccess(c) \/ onError(c)
    <3>1. call' = [call EXCEPT ![c] = NoCall]
      BY <2>2 DEF onSuccess, onError
    <3>2. \A d \in Calls : call'[d] = IF d = c THEN NoCall ELSE call[d]
      BY <3>1 DEF CallsOK
    <3> QED BY <1>8, <2>1, <3>2 DEF NoCall
  <2>3. CASE addJobMedia(c)
    <3>1. PICK at \in {"checked", "refused"} : call' = [call EXCEPT ![c].at = at]
      BY <2>3 DEF addJobMedia
    <3>2. call[c].at = "sent" /\ call[c].kind = "upload"
      BY <2>3 DEF addJobMedia, Serving
    <3>3. \A d \in Calls : d # c => call'[d] = call[d]
      BY <3>1 DEF CallsOK
    <3>4. call'[c].o = call[c].o
      BY <3>1, <3>2, CallMoves
    <3> QED BY <1>8, <2>1, <3>2, <3>3, <3>4
  <2>4. CASE serveAccept(c) \/ serveDecline(c) \/ setMasterAvailability(c) \/ serveJob(c) \/ requestLost(c)
    <3>1. PICK at \in {"ok", "refused"} : call' = [call EXCEPT ![c].at = at] /\ call[c].at # "idle"
      BY <2>4 DEF serveAccept, serveDecline, setMasterAvailability, serveJob, requestLost, Answer, Serving
    <3>2. \A d \in Calls : d # c => call'[d] = call[d]
      BY <3>1 DEF CallsOK
    <3>3. at \in {"sent", "checked", "ok", "refused"} /\ at # "checked"
      BY <3>1
    <3>4. call'[c].at = at
      BY <3>1, <3>3, CallMoves
    <3> QED BY <1>8, <2>1, <3>1, <3>2, <3>4
  <2> QED BY <1>10, <2>2, <2>3, <2>4 DEF Serve
<1> QED BY <1>3, <1>4, <1>5, <1>6, <1>7, <1>9, <1>10, UploadSent, FileSaved DEF Next

-----------------------------------------------------------------------------
(* The theorems.                                                           *)

\* The parts of the types and of the invariant.
LEMMA Parts ==
  ASSUME PageAssumption
  PROVE  TypeOK /\ PageInv <=> /\ ServerOK /\ CallsOK /\ ViewOK /\ UsedOK
                               /\ pushes \subseteq Orders /\ updated \in BOOLEAN
<1> USE DEF TypeOK, PageInv, ServerOK, CallsOK, ViewOK, UsedOK, Rows
<1>1. ViewOK => /\ view.offer \in Orders \cup {None} /\ view.profile \in BOOLEAN
                /\ local.confirming \in Orders \cup {None} /\ local.pending \subseteq JobKinds
  OBVIOUS
<1>2. ASSUME TypeOK, PageInv PROVE ServerOK /\ CallsOK /\ ViewOK /\ UsedOK
  BY <1>2
<1>3. ASSUME ServerOK, CallsOK, ViewOK, UsedOK, pushes \subseteq Orders, updated \in BOOLEAN
      PROVE  TypeOK /\ PageInv
  BY <1>1, <1>3
<1> QED BY <1>2, <1>3

\* The page as it opens.
LEMMA InitOK == ASSUME PageAssumption, Init PROVE TypeOK /\ PageInv
<1>1. ServerOK
  BY Constants DEF Init, ServerOK, LateOK, Rows, OrderStatus
<1>2. CallsOK
  BY DEF Init, CallsOK, CallOK, NoCall
<1>3. ViewOK
  BY DEF Init, ViewOK, FetchOK, AmountOK, Fresh, Queries
<1>4. UsedOK
  <2>1. used = [toggles |-> 0, reopens |-> 0, uploads |-> 0, lost |-> 0] /\ media = [o \in Orders |-> 0]
    BY DEF Init
  <2>2. \A o \in Orders : Uploading(o) = {}
    BY Constants DEF Init, Uploading, NoCall
  <2>3. Cardinality({}) = 0
    BY FS_EmptySet
  <2> QED BY <2>1, <2>2, <2>3, Constants DEF UsedOK, UploadsOK
<1> QED BY <1>1, <1>2, <1>3, <1>4, Parts DEF Init

\* Every step keeps the types and the invariant.
LEMMA StepKeeps == ASSUME PageAssumption, TypeOK, PageInv, [Next]_vars PROVE TypeOK' /\ PageInv'
<1>1. /\ ServerOK /\ CallsOK /\ ViewOK /\ UsedOK /\ pushes \subseteq Orders /\ updated \in BOOLEAN
      /\ \A c \in Calls : CallOK(c)
  BY Parts DEF CallsOK
<1>2. ServerOK' /\ CallsOK' /\ ViewOK' /\ UsedOK'
  BY <1>1, ServerKept, CallsKept, ViewKept, UsedKept
<1>3. pushes' \subseteq Orders /\ updated' \in BOOLEAN
  <2>1. CASE UNCHANGED <<pushes, updated>>
    BY <1>1, <2>1
  <2>2. ASSUME NEW o \in Orders, cascadeNext(o) \/ timePasses(o) \/ handleOfferExpiry(o)
                                 \/ customerCancels(o) \/ confirmCompletion(o) \/ offerReceived(o)
        PROVE  pushes' \subseteq Orders /\ updated' \in BOOLEAN
    BY <1>1, <2>2 DEF cascadeNext, timePasses, handleOfferExpiry, customerCancels, confirmCompletion, offerReceived
  <2>3. ASSUME NEW c \in Calls, Serve(c) \/ Click(c) \/ requestLost(c) PROVE UNCHANGED <<pushes, updated>>
    <3>1. CASE Serve(c)
      BY <3>1 DEF Serve, serveAccept, serveDecline, setMasterAvailability, serveJob, addJobMedia, saveMediaFile,
         onSuccess, onError
    <3>2. CASE Click(c) \/ requestLost(c)
      BY <3>2 DEF Click, acceptOffer, declineOffer, toggleAvailability, uploadEvidence, jobAction, requestLost
    <3> QED BY <2>3, <3>1, <3>2
  <2>4. CASE orderUpdated
    BY <1>1, <2>4 DEF orderUpdated
  <2>5. ASSUME NEW q \in Queries, serverReads(q) \/ fetched(q) \/ fetchFails(q) PROVE UNCHANGED <<pushes, updated>>
    BY <2>5 DEF serverReads, fetched, fetchFails
  <2>6. CASE reopen \/ setConfirmingCancel \/ setShowCompleteForm \/ \E b \in BOOLEAN : setFinalAmount(b)
    BY <2>1, <2>6 DEF reopen, setConfirmingCancel, setShowCompleteForm, setFinalAmount
  <2>7. UNCHANGED vars => UNCHANGED <<pushes, updated>>
    BY DEF vars
  <2> QED BY <2>1, <2>2, <2>3, <2>4, <2>5, <2>6, <2>7 DEF Next, Query
<1>4. (TypeOK /\ PageInv <=> /\ ServerOK /\ CallsOK /\ ViewOK /\ UsedOK
                             /\ pushes \subseteq Orders /\ updated \in BOOLEAN)'
  BY Parts, PTL
<1> QED BY <1>2, <1>3, <1>4

\* Every variable of the page and of what it talks to keeps its type: among
\* it, a row of an order that is his job was accepted, and a late response
\* is penalised once.
THEOREM DashboardTypes == ASSUME PageAssumption PROVE Spec => []TypeOK
<1>1. Init => TypeOK /\ PageInv
  BY InitOK
<1>2. TypeOK /\ PageInv /\ [Next]_vars => (TypeOK /\ PageInv)'
  BY StepKeeps
<1> QED BY <1>1, <1>2, PTL DEF Spec

\* The amount a job is completed with was typed for that job, whatever jobs
\* the fetches and pushes put into the place of the one before.
THEOREM AmountIsForJobHolds == ASSUME PageAssumption PROVE Spec => []AmountIsForJob
<1>1. Init => TypeOK /\ PageInv
  BY InitOK
<1>2. TypeOK /\ PageInv /\ [Next]_vars => (TypeOK /\ PageInv)'
  BY StepKeeps
<1>3. PageInv => AmountIsForJob
  <2>1. None # "complete"
    BY Constants DEF CallKinds, JobKinds
  <2> QED BY <2>1 DEF PageInv, CallOK, NoCall, AmountIsForJob
<1> QED BY <1>1, <1>2, <1>3, PTL DEF Spec

\* The page's buttons agree with the table of transitions: one shown on a
\* current view of the job is one the server accepts.
THEOREM FreshActionsHold == Spec => []FreshActionsAccepted
<1>1. FreshActionsAccepted
  <2> SUFFICES ASSUME NEW k \in JobKinds, offersAction(k), view.job.status = status[view.job.id]
               PROVE  canTransition(status[view.job.id], Target(k))
    BY DEF FreshActionsAccepted
  <2>1. CASE k = "enroute"
    BY <2>1 DEF offersAction, Target, canTransition, TRANSITIONS
  <2>2. CASE k = "start"
    BY <2>2 DEF offersAction, Target, canTransition, TRANSITIONS
  <2>3. CASE k = "complete"
    BY <2>3 DEF offersAction, Target, canTransition, TRANSITIONS
  <2>4. CASE k = "cancel"
    BY <2>4 DEF offersAction, cancelStatuses, Target, canTransition, TRANSITIONS
  <2> QED BY <2>1, <2>2, <2>3, <2>4 DEF JobKinds
<1> QED BY <1>1, PTL
=============================================================================
