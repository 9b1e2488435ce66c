----------------------------- MODULE MasterPage -----------------------------
(***************************************************************************)
(* The master's dashboard (apps/web/app/master/page.tsx) against dispatch  *)
(* and the job endpoints: one master, the offers made to him, his current  *)
(* job, and what the page has cached of both while clicks, fetches and     *)
(* pushes are under way.                                                   *)
(*                                                                         *)
(* A request of the services is one step here, except an upload, whose     *)
(* check and whose write are two; their own interleaving is in             *)
(* OrdersService and DispatchService.  The page's clock is the server's.   *)
(*                                                                         *)
(* External and modelled from its use: react-query (setQueryData leaves a  *)
(* fetch in flight alone, its answer replaces what was set; invalidating a *)
(* query starts its fetch over; data younger than staleTime is not fetched *)
(* again; a mutation's onSuccess runs even if its page is gone).           *)
(***************************************************************************)
EXTENDS Naturals, FiniteSets, OrderStates

CONSTANTS
  Orders,
  Calls,           \* requests of the page that may be in flight together
  Loaded,          \* TRUE: the page's first fetches have been answered
  CustomerCancels, \* TRUE: customers may cancel
  MaxToggles,      \* bound on online/offline clicks
  MaxReopens,      \* bound on leaving the page and coming back
  MaxMedia, MaxUploads,
  MaxLost,         \* bound on requests and answers lost
  None

VARIABLES
  status,     \* server: orders.status; job statuses are this master's jobs
  row,        \* server: his order_dispatches row of each order
  due,        \* expiresAt has passed
  late,       \* LATE_RESPONSE penalties, per order
  answered,   \* history: his answer reached the server in time
  online,     \* server: master_profiles.isOnline
  media,      \* server: files of each order
  pushes,     \* offer:received events under way
  updated,    \* an order:updated event is under way
  view,       \* query cache: profile (isOnline), offer, job
  fetch,      \* their fetches in flight
  local,      \* the component's own state
  call,       \* requests in flight
  used        \* bounded things that have happened

server == <<status, row, due, late, answered, online, media>>
vars == <<status, row, due, late, answered, online, media, pushes, updated, view, fetch, local, call, used>>

JobKinds == {"enroute", "start", "complete", "cancel"}
Jobs == {o \in Orders : status[o] \in ACTIVE_MASTER_JOB_STATUSES}
\* getCurrentJob: any one of them.
CurrentJobs == IF Jobs = {} THEN {None} ELSE {[id |-> o, status |-> status[o]] : o \in Jobs}
\* getCurrentOffer: an open one (the newest: any here, rows carry no time).
OpenOffers == {o \in Orders : row[o] = "OFFERED" /\ ~due[o]}
CurrentOffers == IF OpenOffers = {} THEN {None} ELSE OpenOffers

Queries == {"profile", "offer", "job"}
Server(q) == CASE q = "profile" -> {online} [] q = "offer" -> CurrentOffers [] q = "job" -> CurrentJobs
NoFetch == [at |-> "idle", val |-> None]
Sent == [at |-> "sent", val |-> None]
NoCall == [kind |-> None, at |-> "idle", o |-> None, asked |-> None, to |-> None, mount |-> 0]
Fresh == [confirming |-> None, form |-> FALSE, amount |-> None, pending |-> {}]
Count(f) == used' = [used EXCEPT ![f] = @ + 1]

\* Every variable keeps its type, and a job is one whose offer he accepted.
TypeOK ==
  /\ status \in [Orders -> OrderStatus]
  /\ row \in [Orders -> {None, "OFFERED", "ACCEPTED", "DECLINED", "EXPIRED"}]
  /\ due \in [Orders -> BOOLEAN] /\ late \in [Orders -> 0..1] /\ answered \in [Orders -> BOOLEAN]
  /\ online \in BOOLEAN /\ media \in [Orders -> 0..MaxUploads]
  /\ pushes \subseteq Orders /\ updated \in BOOLEAN
  /\ view.offer \in Orders \cup {None} /\ view.profile \in BOOLEAN
  /\ local.confirming \in Orders \cup {None} /\ local.pending \subseteq JobKinds
  /\ \A o \in Orders : /\ row[o] = "ACCEPTED" => status[o] # "SEARCHING"
                       /\ row[o] # "ACCEPTED" => status[o] \in {"SEARCHING", "CANCELLED_BY_CUSTOMER"}

Init ==
  /\ status = [o \in Orders |-> "SEARCHING"] /\ row = [o \in Orders |-> None]
  /\ due = [o \in Orders |-> FALSE] /\ late = [o \in Orders |-> 0] /\ answered = [o \in Orders |-> FALSE]
  /\ online = TRUE /\ media = [o \in Orders |-> 0] /\ pushes = {} /\ updated = FALSE
  /\ view = [profile |-> TRUE, offer |-> None, job |-> None]
  /\ fetch = [q \in Queries |-> IF Loaded \/ q = "profile" THEN NoFetch ELSE Sent]
  /\ local = Fresh /\ call = [c \in Calls |-> NoCall]
  /\ used = [toggles |-> 0, reopens |-> 0, uploads |-> 0, lost |-> 0]

-----------------------------------------------------------------------------
(* The server on its own: dispatch, time, the customer.                    *)

\* cascadeNext offers the order to this master: online, without a job.
cascadeNext(o) ==
  /\ status[o] = "SEARCHING" /\ row[o] = None /\ online /\ Jobs = {}
  /\ row' = [row EXCEPT ![o] = "OFFERED"]
  /\ pushes' = pushes \cup {o}
  /\ UNCHANGED <<status, due, late, answered, online, media, updated, view, fetch, local, call, used>>

timePasses(o) ==
  /\ row[o] # None /\ ~due[o]
  /\ due' = [due EXCEPT ![o] = TRUE]
  /\ UNCHANGED <<status, row, late, answered, online, media, pushes, updated, view, fetch, local, call, used>>

\* The worker that does not look whether the offer was answered.
handleOfferExpiryUnguarded(o) ==
  /\ due[o] /\ row[o] # "EXPIRED"
  /\ row' = [row EXCEPT ![o] = "EXPIRED"] /\ late' = [late EXCEPT ![o] = @ + 1]
  /\ UNCHANGED <<status, due, answered, online, media, pushes, updated, view, fetch, local, call, used>>

\* The delayed job of an offer still open: the order's status is not looked at before the penalty.
handleOfferExpiry(o) ==
  /\ due[o] /\ row[o] = "OFFERED"
  /\ row' = [row EXCEPT ![o] = "EXPIRED"] /\ late' = [late EXCEPT ![o] = @ + 1]
  /\ UNCHANGED <<status, due, answered, online, media, pushes, updated, view, fetch, local, call, used>>

\* cancel tells the master nothing.
customerCancels(o) ==
  /\ CustomerCancels /\ canTransition(status[o], "CANCELLED_BY_CUSTOMER")
  /\ status' = [status EXCEPT ![o] = "CANCELLED_BY_CUSTOMER"]
  /\ UNCHANGED <<row, due, late, answered, online, media, pushes, updated, view, fetch, local, call, used>>

\* A confirmation that only the customer hears of.
confirmCompletionSilent(o) ==
  /\ canTransition(status[o], "CLOSED")
  /\ status' = [status EXCEPT ![o] = "CLOSED"]
  /\ UNCHANGED <<row, due, late, answered, online, media, pushes, updated, view, fetch, local, call, used>>

confirmCompletion(o) ==
  /\ canTransition(status[o], "CLOSED")
  /\ status' = [status EXCEPT ![o] = "CLOSED"] /\ updated' = TRUE
  /\ UNCHANGED <<row, due, late, answered, online, media, pushes, view, fetch, local, call, used>>

-----------------------------------------------------------------------------
(* Queries and pushes.                                                     *)

\* The job that replaces another one and leaves the form as it is.
withJobKeepingForm(j) == local

\* The effect on currentJob?.id: the form is closed, the amount emptied.
idOf(j) == IF j = None THEN None ELSE j.id
withJob(j) ==
  IF idOf(j) = idOf(view.job) THEN local ELSE [local EXCEPT !.form = FALSE, !.amount = None]

\* The offer query is enabled while the profile says online; what is older
\* than staleTime is fetched when it becomes enabled.
EnabledOffer(v) ==
  IF v.profile /\ ~view.profile THEN {fetch["offer"], Sent} ELSE {fetch["offer"]}

serverReads(q) ==
  /\ fetch[q] = Sent
  /\ \E v \in Server(q) : fetch' = [fetch EXCEPT ![q] = [at |-> "read", val |-> v]]
  /\ UNCHANGED <<server, pushes, updated, view, local, call, used>>

fetched(q) ==
  /\ fetch[q].at = "read"
  /\ view' = [view EXCEPT ![q] = fetch[q].val]
  /\ \E f \in EnabledOffer(view') :
       fetch' = [p \in Queries |-> IF p = q THEN NoFetch ELSE IF p = "offer" THEN f ELSE fetch[p]]
  /\ local' = IF q = "job" THEN withJob(fetch[q].val) ELSE local
  /\ UNCHANGED <<server, pushes, updated, call, used>>

\* A fetch that fails, after its retry, leaves the data as it was.
fetchFails(q) ==
  /\ fetch[q] # NoFetch /\ used.lost < MaxLost /\ Count("lost")
  /\ fetch' = [fetch EXCEPT ![q] = NoFetch]
  /\ UNCHANGED <<server, pushes, updated, view, local, call>>

offerReceived(o) ==
  /\ o \in pushes /\ pushes' = pushes \ {o}
  /\ view' = [view EXCEPT !.offer = o]
  /\ UNCHANGED <<server, updated, fetch, local, call, used>>

orderUpdated ==
  /\ updated /\ updated' = FALSE
  /\ fetch' = [fetch EXCEPT !["job"] = Sent]
  /\ UNCHANGED <<server, pushes, view, local, call, used>>

\* Away and back: what is older than staleTime is fetched again.
reopen ==
  /\ used.reopens < MaxReopens /\ Count("reopens")
  /\ local' = Fresh
  /\ fetch' \in {fetch, [q \in Queries |-> IF q = "offer" /\ ~view.profile THEN fetch[q] ELSE Sent]}
  /\ UNCHANGED <<server, pushes, updated, view, call>>

-----------------------------------------------------------------------------
(* Clicks.                                                                 *)

Send(c, kind, o, asked, to) ==
  /\ call[c] = NoCall
  /\ call' = [call EXCEPT ![c] = [kind |-> kind, at |-> "sent", o |-> o, asked |-> asked, to |-> to,
                                  mount |-> used.reopens]]

\* BookingRequestCard: shown while the countdown runs, its buttons never disabled.
cardShown == view.offer # None /\ ~due[view.offer]
acceptOffer(c) ==
  /\ cardShown /\ Send(c, "accept", view.offer, None, None)
  /\ UNCHANGED <<server, pushes, updated, view, fetch, local, used>>
declineOffer(c) ==
  /\ cardShown /\ Send(c, "decline", view.offer, None, None)
  /\ UNCHANGED <<server, pushes, updated, view, fetch, local, used>>

toggleAvailability(c) ==
  /\ used.toggles < MaxToggles /\ Count("toggles")
  /\ Send(c, "toggle", None, None, ~view.profile)
  /\ UNCHANGED <<server, pushes, updated, view, fetch, local>>

\* Where the page shows the button of an action on the job.
cancelStatusesWithWork == {"ASSIGNED", "EN_ROUTE", "IN_PROGRESS"}
cancelStatuses == {"ASSIGNED", "EN_ROUTE"}
offersAction(k) ==
  /\ view.job # None
  /\ view.job.status \in CASE k = "enroute" -> {"ASSIGNED"} [] k = "start" -> {"EN_ROUTE"}
                           [] k = "cancel" -> cancelStatuses [] k = "complete" -> {"IN_PROGRESS"}

\* "Ishni bekor qilish" opens the question, "Yo'q" closes it.
setConfirmingCancel ==
  /\ offersAction("cancel")
  /\ local' = [local EXCEPT !.confirming = IF @ = None THEN view.job.id ELSE None]
  /\ UNCHANGED <<server, pushes, updated, view, fetch, call, used>>

setShowCompleteForm ==
  /\ offersAction("complete") /\ local' = [local EXCEPT !.form = ~@]
  /\ UNCHANGED <<server, pushes, updated, view, fetch, call, used>>

setFinalAmount(inRange) ==
  /\ offersAction("complete") /\ local.form
  /\ local' = [local EXCEPT !.amount = [job |-> view.job.id, inRange |-> inRange]]
  /\ UNCHANGED <<server, pushes, updated, view, fetch, call, used>>

\* The buttons are disabled while loading, the form's only while it is empty.
jobAction(c, k) ==
  /\ offersAction(k)
  /\ IF k = "complete" THEN local.form /\ local.amount # None ELSE k \notin local.pending
  /\ k = "cancel" => local.confirming # None
  /\ Send(c, k, view.job.id, IF k = "cancel" THEN local.confirming ELSE None,
             IF k = "complete" THEN local.amount ELSE None)
  /\ local' = [local EXCEPT !.pending = @ \cup {k}]
  /\ UNCHANGED <<server, pushes, updated, view, fetch, used>>

uploadEvidence(c) ==
  /\ view.job # None /\ view.job.status \in {"IN_PROGRESS", "COMPLETED"}
  /\ used.uploads < MaxUploads /\ Count("uploads")
  /\ Send(c, "upload", view.job.id, None, None)
  /\ UNCHANGED <<server, pushes, updated, view, fetch, local>>

-----------------------------------------------------------------------------
(* The endpoints.                                                          *)

Answer(c, ok) == call' = [call EXCEPT ![c].at = IF ok THEN "ok" ELSE "refused"]
Serving(c, kinds) == call[c].at = "sent" /\ call[c].kind \in kinds
InTime(o) == answered' = [answered EXCEPT ![o] = @ \/ (row[o] = "OFFERED" /\ ~due[o])]

serveAccept(c) ==
  LET o == call[c].o
      ok == row[o] = "OFFERED" /\ ~due[o] /\ canTransition(status[o], "ASSIGNED") IN
  /\ Serving(c, {"accept"}) /\ Answer(c, ok) /\ InTime(o)
  /\ row' = IF ok THEN [row EXCEPT ![o] = "ACCEPTED"] ELSE row
  /\ status' = IF ok THEN [status EXCEPT ![o] = "ASSIGNED"] ELSE status
  /\ UNCHANGED <<due, late, online, media, pushes, updated, view, fetch, local, used>>

serveDecline(c) ==
  LET o == call[c].o IN
  /\ Serving(c, {"decline"}) /\ Answer(c, TRUE) /\ InTime(o)
  /\ row' = IF row[o] = "OFFERED" THEN [row EXCEPT ![o] = "DECLINED"] ELSE row
  /\ UNCHANGED <<status, due, late, online, media, pushes, updated, view, fetch, local, used>>

setMasterAvailability(c) ==
  /\ Serving(c, {"toggle"}) /\ Answer(c, TRUE) /\ online' = call[c].to
  /\ UNCHANGED <<status, row, due, late, answered, media, pushes, updated, view, fetch, local, used>>

Target(k) == CASE k = "enroute" -> "EN_ROUTE" [] k = "start" -> "IN_PROGRESS"
               [] k = "complete" -> "COMPLETED" [] k = "cancel" -> "CANCELLED_BY_MASTER"
serveJob(c) ==
  LET o == call[c].o  k == call[c].kind
      ok == canTransition(status[o], Target(k)) /\ (k = "complete" => call[c].to.inRange) IN
  /\ Serving(c, JobKinds) /\ Answer(c, ok)
  /\ status' = IF ok THEN [status EXCEPT ![o] = Target(k)] ELSE status
  /\ UNCHANGED <<row, due, late, answered, online, media, pushes, updated, view, fetch, local, used>>

\* addJobMedia: the check of status and limit, and then the file and its row.
addJobMedia(c) ==
  LET o == call[c].o
      ok == status[o] \in {"IN_PROGRESS", "COMPLETED"} /\ media[o] < MaxMedia IN
  /\ Serving(c, {"upload"})
  /\ call' = [call EXCEPT ![c].at = IF ok THEN "checked" ELSE "refused"]
  /\ UNCHANGED <<server, pushes, updated, view, fetch, local, used>>
saveMediaFile(c) ==
  /\ call[c].at = "checked" /\ Answer(c, TRUE)
  /\ media' = [media EXCEPT ![call[c].o] = @ + 1]
  /\ UNCHANGED <<status, row, due, late, answered, online, pushes, updated, view, fetch, local, used>>

-----------------------------------------------------------------------------
(* The answers.                                                            *)

Here(c) == call[c].mount = used.reopens

\* The page that forgets to fetch the job after one of its actions.
onSuccessForgetful(c) ==
  /\ call[c].at = "ok" /\ call' = [call EXCEPT ![c] = NoCall]
  /\ view' = IF call[c].kind \in {"accept", "decline"} THEN [view EXCEPT !.offer = None] ELSE view
  /\ local' = [local EXCEPT !.pending = @ \ {call[c].kind}]
  /\ UNCHANGED <<server, pushes, updated, fetch, used>>

\* onSuccess: the offer goes, whichever it is by now, also when going offline;
\* an accepted offer, the job's actions and uploads invalidate the job.
onSuccess(c) ==
  LET k == call[c].kind IN
  /\ call[c].at = "ok" /\ call' = [call EXCEPT ![c] = NoCall]
  /\ view' = [view EXCEPT !.profile = IF k = "toggle" THEN call[c].to ELSE @,
                          !.offer = IF k \in {"accept", "decline"} \/ (k = "toggle" /\ ~call[c].to)
                                      THEN None ELSE @]
  /\ \E f \in EnabledOffer(view') :
       fetch' = [fetch EXCEPT !["offer"] = f, !["job"] = IF k \in {"decline", "toggle"} THEN @ ELSE Sent]
  /\ local' = IF ~Here(c) THEN local
              ELSE [local EXCEPT !.pending = @ \ {k},
                                 !.form = @ /\ k # "complete",
                                 !.amount = IF k = "complete" THEN None ELSE @,
                                 !.confirming = IF k = "cancel" THEN None ELSE @]
  /\ UNCHANGED <<server, pushes, updated, used>>

\* A refused or lost request: a message for the job's actions, nothing for the card's.
onError(c) ==
  /\ call[c].at = "refused" /\ call' = [call EXCEPT ![c] = NoCall]
  /\ local' = IF Here(c) THEN [local EXCEPT !.pending = @ \ {call[c].kind}] ELSE local
  /\ UNCHANGED <<server, pushes, updated, view, fetch, used>>

requestLost(c) ==
  /\ call[c].at \in {"sent", "ok"} /\ used.lost < MaxLost /\ Count("lost")
  /\ call' = [call EXCEPT ![c].at = "refused"]
  /\ UNCHANGED <<server, pushes, updated, view, fetch, local>>

-----------------------------------------------------------------------------
Query == \/ orderUpdated \/ \E o \in Orders : offerReceived(o)
         \/ \E q \in Queries : serverReads(q) \/ fetched(q)
Serve(c) == \/ serveAccept(c) \/ serveDecline(c) \/ setMasterAvailability(c) \/ serveJob(c)
            \/ addJobMedia(c) \/ saveMediaFile(c) \/ onSuccess(c) \/ onError(c)
Click(c) == \/ acceptOffer(c) \/ declineOffer(c) \/ toggleAvailability(c) \/ uploadEvidence(c)
            \/ \E k \in JobKinds : jobAction(c, k)

Next ==
  \/ Query \/ (\E q \in Queries : fetchFails(q)) \/ reopen \/ setConfirmingCancel \/ setShowCompleteForm
  \/ \E b \in BOOLEAN : setFinalAmount(b)
  \/ \E o \in Orders : \/ cascadeNext(o) \/ timePasses(o) \/ handleOfferExpiry(o)
                       \/ customerCancels(o) \/ confirmCompletion(o)
  \/ \E c \in Calls : Serve(c) \/ Click(c) \/ requestLost(c)

\* Browser, network and server make progress.
Spec == Init /\ [][Next]_vars /\ WF_vars(Query) /\ \A c \in Calls : WF_vars(Serve(c))

-----------------------------------------------------------------------------
Quiet == /\ \A c \in Calls : call[c] = NoCall
         /\ (\A q \in Queries : fetch[q] = NoFetch) /\ pushes = {} /\ ~updated

\* The amount a job is completed with was typed for that job, whatever jobs
\* came and went while the form was open.
AmountIsForJob == \A c \in Calls : call[c].kind = "complete" => call[c].to.job = call[c].o

\* A button shown on a current view of the job is one the server accepts.
FreshActionsAccepted ==
  \A k \in JobKinds : offersAction(k) /\ view.job.status = status[view.job.id]
                        => canTransition(status[view.job.id], Target(k))

\* "An honest decline is not penalized": an answer that reached the server in
\* time is never followed by a late response.
AnsweredNotLate == \A o \in Orders : answered[o] => late[o] = 0

\* At rest, an open offer is on the card of a master who is online.
OfferVisible == Quiet /\ view.profile /\ OpenOffers # {} => view.offer \in OpenOffers

\* The page comes to show the job the server has.
JobCatchesUp == []<>(view.job \in CurrentJobs)

\* A job is cancelled only after the master was asked about that job.
CancelWasAsked == \A c \in Calls : call[c].kind = "cancel" => call[c].asked = call[c].o

\* At rest, the toggle shows what the server holds.
ToggleShown == Quiet => view.profile = online

\* ORDER_MAX_MEDIA bounds the files of an order.
MediaLimit == \A o \in Orders : media[o] <= MaxMedia

-----------------------------------------------------------------------------
(* What the theorems assume of the constants, and the inductive invariant. *)

CallKinds == {"accept", "decline", "toggle", "upload"} \cup JobKinds
PageAssumption ==
  /\ MaxMedia \in Nat /\ MaxToggles \in Nat /\ MaxReopens \in Nat /\ MaxUploads \in Nat /\ MaxLost \in Nat
  /\ IsFiniteSet(Calls)
  /\ None \notin Orders \cup CallKinds \cup {"OFFERED", "ACCEPTED", "DECLINED", "EXPIRED"}

JobViews == [id : Orders, status : OrderStatus]
Amounts == [job : Orders, inRange : BOOLEAN]
Data(q) == CASE q = "profile" -> BOOLEAN [] q = "offer" -> Orders \cup {None} [] q = "job" -> JobViews \cup {None}

\* The penalty of a row that expired is its only one.
LateOK == \A o \in Orders : row[o] # "EXPIRED" => late[o] = 0

FetchOK(q) == \/ fetch[q] \in {NoFetch, Sent}
              \/ \E v \in Data(q) : fetch[q] = [at |-> "read", val |-> v]

\* What a request in flight asks for.
CallOK(c) ==
  LET e == call[c] IN
  /\ e = [kind |-> e.kind, at |-> e.at, o |-> e.o, asked |-> e.asked, to |-> e.to, mount |-> e.mount]
  /\ \/ e = NoCall
     \/ /\ e.kind \in CallKinds /\ e.at \in {"sent", "checked", "ok", "refused"}
        /\ e.kind = "toggle" => e.to \in BOOLEAN
        /\ e.kind # "toggle" => e.o \in Orders
        /\ e.kind = "complete" => e.to \in Amounts /\ e.to.job = e.o
        /\ e.at = "checked" => e.kind = "upload"

\* The uploads of an order that may still store a file.
Uploading(o) == {c \in Calls : call[c].kind = "upload" /\ call[c].at \in {"sent", "checked"} /\ call[c].o = o}
UploadsOK == \A o \in Orders : media[o] + Cardinality(Uploading(o)) <= used.uploads

\* The amount in the form is for the job the page shows.
AmountOK == local.amount # None => view.job # None /\ local.amount.job = view.job.id

PageInv ==
  /\ view \in [profile : BOOLEAN, offer : Orders \cup {None}, job : JobViews \cup {None}]
  /\ local \in [confirming : Orders \cup {None}, form : BOOLEAN, amount : Amounts \cup {None}, pending : SUBSET JobKinds]
  /\ used \in [toggles : 0..MaxToggles, reopens : 0..MaxReopens, uploads : 0..MaxUploads, lost : 0..MaxLost]
  /\ fetch = [q \in Queries |-> fetch[q]] /\ \A q \in Queries : FetchOK(q)
  /\ call = [c \in Calls |-> call[c]] /\ \A c \in Calls : CallOK(c)
  /\ LateOK /\ UploadsOK /\ AmountOK
=============================================================================
