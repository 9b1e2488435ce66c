----------------------------- MODULE OrderPage -----------------------------
(***************************************************************************)
(* The customer's page of one order (apps/web/app/orders/[id]/page.tsx)    *)
(* against the API and the socket: what the page has cached, the fetches   *)
(* and requests it has in flight, and the server's state moving on         *)
(* meanwhile.                                                              *)
(*                                                                         *)
(* External and modelled from its use: react-query (a query has one fetch  *)
(* in flight, invalidating it starts the fetch over, a disabled query does *)
(* not fetch) and socket.io (an event reaches the sockets in the user's    *)
(* room when it is emitted; a client the server disconnected connects      *)
(* again only when connect is called).                                     *)
(***************************************************************************)
EXTENDS Naturals, Sequences, FiniteSets, OrderStates

CONSTANTS
  Requests,        \* button clicks that may be in flight at the same time
  StartStatuses,   \* the order's status when the page opens
  Navigated,       \* TRUE: opened by client-side navigation, signed in and connected
  MaxPayments,     \* bound on the order's payments
  MaxLost,         \* bound on answers and fetches the network loses
  None

VARIABLES
  status, pays, rated, claim,   \* server: orders.status, payments (newest first),
                                \* the review, the guarantee claim
  ready,      \* useRequireAuth: the session is restored
  socket,     \* the client's socket
  pushed,     \* an order:updated event is on its way to the page (several
              \* count as one: the handler only invalidates)
  view,       \* query key -> cached data
  fetch,      \* query key -> its fetch in flight
  mapMounted, \* LiveTrackingMap has mounted
  req,        \* clicks in flight
  lost        \* messages lost so far

server == <<status, pays, rated, claim>>
page == <<ready, socket, pushed, mapMounted>>
vars == <<status, pays, rated, claim, ready, socket, pushed, view, fetch,
          mapMounted, req, lost>>

Queries == {"order", "payments", "review", "claim"}
CANCELABLE == {"DRAFT", "PRICED", "SEARCHING", "ASSIGNED", "EN_ROUTE"}
PAYABLE_STATUSES == {"COMPLETED", "CLOSED"}
ActivePayments == {"PROCESSING", "SUCCEEDED"}
Buttons == {"cancel", "confirm", "pay", "review", "claim"}
\* Button.tsx: disabled={disabled ?? loading}.  A button that is given
\* "disabled" stays clickable while its request is loading.
DisabledWhileLoading == {"cancel", "confirm", "pay"}

PaymentStatus == ActivePayments \cup {"FAILED", "REFUNDED"}
Valid(q, v) == CASE q = "order" -> v \in OrderStatus
                 [] q = "payments" -> v \in Seq(PaymentStatus) /\ Len(v) <= MaxPayments
                 [] q = "review" -> v \in BOOLEAN
                 [] q = "claim" -> v \in {"none", "OPEN", "DECIDED"}
Server(q) == CASE q = "order" -> status [] q = "payments" -> pays
               [] q = "review" -> rated [] q = "claim" -> claim

paid == pays # << >> /\ Head(pays) = "SUCCEEDED"
NoFetch == [at |-> "idle", val |-> None]
IdleRequest == [button |-> None, at |-> "idle"]

\* Every variable keeps its type; the page caches only what the server holds
\* or held: a payment list never longer than the server's.
TypeOK ==
  /\ \A q \in Queries : Valid(q, Server(q))
  /\ ready \in BOOLEAN /\ mapMounted \in BOOLEAN
  /\ socket \in {"off", "connecting", "joined", "refused"}
  /\ pushed \in BOOLEAN /\ lost \in 0..MaxLost
  /\ \A q \in Queries : /\ view[q] = None \/ Valid(q, view[q])
                        /\ fetch[q].at \in {"idle", "sent", "answered", "error"}
                        /\ fetch[q].val = None \/ Valid(q, fetch[q].val)
  /\ view["payments"] # None => Len(view["payments"]) <= Len(pays)
  /\ req \in [Requests -> [button: Buttons \cup {None},
                           at: {"idle", "sent", "ok", "refused", "lost"}]]

Init ==
  /\ status \in StartStatuses /\ pays = << >> /\ rated = FALSE /\ claim = "none"
  /\ ready = Navigated /\ mapMounted = FALSE
  /\ socket = IF Navigated THEN "joined" ELSE "off"
  /\ pushed = FALSE /\ lost = 0
  /\ view = [q \in Queries |-> None]
  /\ fetch = [q \in Queries |-> NoFetch]
  /\ req = [r \in Requests |-> IdleRequest]

-----------------------------------------------------------------------------
(* The session and the socket.                                             *)

\* SessionBootstrap restores the session; only then is there a token.
bootstrap == /\ ~ready /\ ready' = TRUE
             /\ UNCHANGED <<server, socket, pushed, mapMounted, view, fetch, req, lost>>

\* useSocketEvent's effect runs when the page mounts, ready or not; the map's
\* runs when the map mounts.  getSocket connects a socket that is not connected.
getSocket == IF socket \in {"off", "refused"} THEN "connecting" ELSE socket

useSocketEvent ==
  /\ socket = "off" /\ socket' = getSocket
  /\ UNCHANGED <<server, ready, pushed, mapMounted, view, fetch, req, lost>>

\* handleConnection: without a token the server disconnects the client.
handleConnection ==
  /\ socket = "connecting"
  /\ socket' = IF ready THEN "joined" ELSE "refused"
  /\ UNCHANGED <<server, ready, pushed, mapMounted, view, fetch, req, lost>>

\* The map is rendered, active or not, once the order is loaded.
mountMap ==
  /\ ~mapMounted /\ view["order"] # None /\ fetch["order"].at # "error"
  /\ mapMounted' = TRUE /\ socket' = getSocket
  /\ UNCHANGED <<server, ready, pushed, view, fetch, req, lost>>

\* emitToUser: only sockets in the room get the event.
emitOrderUpdated == pushed' = (pushed \/ socket = "joined")

-----------------------------------------------------------------------------
(* The queries.                                                            *)

enabled(q) ==
  ready /\ CASE q = "order" -> TRUE
             [] q = "payments" -> view["order"] \in PAYABLE_STATUSES
             [] OTHER -> view["order"] = "CLOSED"

Restarted(Q) == [q \in Queries |-> IF q \in Q THEN [at |-> "sent", val |-> None] ELSE fetch[q]]
\* invalidateQueries(['order', id]): the key is a prefix of all four.
Invalidated == Restarted({q \in Queries : enabled(q)})

useQuery(q) ==
  /\ enabled(q) /\ view[q] = None /\ fetch[q].at = "idle"
  /\ fetch' = Restarted({q})
  /\ UNCHANGED <<server, page, view, req, lost>>

serverReads(q) ==
  /\ fetch[q].at = "sent"
  /\ fetch' = [fetch EXCEPT ![q] = [at |-> "answered", val |-> Server(q)]]
  /\ UNCHANGED <<server, page, view, req, lost>>

fetched(q) ==
  /\ fetch[q].at = "answered"
  /\ view' = [view EXCEPT ![q] = fetch[q].val]
  /\ fetch' = [fetch EXCEPT ![q] = NoFetch]
  /\ UNCHANGED <<server, page, req, lost>>

\* The client's and react-query's retries are used up.
fetchFails(q) ==
  /\ fetch[q].at \in {"sent", "answered"} /\ lost < MaxLost
  /\ fetch' = [fetch EXCEPT ![q] = [at |-> "error", val |-> None]]
  /\ lost' = lost + 1
  /\ UNCHANGED <<server, page, view, req>>

\* The page shows "Qayta urinish" for the order only.
refetch ==
  /\ fetch["order"].at = "error"
  /\ fetch' = Restarted({"order"})
  /\ UNCHANGED <<server, page, view, req, lost>>

\* The page that ignores the event.
onOrderUpdatedIgnored ==
  /\ pushed /\ pushed' = FALSE
  /\ UNCHANGED <<server, ready, socket, mapMounted, view, fetch, req, lost>>

onOrderUpdated ==
  /\ pushed /\ pushed' = FALSE
  /\ fetch' = Invalidated
  /\ UNCHANGED <<server, ready, socket, mapMounted, view, req, lost>>

-----------------------------------------------------------------------------
(* What the page offers, and the clicks.                                   *)

shown == view["order"] # None /\ fetch["order"].at # "error"
latestPayment == IF view["payments"] \in {None, << >>} THEN "none" ELSE Head(view["payments"])

\* A page that offers to cancel a job in progress.
offersCancelInProgress == view["order"] \in CANCELABLE \cup {"IN_PROGRESS"}

offersCancel == view["order"] \in CANCELABLE
offersConfirm == view["order"] = "COMPLETED"
offersPay == view["order"] \in PAYABLE_STATUSES /\ latestPayment \in {"none", "FAILED"}
offersReview == view["order"] = "CLOSED" /\ view["review"] # TRUE
offersClaim == view["order"] = "CLOSED" /\ view["claim"] \in {None, "none"}

offered(b) ==
  shown /\ CASE b = "cancel" -> offersCancel
             [] b = "confirm" -> offersConfirm
             [] b = "pay" -> offersPay
             [] b = "review" -> offersReview
             [] b = "claim" -> offersClaim

click(r, b) ==
  /\ req[r] = IdleRequest /\ offered(b)
  /\ b = "pay" => Len(pays) < MaxPayments
  /\ b \in DisabledWhileLoading => \A s \in Requests : req[s].button # b
  /\ req' = [req EXCEPT ![r] = [button |-> b, at |-> "sent"]]
  /\ UNCHANGED <<server, page, view, fetch, lost>>

\* Orders, payments, reviews and guarantee services: when they accept the call.
accepts(b) ==
  CASE b = "cancel" -> canTransition(status, "CANCELLED_BY_CUSTOMER")
    [] b = "confirm" -> canTransition(status, "CLOSED")
    [] b = "pay" -> /\ status \in PAYABLE_STATUSES
                    /\ \A i \in DOMAIN pays : pays[i] \notin ActivePayments
    [] b = "review" -> status = "CLOSED" /\ ~rated
    [] b = "claim" -> /\ status = "CLOSED" /\ claim = "none"
                      /\ \E i \in DOMAIN pays : pays[i] = "SUCCEEDED"

Answer(r, at) == req' = [req EXCEPT ![r].at = at]

serve(r) ==
  LET b == req[r].button IN
  /\ req[r].at = "sent"
  /\ \/ /\ ~accepts(b) /\ Answer(r, "refused") /\ UNCHANGED server
     \/ /\ accepts(b) /\ Answer(r, "ok")
        /\ status' = CASE b = "cancel" -> "CANCELLED_BY_CUSTOMER"
                       [] b = "confirm" -> "CLOSED" [] OTHER -> status
        /\ IF b = "pay" THEN \E p \in {"SUCCEEDED", "FAILED"} : pays' = <<p>> \o pays
                        ELSE pays' = pays
        /\ rated' = (rated \/ b = "review")
        /\ claim' = IF b = "claim" THEN "OPEN" ELSE claim
  /\ UNCHANGED <<page, view, fetch, lost>>

\* The answer does not arrive; a POST is not retried.
answerLost(r) ==
  /\ req[r].at \in {"ok", "refused"} /\ lost < MaxLost
  /\ Answer(r, "lost") /\ lost' = lost + 1
  /\ UNCHANGED <<server, page, view, fetch>>

\* handleCancel, handleConfirm, handlePay, handleSubmitReview and
\* handleFileGuaranteeClaim: refetch on success, show an error otherwise.
handled(r) ==
  LET b == req[r].button IN
  /\ req[r].at \in {"ok", "refused", "lost"}
  /\ fetch' = CASE req[r].at # "ok" -> fetch
                [] b \in {"cancel", "confirm"} -> Invalidated
                [] OTHER -> Restarted({IF b = "pay" THEN "payments" ELSE b})
  /\ req' = [req EXCEPT ![r] = IdleRequest]
  /\ UNCHANGED <<server, page, view, lost>>

-----------------------------------------------------------------------------
(* The rest of the system, as far as the page can see it.                  *)

\* Dispatch and the master move the order on; each of them emits order:updated
\* to the customer.
othersMove(to) ==
  /\ canTransition(status, to)
  /\ to \in {"ASSIGNED", "EXPIRED", "EN_ROUTE", "IN_PROGRESS", "COMPLETED",
             "CANCELLED_BY_MASTER"}
  /\ status' = to
  /\ emitOrderUpdated
  /\ UNCHANGED <<pays, rated, claim, ready, socket, mapMounted, view, fetch, req, lost>>

\* The administrator refunds a payment or decides a claim; the page gets no event.
adminActs ==
  /\ \/ /\ paid /\ pays' = [pays EXCEPT ![1] = "REFUNDED"] /\ claim' = claim
     \/ claim = "OPEN" /\ claim' = "DECIDED" /\ pays' = pays
  /\ UNCHANGED <<status, rated, page, view, fetch, req, lost>>

Browser == bootstrap \/ useSocketEvent \/ mountMap
Query(q) == useQuery(q) \/ serverReads(q) \/ fetched(q)
Request(r) == serve(r) \/ handled(r)

Next ==
  \/ Browser \/ handleConnection \/ onOrderUpdated
  \/ \E q \in Queries : Query(q)
  \/ \E r \in Requests : Request(r)
  \/ refetch
  \/ \E q \in Queries : fetchFails(q)
  \/ \E r \in Requests : answerLost(r) \/ \E b \in Buttons : click(r, b)
  \/ \E to \in OrderStatus : othersMove(to)
  \/ adminActs

\* Browser, network and server make progress; people need not.
Spec ==
  /\ Init /\ [][Next]_vars
  /\ WF_vars(Browser) /\ WF_vars(handleConnection) /\ WF_vars(onOrderUpdated)
  /\ \A q \in Queries : WF_vars(Query(q))
  /\ \A r \in Requests : WF_vars(Request(r))

-----------------------------------------------------------------------------
\* A button the page offers on a current view is one the server accepts: the
\* page's status lists agree with the transition table and the services'
\* checks.  (The guarantee form is shown for every closed order, although the
\* service also asks for a payment and a verified master.)
FreshOffersAccepted ==
  \A b \in Buttons \ {"claim"} :
    (offered(b) /\ \A q \in Queries : enabled(q) => view[q] = Server(q)) => accepts(b)

\* The page catches up with the order, whatever dispatch, the master and the
\* customer's own clicks do to it: every change is pushed or refetched.
PageCatchesUp == view["order"] # status ~> view["order"] = status

\* A payment that went through is eventually shown, so that the page stops
\* offering to pay.
PaymentShown == paid ~> (view["payments"] = pays \/ ~paid)

-----------------------------------------------------------------------------
(* What the theorems assume of the constants, and the inductive invariant. *)

PageAssumption ==
  /\ StartStatuses \subseteq OrderStatus /\ Navigated \in BOOLEAN
  /\ MaxPayments \in Nat /\ MaxLost \in Nat
  /\ None \notin Buttons /\ None \notin OrderStatus \cup Seq(PaymentStatus) \cup BOOLEAN

\* Only a restored session fetches, shows or clicks.
SignedIn ==
  /\ \A q \in Queries : view[q] # None \/ fetch[q].at # "idle" => ready
  /\ \A r \in Requests : req[r].at # "idle" => ready

\* One click pays at a time, and it has room for a payment.
OnePaying ==
  \A r \in Requests : req[r].button = "pay" =>
    /\ \A s \in Requests : req[s].button = "pay" => s = r
    /\ req[r].at = "sent" => Len(pays) < MaxPayments

\* Only the newest payment can be under way or through: a retry follows a failure.
NewestActive == \A i \in 2..Len(pays) : pays[i] \notin ActivePayments

PageInv ==
  /\ DOMAIN view = Queries /\ DOMAIN fetch = Queries
  /\ fetch["payments"].val # None => Len(fetch["payments"].val) <= Len(pays)
  /\ SignedIn /\ OnePaying /\ NewestActive
=============================================================================
