------------------------------ MODULE Payments ------------------------------
(***************************************************************************)
(* PaymentsService (modules/payments), with the payment rail it charges,   *)
(* the tax provider it records the withholding with, the referral reward   *)
(* of ReferralsService and the administrator's manual resolution.          *)
(*                                                                         *)
(* A request is cut at its awaits.  The creation transaction holds the     *)
(* order's row from its check to its insert; everything after it, from the *)
(* charge to the referrer's notification, is a chain of separate writes    *)
(* that a crash or an exception may cut anywhere.                          *)
(***************************************************************************)
EXTENDS Naturals, FiniteSets

CONSTANTS
  Orders,       \* order ids
  Customers,
  Payments,     \* payment ids
  Requests,     \* API requests that may be in flight at the same time
  Customer,     \* Customer[o]: orders.customerId
  MaxFailures,  \* bound on requests that die or throw midway
  None

PaymentStatus ==
  {"PENDING", "PROCESSING", "SUCCEEDED", "FAILED", "CANCELLED", "REFUNDED"}
ACTIVE_PAYMENT_STATUSES == {"PENDING", "PROCESSING", "SUCCEEDED"}
ReferralStatus == {"PENDING", "ACTIVE", "REWARDED"}
Notices == {"PAYMENT_SUCCEEDED", "PAYMENT_FAILED", "PAYMENT_RESOLVED",
            "REFERRAL_REWARDED"}

ASSUME PaymentsAssumption ==
  /\ Customer \in [Orders -> Customers]
  /\ MaxFailures \in Nat
  /\ None \notin Orders \cup Payments \cup Requests
  /\ None \notin PaymentStatus \cup ReferralStatus

VARIABLES
  payable,    \* orders that are COMPLETED or CLOSED with a final amount
  lock,       \* the request holding the order's row FOR UPDATE
  payOrder,   \* payments.orderId, None: no row
  status,     \* payments.status
  ref,        \* payments with a providerRef stored
  resolved,   \* payments with resolvedAt set
  charged,    \* payments whose money the rail has taken
  withheld,   \* recordWithholding calls made for the payment
  notices,    \* notifications created per payment and type
  referral,   \* referrals.status of the customer as a referee
  cashback,   \* cashback records of the customer's referral
  audited,    \* payments whose resolution is in the audit log
  exec,       \* requests in flight
  failures

rows == <<payOrder, status, ref, resolved>>
effects == <<withheld, notices, referral, cashback, audited>>
vars == <<payable, lock, payOrder, status, ref, resolved, charged, withheld,
          notices, referral, cashback, audited, exec, failures>>

Steps == {"create", "charge", "settle", "withhold", "notify", "findReferral",
          "reward", "cashback", "notifyReferrer", "resolve", "notifyResolved",
          "audit"}
Handler(at, o, p, arg) == [at |-> at, o |-> o, p |-> p, arg |-> arg]
Idle == Handler("idle", None, None, FALSE)

TypeOK ==
  /\ payable \subseteq Orders
  /\ lock \in [Orders -> Requests \cup {None}]
  /\ payOrder \in [Payments -> Orders \cup {None}]
  /\ status \in [Payments -> PaymentStatus \cup {None}]
  /\ ref \subseteq Payments /\ resolved \subseteq Payments
  /\ charged \subseteq Payments /\ audited \subseteq resolved
  /\ withheld \in [Payments -> 0..1]
  /\ notices \in [Payments -> [Notices -> Nat]]
  /\ referral \in [Customers -> ReferralStatus \cup {None}]
  /\ cashback \in [Customers -> Nat]
  /\ exec \in [Requests -> [at: Steps \cup {"idle"}, o: Orders \cup {None},
                            p: Payments \cup {None}, arg: BOOLEAN]]
  /\ failures \in 0..MaxFailures

\* A referee's account is verified before he can order, but the referral may
\* still be PENDING: activateOnVerify runs after the account was activated.
Init ==
  /\ payable = {}
  /\ lock = [o \in Orders |-> None]
  /\ payOrder = [p \in Payments |-> None]
  /\ status = [p \in Payments |-> None]
  /\ ref = {} /\ resolved = {} /\ charged = {} /\ audited = {}
  /\ withheld = [p \in Payments |-> 0]
  /\ notices = [p \in Payments |-> [n \in Notices |-> 0]]
  /\ referral \in [Customers -> {None, "PENDING", "ACTIVE"}]
  /\ cashback = [c \in Customers |-> 0]
  /\ exec = [r \in Requests |-> Idle]
  /\ failures = 0

PaymentsOf(o) == {p \in Payments : payOrder[p] = o}
CustomerOf(r) == Customer[exec[r].o]

At(r, step) == exec[r].at = step
Goto(r, step) == exec' = [exec EXCEPT ![r].at = step]
Return(r) == exec' = [exec EXCEPT ![r] = Idle]
Notify(r, n) == notices' = [notices EXCEPT ![exec[r].p][n] = @ + 1]

----------------------------------------------------------------------------
\* The job is completed and its price settled (OrdersService).
OrderPayable(o) ==
  /\ o \notin payable
  /\ payable' = payable \cup {o}
  /\ UNCHANGED <<lock, rows, charged, effects, exec, failures>>

NoActivePayment(o) ==
  \A p \in PaymentsOf(o) : status[p] \notin ACTIVE_PAYMENT_STATUSES

\* The bound on payments: an id is left for every request about to insert one.
PaymentLeft ==
  Cardinality({r \in Requests : At(r, "create")}) < Cardinality({p \in Payments : payOrder[p] = None})

\* Mutant: the check runs without SELECT ... FOR UPDATE.
initiateUnlocked(r, o) ==
  /\ exec[r] = Idle /\ o \in payable /\ PaymentLeft
  /\ NoActivePayment(o)
  /\ exec' = [exec EXCEPT ![r] = Handler("create", o, None, FALSE)]
  /\ UNCHANGED <<payable, lock, rows, charged, effects, failures>>

\* The transaction locks the order's row and looks for an active payment.
initiate(r, o) ==
  /\ exec[r] = Idle /\ o \in payable /\ lock[o] = None /\ PaymentLeft
  /\ NoActivePayment(o)
  /\ lock' = [lock EXCEPT ![o] = r]
  /\ exec' = [exec EXCEPT ![r] = Handler("create", o, None, FALSE)]
  /\ UNCHANGED <<payable, rows, charged, effects, failures>>

\* It inserts the payment as PROCESSING and commits.
createPayment(r, p) ==
  LET o == exec[r].o IN
  /\ At(r, "create") /\ payOrder[p] = None
  /\ payOrder' = [payOrder EXCEPT ![p] = o]
  /\ status' = [status EXCEPT ![p] = "PROCESSING"]
  /\ lock' = [lock EXCEPT ![o] = None]
  /\ exec' = [exec EXCEPT ![r] = Handler("charge", o, p, FALSE)]
  /\ UNCHANGED <<payable, ref, resolved, charged, effects, failures>>

\* The rail takes the money, or refuses.
charge(r, success) ==
  /\ At(r, "charge")
  /\ charged' = IF success THEN charged \cup {exec[r].p} ELSE charged
  /\ exec' = [exec EXCEPT ![r] = Handler("settle", exec[r].o, exec[r].p, success)]
  /\ UNCHANGED <<payable, lock, rows, effects, failures>>

\* The rail calls back, with the outcome it reported or will report.  The row
\* is looked up by a providerRef that only settle stores.
handleWebhook(r, p) ==
  /\ exec[r] = Idle /\ payOrder[p] # None
  /\ IF p \in ref /\ status[p] = "PROCESSING"
     THEN exec' = [exec EXCEPT ![r] = Handler("settle", payOrder[p], p, p \in charged)]
     ELSE UNCHANGED exec
  /\ UNCHANGED <<payable, lock, rows, charged, effects, failures>>

\* Mutant: the outcome is taken for a success whatever the rail said.
settleAlwaysPaid(r) ==
  LET p == exec[r].p IN
  /\ At(r, "settle")
  /\ status' = [status EXCEPT ![p] = "SUCCEEDED"]
  /\ ref' = ref \cup {p}
  /\ Goto(r, "withhold")
  /\ UNCHANGED <<payable, lock, payOrder, resolved, charged, effects, failures>>

\* Mutant: the tax provider is forgotten.
settleWithoutTax(r) ==
  LET p == exec[r].p IN
  /\ At(r, "settle")
  /\ status' = [status EXCEPT ![p] = IF exec[r].arg THEN "SUCCEEDED" ELSE "FAILED"]
  /\ ref' = ref \cup {p}
  /\ Goto(r, "notify")
  /\ UNCHANGED <<payable, lock, payOrder, resolved, charged, effects, failures>>

\* The outcome is written, whatever the row has become.
settle(r) ==
  LET p == exec[r].p IN
  /\ At(r, "settle")
  /\ status' = [status EXCEPT ![p] = IF exec[r].arg THEN "SUCCEEDED" ELSE "FAILED"]
  /\ ref' = ref \cup {p}
  /\ Goto(r, IF exec[r].arg THEN "withhold" ELSE "notify")
  /\ UNCHANGED <<payable, lock, payOrder, resolved, charged, effects, failures>>

recordWithholding(r) ==
  /\ At(r, "withhold")
  /\ withheld' = [withheld EXCEPT ![exec[r].p] = @ + 1]
  /\ Goto(r, "notify")
  /\ UNCHANGED <<payable, lock, rows, charged, notices, referral, cashback,
                 audited, failures>>

\* The customer is told the outcome.
notifyOutcome(r) ==
  /\ At(r, "notify")
  /\ Notify(r, IF exec[r].arg THEN "PAYMENT_SUCCEEDED" ELSE "PAYMENT_FAILED")
  /\ IF exec[r].arg THEN Goto(r, "findReferral") ELSE Return(r)
  /\ UNCHANGED <<payable, lock, rows, charged, withheld, referral, cashback,
                 audited, failures>>

\* rewardOnFirstPayment reads the referral, ...
findReferral(r) ==
  /\ At(r, "findReferral")
  /\ IF referral[CustomerOf(r)] = "ACTIVE" THEN Goto(r, "reward") ELSE Return(r)
  /\ UNCHANGED <<payable, lock, rows, charged, effects, failures>>

\* Mutant: update({ where: { id } }) instead of the guarded updateMany.
markRewardedUnguarded(r) ==
  /\ At(r, "reward")
  /\ referral' = [referral EXCEPT ![CustomerOf(r)] = "REWARDED"]
  /\ Goto(r, "cashback")
  /\ UNCHANGED <<payable, lock, rows, charged, withheld, notices, cashback,
                 audited, failures>>

\* ... marks it REWARDED if it is still ACTIVE, ...
markRewarded(r) ==
  /\ At(r, "reward")
  /\ IF referral[CustomerOf(r)] = "ACTIVE"
     THEN /\ referral' = [referral EXCEPT ![CustomerOf(r)] = "REWARDED"]
          /\ Goto(r, "cashback")
     ELSE UNCHANGED referral /\ Return(r)
  /\ UNCHANGED <<payable, lock, rows, charged, withheld, notices, cashback,
                 audited, failures>>

\* ... and creates the referrer's cashback record.
createCashback(r) ==
  /\ At(r, "cashback")
  /\ cashback' = [cashback EXCEPT ![CustomerOf(r)] = @ + 1]
  /\ Goto(r, "notifyReferrer")
  /\ UNCHANGED <<payable, lock, rows, charged, withheld, notices, referral,
                 audited, failures>>

notifyReferrer(r) ==
  /\ At(r, "notifyReferrer")
  /\ Notify(r, "REFERRAL_REWARDED")
  /\ Return(r)
  /\ UNCHANGED <<payable, lock, rows, charged, withheld, referral, cashback,
                 audited, failures>>

\* An administrator resolves a payment: reads and checks, ...
resolveRead(r, p, refund) ==
  /\ exec[r] = Idle /\ payOrder[p] # None /\ p \notin resolved
  /\ refund => status[p] = "SUCCEEDED"
  /\ exec' = [exec EXCEPT ![r] = Handler("resolve", payOrder[p], p, refund)]
  /\ UNCHANGED <<payable, lock, rows, charged, effects, failures>>

\* Mutant: resolvedAt is not written.
resolveNotStamped(r) ==
  LET p == exec[r].p IN
  /\ At(r, "resolve")
  /\ status' = IF exec[r].arg THEN [status EXCEPT ![p] = "REFUNDED"] ELSE status
  /\ Goto(r, "notifyResolved")
  /\ UNCHANGED <<payable, lock, payOrder, ref, resolved, charged, effects, failures>>

\* ... writes if nobody has resolved it meanwhile, ...
resolve(r) ==
  LET p == exec[r].p IN
  /\ At(r, "resolve")
  /\ IF p \in resolved
     THEN UNCHANGED <<resolved, status>> /\ Return(r)
     ELSE /\ resolved' = resolved \cup {p}
          /\ status' = IF exec[r].arg THEN [status EXCEPT ![p] = "REFUNDED"] ELSE status
          /\ Goto(r, "notifyResolved")
  /\ UNCHANGED <<payable, lock, payOrder, ref, charged, effects, failures>>

notifyResolved(r) ==
  /\ At(r, "notifyResolved")
  /\ Notify(r, "PAYMENT_RESOLVED")
  /\ Goto(r, "audit")
  /\ UNCHANGED <<payable, lock, rows, charged, withheld, referral, cashback,
                 audited, failures>>

\* ... and the controller records it in the audit log.
auditResolve(r) ==
  /\ At(r, "audit")
  /\ audited' = audited \cup {exec[r].p}
  /\ Return(r)
  /\ UNCHANGED <<payable, lock, rows, charged, withheld, notices, referral,
                 cashback, failures>>

\* A request dies, or a call it makes throws (SoliqTaxProvider always does): a
\* transaction that is open rolls back, nothing else is undone.
RequestFails(r) ==
  /\ exec[r] # Idle /\ failures < MaxFailures
  /\ failures' = failures + 1
  /\ Return(r)
  /\ lock' = [o \in Orders |-> IF lock[o] = r THEN None ELSE lock[o]]
  /\ UNCHANGED <<payable, rows, charged, effects>>

Continue(r) ==
  \/ \E p \in Payments : createPayment(r, p)
  \/ \E success \in BOOLEAN : charge(r, success)
  \/ settle(r) \/ recordWithholding(r) \/ notifyOutcome(r)
  \/ findReferral(r) \/ markRewarded(r) \/ createCashback(r) \/ notifyReferrer(r)
  \/ resolve(r) \/ notifyResolved(r) \/ auditResolve(r)

Next ==
  \/ \E o \in Orders : OrderPayable(o)
  \/ \E r \in Requests :
       \/ Continue(r) \/ RequestFails(r)
       \/ \E o \in Orders : initiate(r, o)
       \/ \E p \in Payments :
            handleWebhook(r, p) \/ \E refund \in BOOLEAN : resolveRead(r, p, refund)

\* The event loop resumes every request whose await has completed, and the rail
\* repeats its callbacks.
Spec ==
  /\ Init /\ [][Next]_vars
  /\ \A r \in Requests : WF_vars(Continue(r))
  /\ \A r \in Requests, p \in Payments : WF_vars(handleWebhook(r, p))
----------------------------------------------------------------------------
\* The rows of an order as OrderPayment sees them.
stateOf(o) ==
  IF \E p \in PaymentsOf(o) : status[p] = "SUCCEEDED" THEN "paid"
  ELSE IF \E p \in PaymentsOf(o) : status[p] = "PROCESSING" THEN "charging"
  ELSE "unpaid"

Abstract == INSTANCE OrderPayment WITH
  state <- [o \in Orders |-> stateOf(o)],
  taken <- {o \in Orders : \E p \in PaymentsOf(o) :
              p \in charged /\ status[p] # "REFUNDED"}

\* Whatever overlaps, fails midway or is resolved by hand, the payment rows and
\* the rail together behave as one payment per order that is begun, taken,
\* settled by what the rail did and undone only by a refund (initiate, settle,
\* resolve).
ImplementsOrderPayment == Abstract!Spec

\* The payments of an order that getMasterEarnings sums and counts.
getMasterEarnings(o) == Cardinality({p \in PaymentsOf(o) : status[p] = "SUCCEEDED"})

\* A double tap on "pay now" never takes the money of an order twice: of the
\* payments of an order at most one has been charged and not refunded, and the
\* master's earnings count the order at most once (initiate's lock,
\* getMasterEarnings).
NoDoubleCharge ==
  \A o \in Orders :
    /\ Cardinality({p \in PaymentsOf(o) : p \in charged /\ status[p] # "REFUNDED"}) <= 1
    /\ getMasterEarnings(o) <= 1

\* However many of a referee's payments settle at once, the referrer gets at
\* most one cashback record, and only for a referral that is closed; no
\* customer is told twice, or told both outcomes, of one payment; and two
\* administrators resolving it at once are not both told they did
\* (rewardOnFirstPayment, settle, resolve).
SettledOnce ==
  /\ \A c \in Customers : cashback[c] <= 1 /\ (cashback[c] = 1 => referral[c] = "REWARDED")
  /\ \A p \in Payments :
       /\ \A n \in Notices : notices[p][n] <= 1
       /\ notices[p]["PAYMENT_SUCCEEDED"] + notices[p]["PAYMENT_FAILED"] <= 1

\* When nothing fails, the books come to be complete, again and again: every
\* successful payment has its withholding, the customer's notice and no open
\* referral left, and every resolution its audit entry (settle,
\* AdminPaymentsController.resolve).
BooksComplete ==
  /\ \A p \in Payments : status[p] = "SUCCEEDED" =>
       /\ withheld[p] = 1 /\ notices[p]["PAYMENT_SUCCEEDED"] = 1
       /\ referral[Customer[payOrder[p]]] # "ACTIVE"
  /\ resolved \subseteq audited
SettlementCompletes == [](failures = 0) => []<>BooksComplete

\* A referral that was closed as rewarded has its cashback record, or is about
\* to get it ("Rewards the referrer exactly once per referral").
RewardIsPaid == \A c \in Customers : referral[c] = "REWARDED" ~> cashback[c] = 1

\* A payment whose money was taken does not stay PROCESSING for good ("so a
\* payment issue isn't a dead end").
ChargeIsSettled ==
  \A p \in Payments : p \in charged ~> status[p] \in {"SUCCEEDED", "REFUNDED"}
----------------------------------------------------------------------------
\* The inductive invariant of the safety proofs (PaymentsProofs).

\* From the charge to the referrer's notification: the request that settles.
Settling == {"charge", "settle", "withhold", "notify", "findReferral", "reward",
             "cashback", "notifyReferrer"}
Untold == {"charge", "settle", "withhold", "notify"}
Resolving == {"notifyResolved", "audit"}
outcomes == {"PAYMENT_SUCCEEDED", "PAYMENT_FAILED"}

\* What a request knows at each await: the transaction that is about to insert
\* holds the order's row, and nothing the request read and still relies on has
\* changed under it.
HandlerOK(r) ==
  LET e == exec[r]  p == exec[r].p IN
  \/ e = Idle
  \/ /\ e.at = "create" /\ e.o \in Orders /\ p = None
     /\ lock[e.o] = r /\ NoActivePayment(e.o)
  \/ /\ e.at \in Steps \ {"create"} /\ e.o \in Orders /\ p \in Payments
     /\ payOrder[p] = e.o
     /\ e.at \in {"charge", "settle"} => status[p] = "PROCESSING"
     /\ e.at = "charge" => p \notin charged
     /\ e.at = "settle" => (e.arg <=> p \in charged)
     /\ e.at = "withhold" => withheld[p] = 0
     /\ e.at \in Settling \ {"charge", "settle"} => status[p] # "PROCESSING"
     /\ e.at \in Untold => \A n \in outcomes : notices[p][n] = 0
     /\ e.at \in Settling => notices[p]["REFERRAL_REWARDED"] = 0
     /\ e.at = "cashback" => referral[Customer[e.o]] = "REWARDED" /\ cashback[Customer[e.o]] = 0
     /\ e.at = "resolve" /\ e.arg /\ p \notin resolved => status[p] = "SUCCEEDED"
     /\ e.at \in Resolving => p \in resolved
     /\ e.at = "notifyResolved" => notices[p]["PAYMENT_RESOLVED"] = 0

\* A payment is settled by one request, and its resolution written by one; the
\* reward of a referral is paid out by one.
OneSettling ==
  \A r, q \in Requests : r # q =>
    /\ exec[r].at \in Settling /\ exec[q].at \in Settling => exec[r].p # exec[q].p
    /\ exec[r].at \in Resolving /\ exec[q].at \in Resolving => exec[r].p # exec[q].p
    /\ exec[r].at = "cashback" /\ exec[q].at = "cashback" => CustomerOf(r) # CustomerOf(q)

\* A payment's row, the rail and what was sent for it belong together.
RowOK(p) ==
  /\ payOrder[p] = None <=> status[p] = None
  /\ status[p] \notin {"PENDING", "CANCELLED"}
  /\ status[p] = None => p \notin charged \cup resolved
  /\ status[p] \in {None, "PROCESSING"} =>
       /\ p \notin ref /\ withheld[p] = 0
       /\ \A n \in Notices \ {"PAYMENT_RESOLVED"} : notices[p][n] = 0
  /\ status[p] \in {"SUCCEEDED", "REFUNDED"} => p \in charged
  /\ status[p] = "FAILED" => p \notin charged
  /\ status[p] = "REFUNDED" => p \in resolved
  /\ p \notin resolved => notices[p]["PAYMENT_RESOLVED"] = 0
  /\ \A n \in Notices : notices[p][n] <= 1
  /\ notices[p]["PAYMENT_SUCCEEDED"] = 0 \/ notices[p]["PAYMENT_FAILED"] = 0

\* An order has one active payment: what the row lock of initiate is for.
OneActive ==
  \A p, q \in Payments :
    /\ payOrder[p] = payOrder[q] /\ payOrder[p] # None
    /\ status[p] \in ACTIVE_PAYMENT_STATUSES /\ status[q] \in ACTIVE_PAYMENT_STATUSES
    => p = q

RewardOK(c) == cashback[c] <= 1 /\ (referral[c] # "REWARDED" => cashback[c] = 0)

PaymentsInv ==
  /\ \A r \in Requests : HandlerOK(r)
  /\ \A p \in Payments : RowOK(p)
  /\ \A c \in Customers : RewardOK(c)
  /\ OneSettling
  /\ OneActive
=============================================================================
