---------------------------- MODULE PaymentsProofs ----------------------------
(***************************************************************************)
(* Payments, for any orders, customers, payments and requests in flight    *)
(* and any number of failures: the types, that the money of an order is    *)
(* taken once and settled once, and that the service implements            *)
(* OrderPayment.                                                           *)
(***************************************************************************)
EXTENDS Payments, FiniteSetTheorems, TLAPS

Handlers == [at: Steps \cup {"idle"}, o: Orders \cup {None},
             p: Payments \cup {None}, arg: BOOLEAN]

USE DEF rows, effects

\* The first states have the types, and no payment.
LEMMA InitOK == Init => TypeOK /\ PaymentsInv
<1> SUFFICES ASSUME Init PROVE TypeOK /\ PaymentsInv OBVIOUS
<1>1. TypeOK
  BY PaymentsAssumption DEF Init, TypeOK, Idle, Handler, ReferralStatus, Notices
<1>2. ASSUME NEW r \in Requests PROVE HandlerOK(r) /\ exec[r].at = "idle"
  BY DEF Init, HandlerOK, Idle, Handler
<1>3. ASSUME NEW p \in Payments PROVE RowOK(p)
  <2>1. /\ payOrder[p] = None /\ status[p] = None /\ withheld[p] = 0
        /\ p \notin ref \cup resolved \cup charged
        /\ \A n \in Notices : notices[p][n] = 0
    BY DEF Init
  <2> QED BY <2>1, PaymentsAssumption DEF RowOK, PaymentStatus, Notices
<1>4. ASSUME NEW c \in Customers PROVE RewardOK(c)
  BY DEF Init, RewardOK
<1>5. OneSettling
  BY <1>2 DEF OneSettling, Settling, Resolving
<1>6. OneActive
  BY DEF Init, OneActive
<1> QED BY <1>1, <1>2, <1>3, <1>4, <1>5, <1>6 DEF PaymentsInv

-----------------------------------------------------------------------------
(* Requests in flight.                                                     *)

\* What Return, Goto and a new handler make of the requests in flight.
LEMMA HandlerSteps ==
  ASSUME TypeOK, NEW r \in Requests
  PROVE  /\ Idle \in Handlers /\ Idle.at = "idle" /\ Idle.p = None
         /\ \A h \in Handlers : exec' = [exec EXCEPT ![r] = h] =>
              /\ exec' \in [Requests -> Handlers] /\ exec'[r] = h
              /\ \A q \in Requests : q # r => exec'[q] = exec[q]
         /\ Return(r) =>
              /\ exec' \in [Requests -> Handlers] /\ exec'[r] = Idle
              /\ \A q \in Requests : q # r => exec'[q] = exec[q]
         /\ \A at \in Steps : Goto(r, at) =>
              /\ exec' \in [Requests -> Handlers]
              /\ exec'[r] = Handler(at, exec[r].o, exec[r].p, exec[r].arg)
              /\ \A q \in Requests : q # r => exec'[q] = exec[q]
<1>1. exec \in [Requests -> Handlers] /\ Idle \in Handlers /\ Idle.at = "idle" /\ Idle.p = None
  BY DEF TypeOK, Handlers, Idle, Handler
<1>2. ASSUME NEW at \in Steps, Goto(r, at)
      PROVE  /\ exec' \in [Requests -> Handlers]
             /\ exec'[r] = Handler(at, exec[r].o, exec[r].p, exec[r].arg)
             /\ \A q \in Requests : q # r => exec'[q] = exec[q]
  BY <1>1, <1>2 DEF Goto, Handlers, Handler
<1> QED BY <1>1, <1>2 DEF Return

-----------------------------------------------------------------------------
(* The transaction that creates a payment.                                 *)

USE DEF At

LEMMA InitiateKeeps ==
  ASSUME TypeOK, PaymentsInv, NEW r \in Requests, NEW o \in Orders, initiate(r, o)
  PROVE  TypeOK' /\ PaymentsInv'
<1> DEFINE h == Handler("create", o, None, FALSE)
<1>1. h \in Handlers /\ h.at = "create" /\ h.o = o /\ h.p = None
  BY DEF Handlers, Handler, Steps
<1>2. /\ exec' \in [Requests -> Handlers] /\ exec'[r] = h
      /\ \A q \in Requests : q # r => exec'[q] = exec[q]
  BY <1>1, HandlerSteps DEF initiate
<1> HIDE DEF h
<1>3. TypeOK'
  BY <1>2 DEF TypeOK, initiate, Handlers
<1>4. ASSUME NEW q \in Requests PROVE HandlerOK(q)'
  <2>1. CASE q = r
    BY <2>1, <1>1, <1>2 DEF HandlerOK, initiate, NoActivePayment, PaymentsOf, TypeOK
  <2>2. CASE q # r
    BY <2>2, <1>2, PaymentsAssumption DEF PaymentsInv, HandlerOK, initiate, NoActivePayment, PaymentsOf, TypeOK
  <2> QED BY <2>1, <2>2
<1>5. /\ \A p \in Payments : RowOK(p)'
      /\ \A c \in Customers : RewardOK(c)'
      /\ OneActive'
  BY DEF PaymentsInv, RowOK, RewardOK, OneActive, initiate
<1>6. OneSettling'
  BY <1>1, <1>2 DEF PaymentsInv, OneSettling, Settling, Resolving, CustomerOf
<1> QED BY <1>3, <1>4, <1>5, <1>6 DEF PaymentsInv

LEMMA CreateKeeps ==
  ASSUME TypeOK, PaymentsInv, NEW r \in Requests, NEW p \in Payments, createPayment(r, p)
  PROVE  TypeOK' /\ PaymentsInv'
<1> DEFINE o == exec[r].o
           h == Handler("charge", o, p, FALSE)
<1>1. o \in Orders /\ lock[o] = r /\ NoActivePayment(o) /\ o # None
  BY PaymentsAssumption DEF createPayment, PaymentsInv, HandlerOK, Idle, Handler
<1>2. h \in Handlers /\ h.at = "charge" /\ h.o = o /\ h.p = p
  BY <1>1 DEF Handlers, Handler, Steps
<1>3. /\ exec' \in [Requests -> Handlers] /\ exec'[r] = h
      /\ \A q \in Requests : q # r => exec'[q] = exec[q]
  BY <1>2, HandlerSteps DEF createPayment
<1>4. /\ payOrder[p] = None /\ status[p] = None /\ RowOK(p) /\ None # "PROCESSING"
      /\ payOrder' = [payOrder EXCEPT ![p] = o]
      /\ status' = [status EXCEPT ![p] = "PROCESSING"] /\ lock' = [lock EXCEPT ![o] = None]
      /\ UNCHANGED <<payable, ref, resolved, charged, effects, failures>>
  BY PaymentsAssumption DEF createPayment, PaymentsInv, RowOK, PaymentStatus
<1> HIDE DEF h, o
<1>5. TypeOK'
  BY <1>1, <1>3, <1>4 DEF TypeOK, Handlers, PaymentStatus
<1>6. ASSUME NEW q \in Requests PROVE HandlerOK(q)'
  <2>1. CASE q = r
    BY <2>1, <1>1, <1>2, <1>3, <1>4 DEF HandlerOK, Handler, TypeOK, RowOK, Notices, outcomes,
       Steps, Settling, Resolving, Untold, h
  <2>2. CASE q # r
    <3>1. exec[q].p # p
      BY <1>4, PaymentsAssumption DEF PaymentsInv, HandlerOK, Idle, Handler
    <3> QED BY <2>2, <3>1, <1>1, <1>3, <1>4, PaymentsAssumption
            DEF PaymentsInv, HandlerOK, NoActivePayment, PaymentsOf, TypeOK
  <2> QED BY <2>1, <2>2
<1>7. ASSUME NEW q \in Payments PROVE RowOK(q)'
  BY <1>1, <1>4 DEF PaymentsInv, RowOK, TypeOK
<1>8. \A c \in Customers : RewardOK(c)'
  BY <1>4 DEF PaymentsInv, RewardOK
<1>9. OneSettling'
  <2>1. \A q \in Requests : exec[q].p # p
    BY <1>4, PaymentsAssumption DEF PaymentsInv, HandlerOK, Idle, Handler
  <2> QED BY <2>1, <1>2, <1>3 DEF PaymentsInv, OneSettling, Resolving, CustomerOf
<1>10. OneActive'
  BY <1>1, <1>4 DEF PaymentsInv, OneActive, NoActivePayment, PaymentsOf, TypeOK
<1> QED BY <1>5, <1>6, <1>7, <1>8, <1>9, <1>10 DEF PaymentsInv

-----------------------------------------------------------------------------
(* The settlement.                                                         *)

LEMMA ChargeKeeps ==
  ASSUME TypeOK, PaymentsInv, NEW r \in Requests, NEW success \in BOOLEAN, charge(r, success)
  PROVE  TypeOK' /\ PaymentsInv'
<1> DEFINE p == exec[r].p
           h == Handler("settle", exec[r].o, p, success)
<1>1. /\ exec[r].o \in Orders /\ p \in Payments /\ payOrder[p] = exec[r].o
      /\ status[p] = "PROCESSING" /\ p \notin charged
      /\ \A n \in outcomes \cup {"REFERRAL_REWARDED"} : notices[p][n] = 0
  BY DEF charge, PaymentsInv, HandlerOK, Idle, Handler, Settling, Untold
<1>2. h \in Handlers /\ h.at = "settle" /\ h.o = exec[r].o /\ h.p = p /\ h.arg = success
  BY <1>1 DEF Handlers, Handler, Steps
<1>3. /\ exec' \in [Requests -> Handlers] /\ exec'[r] = h
      /\ \A q \in Requests : q # r => exec'[q] = exec[q]
  BY <1>2, HandlerSteps DEF charge
<1>4. /\ charged' = IF success THEN charged \cup {p} ELSE charged
      /\ UNCHANGED <<payable, lock, rows, effects, failures>>
  BY DEF charge
<1>5. TypeOK'
  BY <1>1, <1>3, <1>4 DEF TypeOK, Handlers
<1>6. \A q \in Requests : q # r /\ exec[q].at \in Settling => exec[q].p # p
  BY DEF charge, PaymentsInv, OneSettling, Settling
<1> HIDE DEF h, p
<1>7. ASSUME NEW q \in Requests PROVE HandlerOK(q)'
  <2>1. CASE q = r
    BY <2>1, <1>1, <1>2, <1>3, <1>4 DEF HandlerOK, Steps, Settling, Resolving, Untold
  <2>2. CASE q # r
    BY <2>2, <1>1, <1>3, <1>4, <1>6
       DEF PaymentsInv, HandlerOK, NoActivePayment, PaymentsOf, TypeOK, Settling
  <2> QED BY <2>1, <2>2
<1>8. ASSUME NEW q \in Payments PROVE RowOK(q)'
  BY <1>1, <1>4, PaymentsAssumption DEF PaymentsInv, RowOK, PaymentStatus
<1>9. (\A c \in Customers : RewardOK(c)') /\ OneActive'
  BY <1>4 DEF PaymentsInv, RewardOK, OneActive
<1>10. OneSettling'
  BY <1>2, <1>3, <1>6 DEF PaymentsInv, OneSettling, Resolving, CustomerOf
<1> QED BY <1>5, <1>7, <1>8, <1>9, <1>10 DEF PaymentsInv

\* What a settling request knows, and that it is alone with its payment.
LEMMA SettlingFacts ==
  ASSUME TypeOK, PaymentsInv, NEW r \in Requests, exec[r].at \in Settling
  PROVE  /\ exec[r].o \in Orders /\ exec[r].p \in Payments /\ payOrder[exec[r].p] = exec[r].o
         /\ exec[r].o # None /\ exec[r].p # None /\ exec[r].arg \in BOOLEAN
         /\ exec[r] \in Handlers /\ CustomerOf(r) \in Customers
         /\ status[exec[r].p] \in PaymentStatus /\ status[exec[r].p] # None
         /\ RowOK(exec[r].p)
         /\ \A q \in Requests : q # r /\ exec[q].at \in Settling => exec[q].p # exec[r].p
<1>1. /\ exec[r].o \in Orders /\ exec[r].p \in Payments /\ payOrder[exec[r].p] = exec[r].o
      /\ exec[r] \in Handlers /\ exec[r].arg \in BOOLEAN
  BY DEF PaymentsInv, HandlerOK, Idle, Handler, Settling, TypeOK, Handlers
<1>2. exec[r].o # None /\ exec[r].p # None /\ CustomerOf(r) \in Customers
  BY <1>1, PaymentsAssumption DEF CustomerOf
<1>3. RowOK(exec[r].p) /\ status[exec[r].p] \in PaymentStatus /\ status[exec[r].p] # None
  BY <1>1, <1>2, PaymentsAssumption DEF PaymentsInv, RowOK, TypeOK
<1>4. \A q \in Requests : q # r /\ exec[q].at \in Settling => exec[q].p # exec[r].p
  BY DEF PaymentsInv, OneSettling
<1> QED BY <1>1, <1>2, <1>3, <1>4

LEMMA SettleKeeps ==
  ASSUME TypeOK, PaymentsInv, NEW r \in Requests, settle(r)
  PROVE  TypeOK' /\ PaymentsInv'
<1> DEFINE p == exec[r].p
           to == IF exec[r].arg THEN "SUCCEEDED" ELSE "FAILED"
           at == IF exec[r].arg THEN "withhold" ELSE "notify"
<1>1. exec[r].at \in Settling /\ exec[r].at \in Untold
  BY DEF settle, Settling, Untold
<1>2. /\ status[p] = "PROCESSING" /\ (exec[r].arg <=> p \in charged)
      /\ withheld[p] = 0 /\ \A n \in outcomes \cup {"REFERRAL_REWARDED"} : notices[p][n] = 0
  <2>1. status[p] = "PROCESSING" /\ (exec[r].arg <=> p \in charged)
    BY DEF settle, PaymentsInv, HandlerOK, Idle, Handler
  <2> QED BY <2>1, <1>1, SettlingFacts DEF RowOK, outcomes, Notices
<1>3. to \in PaymentStatus /\ at \in Steps
  BY DEF PaymentStatus, Steps
<1>4. /\ exec' \in [Requests -> Handlers]
      /\ exec'[r] = Handler(at, exec[r].o, p, exec[r].arg)
      /\ \A q \in Requests : q # r => exec'[q] = exec[q]
  BY <1>3, HandlerSteps DEF settle
<1>5. /\ status' = [status EXCEPT ![p] = to] /\ ref' = ref \cup {p}
      /\ UNCHANGED <<payable, lock, payOrder, resolved, charged, effects, failures>>
  BY DEF settle
<1>6. p \in Payments
  BY <1>1, SettlingFacts
<1>7. TypeOK'
  BY <1>3, <1>4, <1>5, <1>6 DEF TypeOK, Handlers
<1>8. ASSUME NEW q \in Requests PROVE HandlerOK(q)'
  <2>1. CASE q = r
    BY <2>1, <1>1, <1>2, <1>4, <1>5, SettlingFacts
       DEF HandlerOK, Handler, Steps, Settling, Resolving, Untold, TypeOK
  <2>2. CASE q # r
    <3>1. exec'[q] = exec[q] /\ HandlerOK(q) /\ (exec[q].at \in Settling => exec[q].p # p)
      BY <2>2, <1>1, <1>4, SettlingFacts DEF PaymentsInv
    <3>2. exec[q].at = "create" /\ exec[q] # Idle => (NoActivePayment(exec[q].o))'
      BY <3>1, <1>2, <1>5, <1>6 DEF HandlerOK, NoActivePayment, PaymentsOf, TypeOK, ACTIVE_PAYMENT_STATUSES
    <3>3. exec[q].at = "resolve" /\ exec[q].arg /\ exec[q].p \notin resolved => exec[q].p # p
      BY <3>1, <1>2 DEF HandlerOK, Idle, Handler
    <3> HIDE DEF p, to
    <3> QED BY <3>1, <3>2, <3>3, <1>5, <1>6 DEF HandlerOK, TypeOK, Settling, Untold, Idle, Handler
  <2> QED BY <2>1, <2>2
<1>9. ASSUME NEW q \in Payments PROVE RowOK(q)'
  <2>1. to \in {"SUCCEEDED", "FAILED"} /\ to # None /\ (to = "SUCCEEDED" <=> p \in charged)
    BY <1>2, <1>3, PaymentsAssumption
  <2>2. RowOK(q) /\ RowOK(p) /\ payOrder[p] # None
    BY <1>1, SettlingFacts DEF PaymentsInv
  <2> HIDE DEF p, to
  <2>3. CASE q = p
    BY <2>1, <2>2, <2>3, <1>2, <1>5, <1>6 DEF RowOK, TypeOK
  <2>4. CASE q # p
    BY <2>2, <2>4, <1>5, <1>6 DEF RowOK, TypeOK
  <2> QED BY <2>3, <2>4
<1>10. \A c \in Customers : RewardOK(c)'
  BY <1>5 DEF PaymentsInv, RewardOK
<1>11. OneActive'
  BY <1>2, <1>5, <1>6 DEF PaymentsInv, OneActive, ACTIVE_PAYMENT_STATUSES, TypeOK
<1>12. OneSettling'
  BY <1>1, <1>4, SettlingFacts DEF PaymentsInv, OneSettling, Resolving, CustomerOf, Handler
<1> QED BY <1>7, <1>8, <1>9, <1>10, <1>11, <1>12 DEF PaymentsInv

LEMMA WithholdKeeps ==
  ASSUME TypeOK, PaymentsInv, NEW r \in Requests, recordWithholding(r)
  PROVE  TypeOK' /\ PaymentsInv'
<1> DEFINE p == exec[r].p
<1>1. exec[r].at \in Settling /\ exec[r].at \in Untold /\ exec[r].at \notin {"charge", "settle"}
  BY DEF recordWithholding, Settling, Untold
<1>2. /\ withheld[p] = 0 /\ status[p] # "PROCESSING" /\ \A n \in outcomes : notices[p][n] = 0
      /\ notices[p]["REFERRAL_REWARDED"] = 0
  BY <1>1 DEF recordWithholding, PaymentsInv, HandlerOK, Idle, Handler, Settling
<1>4. /\ exec' \in [Requests -> Handlers]
      /\ exec'[r] = Handler("notify", exec[r].o, p, exec[r].arg)
      /\ \A q \in Requests : q # r => exec'[q] = exec[q]
  BY HandlerSteps DEF recordWithholding, Steps
<1>5. /\ withheld' = [withheld EXCEPT ![p] = @ + 1]
      /\ UNCHANGED <<payable, lock, rows, charged, notices, referral, cashback, audited, failures>>
  BY DEF recordWithholding
<1>6. p \in Payments
  BY <1>1, SettlingFacts
<1>7. TypeOK'
  BY <1>2, <1>4, <1>5, <1>6 DEF TypeOK, Handlers
<1>8. ASSUME NEW q \in Requests PROVE HandlerOK(q)'
  <2>1. CASE q = r
    BY <2>1, <1>1, <1>2, <1>4, <1>5, SettlingFacts
       DEF HandlerOK, Handler, Steps, Settling, Resolving, Untold, TypeOK
  <2>2. CASE q # r
    BY <2>2, <1>1, <1>4, <1>5, <1>6, SettlingFacts
       DEF PaymentsInv, HandlerOK, NoActivePayment, PaymentsOf, TypeOK, Settling
  <2> QED BY <2>1, <2>2
<1>9. ASSUME NEW q \in Payments PROVE RowOK(q)'
  BY <1>1, <1>2, <1>5, <1>6, SettlingFacts DEF PaymentsInv, RowOK, TypeOK
<1>10. (\A c \in Customers : RewardOK(c)') /\ OneActive'
  BY <1>5 DEF PaymentsInv, RewardOK, OneActive
<1>12. OneSettling'
  BY <1>1, <1>4, SettlingFacts DEF PaymentsInv, OneSettling, Resolving, CustomerOf, Handler
<1> QED BY <1>7, <1>8, <1>9, <1>10, <1>12 DEF PaymentsInv

\* One more notification of a payment.
LEMMA NotifySteps ==
  ASSUME TypeOK, NEW r \in Requests, exec[r].p \in Payments, NEW n \in Notices, Notify(r, n)
  PROVE  /\ notices' \in [Payments -> [Notices -> Nat]]
         /\ notices'[exec[r].p][n] = notices[exec[r].p][n] + 1
         /\ \A k \in Notices : k # n => notices'[exec[r].p][k] = notices[exec[r].p][k]
         /\ \A q \in Payments : q # exec[r].p => notices'[q] = notices[q]
BY DEF TypeOK, Notify

LEMMA NotifyOutcomeKeeps ==
  ASSUME TypeOK, PaymentsInv, NEW r \in Requests, notifyOutcome(r)
  PROVE  TypeOK' /\ PaymentsInv'
<1> DEFINE p == exec[r].p
           n == IF exec[r].arg THEN "PAYMENT_SUCCEEDED" ELSE "PAYMENT_FAILED"
<1>1. exec[r].at \in Settling /\ exec[r].at \in Untold /\ exec[r].at \notin {"charge", "settle"}
  BY DEF notifyOutcome, Settling, Untold
<1>2. /\ status[p] # "PROCESSING" /\ \A k \in outcomes : notices[p][k] = 0
      /\ notices[p]["REFERRAL_REWARDED"] = 0
  BY <1>1 DEF PaymentsInv, HandlerOK, Idle, Handler, Settling
<1>3. p \in Payments /\ n \in Notices /\ n \in outcomes
  BY <1>1, SettlingFacts DEF Notices, outcomes
<1>4. /\ exec' \in [Requests -> Handlers]
      /\ \/ exec'[r] = Idle
         \/ exec'[r] = Handler("findReferral", exec[r].o, p, exec[r].arg)
      /\ \A q \in Requests : q # r => exec'[q] = exec[q]
  BY HandlerSteps DEF notifyOutcome, Steps
<1>5. /\ Notify(r, n)
      /\ UNCHANGED <<payable, lock, rows, charged, withheld, referral, cashback, audited, failures>>
  BY DEF notifyOutcome
<1> HIDE DEF p, n
<1>6. /\ notices' \in [Payments -> [Notices -> Nat]]
      /\ \A k \in Notices : notices'[p][k] = IF k = n THEN notices[p][k] + 1 ELSE notices[p][k]
      /\ \A q \in Payments : q # p => notices'[q] = notices[q]
  BY <1>3, <1>5, NotifySteps DEF p
<1>7. TypeOK'
  BY <1>4, <1>5, <1>6 DEF TypeOK, Handlers
<1>8. ASSUME NEW q \in Requests PROVE HandlerOK(q)'
  <2>1. CASE q = r
    <3>1. p = exec[r].p /\ notices'[p]["REFERRAL_REWARDED"] = 0
      BY <1>2, <1>3, <1>6 DEF Notices, outcomes, p
    <3> QED BY <2>1, <3>1, <1>1, <1>2, <1>4, <1>5, SettlingFacts
            DEF HandlerOK, Handler, Steps, Settling, Resolving, Untold, TypeOK
  <2>2. CASE q # r
    <3>1. /\ exec'[q] = exec[q] /\ HandlerOK(q)
          /\ exec[q].at \in Settling => exec[q].p # p
      BY <2>2, <1>1, <1>4, SettlingFacts DEF PaymentsInv, p
    <3>2. \A k \in Payments : notices'[k]["PAYMENT_RESOLVED"] = notices[k]["PAYMENT_RESOLVED"]
      BY <1>3, <1>6 DEF Notices, outcomes
    <3> QED BY <3>1, <3>2, <1>5, <1>6
            DEF HandlerOK, NoActivePayment, PaymentsOf, TypeOK, Settling, Untold
  <2> QED BY <2>1, <2>2
<1>9. ASSUME NEW q \in Payments PROVE RowOK(q)'
  <2>1. RowOK(q) /\ RowOK(p) /\ status[p] # None
    BY <1>1, SettlingFacts DEF PaymentsInv, p
  <2>2. CASE q = p
    BY <2>1, <2>2, <1>2, <1>3, <1>5, <1>6 DEF RowOK, TypeOK, Notices, outcomes
  <2>3. CASE q # p
    BY <2>1, <2>3, <1>5, <1>6 DEF RowOK, TypeOK
  <2> QED BY <2>2, <2>3
<1>10. (\A c \in Customers : RewardOK(c)') /\ OneActive'
  BY <1>5 DEF PaymentsInv, RewardOK, OneActive
<1>11. OneSettling'
  BY <1>1, <1>4, SettlingFacts DEF PaymentsInv, OneSettling, Resolving, CustomerOf, Handler, Idle, p
<1> QED BY <1>7, <1>8, <1>9, <1>10, <1>11 DEF PaymentsInv

-----------------------------------------------------------------------------
(* The referral.                                                           *)

LEMMA FindReferralKeeps ==
  ASSUME TypeOK, PaymentsInv, NEW r \in Requests, findReferral(r)
  PROVE  TypeOK' /\ PaymentsInv'
<1>1. exec[r].at \in Settling /\ exec[r].at \notin Untold
  BY DEF findReferral, Settling, Untold
<1>2. /\ exec' \in [Requests -> Handlers]
      /\ \/ exec'[r] = Idle
         \/ exec'[r] = Handler("reward", exec[r].o, exec[r].p, exec[r].arg)
      /\ \A q \in Requests : q # r => exec'[q] = exec[q]
  BY HandlerSteps DEF findReferral, Steps
<1>3. UNCHANGED <<payable, lock, rows, charged, effects, failures>>
  BY DEF findReferral
<1>4. TypeOK'
  BY <1>2, <1>3 DEF TypeOK, Handlers
<1>5. ASSUME NEW q \in Requests PROVE HandlerOK(q)'
  <2>1. CASE q = r
    BY <2>1, <1>1, <1>2, <1>3
       DEF findReferral, PaymentsInv, HandlerOK, Handler, Idle, Steps, Settling, Resolving, Untold
  <2>2. CASE q # r
    BY <2>2, <1>2, <1>3 DEF PaymentsInv, HandlerOK, NoActivePayment, PaymentsOf
  <2> QED BY <2>1, <2>2
<1>6. /\ \A p \in Payments : RowOK(p)'
      /\ \A c \in Customers : RewardOK(c)'
      /\ OneActive'
  BY <1>3 DEF PaymentsInv, RowOK, RewardOK, OneActive
<1>7. OneSettling'
  BY <1>1, <1>2, SettlingFacts DEF PaymentsInv, OneSettling, Resolving, CustomerOf, Handler, Idle
<1> QED BY <1>4, <1>5, <1>6, <1>7 DEF PaymentsInv

LEMMA RewardKeeps ==
  ASSUME TypeOK, PaymentsInv, NEW r \in Requests, markRewarded(r)
  PROVE  TypeOK' /\ PaymentsInv'
<1> DEFINE c == CustomerOf(r)
           due == referral[c] = "ACTIVE"
<1>1. exec[r].at \in Settling /\ exec[r].at \notin Untold /\ c \in Customers
  BY SettlingFacts DEF markRewarded, Settling, Untold
<1>2. /\ exec' \in [Requests -> Handlers]
      /\ exec'[r] = IF due THEN Handler("cashback", exec[r].o, exec[r].p, exec[r].arg) ELSE Idle
      /\ \A q \in Requests : q # r => exec'[q] = exec[q]
  BY HandlerSteps DEF markRewarded, Steps
<1>3. /\ referral' = IF due THEN [referral EXCEPT ![c] = "REWARDED"] ELSE referral
      /\ UNCHANGED <<payable, lock, rows, charged, withheld, notices, cashback, audited, failures>>
  BY DEF markRewarded
<1>4. due => cashback[c] = 0
  BY <1>1 DEF PaymentsInv, RewardOK
<1>5. TypeOK'
  BY <1>1, <1>2, <1>3 DEF TypeOK, Handlers, ReferralStatus
<1>6. ASSUME NEW q \in Requests PROVE HandlerOK(q)'
  <2>1. CASE q = r
    <3>1. CASE ~due
      BY <1>2, <2>1, <3>1 DEF HandlerOK
    <3>2. CASE due
      <4>1. exec'[r] = Handler("cashback", exec[r].o, exec[r].p, exec[r].arg)
        BY <1>2, <3>2
      <4>2. /\ exec[r].o \in Orders /\ exec[r].p \in Payments /\ payOrder[exec[r].p] = exec[r].o
            /\ status[exec[r].p] # "PROCESSING" /\ notices[exec[r].p]["REFERRAL_REWARDED"] = 0
        BY SettlingFacts DEF markRewarded, PaymentsInv, HandlerOK, Idle, Handler, Settling
      <4>3. referral'[Customer[exec[r].o]] = "REWARDED" /\ cashback'[Customer[exec[r].o]] = 0
        BY <1>1, <1>3, <1>4, <3>2 DEF TypeOK, CustomerOf
      <4> QED BY <1>3, <2>1, <4>1, <4>2, <4>3 DEF HandlerOK, Handler, Steps, Settling, Resolving, Untold
    <3> QED BY <3>1, <3>2
  <2>2. CASE q # r
    BY <2>2, <1>1, <1>2, <1>3 DEF PaymentsInv, HandlerOK, NoActivePayment, PaymentsOf, TypeOK
  <2> QED BY <2>1, <2>2
<1>7. (\A p \in Payments : RowOK(p)') /\ OneActive'
  BY <1>3 DEF PaymentsInv, RowOK, OneActive
<1>8. \A k \in Customers : RewardOK(k)'
  BY <1>1, <1>3, <1>4 DEF PaymentsInv, RewardOK, TypeOK
<1>9. OneSettling'
  <2>1. \A q \in Requests : due /\ exec[q].at = "cashback" => CustomerOf(q) # c
    BY <1>1 DEF PaymentsInv, HandlerOK, CustomerOf, Idle, Handler
  <2> QED BY <2>1, <1>1, <1>2, SettlingFacts
          DEF PaymentsInv, OneSettling, Resolving, CustomerOf, Handler, Idle
<1> QED BY <1>5, <1>6, <1>7, <1>8, <1>9 DEF PaymentsInv

LEMMA CashbackKeeps ==
  ASSUME TypeOK, PaymentsInv, NEW r \in Requests, createCashback(r)
  PROVE  TypeOK' /\ PaymentsInv'
<1> DEFINE c == CustomerOf(r)
<1>1. exec[r].at \in Settling /\ exec[r].at \notin Untold /\ c \in Customers
  BY SettlingFacts DEF createCashback, Settling, Untold
<1>2. /\ exec' \in [Requests -> Handlers]
      /\ exec'[r] = Handler("notifyReferrer", exec[r].o, exec[r].p, exec[r].arg)
      /\ \A q \in Requests : q # r => exec'[q] = exec[q]
  BY HandlerSteps DEF createCashback, Steps
<1>3. /\ cashback' = [cashback EXCEPT ![c] = @ + 1]
      /\ UNCHANGED <<payable, lock, rows, charged, withheld, notices, referral, audited, failures>>
  BY DEF createCashback
<1>4. referral[c] = "REWARDED" /\ cashback[c] = 0
  BY DEF createCashback, PaymentsInv, HandlerOK, Idle, Handler, CustomerOf
<1>5. TypeOK'
  BY <1>1, <1>2, <1>3 DEF TypeOK, Handlers
<1>6. ASSUME NEW q \in Requests PROVE HandlerOK(q)'
  <2>1. CASE q = r
    BY <2>1, <1>1, <1>2, <1>3
       DEF createCashback, PaymentsInv, HandlerOK, Handler, Idle, Steps, Settling, Resolving, Untold
  <2>2. CASE q # r
    <3>1. exec[q].at = "cashback" => CustomerOf(q) # c
      BY <2>2 DEF createCashback, PaymentsInv, OneSettling
    <3> QED BY <2>2, <3>1, <1>1, <1>2, <1>3
            DEF PaymentsInv, HandlerOK, NoActivePayment, PaymentsOf, TypeOK, CustomerOf
  <2> QED BY <2>1, <2>2
<1>7. (\A p \in Payments : RowOK(p)') /\ OneActive'
  BY <1>3 DEF PaymentsInv, RowOK, OneActive
<1>8. \A k \in Customers : RewardOK(k)'
  BY <1>1, <1>3, <1>4 DEF PaymentsInv, RewardOK, TypeOK
<1>9. OneSettling'
  BY <1>1, <1>2, SettlingFacts DEF PaymentsInv, OneSettling, Resolving, CustomerOf, Handler
<1> QED BY <1>5, <1>6, <1>7, <1>8, <1>9 DEF PaymentsInv

LEMMA NotifyReferrerKeeps ==
  ASSUME TypeOK, PaymentsInv, NEW r \in Requests, notifyReferrer(r)
  PROVE  TypeOK' /\ PaymentsInv'
<1> DEFINE p == exec[r].p
           n == "REFERRAL_REWARDED"
<1>1. /\ exec[r].at \in Settling /\ exec[r].at \notin {"charge", "settle"}
      /\ p \in Payments /\ n \in Notices /\ n \notin outcomes
  BY SettlingFacts DEF notifyReferrer, Settling, Notices, outcomes
<1>2. status[p] # "PROCESSING" /\ notices[p][n] = 0
  BY <1>1 DEF PaymentsInv, HandlerOK, Idle, Handler, Settling
<1>3. /\ exec' \in [Requests -> Handlers] /\ exec'[r] = Idle
      /\ \A q \in Requests : q # r => exec'[q] = exec[q]
  BY HandlerSteps DEF notifyReferrer
<1>4. /\ Notify(r, n)
      /\ UNCHANGED <<payable, lock, rows, charged, withheld, referral, cashback, audited, failures>>
  BY DEF notifyReferrer
<1> HIDE DEF p, n
<1>5. /\ notices' \in [Payments -> [Notices -> Nat]]
      /\ \A k \in Notices : notices'[p][k] = IF k = n THEN notices[p][k] + 1 ELSE notices[p][k]
      /\ \A q \in Payments : q # p => notices'[q] = notices[q]
  BY <1>1, <1>4, NotifySteps DEF p
<1>6. TypeOK'
  BY <1>3, <1>4, <1>5 DEF TypeOK, Handlers
<1>7. ASSUME NEW q \in Requests PROVE HandlerOK(q)'
  <2>1. CASE q = r
    BY <2>1, <1>3 DEF HandlerOK
  <2>2. CASE q # r
    <3>1. /\ exec'[q] = exec[q] /\ HandlerOK(q)
          /\ exec[q].at \in Settling => exec[q].p # p
      BY <2>2, <1>1, <1>3, SettlingFacts DEF PaymentsInv, p
    <3>2. \A k \in Payments : notices'[k]["PAYMENT_RESOLVED"] = notices[k]["PAYMENT_RESOLVED"]
      BY <1>1, <1>5 DEF Notices, n
    <3> QED BY <3>1, <3>2, <1>4, <1>5
            DEF HandlerOK, NoActivePayment, PaymentsOf, TypeOK, Settling, Untold
  <2> QED BY <2>1, <2>2
<1>8. ASSUME NEW q \in Payments PROVE RowOK(q)'
  <2>1. RowOK(q) /\ RowOK(p) /\ status[p] # None
    BY <1>1, SettlingFacts DEF PaymentsInv, p
  <2>2. CASE q = p
    BY <2>1, <2>2, <1>1, <1>2, <1>4, <1>5 DEF RowOK, TypeOK, Notices, n
  <2>3. CASE q # p
    BY <2>1, <2>3, <1>4, <1>5 DEF RowOK, TypeOK
  <2> QED BY <2>2, <2>3
<1>9. (\A c \in Customers : RewardOK(c)') /\ OneActive'
  BY <1>4 DEF PaymentsInv, RewardOK, OneActive
<1>10. OneSettling'
  BY <1>3 DEF PaymentsInv, OneSettling, Settling, Resolving, CustomerOf, Handler, Idle
<1> QED BY <1>6, <1>7, <1>8, <1>9, <1>10 DEF PaymentsInv

-----------------------------------------------------------------------------
(* The resolution by an administrator.                                     *)

LEMMA ResolveReadKeeps ==
  ASSUME TypeOK, PaymentsInv, NEW r \in Requests, NEW p \in Payments, NEW refund \in BOOLEAN,
         resolveRead(r, p, refund)
  PROVE  TypeOK' /\ PaymentsInv'
<1> DEFINE h == Handler("resolve", payOrder[p], p, refund)
<1>1. payOrder[p] \in Orders /\ (refund => status[p] = "SUCCEEDED")
  BY DEF resolveRead, TypeOK
<1>2. h \in Handlers /\ h.at = "resolve" /\ h.o = payOrder[p] /\ h.p = p /\ h.arg = refund
  BY <1>1 DEF Handlers, Handler, Steps
<1>3. /\ exec' \in [Requests -> Handlers] /\ exec'[r] = h
      /\ \A q \in Requests : q # r => exec'[q] = exec[q]
  BY <1>2, HandlerSteps DEF resolveRead
<1>4. UNCHANGED <<payable, lock, rows, charged, effects, failures>>
  BY DEF resolveRead
<1> HIDE DEF h
<1>5. TypeOK'
  BY <1>3, <1>4 DEF TypeOK, Handlers
<1>6. ASSUME NEW q \in Requests PROVE HandlerOK(q)'
  <2>1. CASE q = r
    BY <2>1, <1>1, <1>2, <1>3, <1>4 DEF HandlerOK, Steps, Settling, Resolving, Untold
  <2>2. CASE q # r
    BY <2>2, <1>3, <1>4 DEF PaymentsInv, HandlerOK, NoActivePayment, PaymentsOf
  <2> QED BY <2>1, <2>2
<1>7. /\ \A q \in Payments : RowOK(q)'
      /\ \A c \in Customers : RewardOK(c)'
      /\ OneActive'
  BY <1>4 DEF PaymentsInv, RowOK, RewardOK, OneActive
<1>8. OneSettling'
  BY <1>2, <1>3 DEF PaymentsInv, OneSettling, Settling, Resolving, CustomerOf
<1> QED BY <1>5, <1>6, <1>7, <1>8 DEF PaymentsInv

LEMMA ResolveKeeps ==
  ASSUME TypeOK, PaymentsInv, NEW r \in Requests, resolve(r)
  PROVE  TypeOK' /\ PaymentsInv'
<1> DEFINE p == exec[r].p
           late == p \in resolved
<1>1. /\ exec[r].o \in Orders /\ p \in Payments /\ payOrder[p] = exec[r].o
      /\ exec[r].arg /\ ~late => status[p] = "SUCCEEDED"
  BY DEF resolve, PaymentsInv, HandlerOK, Idle, Handler
<1>2. RowOK(p) /\ payOrder[p] # None /\ (~late => notices[p]["PAYMENT_RESOLVED"] = 0)
  BY <1>1, PaymentsAssumption DEF PaymentsInv, RowOK
<1>3. /\ exec' \in [Requests -> Handlers]
      /\ exec'[r] = IF late THEN Idle ELSE Handler("notifyResolved", exec[r].o, p, exec[r].arg)
      /\ \A q \in Requests : q # r => exec'[q] = exec[q]
  BY HandlerSteps DEF resolve, Steps
<1>4. /\ resolved' = resolved \cup {p}
      /\ status' = IF exec[r].arg /\ ~late THEN [status EXCEPT ![p] = "REFUNDED"] ELSE status
      /\ UNCHANGED <<payable, lock, payOrder, ref, charged, effects, failures>>
  BY DEF resolve
<1> HIDE DEF p, late
<1>5. TypeOK'
  BY <1>1, <1>3, <1>4 DEF TypeOK, Handlers, PaymentStatus
<1>6. ASSUME NEW q \in Requests PROVE HandlerOK(q)'
  <2>1. CASE q = r
    BY <2>1, <1>1, <1>2, <1>3, <1>4
       DEF HandlerOK, Handler, Steps, Settling, Resolving, Untold, p, late
  <2>2. CASE q # r
    <3>1. exec'[q] = exec[q] /\ HandlerOK(q)
      BY <2>2, <1>3 DEF PaymentsInv
    <3>2. exec[q].at = "create" /\ exec[q] # Idle => (NoActivePayment(exec[q].o))'
      BY <3>1, <1>1, <1>4 DEF HandlerOK, NoActivePayment, PaymentsOf, TypeOK, ACTIVE_PAYMENT_STATUSES
    <3> QED BY <3>1, <3>2, <1>1, <1>4 DEF HandlerOK, TypeOK, Settling, Resolving, Untold
  <2> QED BY <2>1, <2>2
<1>7. ASSUME NEW q \in Payments PROVE RowOK(q)'
  <2>1. RowOK(q)
    BY DEF PaymentsInv
  <2>2. "REFUNDED" # None /\ "REFUNDED" \in PaymentStatus
    BY PaymentsAssumption DEF PaymentStatus
  <2>3. CASE q = p
    BY <2>2, <2>3, <1>1, <1>2, <1>4 DEF RowOK, TypeOK, late
  <2>4. CASE q # p
    BY <2>1, <2>4, <1>1, <1>4 DEF RowOK, TypeOK
  <2> QED BY <2>3, <2>4
<1>8. (\A c \in Customers : RewardOK(c)') /\ OneActive'
  BY <1>1, <1>4 DEF PaymentsInv, RewardOK, OneActive, ACTIVE_PAYMENT_STATUSES, TypeOK
<1>9. OneSettling'
  <2>1. \A q \in Requests : exec[q].at \in Resolving /\ ~late => exec[q].p # p
    BY DEF PaymentsInv, HandlerOK, Resolving, Idle, Handler, late
  <2> QED BY <2>1, <1>3 DEF PaymentsInv, OneSettling, Settling, Resolving, CustomerOf, Handler, Idle
<1> QED BY <1>5, <1>6, <1>7, <1>8, <1>9 DEF PaymentsInv

LEMMA NotifyResolvedKeeps ==
  ASSUME TypeOK, PaymentsInv, NEW r \in Requests, notifyResolved(r)
  PROVE  TypeOK' /\ PaymentsInv'
<1> DEFINE p == exec[r].p
           n == "PAYMENT_RESOLVED"
<1>1. /\ exec[r].at \in Resolving /\ exec[r].o \in Orders /\ payOrder[p] = exec[r].o
      /\ p \in Payments /\ n \in Notices /\ n \notin outcomes
      /\ p \in resolved /\ notices[p][n] = 0
  BY DEF notifyResolved, PaymentsInv, HandlerOK, Idle, Handler, Resolving, Notices, outcomes
<1>2. /\ exec' \in [Requests -> Handlers]
      /\ exec'[r] = Handler("audit", exec[r].o, p, exec[r].arg)
      /\ \A q \in Requests : q # r => exec'[q] = exec[q]
  BY HandlerSteps DEF notifyResolved, Steps
<1>3. /\ Notify(r, n)
      /\ UNCHANGED <<payable, lock, rows, charged, withheld, referral, cashback, audited, failures>>
  BY DEF notifyResolved
<1>4. \A q \in Requests : q # r /\ exec[q].at \in Resolving => exec[q].p # p
  BY <1>1 DEF PaymentsInv, OneSettling
<1> HIDE DEF n
<1>5. /\ notices' \in [Payments -> [Notices -> Nat]]
      /\ \A k \in Notices : notices'[p][k] = IF k = n THEN notices[p][k] + 1 ELSE notices[p][k]
      /\ \A q \in Payments : q # p => notices'[q] = notices[q]
  BY <1>1, <1>3, NotifySteps
<1>6. TypeOK'
  BY <1>2, <1>3, <1>5 DEF TypeOK, Handlers
<1> HIDE DEF p
<1>7. ASSUME NEW q \in Requests PROVE HandlerOK(q)'
  <2>1. CASE q = r
    BY <2>1, <1>1, <1>2, <1>3 DEF HandlerOK, Handler, Steps, Settling, Resolving, Untold
  <2>2. CASE q # r
    <3>1. /\ exec'[q] = exec[q] /\ HandlerOK(q)
          /\ exec[q].at \in Resolving => exec[q].p # p
      BY <2>2, <1>2, <1>4 DEF PaymentsInv
    <3>2. \A k \in Payments, m \in Notices \ {n} : notices'[k][m] = notices[k][m]
      BY <1>1, <1>5
    <3> QED BY <3>1, <3>2, <1>3, <1>5
            DEF HandlerOK, NoActivePayment, PaymentsOf, TypeOK, Resolving, Notices, outcomes, n
  <2> QED BY <2>1, <2>2
<1>8. ASSUME NEW q \in Payments PROVE RowOK(q)'
  <2>1. RowOK(q)
    BY DEF PaymentsInv
  <2>2. CASE q = p
    BY <2>1, <2>2, <1>1, <1>3, <1>5 DEF RowOK, TypeOK, Notices, n
  <2>3. CASE q # p
    BY <2>1, <2>3, <1>3, <1>5 DEF RowOK, TypeOK
  <2> QED BY <2>2, <2>3
<1>9. (\A c \in Customers : RewardOK(c)') /\ OneActive'
  BY <1>3 DEF PaymentsInv, RewardOK, OneActive
<1>10. OneSettling'
  BY <1>1, <1>2, <1>4 DEF PaymentsInv, OneSettling, Settling, Resolving, CustomerOf, Handler
<1> QED BY <1>6, <1>7, <1>8, <1>9, <1>10 DEF PaymentsInv

LEMMA AuditKeeps ==
  ASSUME TypeOK, PaymentsInv, NEW r \in Requests, auditResolve(r)
  PROVE  TypeOK' /\ PaymentsInv'
<1>1. exec[r].p \in resolved
  BY DEF auditResolve, PaymentsInv, HandlerOK, Idle, Handler, Resolving
<1>2. /\ exec' \in [Requests -> Handlers] /\ exec'[r] = Idle
      /\ \A q \in Requests : q # r => exec'[q] = exec[q]
  BY HandlerSteps DEF auditResolve
<1>3. /\ audited' = audited \cup {exec[r].p}
      /\ UNCHANGED <<payable, lock, rows, charged, withheld, notices, referral, cashback, failures>>
  BY DEF auditResolve
<1>4. TypeOK'
  BY <1>1, <1>2, <1>3 DEF TypeOK, Handlers
<1>5. ASSUME NEW q \in Requests PROVE HandlerOK(q)'
  BY <1>2, <1>3 DEF PaymentsInv, HandlerOK, NoActivePayment, PaymentsOf
<1>6. /\ \A p \in Payments : RowOK(p)'
      /\ \A c \in Customers : RewardOK(c)'
      /\ OneActive'
  BY <1>3 DEF PaymentsInv, RowOK, RewardOK, OneActive
<1>7. OneSettling'
  BY <1>2 DEF PaymentsInv, OneSettling, Settling, Resolving, CustomerOf, Handler, Idle
<1> QED BY <1>4, <1>5, <1>6, <1>7 DEF PaymentsInv

-----------------------------------------------------------------------------
(* Callbacks, failures and orders that become payable.                     *)

\* A providerRef is stored by the write that ends PROCESSING, so a callback
\* never finds a payment it could settle.
LEMMA WebhookIdle ==
  ASSUME TypeOK, PaymentsInv, NEW r \in Requests, NEW p \in Payments, handleWebhook(r, p)
  PROVE  UNCHANGED vars
<1>1. ~(p \in ref /\ status[p] = "PROCESSING")
  BY DEF PaymentsInv, RowOK
<1> QED BY <1>1 DEF handleWebhook, vars

LEMMA FailureKeeps ==
  ASSUME TypeOK, PaymentsInv, NEW r \in Requests, RequestFails(r)
  PROVE  TypeOK' /\ PaymentsInv'
<1>1. /\ exec' \in [Requests -> Handlers] /\ exec'[r] = Idle
      /\ \A q \in Requests : q # r => exec'[q] = exec[q]
  BY HandlerSteps DEF RequestFails
<1>2. /\ lock' = [o \in Orders |-> IF lock[o] = r THEN None ELSE lock[o]]
      /\ UNCHANGED <<payable, rows, charged, effects>>
  BY DEF RequestFails
<1>3. TypeOK'
  <2>1. failures' \in 0..MaxFailures
    BY PaymentsAssumption DEF RequestFails, TypeOK
  <2> QED BY <1>1, <1>2, <2>1 DEF TypeOK, Handlers
<1>4. ASSUME NEW q \in Requests PROVE HandlerOK(q)'
  BY <1>1, <1>2 DEF PaymentsInv, HandlerOK, NoActivePayment, PaymentsOf
<1>5. /\ \A p \in Payments : RowOK(p)'
      /\ \A c \in Customers : RewardOK(c)'
      /\ OneActive'
  BY <1>2 DEF PaymentsInv, RowOK, RewardOK, OneActive
<1>6. OneSettling'
  BY <1>1 DEF PaymentsInv, OneSettling, Settling, Resolving, CustomerOf, Handler, Idle
<1> QED BY <1>3, <1>4, <1>5, <1>6 DEF PaymentsInv

LEMMA PayableKeeps ==
  ASSUME TypeOK, PaymentsInv, NEW o \in Orders, OrderPayable(o)
  PROVE  TypeOK' /\ PaymentsInv'
<1>1. TypeOK'
  BY DEF TypeOK, OrderPayable
<1>2. PaymentsInv'
  BY DEF OrderPayable, PaymentsInv, HandlerOK, NoActivePayment, PaymentsOf, RowOK, RewardOK,
     OneActive, OneSettling, CustomerOf
<1> QED BY <1>1, <1>2

LEMMA UnchangedKeeps == ASSUME TypeOK, PaymentsInv, UNCHANGED vars PROVE TypeOK' /\ PaymentsInv'
<1>1. TypeOK'
  BY DEF TypeOK, vars
<1>2. PaymentsInv'
  BY DEF vars, PaymentsInv, HandlerOK, NoActivePayment, PaymentsOf, RowOK, RewardOK,
     OneActive, OneSettling, CustomerOf
<1> QED BY <1>1, <1>2

LEMMA NextKeeps == ASSUME TypeOK, PaymentsInv, [Next]_vars PROVE TypeOK' /\ PaymentsInv'
<1>1. ASSUME NEW r \in Requests, Continue(r) PROVE TypeOK' /\ PaymentsInv'
  BY <1>1, CreateKeeps, ChargeKeeps, SettleKeeps, WithholdKeeps, NotifyOutcomeKeeps,
     FindReferralKeeps, RewardKeeps, CashbackKeeps, NotifyReferrerKeeps, ResolveKeeps,
     NotifyResolvedKeeps, AuditKeeps DEF Continue
<1>2. ASSUME NEW r \in Requests, NEW p \in Payments, handleWebhook(r, p)
      PROVE  TypeOK' /\ PaymentsInv'
  BY <1>2, WebhookIdle, UnchangedKeeps
<1> QED BY <1>1, <1>2, InitiateKeeps, ResolveReadKeeps, FailureKeeps, PayableKeeps,
           UnchangedKeeps DEF Next

-----------------------------------------------------------------------------
(* The theorems.                                                           *)

\* Every reachable state has the types, and what each request relies on holds
\* however the requests overlap and wherever they fail.
THEOREM PaymentTypes == Spec => [](TypeOK /\ PaymentsInv)
BY InitOK, NextKeeps, PTL DEF Spec

\* A set with at most one element is empty or a singleton.
LEMMA AtMostOne == ASSUME NEW S, \A x, y \in S : x = y PROVE Cardinality(S) <= 1
<1>1. CASE S = {}
  BY <1>1, FS_EmptySet
<1>2. CASE S # {}
  <2>1. PICK x : x \in S
    BY <1>2
  <2>2. S = {x}
    BY <2>1
  <2> QED BY <2>2, FS_Singleton
<1> QED BY <1>1, <1>2

\* However requests, callbacks and resolutions overlap, the rail holds the
\* money of an order for one payment at most, and the earnings count it once.
THEOREM NoDoubleChargeHolds == Spec => []NoDoubleCharge
<1>1. TypeOK /\ PaymentsInv => NoDoubleCharge
  <2> SUFFICES ASSUME TypeOK, PaymentsInv, NEW o \in Orders
               PROVE  /\ Cardinality({p \in PaymentsOf(o) : p \in charged /\ status[p] # "REFUNDED"}) <= 1
                      /\ getMasterEarnings(o) <= 1
    BY DEF NoDoubleCharge
  <2>1. \A p \in PaymentsOf(o) : p \in charged /\ status[p] # "REFUNDED" => status[p] \in ACTIVE_PAYMENT_STATUSES
    BY DEF PaymentsInv, RowOK, TypeOK, PaymentStatus, ACTIVE_PAYMENT_STATUSES, PaymentsOf
  <2>2. \A p, q \in PaymentsOf(o) :
          status[p] \in ACTIVE_PAYMENT_STATUSES /\ status[q] \in ACTIVE_PAYMENT_STATUSES => p = q
    BY PaymentsAssumption DEF PaymentsInv, OneActive, PaymentsOf
  <2>3. Cardinality({p \in PaymentsOf(o) : p \in charged /\ status[p] # "REFUNDED"}) <= 1
    BY <2>1, <2>2, AtMostOne
  <2>4. getMasterEarnings(o) <= 1
    BY <2>2, AtMostOne DEF getMasterEarnings, ACTIVE_PAYMENT_STATUSES
  <2> QED BY <2>3, <2>4
<1> QED BY <1>1, PaymentTypes, PTL

\* One cashback per referral, and only for one that is closed; one notice of a
\* kind per payment, and one outcome.
THEOREM SettledOnceHolds == Spec => []SettledOnce
<1>1. TypeOK /\ PaymentsInv => SettledOnce
  <2> SUFFICES ASSUME TypeOK, PaymentsInv PROVE SettledOnce
    OBVIOUS
  <2>1. \A c \in Customers : cashback[c] <= 1 /\ (cashback[c] = 1 => referral[c] = "REWARDED")
    BY DEF PaymentsInv, RewardOK
  <2>2. ASSUME NEW p \in Payments
        PROVE  /\ \A n \in Notices : notices[p][n] <= 1
               /\ notices[p]["PAYMENT_SUCCEEDED"] + notices[p]["PAYMENT_FAILED"] <= 1
    <3>1. RowOK(p) /\ notices[p] \in [Notices -> Nat] /\ outcomes \subseteq Notices
      BY DEF PaymentsInv, TypeOK, outcomes, Notices
    <3> QED BY <3>1 DEF RowOK, outcomes
  <2> QED BY <2>1, <2>2 DEF SettledOnce
<1> QED BY <1>1, PaymentTypes, PTL

-----------------------------------------------------------------------------
(* The service implements OrderPayment.                                    *)

state == [o \in Orders |-> stateOf(o)]
taken == {o \in Orders : \E p \in PaymentsOf(o) : p \in charged /\ status[p] # "REFUNDED"}

free == {o \in Orders : NoActivePayment(o)}

\* What the active payment of an order, or its absence, makes of the order.
LEMMA Shown ==
  TypeOK /\ PaymentsInv => \A o \in Orders, p \in Payments :
    /\ o \in free => state[o] = "unpaid" /\ o \notin taken
    /\ payOrder[p] = o /\ status[p] = "PROCESSING" =>
         state[o] = "charging" /\ (o \in taken <=> p \in charged)
    /\ payOrder[p] = o /\ status[p] = "SUCCEEDED" => state[o] = "paid" /\ o \in taken
<1> SUFFICES ASSUME TypeOK, PaymentsInv, NEW o \in Orders, NEW p \in Payments
             PROVE  /\ o \in free => state[o] = "unpaid" /\ o \notin taken
                    /\ payOrder[p] = o /\ status[p] = "PROCESSING" =>
                         state[o] = "charging" /\ (o \in taken <=> p \in charged)
                    /\ payOrder[p] = o /\ status[p] = "SUCCEEDED" => state[o] = "paid" /\ o \in taken
  OBVIOUS
<1>1. \A q \in PaymentsOf(o) : q \in charged /\ status[q] # "REFUNDED" => status[q] \in ACTIVE_PAYMENT_STATUSES
  BY DEF PaymentsInv, RowOK, TypeOK, PaymentStatus, ACTIVE_PAYMENT_STATUSES, PaymentsOf
<1>2. \A q, x \in PaymentsOf(o) :
        status[q] \in ACTIVE_PAYMENT_STATUSES /\ status[x] \in ACTIVE_PAYMENT_STATUSES => q = x
  BY PaymentsAssumption DEF PaymentsInv, OneActive, PaymentsOf
<1>3. o \in free => state[o] = "unpaid" /\ o \notin taken
  BY <1>1 DEF free, NoActivePayment, state, stateOf, taken, ACTIVE_PAYMENT_STATUSES
<1>4. ASSUME payOrder[p] = o, status[p] = "PROCESSING"
      PROVE  state[o] = "charging" /\ (o \in taken <=> p \in charged)
  BY <1>1, <1>2, <1>4 DEF state, stateOf, taken, ACTIVE_PAYMENT_STATUSES, PaymentsOf
<1>5. ASSUME payOrder[p] = o, status[p] = "SUCCEEDED"
      PROVE  state[o] = "paid" /\ o \in taken
  BY <1>5 DEF state, stateOf, taken, PaymentsOf, PaymentsInv, RowOK
<1> QED BY <1>3, <1>4, <1>5

\* The same of the state after a step.
LEMMA ShownNext ==
  (TypeOK /\ PaymentsInv => \A o \in Orders, p \in Payments :
    /\ o \in free => state[o] = "unpaid" /\ o \notin taken
    /\ payOrder[p] = o /\ status[p] = "PROCESSING" =>
         state[o] = "charging" /\ (o \in taken <=> p \in charged)
    /\ payOrder[p] = o /\ status[p] = "SUCCEEDED" => state[o] = "paid" /\ o \in taken)'
BY Shown, PTL

\* A step that touches one payment leaves the other orders alone.
LEMMA OtherOrders ==
  ASSUME NEW o \in Orders, NEW p \in Payments, payOrder[p] \in {o, None}, payOrder'[p] = o,
         None \notin Orders,
         \A q \in Payments \ {p} : /\ payOrder'[q] = payOrder[q] /\ status'[q] = status[q]
                                   /\ q \in charged' <=> q \in charged
  PROVE  /\ state' = [state EXCEPT ![o] = state'[o]]
         /\ taken' = IF o \in taken' THEN taken \cup {o} ELSE taken \ {o}
<1>1. ASSUME NEW x \in Orders, x # o
      PROVE  state'[x] = state[x] /\ (x \in taken' <=> x \in taken)
  <2>1. PaymentsOf(x)' = PaymentsOf(x) /\ p \notin PaymentsOf(x)
    BY <1>1 DEF PaymentsOf
  <2>2. \A q \in PaymentsOf(x) : status'[q] = status[q] /\ (q \in charged' <=> q \in charged)
    BY <2>1 DEF PaymentsOf
  <2> QED BY <2>1, <2>2 DEF state, stateOf, taken
<1>2. state' = [state EXCEPT ![o] = state'[o]]
  BY <1>1 DEF state
<1>3. taken' = IF o \in taken' THEN taken \cup {o} ELSE taken \ {o}
  <2>1. taken' \subseteq Orders /\ taken \subseteq Orders
    BY DEF taken
  <2> QED BY <1>1, <2>1
<1> QED BY <1>2, <1>3

\* A step of the abstract specification.
LEMMA AbstractStep ==
  ASSUME NEW o \in Orders,
         Abstract!Begin(o) \/ Abstract!Take(o) \/ Abstract!Settle(o) \/ Abstract!Refund(o)
  PROVE  Abstract!Next
BY DEF Abstract!Next

LEMMA OrderPaymentStep ==
  ASSUME TypeOK, PaymentsInv, TypeOK', PaymentsInv', [Next]_vars
  PROVE  [Abstract!Next]_<<state, taken>>
<1> USE PaymentsAssumption
<1>1. ASSUME NEW r \in Requests, NEW p \in Payments, NEW o \in Orders, o = exec[r].o,
             createPayment(r, p)
      PROVE  Abstract!Next
  <2>1. o \in Orders /\ o \in free
    BY <1>1 DEF createPayment, PaymentsInv, HandlerOK, Idle, Handler, free
  <2>2. /\ payOrder[p] = None /\ payOrder'[p] = o /\ status'[p] = "PROCESSING" /\ charged' = charged
        /\ \A q \in Payments \ {p} : payOrder'[q] = payOrder[q] /\ status'[q] = status[q]
    BY <1>1 DEF createPayment, TypeOK
  <2>3. status[p] = None
    BY <2>2 DEF PaymentsInv, RowOK
  <2>4. p \notin charged
    BY <2>3 DEF PaymentsInv, RowOK
  <2>5. state[o] = "unpaid" /\ o \notin taken /\ state'[o] = "charging" /\ o \notin taken'
    BY <2>1, <2>2, <2>4, Shown, ShownNext
  <2>6. state' = [state EXCEPT ![o] = "charging"] /\ taken' = taken \ {o}
    BY <2>1, <2>2, <2>5, OtherOrders
  <2>7. Abstract!Begin(o)
    BY <2>1, <2>5, <2>6 DEF Abstract!Begin, state, taken
  <2> QED BY <2>1, <2>7, AbstractStep
<1>2. ASSUME NEW r \in Requests, NEW p \in Payments, NEW o \in Orders, o = exec[r].o,
             p = exec[r].p, charge(r, TRUE)
      PROVE  Abstract!Next
  <2>1. /\ payOrder[p] = o
        /\ status[p] = "PROCESSING" /\ p \notin charged
    BY <1>2 DEF charge, PaymentsInv, HandlerOK, Idle, Handler
  <2>2. UNCHANGED <<payOrder, status>> /\ charged' = charged \cup {p}
    BY <1>2 DEF charge
  <2>3. state[o] = "charging" /\ o \notin taken /\ state'[o] = "charging" /\ o \in taken'
    BY <2>1, <2>2, Shown, ShownNext
  <2>4. state' = [state EXCEPT ![o] = "charging"] /\ taken' = taken \cup {o}
    BY <2>1, <2>2, <2>3, OtherOrders
  <2>5. state' = state
    <3>1. PICK f : f = state /\ f = [x \in Orders |-> f[x]]
      BY DEF state
    <3>2. [f EXCEPT ![o] = "charging"] = f
      BY <2>3, <3>1
    <3> QED BY <2>4, <3>1, <3>2
  <2>6. Abstract!Take(o)
    BY <2>3, <2>4, <2>5 DEF Abstract!Take, state, taken
  <2> QED BY <2>1, <2>6, AbstractStep
<1>3. ASSUME NEW r \in Requests, NEW p \in Payments, NEW o \in Orders, o = exec[r].o,
             p = exec[r].p, settle(r)
      PROVE  Abstract!Next
  <2> DEFINE to == IF exec[r].arg THEN "SUCCEEDED" ELSE "FAILED"
  <2>1. /\ payOrder[p] = o
        /\ status[p] = "PROCESSING" /\ (exec[r].arg <=> p \in charged)
    BY <1>3 DEF settle, PaymentsInv, HandlerOK, Idle, Handler
  <2>2. UNCHANGED <<payOrder, charged>> /\ status' = [status EXCEPT ![p] = to]
    BY <1>3 DEF settle
  <2>3. /\ status'[p] = IF p \in charged THEN "SUCCEEDED" ELSE "FAILED"
        /\ \A q \in Payments \ {p} : status'[q] = status[q]
    BY <2>1, <2>2 DEF TypeOK
  <2>4. state[o] = "charging" /\ (o \in taken <=> p \in charged)
    BY <2>1, Shown
  <2>5. CASE p \in charged
    <3>1. state'[o] = "paid" /\ o \in taken'
      BY <2>1, <2>2, <2>3, <2>5, ShownNext
    <3>2. state' = [state EXCEPT ![o] = "paid"] /\ taken' = taken \cup {o}
      BY <3>1, <2>1, <2>2, <2>3, OtherOrders
    <3>3. state[o] = "charging" /\ o \in taken /\ taken' = taken
      BY <3>2, <2>4, <2>5
    <3>4. Abstract!Settle(o)
      BY <3>2, <3>3 DEF Abstract!Settle, state, taken
    <3> QED BY <3>4, <2>1, AbstractStep
  <2>6. CASE p \notin charged
    <3>1. o \in free'
      BY <2>1, <2>2, <2>3, <2>6
         DEF free, NoActivePayment, PaymentsOf, PaymentsInv, OneActive, ACTIVE_PAYMENT_STATUSES
    <3>2. state'[o] = "unpaid" /\ o \notin taken'
      BY <3>1, <2>1, ShownNext
    <3>3. state' = [state EXCEPT ![o] = "unpaid"] /\ taken' = taken \ {o}
      BY <3>2, <2>1, <2>2, <2>3, OtherOrders
    <3>4. state[o] = "charging" /\ o \notin taken /\ taken' = taken
      BY <3>3, <2>4, <2>6
    <3>5. Abstract!Settle(o)
      BY <3>3, <3>4 DEF Abstract!Settle, state, taken
    <3> QED BY <3>5, <2>1, AbstractStep
  <2> QED BY <2>5, <2>6
<1>4. ASSUME NEW r \in Requests, NEW p \in Payments, NEW o \in Orders, o = exec[r].o,
             p = exec[r].p, resolve(r), status' # status
      PROVE  Abstract!Next
  <2>1. /\ payOrder[p] = o
        /\ exec[r].arg /\ p \notin resolved
        /\ status' = [status EXCEPT ![p] = "REFUNDED"] /\ UNCHANGED <<payOrder, charged>>
    BY <1>4 DEF resolve, PaymentsInv, HandlerOK, Idle, Handler
  <2>2. status[p] = "SUCCEEDED"
    BY <1>4, <2>1 DEF resolve, PaymentsInv, HandlerOK, Idle, Handler
  <2>3. status'[p] = "REFUNDED" /\ \A q \in Payments \ {p} : status'[q] = status[q]
    BY <2>1 DEF TypeOK
  <2>4. state[o] = "paid" /\ o \in taken
    BY <2>1, <2>2, Shown
  <2>5. o \in free'
    BY <2>1, <2>2, <2>3
       DEF free, NoActivePayment, PaymentsOf, PaymentsInv, OneActive, ACTIVE_PAYMENT_STATUSES
  <2>6. state'[o] = "unpaid" /\ o \notin taken'
    BY <2>1, <2>5, ShownNext
  <2>7. state' = [state EXCEPT ![o] = "unpaid"] /\ taken' = taken \ {o}
    BY <2>1, <2>3, <2>6, OtherOrders
  <2>8. Abstract!Refund(o)
    BY <2>1, <2>4, <2>7 DEF Abstract!Refund, state, taken
  <2> QED BY <2>1, <2>8, AbstractStep
<1>5. CASE UNCHANGED <<payOrder, status, charged>>
  BY <1>5 DEF state, taken, stateOf, PaymentsOf
<1>6. CASE \/ UNCHANGED vars
           \/ \E o \in Orders : OrderPayable(o) \/ \E r \in Requests : initiate(r, o)
           \/ \E r \in Requests : RequestFails(r)
           \/ \E r \in Requests, p \in Payments :
                handleWebhook(r, p) \/ \E refund \in BOOLEAN : resolveRead(r, p, refund)
  BY <1>5, <1>6 DEF vars, OrderPayable, initiate, RequestFails, handleWebhook, resolveRead
<1>7. ASSUME NEW r \in Requests, Continue(r)
      PROVE  [Abstract!Next]_<<state, taken>>
  <2>1. CASE \/ recordWithholding(r) \/ notifyOutcome(r) \/ findReferral(r) \/ markRewarded(r)
             \/ createCashback(r) \/ notifyReferrer(r) \/ notifyResolved(r) \/ auditResolve(r)
    BY <2>1, <1>5 DEF recordWithholding, notifyOutcome, findReferral, markRewarded,
       createCashback, notifyReferrer, notifyResolved, auditResolve
  <2>2. CASE charge(r, FALSE)
    BY <2>2, <1>5 DEF charge
  <2>3. ASSUME exec[r].at \in {"create", "charge", "settle", "resolve"}
        PROVE  exec[r].o \in Orders /\ (exec[r].at # "create" => exec[r].p \in Payments)
    BY <2>3 DEF PaymentsInv, HandlerOK, Idle, Handler
  <2>4. CASE \E p \in Payments : createPayment(r, p)
    BY <2>3, <2>4, <1>1 DEF createPayment
  <2>5. CASE charge(r, TRUE)
    BY <2>3, <2>5, <1>2 DEF charge
  <2>6. CASE settle(r)
    BY <2>3, <2>6, <1>3 DEF settle
  <2>7. CASE resolve(r)
    <3>1. CASE status' = status
      BY <2>7, <3>1, <1>5 DEF resolve
    <3> QED BY <2>3, <2>7, <3>1, <1>4 DEF resolve
  <2> QED BY <1>7, <2>1, <2>2, <2>4, <2>5, <2>6, <2>7 DEF Continue
<1> QED BY <1>6, <1>7 DEF Next

\* The refinement: however requests overlap, fail or are resolved by hand, every
\* step begins, takes, settles or refunds the payment of one order, or leaves
\* what is owed and taken of every order alone.
THEOREM OrderPaymentRefined == Spec => ImplementsOrderPayment
<1>1. Init => Abstract!Init
  BY PaymentsAssumption DEF Init, Abstract!Init, stateOf, PaymentsOf
<1>2. TypeOK /\ PaymentsInv /\ (TypeOK /\ PaymentsInv)' /\ [Next]_vars
      => [Abstract!Next]_<<state, taken>>
  BY OrderPaymentStep
<1>3. Spec => Abstract!Init /\ [][Abstract!Next]_<<state, taken>>
  BY <1>1, <1>2, PaymentTypes, PTL DEF Spec
<1> QED BY <1>3, PTL DEF ImplementsOrderPayment, Abstract!Spec, state, taken
=============================================================================
