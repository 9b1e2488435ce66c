# HANDLY: a verification of the order and dispatch services

HANDLY is a managed marketplace for home repairs.  A customer describes a job, an AI
diagnosis prices it, and the platform offers it to one verified master after another
until somebody takes it.  The API (`apps/api`) is a NestJS application over PostgreSQL
(through Prisma) and Redis (through BullMQ).  Its handlers are asynchronous functions:
between two awaits one runs alone, at each await any other may run, and most of them
touch the same rows.  Between the API and the people who use it are pages of a Next.js
client (`apps/web`) that keep copies of those rows in a query cache, and a socket that
tells them, sometimes, that a copy is old.  This project models the services where
handlers interleave and the pages where copies go stale, checks them with TLC on small
instances, and proves with TLAPS, for every instance, what holds of orders, dispatch,
payments, accounts, one-time codes, logins, reviews, guarantee claims and the pages whatever
overlaps, gets lost or comes late.

## Inventory

| Part | State | Operations | Hard because | Correct when |
|---|---|---|---|---|
| Order status machine (`order-state.ts`) | none | `canTransition` | it is only consulted, never enforced by the database | every status change is an edge of the table |
| Orders service (`orders.service.ts`) | `orders`, `order_status_history`, `order_media` | createDraft, updateDraft, diagnose, submit, cancel, startEnRoute, startService, completeService, confirmCompletion, cancelByMaster, media | three writes are not conditioned on what was read; diagnose spans a slow AI call | quote and request agree, the history has no gaps, completed jobs are counted once |
| Dispatch service (`dispatch.service.ts`, `dispatch-eligibility.ts`) | `order_dispatches`, `orders.masterId` | startDispatch, cascadeNext, acceptOffer, declineOffer, handleOfferExpiry, failSearch | answers, timeouts, cancellations and other cascades arrive between any two statements | one open offer per order, one master per order, every search ends |
| Dispatch worker and queue (`dispatch.worker.ts`, `queue.module.ts`) | delayed jobs | run, retry, redeliver | at-least-once delivery, retries after partial work | an expiry takes effect exactly once |
| Penalties, trust (`penalties.service.ts`, `trust.service.ts`) | `penalty_records`, `trustTier` | recordEvent, recomputeTrustTier | called after the transaction they belong to; read, compute, write | each offence is recorded once, the tier reflects the latest counts |
| Payments, tax (`payments.service.ts`, `tax/`) | `payments`, withholdings | initiate, handleWebhook, settle, resolve | an external call between two writes; settlement in several steps | one active payment per order, settled once, no payment stuck |
| Referrals (`referrals.service.ts`) | `referrals`, `cashback_records` | recordSignup, activateOnVerify, rewardOnFirstPayment | the reward is two writes | a reward is paid exactly once |
| Reviews (`reviews.service.ts`) | `reviews`, `ratingAvg` | create | aggregates under concurrent transactions | average and tier cover every row |
| Verification, onboarding (`verification.service.ts`, `users.service.ts`, `master/onboarding`) | `verifications`, profile, certificates and their files | upload, updateMasterProfile, submit, decide | a chain of requests from a page with a cached status; administrators deciding twice | one pending request, a status that follows the latest, no row without its file |
| Guarantee claims (`guarantee.service.ts`, `admin.controller.ts`, `admin/guarantee-claims`) | `guarantee_claims`, audit rows | fileClaim, decide | three writes to a decision, two administrators | decided, told and audited once |
| Subscriptions (`subscriptions.service.ts`) | one row per master | getStatus, upgradeToPremium | a read that writes | a trial lasts its days |
| Accounts, sessions (`auth.service.ts`, `token.service.ts`, `admin-users.service.ts`) | `users`, `sessions` | register, verifyOtp, login, refresh, logout, resetPassword, suspend, restore | revocation racing rotation, statuses written unconditionally | a revoked user has no session |
| One-time codes, login limit (`otp.service.ts`, `auth.service.ts`) | `otp_codes`, Redis counters | issue, verify, login | counters read and written separately, Redis failing open | a code is used once, limits hold and lift |
| Realtime (`realtime.gateway.ts`, `lib/socket.ts`, `live-tracking-map.tsx`) | rooms, maps | connect, relay, push, draw | events lost or overtaking one another | a page shows its counterpart, and the latest |
| Order wizard (`orders/new`, `components/order`) | sessionStorage, drafts in components | describe, schedule, agree, submit | chains of requests that fail in the middle or end after their page is gone | the quote agreed to is the one submitted |
| Customer's and master's pages (`orders/[id]`, `master`) | query cache, local state, requests in flight | buttons, pushes, fetches | buttons offered from a copy | what is offered is accepted, the copy catches up |
| Session of the web client (`session-bootstrap.tsx`, `api.ts`, auth pages) | token in memory, cookie of all tabs | restore, login, logout, redirect | several tabs, one rotating cookie | nobody is signed out by a reload |
| Listings (seven paged lists and their pages) | cursors, filters | findMany, setFilter | rows inserted between two pages, answers for another filter | nothing shown twice, nothing skipped |
| Pricing, notification list, addresses, analytics, flags, catalog, configuration | single rows, none | inserts and reads | see below | not modelled (see below) |

Interactions: `submit` starts a cascade in the background; a cascade creates an offer and
enqueues its expiry job; the master's accept or decline, or the worker running that job,
ends the offer, and a decline or an expiry continues the cascade.  `cancel`, `failSearch`,
`acceptOffer` and the master's own operations all write `orders.status`.  Penalties and
confirmations change the trust tier, and with it who is eligible for the next offer.  A
closed order can be paid for, reviewed and claimed for; a payment settles into a tax record,
a notification and a referral reward; a review into an average, a penalty and a tier.  The
gateway pushes `order:updated`, `offer:received` and `location:updated` to the sockets of a
user's room; the pages answer the first by fetching again, and take the others as they are.

## Modules

| Module | Models |
|---|---|
| `OrderStates` | the statuses and the transition table |
| `OrderStore` | the shared state: order, dispatch, penalty and master rows, the job queue, the row lock, the handlers in flight; the status writes |
| `OrdersService` | the customer's and the master's operations on an order |
| `DispatchService` | the cascade, the answers, the expiry, the end of a search |
| `Marketplace` | both services together, with failures, retries, redelivery and changing availability; the properties; the inductive invariants |
| `OrderLifecycle` | the abstract specification: what an order may go through, seen from outside |
| `OrderPayment` | the abstract specification of one order's money |
| `Payments` | payments, their settlement step by step, webhook, resolution, tax record, referral reward; implements `OrderPayment` for every order |
| `Accounts` | one account: registration, code check, login, refresh rotation, logout, reset, suspension, restoring, its referral |
| `OneTimeCodes` | issuing and checking codes: rows, cooldown, daily cap, attempts, SMS gateway, Redis coming and going |
| `LoginGuard` | the failed-login counter |
| `TrustScore` | the score as a function of a history, and the events that extend the history |
| `Reputation` | reviews, rating average, complaint, recomputation of the tier |
| `Guarantee` | claims, the administrators' page, decision, notification, audit row |
| `Subscriptions` | the Premium trial |
| `OrderPage` | the customer's page of an order: queries, buttons, socket, payments, review, claim |
| `OrderWizard` | the three steps of placing an order |
| `MasterPage` | the master's dashboard: offers, current job, toggle, uploads |
| `Onboarding` | the onboarding page, verification, the administrators' queue |
| `LiveTracking` | positions from device to device, and the map's lifetime |
| `WebSession` | signing in and out over several tabs |
| `Listings` | cursor pagination of all seven lists, and their pages' filters |
| `MCMarketplace`, `MCPayments` | small instances of orders and dispatch and of payments |
| `MCServices` | the other services as one specification, instantiated together with their theorems |
| `MCOrderPage` | the customer's page opened by navigation, for its liveness |
| `MCMasterPage` | the master's page, used in three ways |
| `Forms` | the customer's side of the client and onboarding as one specification: wizard, onboarding, sign-in, lists, live map and the order's page side by side; the properties of each, and the assumptions on their constants |
| `MCForms` | slices of `Forms` small enough for TLC |
| `MarketplaceProofs` | the theorems about orders and dispatch, without and then with `SerialEdits` |
| `PaymentsProofs`, `AccountsProofs`, `CodesProofs`, `ReputationProofs` | the theorems about a service |
| `ServicesProofs` | the theorems about `MCServices`, with guarantee claims, the login guard, the trial and the trust score |
| `DashboardProofs` | the theorems about `MasterPage` |
| `FormsProofs` | the theorems about `Forms`, a section for each of its six components |

### Orders and dispatch

**State.** `exec[s]` is a handler in flight in a request slot or a worker: the await it is
at, and the values it read on the way (`seen` is the status an operation based its check
on, `data` the tier it will price or the edit it will store).  The variables named after
columns hold the rows.  `tier` stands for every field a quote depends on, `quote` for the
price range by the tier it was computed for, `loc` for what is known of the place (nothing,
a text, coordinates), `jobs` for the attempts a delayed expiry job has left, `hist` for the
newest history row.

**Actions.** A handler is cut where another handler can see or change something: an
operation of the orders service is a read (`CustomerRead`, `EditRead`, `MasterRead`, with
all checks) and a write (the action named after the method); `acceptOffer` is the locking
read and the commit; `cascadeNext` is the read of the order, the candidate query, the
insert, the enqueueing; `failSearch` is a read, a guarded update, a history row.  A
transaction's writes are one step, since no other handler sees them apart; what waits for
the row locked `FOR UPDATE` (updates, and inserts whose foreign key points to it) has
`RowFree` in its guard.  Refused requests change nothing and are not steps.

**Environment.** `HandlerFails` ends any handler between two of its steps (an exception or
a dying process; the open transaction rolls back, a worker's job loses an attempt),
`JobAttemptFails` fails a job before its first write, `JobStalls` hands a running job to a
second worker.  `AvailabilityChanges` stands for everything that changes who is eligible
(the online switch, verification, suspension, calendar, trust tier).  The candidate query
otherwise keeps its rows: already offered, busy, radius (`Reach`).  The limit of the query
and the weights of the pick only narrow a choice the model leaves open.

**`SerialEdits`.** updateDraft, diagnose and submit write without looking at the status
again, so what holds of them depends on the client.  With `SerialEdits = TRUE` the client
never has one of the three in flight together with another customer request for the
order; the wizard awaits each call, but the submit button is not disabled while a
submission is pending (`button.tsx` line 36, `disabled ?? loading`), and updates are retried
by `lib/api.ts`.  The API enforces nothing, so the run of the disagreement drops the assumption.

### The other services

`Payments`, `Accounts`, `OneTimeCodes`, `LoginGuard`, `Reputation`, `Guarantee` and
`Subscriptions` are cut the same way: one step per statement, a transaction's writes
together unless another handler can get between them (the rating aggregate of
`Reputation` runs in a transaction, but READ COMMITTED lets it miss the other's row, so it
is a step of its own).  A handler in flight is a record with the place it is at and what it
read; `None` or "idle" is a free slot.  What the code compares is kept, what it only stores
is not: a password is a number that grows, a tier or an average is the set of facts it was
computed from, an amount is left out.  Failures end a handler at any await and are bounded
by a constant, except in `Reputation` and `Subscriptions`, where none is modelled; in
`OneTimeCodes` and `LoginGuard` Redis calls fail one by one, and the code
then goes on without the limit, as it says.

`OrderPayment` has two variables: the state of each order's payment and the set of orders
whose money is taken.  `Payments` implements it with the mapping at the end of its module:
an order is paid if one of its payments SUCCEEDED, charging if one is PROCESSING, unpaid
otherwise, and its money is taken if one of its payments is charged and not REFUNDED.

### Pages

A page is modelled by its query cache (`view`, `cached`, `items`), the fetches and requests
it has in flight, its component's state and the server's state it talks about.  A request of
a service is one step where its own interleaving is checked in the service's module.  What
react-query, socket.io and the browser do is modelled from how the code uses them: a query
has one fetch in flight and invalidating it starts the fetch over; a mutation's `onSuccess`
runs even when its page is gone, and `isPending` is that of the latest call; a socket that
was refused stays disconnected.  `Button` is disabled by `disabled ?? loading`, so that a
button given `disabled` stays clickable while its request is under way: several of the
disagreements below start there.

| Module | Correspondence |
|---|---|
| `OrderPage` | `view` is the cache of the page's four queries; `shown` what it renders from it, `offers...` each button's condition, `click` and `handled` the handlers, `serve` the endpoint |
| `OrderWizard` | `Local` is the step's component, gone when the step changes; `call` a chain of requests, which goes on; a step of a chain is the action named after the request |
| `MasterPage` | `view`, `fetch` and `local` are the page; `row`, `due`, `late` its rows of `order_dispatches` and penalties; `serve...` the endpoints |
| `Onboarding` | `sub` is each submission's place in the chain upload, row, profile, request; `admin` each administrator's list and decision |
| `LiveTracking` | `relaying` the gateway's handlers between query and relay; `page` the component and its refs, `map` the map in `mapRef` and whether its box is still on screen; `rerender` what a new `active` or job does to it |
| `WebSession` | `row` are the session rows by token, `cookie` the browser's, `tab` its tabs with a page each, `boot` and `form` their requests in flight, `stray` those whose page is gone or has given up, which the server may still serve |
| `Listings` | a row is its number, owner and status; `findMany` takes `take + 1` rows from the cursor |

## Runs

### Orders and dispatch

| Run | Instance | Shows |
|---|---|---|
| `Core` | 1 order, 2 masters (one only in the wider radius), 2 tiers, 2 requests, 1 worker, 1 failure, serial edits | `TypeOK`, `SequentialOffers`, `OneAccepted`, `QuoteCurrent`, `HistoryChain`, and `ImplementsLifecycle`: the services implement `OrderLifecycle` |
| `Overlap` | 1 order, 1 master, 2 requests, 2 workers, 2 failures, no assumption on the client | `AssignedMasterAccepted`, `OneLatePenalty`, `NoSecondOffer` |
| `TwoOrders` | 2 orders, 1 master, 2 requests, 1 worker | `JobsDoneCounted` |
| `Liveness` | 1 order, 2 masters, 2 requests, 1 worker, no failure, fairness | `SearchEnds`, `OffersResolve`, `CancellationPenalised` |

Bounds.  Every race found or excluded needs at most two handlers of a kind: two customer
requests, a request and an acceptance, two workers with the same job, two cascades.  Two
masters give the cascade a next candidate, one of them only on the second pass; two tiers
let an edit matter; one failure is enough to break any single handler off, two to break
off a retry.  `MaxFailures` is the only bound on behaviour; nothing else is cut off, since
an order and an offer take finitely many steps.  Handlers are interchangeable, so the runs
without liveness use symmetry on them.

Fairness (`Fairness`): weak fairness of every handler's next step (an await that is
answered is resumed by the event loop), of an idle worker taking a due job, and of time
passing an offer's expiry.  No request is ever assumed to arrive, no failure to happen, and
no availability to change.

### Services and pages

The services and pages of this section share no row that their properties depend on.  A run
that covers several is a union: the variable `part` says which one a behaviour explores,
the others keep their initial state, and a property speaks of its own part.  The numbers of
states add up instead of multiplying, and every part has the constants that its question
needs, written in the `INSTANCE` of the union's module or in the .cfg.  In `Dashboard` and
`Forms` a part is a slice of one specification, whose constants are those of the .cfg: `Slice`
in the MC module names what stays at rest in it, and a step that would leave the slice is not
explored.  The theorems are about the specification without slices.

| Run | Parts and instances | Shows |
|---|---|---|
| `Payment` | 2 orders of one referred customer, 2 payments, 2 requests, 1 failure | `NoDoubleCharge`, `SettledOnce`: overlapping payments, repeated callbacks and two resolutions take, tell and reward once; `ImplementsOrderPayment`; `SettlementCompletes`: when nothing fails, the books come to be complete |
| `Services` | `accounts` (2 requests, 2 sessions, 2 passwords); `failing` (2 requests, 1 session row); `codes` (2 purposes, 2 codes, cap and attempts 1, Redis coming and going); `logins` (limit 2, Redis failing); `trust` (4 ratings, 3 job counts, 2 events of a kind); `reviews` (2 orders, 2 ratings); `trial` (2 days of trial, 5 days); `guarantee` (2 orders, 2 decisions, 1 failure) | `SingleUse` of refresh tokens; `OneComplaintPerOrder`; `LimitsHold`: sends within the cap, guesses within the limit plus the requests already past the check, no code accepted that a newer one replaced; `TrustScoreSound`: the score's range, what penalties may cost, and that every event moves it the right way; `OneDecision` and `AuditTruthful` of claims |
| `ServicesLiveness` | `failing` and `guarantee` (2 administrators, 2 decisions, 2 days), nothing failing | `SuspensionTakesEffect`: a suspension that stays leaves no access token the guard would take; `AdminActionsAudited`: suspensions and decisions come to be in the audit log |
| `CustomerPage` | the order's page, navigated to while dispatch searches, on a network that loses nothing | `PageCatchesUp`: it comes to show every status of the order |
| `Dashboard` | `jobs` (2 orders, customers cancelling); `mishaps` (1 order, a lost answer, an upload, a toggle); `visits` (1 order, the page opened, left and opened again) | `AmountIsForJob`, `FreshActionsAccepted`; `VisitCatchesUp`, for `visits` |
| `Forms` | `two orders`, `one file` (the wizard with 1 lost request or reload, or with both); `decisions` (2 administrators), `submissions` (2 at once), `uploads` (2 at once); `session` (2 users of one browser, or one and a stray call, 4 tokens, 2 loads); `paging` (3 rows, pages of 1), `filters` (2 owners, 3 filters looked at); `one order` (the live map on both pages, 2 visits of the customer's, 1 move of each device), `jobs` (2 jobs one after the other on the dashboard, 2 mounts); `searching` (the order's page loaded afresh while dispatch searches, with a lost answer, to the review and the claim) and `paying` (a finished order, 2 payments) | `WizardConsistent`, `OnboardingConsistent`, `ListsConsistent`, `MapFollowsJobs`: the map a page holds is on screen, and there is one for each mount; `FreshOffersAccepted`, `SessionKept`; `NobodyTurnedAway`: nobody with a good session is sent to the login form while it is restored |

`Payment`, `Services`, `Dashboard` and `Forms` also check the type invariants of their parts
(`TypeOK`, `TypesOK`).

Bounds.  A race needs two requests of a kind, so two slots.  One failure breaks off any
handler; one lost answer is every lost answer of a page with one request that matters.  Two
orders are enough where state is shared between orders (one customer's payments, one
master's jobs), one elsewhere.  Attempts, cap and the login limit are as low as they can be
while there is something below them and above them, since only the comparison matters.
Days, codes, tokens, toggles, reloads, moves and insertions are bounded by constants of
that name.  Requests, session rows, orders and decisions of `Services` are interchangeable
and swapped by `MCSymmetry`; the runs with liveness use no symmetry.

Fairness.  Weak fairness of what the event loop, the database, the browser and the network
do once started: the next step of a handler, a fetch, a push under way, an access token
expiring, and the payment rail repeating its callbacks.  Never of a click, a request, a
failure, or a decision of a person.  What liveness assumes more is said in the property or
in the part: `SettlementCompletes` speaks of behaviours without failures,
`AdminActionsAudited` is checked where nothing fails, `PageCatchesUp` for a page opened by
navigation, `VisitCatchesUp` for a page that loses no answer and customers who do not cancel.
The next section lifts those assumptions.

`CHECK_DEADLOCK FALSE` is set where people may simply stop: an order that is closed, a form
that is sent, a page nobody touches.

## Known disagreements

Two runs show the code doing otherwise than what is written about it, one with overlapping
handlers and one with nothing but a single reader.

| Run | Property | What happens |
|---|---|---|
| `DoubleSubmit` | `SequentialOffers` | two overlapping submissions put the order out with two masters at once |
| `SkippedRow` | `NoneSkipped` | a client that follows nextCursor never sees the row the cursor names; all seven lists do the same |

The modules state more of what comments, documents, messages and tests say, and TLC refutes
each of the following when its module is run with `SPECIFICATION Spec` and the constants
named (`MCMarketplace` for `Marketplace`, with `FairSpec` for `ExpiredOfferMovesOn` and
`CancellationPenalised`; `MCPayments` for `Payments`).  Where a constant is not named, sets
have one element (`Files` none), bounds on losses, failures, reloads, toggles, reopenings
and uploads are 0 and other bounds 1, and switches keep the harmless value.

| Property | Constants | Where | What happens | What is written |
|---|---|---|---|---|
| `Marketplace.ImplementsLifecycle` | no `SerialEdits`, 2 requests | orders.service.ts:294 | a diagnosis in flight revives an order cancelled meanwhile | order-state.ts:5 "every state-changing service method calls canTransition before writing" |
| `Marketplace.OneAccepted` | no `SerialEdits`, 2 masters, 2 requests | orders.service.ts:333 | a late second submission re-opens an assigned order and a second master accepts it | dispatch.service.ts:156 "exactly one ACCEPTED can ever exist" |
| `Marketplace.QuoteCurrent` | no `SerialEdits`, 2 tiers, 2 requests | orders.service.ts:294 | a tier changed during a diagnosis keeps the old tier's price | orders.service.ts:137 "Editing a PRICED order invalidates its quote" |
| `Marketplace.OneJobPerMaster` | 2 orders, 2 requests | dispatch.service.ts:162 | a master with two open offers accepts both | order-state.ts:62 "so a master can't be offered a second job while working this one" |
| `Marketplace.RestWithdrawn` | 2 masters, 2 requests | dispatch.service.ts:100 | a cascade that read SEARCHING offers an order that has been assigned since | schema.prisma:539 "ACCEPTED is terminal for the order, the rest are WITHDRAWN" |
| `Marketplace.ExpiredOfferMovesOn` | `MaxFailures = 1` | dispatch.service.ts:44 | an expiry that fails half-way is retried as a no-op, and the search stops | ARCHITECTURE.md:688 "Decline/timeout → cascade to next candidate" |
| `Marketplace.CancellationPenalised` | `MaxFailures = 1` | orders.service.ts:535 | a failure after the cancelling transaction makes the cancellation free | orders.service.ts:496 "Always penalized — cancelling is never cost-free for the master" |
| `Payments.ChargeIsSettled` | `MaxFailures = 1` | payments.service.ts:92 | a request that dies between charge and settle leaves a charged payment PROCESSING that no callback finds and that blocks a new one | payments.service.ts:158 "so a payment issue isn't a dead end" |
| `Payments.RewardIsPaid` | `MaxFailures = 1` | referrals.service.ts:64 | a failure between closing the referral and creating the cashback loses the reward for good | referrals.service.ts:42 "Rewards the referrer exactly once per referral" |
| `Accounts.ResetEndsSessions` | 2 requests, 2 sessions, 2 passwords | auth.service.ts:156 | a rotation that consumed its session before the reset issues a new one after it | auth.service.ts:175 "force re-login everywhere" |
| `Accounts.ActiveCredentialsKept` | 2 requests, 2 passwords | auth.service.ts:58 | a re-registration that read PENDING writes over an account verified meanwhile | auth.service.ts:57 "Re-registration of an unverified account" |
| `Accounts.SuspensionHolds` | 2 requests | auth.service.ts:96 | a code check that read PENDING writes ACTIVE over a suspension | admin-users.test.ts:75 "suspend flips status to SUSPENDED and is audit-logged" |
| `Accounts.OnlyVerifiedActive` | 1 request | admin-users.service.ts:132 | suspending and restoring a PENDING account makes it ACTIVE | referrals.service.ts:33 "PENDING → ACTIVE (OTP verified)" |
| `OneTimeCodes.CodeConsumed` | 2 requests | otp.service.ts:90 | two checks of the right code both succeed | otp.service.ts:72 "consumes it on success" |
| `OneTimeCodes.BounceHasCode` | 2 requests, 2 codes | otp.service.ts:63 | a bounced login relies on a code that is deleted and not yet replaced | otp.service.ts:63 "a valid code already exists" |
| `OneTimeCodes.CapLifts` | 2 codes, `RedisFails` | redis.service.ts:40 | EXPIRE fails after INCR, and the daily counter never expires | redis.service.ts:37 "setting a TTL on first touch" |
| `LoginGuard.LockoutLifts` | `RedisFails` | redis.service.ts:40 | the same for the failed-login counter | auth.service.ts:214 "the counter will simply expire on its own TTL" |
| `Reputation.RatingComplete` | 2 orders, 2 requests | reviews.service.ts:42 | two reviews committing together each miss the other's row | reviews.service.ts:20 "real data source for MasterProfile.ratingAvg" |
| `Reputation.TierCurrent` | 2 orders, 2 requests | trust.service.ts:86 | two recomputations write in the wrong order | trust.service.ts:79 "it's this function, run at well-defined trigger points" |
| `Subscriptions.TrialHonoured` | 2 callers, `MaxDay = 4` | subscriptions.service.ts:23 | a read that found the old trial over marks the one started meanwhile EXPIRED | subscriptions.service.ts:14 "Lazily self-heals an expired trial to EXPIRED on read" |
| `Guarantee.DecisionAudited` | `MaxFailures = 1` | admin.controller.ts:114 | a failure after the guarded write leaves a decision unaudited; a retry is refused | ARCHITECTURE.md:775 "every admin mutation (…) in append-only `audit_log`" |
| `Guarantee.CoveredWhenFiled` | 1 of each | guarantee.service.ts:39 | the payment is refunded between the check and the insert | guarantee.service.ts:16 "a SUCCEEDED payment must exist for it" |
| `Guarantee.FiledInTime` | `MaxDays = 2` | guarantee.service.ts:26 | a claim is accepted after the guarantee period | ARCHITECTURE.md:711 "within 30 days of completion" |
| `OrderPage.PageCatchesUp` | SEARCHING, `Navigated = FALSE` | lib/socket.ts:26 | the socket connects before the session is restored, is refused and stays so | orders/[id]/page.tsx:92 "Live push while dispatch is running" |
| `OrderPage.PaymentShown` | COMPLETED, `MaxLost = 1` | orders/[id]/page.tsx:151 | the answer to a payment is lost and the page keeps offering to pay | lib/api.ts:39 "the caller's UI action stays retryable by the user instead" |
| `OrderWizard.DraftTracked` | `MaxLost = 1` | step-description.tsx:155 | a failure after the draft was created forgets it, and the retry creates another | lib/wizard-store.ts:17 "a refresh mid-wizard resumes at the right screen" |
| `OrderWizard.TierShown` | 2 tiers, `MaxReloads = 1` | step-schedule.tsx:43 | a reload shows the default tier, and saves it | lib/wizard-store.ts:18 "server is the source of truth for the order's own fields" |
| `OrderWizard.AgreedIsQuoted` | 2 tiers, `Patient = FALSE` | orders/new/page.tsx:121 | consent is given to the quote cached from before the edit | orders.service.ts:137 "Editing a PRICED order invalidates its quote" |
| `OrderWizard.QuoteReady` | `Patient = FALSE`, 2 calls | orders/new/page.tsx:121 | a save that ends after the wizard was opened anew moves it to an analysis nobody runs | step-quote.tsx:35 "AI tahlil qilmoqda…" (analysis under way) |
| `OrderWizard.SubmittedLeaves` | `MaxLost = 1` | step-quote.tsx:53 | the answer to submit is lost and every retry is refused | lib/api.ts:39, as above |
| `MasterPage.OfferVisible` | 2 orders | master/page.tsx:161 | answering the newer of two offers hides the older | ARCHITECTURE.md:92 "Offers must reach masters in seconds" |
| `MasterPage.JobCatchesUp` | `CustomerCancels` | orders.service.ts:383 | a cancellation is pushed to nobody else | ARCHITECTURE.md:617 "missed messages self-heal on refetch" |
| `MasterPage.JobCatchesUp` | `MaxLost = 1` | master/page.tsx:158 | the answer to an accept is lost, and nothing fetches the job | lib/api.ts:39, as above |
| `MasterPage.CancelWasAsked` | 2 orders, `CustomerCancels` | master/page.tsx:222 | the question whether to cancel is answered for the next job | master/page.tsx:308 "Davom etasizmi?" (continue?) |
| `MasterPage.AnsweredNotLate` | `CustomerCancels` | dispatch.service.ts:57 | an answer in time is refused, and the master penalised as late | dispatch.service.ts:55 "a timed-out (not explicitly declined) offer" |
| `MasterPage.ToggleShown` | 2 calls, 3 toggles | master/page.tsx:148 | two toggles answered out of order leave the opposite shown | users.service.ts:123 "the master's own working-hours declaration" |
| `MasterPage.MediaLimit` | 2 calls, `MaxUploads = 2` | orders.service.ts:197 | two uploads pass the check before either has stored its file | orders.service.ts:198 "Ko'pi bilan … ta fayl" (at most … files) |
| `Onboarding.SentMeansAsked` | `MaxRequests = 2` | master/onboarding/page.tsx:135 | a rejection it has not fetched makes the page say "sent" without asking | master/onboarding/page.tsx:194 "so'rovingiz yuborildi" (your request was sent) |
| `WebSession.RestoresSession` | 3 tokens | session-bootstrap.tsx:19 | the answer to the refresh is lost, and the token with it; with 2 loads nothing need be lost: a page reloaded while its refresh is under way sends the token again that the first uses up, as two tabs do to each other | session-bootstrap.tsx:7 "silently restore a session from the refresh cookie" |
| `LiveTracking.PositionIsCounterparts` | 2 orders, 2 customers | master/page.tsx:573 | the dashboard goes to the next job with the component, and the address, of the one before | live-tracking-map.tsx:42 "Seeds the map before any live update arrives — e.g. the order's original address pin" |
| `LiveTracking.LatestShown` | `MaxMoves = 2` | realtime.gateway.ts:103 | two updates overtake each other and the page ends on the older | live-tracking-map.tsx:121 "in sync with the latest coordinates" |
| `LiveTracking.MapTornDown` | 1 mount | live-tracking-map.tsx:172 | the map of a closed page is not destroyed | live-tracking-map.tsx:170 "Tear down the map instance on unmount/deactivation" |

The same shapes return: a write that is not conditioned on what was read
(`ImplementsLifecycle`, `ActiveCredentialsKept`, `SuspensionHolds`, `TrialHonoured`,
`CodeConsumed`), an effect after the transaction it belongs to (`CancellationPenalised`,
`RewardIsPaid`, `DecisionAudited`), a counter given its time to live in a second call
(`CapLifts`, `LockoutLifts`), a component that keeps state across the thing it is about
(`CancelWasAsked`, `TierShown`, `QuoteReady`), and a page that waits for an answer or an
event it will not get (`SubmittedLeaves`, `VisitCatchesUp`, `PaymentShown`, `PageCatchesUp`).

Of orders and dispatch, the first three (and `DoubleSubmit`) need overlapping requests of
one customer and disappear under `SerialEdits`; a guarded write in updateDraft, diagnose and
submit, like that of every other operation, would remove them but for `QuoteCurrent`, where
an edit of a DRAFT leaves the status as the diagnosis read it.  The others do not depend on
the client.

## Proofs

The theorems about orders and dispatch hold for any sets of orders, masters, tiers, requests and workers, any radius
table and any number of failures, from `StoreAssumption` (the types of the constants, and
that `None` and the model's names do not collide).

* `Types`: `Spec => [](TypeOK /\ ExecOK)`.  `TypeOK` is not inductive by itself: a write
  needs to know that the handler carries an order, and a master where it uses one.
  `ExecOK` (`HandlerOK` of every slot) says what a handler at each await carries.  The proof
  has one lemma per group of actions and one step per action; `ExecSet`, `GotoOK`,
  `CascadeOK` and `ReturnOK` do the slot, `WriteType` and `GuardedType` the row.
* `NoSecondOfferHolds`, from `RowSteps`: what each action may do to a dispatch row.
* `AssignedMasterAcceptedHolds`, from `RowSteps` and `StatusSteps`: a status other than
  DRAFT, PRICED or SEARCHING is reached by an edge of the table or by an acceptance.
* `OneLatePenaltyHolds`.  The property is not inductive: a second worker could be on its
  way to record the same offence.  `PenaltyOK` adds that a handler about to record one is
  alone, that nothing is recorded yet, and that the offer has already left OFFERED for
  good; `LateFrames` shows that no other action comes near.

These four do not use `SerialEdits`.  Those of the second half of `MarketplaceProofs` are
proved under it (without it TLC refutes most of them, see the known disagreements):

* `SequentialOffersHolds` and `OneAcceptedHolds`.  The invariant is
  `LockOK /\ SerialInv`.  One baton per order (`BatonOK`: an open offer, or one handler
  between "late" and "offer") is what the property says, and every action of the dispatch
  service passes it on; but submit creates one, so nobody else may be at work on an order
  that is still unsubmitted (`QuietOK`), and submit must find the status it read
  (`EditsOK`).  `commitAccept` writes the order without looking: `LockOK` says that it is
  still SEARCHING, `AssignmentOK` that it then has no master.
* `LifecycleRefined`: `Spec => ImplementsLifecycle`, from the same invariant, with the
  identity as the mapping of status and master.  `EdgeIsMove` turns a write along an edge
  into a step of `OrderLifecycle`; `CommitIsAssign` is the acceptance.
* `HistoryChainHolds` and `JobsDoneCountedHolds`, from `RowInv`, which says two things of an
  order's row and the handlers that are about to write it.  `HistoryOK`: the newest history
  row ends in the status, so that a write which records the status it read continues from it;
  only failSearch, which writes status and history in two statements, may leave the row of an
  EXPIRED order missing.  `CreditOK`: the jobs counted are the closed orders, and a
  confirmation in flight credits the master the order still has; closing an order and counting
  it are one transaction, and nothing takes a closed order anywhere else.  Both need
  `SerialEdits` for the writes of updateDraft, diagnose and submit, which do not look at the
  status again.  `QuoteCurrent` is not among the theorems: what can go wrong with a quote is
  just the overlap of a diagnosis with an edit that `SerialEdits` excludes.

`PaymentsProofs` proves the payments, for any orders, customers, requests, bounds and
failures, from `PaymentsAssumption` (the types of the constants).

* `PaymentTypes`: `TypeOK` with `PaymentsInv`, which everything else follows from.
  `HandlerOK` says what a handler at each await carries and has found, `RowOK` how a
  payment's row, its charge and its notices belong together, `OneActive` that an order has
  one active payment, and `OneSettling` that whoever settles or resolves a payment, or
  rewards a referral, is alone with it.
* `NoDoubleChargeHolds` from `OneActive`: the transaction of initiate holds the order's row
  while it looks for an active payment and inserts its own.
* `SettledOnceHolds` from `OneSettling`.  The updates of resolve and of the referral are
  guarded and let one handler pass; only that one writes notices or cashback.  The write of
  settle is not guarded, but its handler is alone: a callback of the rail looks for a
  reference that only settle writes, together with the outcome, and so finds nothing PROCESSING.
* `OrderPaymentRefined`: `Spec => ImplementsOrderPayment`, one step of `OrderPayment` or a
  stutter for each action, and every order's mapping changed for the payment's own order
  alone.  A callback of the rail turns out to settle nothing: it finds its payment by a
  reference that is only written with the outcome (`RowOK`), so what it finds is settled.

`AccountsProofs`, `CodesProofs` and `ReputationProofs` each prove that the component's types
and an inductive invariant, stated at the end of its module, hold for every value of the
constants (`AccountsAssumption`, `CodesAssumption`, `ReputationAssumption`: requests are
finitely many, limits are positive as `config/env.ts` demands, bounds are numbers, `None` is no
request), and from it:

* `Accounts.SingleUse`.  A session that is live is unused, and a request that consumed one
  holds its row until it is revoked (`SessionOK`, `RequestOK`); the bound on passwords
  counts those about to be written.
* `OneTimeCodes`: `MeteredWithinCap`, `GuessesBounded` and `ReplacedNotAccepted`.  What is
  bounded is not what was sent but what was sent and what counted requests are about to
  send (`MeterOK`), and likewise the wrong codes tried on a row with those past its check
  (`RowOK`).  `CountMoves` says how the number of requests at a place changes when one
  request moves; `Newest`, that the newest live row exists, uses that the order of the
  natural numbers is well founded.
* `Reputation.OneComplaintPerOrder`.  A review that is inserted and not committed keeps
  others of its order out (`RequestOK`, `OrderOK`), and one request is about to penalise
  (`OnePenalising`).

`ServicesProofs` carries these over to `MCServices`, the specification the runs explore:
`ServicesTypes`, `SingleUseHolds`, `OneComplaintHolds` and `ServiceLimitsHold` state the runs'
own properties, for any requests, sessions and limits, from `ServicesAssumption`.  There each
component is instantiated with its proofs, so that `ServicesStep` only has to say that a
part takes the component's steps or rests.  The login guard (`LoginInv`: while Redis
answers, each wrong password is counted or about to be) and the trial are proved in the
same module.

Guarantee claims are proved there too: for any orders, administrators, requests and bounds
(`GuaranteeAssumption`: the bounds are numbers, `None` is no status), a claim is
decided, told and audited once: `GuaranteeTypes`, `OneDecisionHolds`, `AuditTruthfulHolds`.
None of the properties is inductive.  `DecisionInv` adds what a decision carries at each
await (`CallOK`), that a call past its write is its claim's only one (`OneHolder`), and that
a claim still open has no notification and no audit row (`RowsOK`).  That the audit row's
`before` is right, although the controller reads it apart from the service's own check,
follows from the page: it only offers claims it has listed, so the claim existed, and a
claim that was open at the check was open at every earlier reading.

The trust score is proved there as well, for any ratings within 0..500 hundredths and any
history (`TrustScoreHolds`).  Its invariant says only that the counts are numbers; the proof
is the arithmetic.  `RawIs` shows that the model's divisions into the common denominator are
exact, so that `rawScore` over it is the sum of the code's fractions; `ScoreIs`, that the
deduction may be taken off before rounding or after; `RoundMono`, by comparing crosswise, that
`Math.round` keeps the order of two quotients with different denominators.  `ScoreMono`
concludes that a history which is better in every respect does not score less, the defaults
for an empty history included (`RateMono`), and each event makes the history better, or worse,
in every respect it touches.

`DashboardProofs` proves the master's page for any orders, calls that overlap and bounds, from
`PageAssumption` (bounds are numbers, calls are finitely many, `None` is no order and no name of
a call or state).

* `DashboardTypes`: `TypeOK` with `PageInv`, which it needs: `CallOK` says what a call in flight
  carries, `FetchOK` what a fetch may bring; `UploadsOK` bounds an order's files by counting
  the uploads past their check with those stored; `LateOK` says that only an offer that
  expired was penalised, so that the next expiry is the first.
* `AmountIsForJobHolds`, from `CallOK` and `AmountOK`: the amount in the form is for the job the
  page shows, because the effect on `currentJob?.id` empties it when another job takes its place.
* `FreshActionsHold`: the buttons' conditions against the server's table, in every state.

`FormsProofs` proves what the run `Forms` checks, but for the wizard, for any orders, files,
administrators, clicks, users, rows, positions and payments, from `FormsAssumption`: bounds are
numbers, clicks are finitely many, `None` is no value of theirs, and there is one tab, without
which `SessionKept` is false (see the known disagreements).  `Forms` also has the wizard used by
a customer who acts on a page at rest (`Patient`); its agreement with the server
(`WizardConsistent`) is not among the theorems, since what threatens it most is the customer who
does not wait.  Each component
states its inductive invariant at the end of its module; `FormsOK` is their conjunction, and
`FormsStep` has one step per component, whose invariant its own steps keep and the others'
leave alone.

* `OnboardingConsistentHolds`.  That two submissions do not leave two requests open is
  `NoPending` at the insert, but that the profile follows the latest also needs that a decision
  can only be about that one (`LatestOpen`): the transaction of decide finds it still open.  A
  file's rows are counted with those about to be written (`FilesOK`), since its copy is stored
  a step earlier; a submission carries the skills it will save (`SubmissionOK`), so that a
  request is complete whatever the form shows by then.
* `SessionKeptHolds`, `NobodyTurnedAwayHolds`.  Between a refresh that the server has served and
  its answer, the page holds a token that is no longer good.  `PairOK` says that the cookie is
  held by the user in memory unless a logout is under way, `BootOK` and `FormOK` that an answer
  under way brings a token nobody else relies on, `StrayOK` the same of the calls that a page
  has left behind and the server may yet serve; then whichever answer is taken first, the pair
  fits.  `RestoreOK` follows a load from the cookie it sent to the answer: as long as nothing
  else may use the token up, it stays good until the refresh rotates it, and the page is not
  ready before the user is there.
* `FormsTypes` includes what the wizard's types rest on: a save is a chain of requests which
  runs on by itself; `SaveOK` says what holds at each of them (`addressed` before the files,
  PRICED before the last step is shown), and `FetchOK` that no fetch is under way meanwhile.
* `ListsConsistentHolds`.  A reader has only rows above its cursor (`ReaderOK`), and an answer is
  kept under the filter it was asked for (`AnswerOK`).  `Listed`, that every finite set of
  numbers is listed newest first by some decreasing function, is induction over data; it is
  proved for the sets that occur with the well-ordering of the naturals instead.
* `MapFollowsJobsHolds`.  A map is left in mapRef when its job ends, its box gone, because the
  cleanup that empties mapRef is registered only while the component is not active; it runs when
  the next job makes it active.  `PageOK` says that a page without a map may still draw one
  and that the one it holds is alive, which bounds the maps by the mounts.
* `FreshOffersAcceptedHolds`.  That the button to pay is accepted needs that only the newest
  payment can be active (`NewestActive`), because the page looks at the newest and the server
  at all of them; and this that one click pays at a time (`OnePaying`), because the payment
  button is disabled while it is loading.  Only a restored session fetches and clicks (`SignedIn`).

Only model-checked:

* Liveness (`SearchEnds`, `OffersResolve`, `CancellationPenalised`, `SettlementCompletes`,
  `SuspensionTakesEffect`, `AdminActionsAudited`, `PageCatchesUp`, `VisitCatchesUp`): fairness and
  ENABLED are beyond the proof system.
* `QuoteCurrent` and `WizardConsistent`, for the reasons above.  The other invariants and action
  properties of the passing runs are each stated by a theorem.
* That `TrustScore.score`, `Listings.findMany` and the like compute what the code computes for
  every input where that would take induction over data: the theorems use their definitions,
  and TLC evaluates them on the instances of the runs.

## Plan

1. *(done)* Orders and dispatch, with the theorems and the refinement of `OrderLifecycle`.
2. *(done)* Payments with the refinement of `OrderPayment`, accounts, codes, reputation,
   subscriptions, guarantee claims, the pages.
3. *(done)* Proofs of the payments and their refinement, of history and jobs under
   `SerialEdits`, of the services with the trust score, and of the dashboard.
4. *(done)* Proofs of the wizard, onboarding, sign-in, the lists, the live map and the order's
   page, side by side in `Forms`.
5. The weights of dispatch scoring as a function against a reference definition.

## Not modelled

* Pricing (`pricing.ts`) multiplies by binary fractions and rounds to 5 000: the interesting
  cases (100 000 times 1.15 is just below 115 000) are those of floating point, which TLC's
  integers do not have.  The models keep which tier and diagnosis a price belongs to.
* The notification list, addresses, calendar slots, feature flags, catalog, analytics and
  support lookup are single inserts, upserts and reads.  Their failures abort the handler
  that awaits them, which the service modules that model failures allow for.
* The AI provider is the time between diagnose's read and its write; the SMS gateway, the
  payment rail and the tax provider answer or fail.
* Validation of single requests (schemas, file types, scheduling slots), configuration,
  logging, metrics and health checks.
* What the web client only renders: landing, marketing, profile, home, analytics and
  earnings pages, layout and wording.  Their guards and redirects are in `WebSession`.
