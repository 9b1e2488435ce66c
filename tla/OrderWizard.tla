---------------------------- MODULE OrderWizard ----------------------------
(***************************************************************************)
(* The three steps of placing an order (apps/web/app/orders/new): describe *)
(* and save, schedule and diagnose, agree and submit.  What survives a     *)
(* reload is the order's id and the step, in sessionStorage; the fields of *)
(* a step live in its component and are gone when the step changes; the    *)
(* order itself is on the server and, as last fetched, in the query cache. *)
(* A save is a chain of requests and goes on when its step is left.        *)
(*                                                                         *)
(* A request of the services is one step here; their own interleaving is   *)
(* in OrdersService.                                                       *)
(***************************************************************************)
EXTENDS Naturals, Sequences

CONSTANTS
  Details,       \* descriptions with their category
  Tiers, DefaultTier,
  Calls,         \* saves that may be in flight at the same time
  MaxOrders, MaxMedia,
  MaxLost,       \* bound on requests and answers the network loses
  MaxReloads,    \* bound on reloads
  Patient,       \* TRUE: the customer acts only on a page at rest
  None

VARIABLES
  orders,     \* server: the customer's orders
  store,      \* sessionStorage: order id (0: null) and step
  opened,     \* the wizard is on screen
  local,      \* the state of the step on screen
  cache,      \* query cache: order id -> order as last fetched
  fetch,      \* the fetch of an order in flight
  call,       \* the saves in flight
  lost, reloads

vars == <<orders, store, opened, local, cache, fetch, call, lost, reloads>>

Ids == 1..MaxOrders
Quotes == [details: Details, tier: Tiers]
Draft(d) == [status |-> "DRAFT", details |-> d, tier |-> DefaultTier, addressed |-> FALSE,
             quote |-> None, media |-> 0, agreed |-> None]
NoFetch == [id |-> 0, val |-> None]
NoCall == [kind |-> None, at |-> "idle", id |-> 0, details |-> None, tier |-> None,
           staged |-> 0, quote |-> None]
EDITABLE_STATUSES == {"DRAFT", "PRICED"}

\* orderQuery.data
order == IF store.order = 0 THEN None ELSE cache[store.order]

\* The state a step starts with, from the order if it is there.  made, the
\* draft this form has created, is history.
Local(v) ==
  [details |-> IF v = None THEN None ELSE v.details,
   tier |-> IF v = None THEN DefaultTier ELSE v.tier,
   staged |-> 0, removed |-> 0, touched |-> FALSE, consent |-> FALSE,
   saving |-> None, made |-> 0]

Quiet ==
  /\ \A c \in Calls : call[c] = NoCall
  /\ fetch = NoFetch /\ (opened /\ store.order # 0 => order # None)
Acting == opened /\ (Patient => Quiet)

\* Every variable keeps its type; an order that is priced or further has the
\* quote of its own details and tier.
TypeOK ==
  /\ Len(orders) <= MaxOrders
  /\ \A i \in 1..Len(orders) :
       /\ orders[i] \in [status: {"DRAFT", "PRICED", "SEARCHING"}, details: Details, tier: Tiers,
                         addressed: BOOLEAN, quote: Quotes \cup {None}, media: 0..MaxMedia,
                         agreed: Quotes \cup {None}]
       /\ orders[i].quote = IF orders[i].status = "DRAFT" THEN None
                            ELSE [details |-> orders[i].details, tier |-> orders[i].tier]
  /\ store.order \in 0..Len(orders) /\ store.step \in 1..3 /\ opened \in BOOLEAN
  /\ local.details \in Details \cup {None} /\ local.tier \in Tiers
  /\ local.staged \in 0..MaxMedia /\ local.saving \in Calls \cup {None}
  /\ lost \in 0..MaxLost /\ reloads \in 0..MaxReloads

Init ==
  /\ orders = <<>> /\ store = [order |-> 0, step |-> 1] /\ opened = FALSE
  /\ local = Local(None) /\ cache = [i \in Ids |-> None] /\ fetch = NoFetch
  /\ call = [c \in Calls |-> NoCall] /\ lost = 0 /\ reloads = 0

-----------------------------------------------------------------------------
(* Coming, going, and the query.                                           *)

\* Links from home with a category (reset), from a draft's page (resume), and
\* plain ones, which go on where the store says.  The page renders what was
\* stored before its effect resets it: a step 1 rendered with the earlier order
\* keeps its description.
openWizard ==
  /\ ~opened /\ opened' = TRUE
  /\ store' \in {store, [order |-> 0, step |-> 1]}
       \cup {[order |-> i, step |-> 1] : i \in {j \in 1..Len(orders) : orders[j].status = "DRAFT"}}
  /\ LET fresh == Local(IF store'.order = 0 THEN None ELSE cache[store'.order]) IN
     \/ local' = fresh
     \/ store.step = 1 /\ order # None /\ local' = [fresh EXCEPT !.details = order.details]
  /\ UNCHANGED <<orders, cache, fetch, call, lost, reloads>>

leave ==
  /\ Acting /\ opened' = FALSE
  /\ UNCHANGED <<orders, store, local, cache, fetch, call, lost, reloads>>

\* Only the store is left; the chains of requests end where they are.
reload ==
  /\ opened /\ reloads < MaxReloads /\ reloads' = reloads + 1
  /\ local' = Local(None) /\ cache' = [i \in Ids |-> None] /\ fetch' = NoFetch
  /\ call' = [c \in Calls |-> NoCall]
  /\ UNCHANGED <<orders, store, opened, lost>>

\* The header's and the steps' back buttons.
onBack ==
  /\ Acting /\ store.step > 1
  /\ store' = [store EXCEPT !.step = @ - 1]
  /\ local' = Local(order)
  /\ UNCHANGED <<orders, opened, cache, fetch, call, lost, reloads>>

\* useQuery fetches an order that is not cached; refetch starts over.
useQuery ==
  /\ opened /\ store.order # 0 /\ order = None /\ fetch = NoFetch
  /\ fetch' = [id |-> store.order, val |-> None]
  /\ UNCHANGED <<orders, store, opened, local, cache, call, lost, reloads>>

serverReads ==
  /\ fetch.id # 0 /\ fetch.val = None
  /\ fetch' = [fetch EXCEPT !.val = orders[fetch.id]]
  /\ UNCHANGED <<orders, store, opened, local, cache, call, lost, reloads>>

\* StepDescription's effect fills what is empty; StepSchedule has none.
fetched ==
  /\ fetch.val # None
  /\ cache' = [cache EXCEPT ![fetch.id] = fetch.val]
  /\ local' = IF store.step = 1 /\ fetch.id = store.order /\ local.details = None
                THEN [local EXCEPT !.details = fetch.val.details] ELSE local
  /\ fetch' = NoFetch
  /\ UNCHANGED <<orders, store, opened, call, lost, reloads>>

\* orderQuery.isError: reset.  Step 1 stays mounted, with what was typed.
fetchFails ==
  /\ fetch # NoFetch /\ lost < MaxLost /\ lost' = lost + 1
  /\ fetch' = NoFetch
  /\ IF opened /\ fetch.id = store.order
       THEN /\ store' = [order |-> 0, step |-> 1]
            /\ local' = IF store.step = 1 THEN local ELSE Local(None)
       ELSE UNCHANGED <<store, local>>
  /\ UNCHANGED <<orders, opened, cache, call, reloads>>

-----------------------------------------------------------------------------
(* The fields.                                                             *)

Set(f) == local' = f /\ UNCHANGED <<orders, store, opened, cache, fetch, call, lost, reloads>>

describe(d) == Acting /\ store.step = 1 /\ local.details # d /\ Set([local EXCEPT !.details = d])

totalMediaCount == (IF order = None THEN 0 ELSE order.media - local.removed) + local.staged
pickFile == Acting /\ store.step = 1 /\ totalMediaCount < MaxMedia /\ Set([local EXCEPT !.staged = @ + 1])
removeStaged == Acting /\ store.step = 1 /\ local.staged > 0 /\ Set([local EXCEPT !.staged = @ - 1])

\* deleteMedia: a file that is gone already is an error, and shown again.
removeExisting ==
  /\ Acting /\ store.step = 1 /\ order # None /\ order.media > local.removed
  /\ orders[store.order].media > 0
  /\ orders' = [orders EXCEPT ![store.order].media = @ - 1]
  /\ local' = [local EXCEPT !.removed = @ + 1]
  /\ UNCHANGED <<store, opened, cache, fetch, call, lost, reloads>>

setTier(t) ==
  /\ Acting /\ store.step = 2 /\ local.tier # t
  /\ Set([local EXCEPT !.tier = t, !.touched = TRUE])

\* StepQuote shows the quote, or that the analysis is under way.
quoteShown == order # None /\ order.quote # None
setConsent == Acting /\ store.step = 3 /\ quoteShown /\ Set([local EXCEPT !.consent = ~@])

-----------------------------------------------------------------------------
(* The saves.                                                              *)

Start(c, rec) ==
  /\ call[c] = NoCall
  /\ call' = [call EXCEPT ![c] = rec]
  /\ local' = [local EXCEPT !.saving = c]
  /\ UNCHANGED <<orders, store, opened, cache, fetch, lost, reloads>>

Ended(c) == IF local.saving = c THEN [local EXCEPT !.saving = None] ELSE local

\* Steps 1 and 2: the button is disabled while it is loading.  Step 3's is
\* given "disabled" and stays clickable.
handleNextDescription(c) ==
  /\ Acting /\ store.step = 1 /\ local.details # None /\ local.saving = None
  /\ Start(c, [NoCall EXCEPT !.kind = "describe", !.at = "save", !.details = local.details,
                 !.id = IF order = None THEN 0 ELSE store.order, !.staged = local.staged])

handleNextSchedule(c) ==
  /\ Acting /\ store.step = 2 /\ order # None /\ local.saving = None
  /\ Start(c, [NoCall EXCEPT !.kind = "schedule", !.at = "save", !.id = store.order, !.tier = local.tier])

handleSubmit(c) ==
  /\ Acting /\ store.step = 3 /\ quoteShown /\ local.consent
  /\ Start(c, [NoCall EXCEPT !.kind = "submit", !.at = "submit", !.id = store.order, !.quote = order.quote])

Fail(c) ==
  /\ call' = [call EXCEPT ![c] = NoCall]
  /\ local' = Ended(c)
Editable(i) == orders[i].status \in EDITABLE_STATUSES

createDraft(c) ==
  /\ call[c].at = "save" /\ call[c].id = 0 /\ Len(orders) < MaxOrders
  /\ orders' = Append(orders, Draft(call[c].details))
  /\ call' = [call EXCEPT ![c].id = Len(orders) + 1, ![c].at = "address"]
  /\ local' = IF local.saving = c THEN [local EXCEPT !.made = Len(orders) + 1] ELSE local
  /\ UNCHANGED <<store, opened, cache, fetch, lost, reloads>>

\* Editing a PRICED order takes it back to DRAFT.
updateDraft(c) ==
  LET i == call[c].id IN
  /\ call[c].at = "save" /\ i # 0
  /\ IF Editable(i)
       THEN /\ orders' = [orders EXCEPT ![i] =
                 [@ EXCEPT !.status = "DRAFT", !.quote = None,
                           !.details = IF call[c].kind = "describe" THEN call[c].details ELSE orders[i].details,
                           !.tier = IF call[c].kind = "schedule" THEN call[c].tier ELSE orders[i].tier]]
            /\ call' = [call EXCEPT ![c].at = IF call[c].kind = "describe" THEN "address" ELSE "diagnose"]
            /\ UNCHANGED local
       ELSE Fail(c) /\ UNCHANGED orders
  /\ UNCHANGED <<store, opened, cache, fetch, lost, reloads>>

\* The second PATCH: the address alone keeps the quote.
updateAddress(c) ==
  /\ call[c].at = "address"
  /\ IF Editable(call[c].id)
       THEN /\ orders' = [orders EXCEPT ![call[c].id].addressed = TRUE]
            /\ call' = [call EXCEPT ![c].at = "upload"] /\ UNCHANGED local
       ELSE Fail(c) /\ UNCHANGED orders
  /\ UNCHANGED <<store, opened, cache, fetch, lost, reloads>>

addMedia(c) ==
  /\ call[c].at = "upload" /\ call[c].staged > 0
  /\ IF Editable(call[c].id) /\ orders[call[c].id].media < MaxMedia
       THEN /\ orders' = [orders EXCEPT ![call[c].id].media = @ + 1]
            /\ call' = [call EXCEPT ![c].staged = @ - 1] /\ UNCHANGED local
       ELSE Fail(c) /\ UNCHANGED orders
  /\ UNCHANGED <<store, opened, cache, fetch, lost, reloads>>

\* onNext that trusts what is cached.
MoveOnCached(c, step) ==
  /\ store' = [order |-> IF step = 2 THEN call[c].id ELSE store.order, step |-> step]
  /\ local' = Local(IF store'.order = 0 THEN None ELSE cache[store'.order])
  /\ call' = [call EXCEPT ![c] = NoCall]
  /\ UNCHANGED <<orders, opened, cache, fetch, lost, reloads>>

\* onNext of a save: name the order, show the step, fetch the order again.
MoveOn(c, step) ==
  /\ store' = [order |-> IF step = 2 THEN call[c].id ELSE store.order, step |-> step]
  /\ local' = Local(IF store'.order = 0 THEN None ELSE cache[store'.order])
  /\ fetch' = IF store'.order = 0 THEN fetch ELSE [id |-> store'.order, val |-> None]
  /\ call' = [call EXCEPT ![c] = NoCall]
  /\ UNCHANGED <<orders, opened, cache, lost, reloads>>

onNextDescription(c) == call[c].at = "upload" /\ call[c].staged = 0 /\ MoveOn(c, 2)

diagnose(c) ==
  LET i == call[c].id IN
  /\ call[c].at = "diagnose"
  /\ IF orders[i].status = "DRAFT"
       THEN /\ orders' = [orders EXCEPT ![i].status = "PRICED",
                                        ![i].quote = [details |-> orders[i].details, tier |-> orders[i].tier]]
            /\ call' = [call EXCEPT ![c].at = "diagnosed"] /\ UNCHANGED local
       ELSE Fail(c) /\ UNCHANGED orders
  /\ UNCHANGED <<store, opened, cache, fetch, lost, reloads>>

onNextSchedule(c) == call[c].at = "diagnosed" /\ MoveOn(c, 3)

submit(c) ==
  LET i == call[c].id IN
  /\ call[c].at = "submit"
  /\ IF orders[i].status = "PRICED" /\ orders[i].addressed
       THEN /\ orders' = [orders EXCEPT ![i].status = "SEARCHING", ![i].agreed = call[c].quote]
            /\ call' = [call EXCEPT ![c].at = "submitted"] /\ UNCHANGED local
       ELSE Fail(c) /\ UNCHANGED orders
  /\ UNCHANGED <<store, opened, cache, fetch, lost, reloads>>

\* reset, and on to the order's page.
onSubmitted(c) ==
  /\ call[c].at = "submitted"
  /\ store' = [order |-> 0, step |-> 1] /\ opened' = FALSE
  /\ call' = [call EXCEPT ![c] = NoCall]
  /\ UNCHANGED <<orders, local, cache, fetch, lost, reloads>>

\* A request or its answer is lost: the error is shown, the chain ends.
requestLost(c) ==
  /\ call[c] # NoCall /\ lost < MaxLost /\ lost' = lost + 1
  /\ Fail(c)
  /\ UNCHANGED <<orders, store, opened, cache, fetch, reloads>>

-----------------------------------------------------------------------------
Query == useQuery \/ serverReads \/ fetched
Save(c) == \/ createDraft(c) \/ updateDraft(c) \/ updateAddress(c) \/ addMedia(c) \/ onNextDescription(c)
           \/ diagnose(c) \/ onNextSchedule(c) \/ submit(c) \/ onSubmitted(c)

Next ==
  \/ openWizard \/ leave \/ reload \/ onBack \/ Query \/ fetchFails
  \/ pickFile \/ removeStaged \/ removeExisting \/ setConsent
  \/ \E d \in Details : describe(d)
  \/ \E t \in Tiers : setTier(t)
  \/ \E c \in Calls : \/ Save(c) \/ requestLost(c)
                      \/ handleNextDescription(c) \/ handleNextSchedule(c) \/ handleSubmit(c)

\* Browser, network and server make progress.
Spec == Init /\ [][Next]_vars /\ WF_vars(Query) /\ \A c \in Calls : WF_vars(Save(c))

-----------------------------------------------------------------------------
\* Whatever was lost, reloaded or left, an order shown in a later step has its
\* address: submit is not refused at the end for something asked at the start.
LaterStepsComplete == store.step > 1 /\ store.order # 0 => orders[store.order].addressed

\* At rest, the last step shows a quote: "AI tahlil qilmoqda" (the analysis is
\* under way) is shown only while something is under way.
QuoteReady == opened /\ Quiet /\ store.step = 3 => quoteShown

\* The quote an order is submitted with is the one the customer saw and agreed to.
AgreedIsQuoted ==
  \A i \in 1..Len(orders) : orders[i].status = "SEARCHING" => orders[i].agreed = orders[i].quote

\* A submitted order leaves the wizard.
SubmittedLeaves ==
  \A i \in Ids : (i <= Len(orders) /\ orders[i].status = "SEARCHING" /\ store.order = i) ~> store.order # i

\* sessionStorage names the draft the form has created, for a reload to resume.
DraftTracked == Quiet /\ local.made # 0 => store.order = local.made

\* Step 2 shows what the server holds until the customer changes it.
TierShown == opened /\ Quiet /\ store.step = 2 /\ order # None /\ ~local.touched => local.tier = order.tier

-----------------------------------------------------------------------------
(* What the theorems assume of the constants, and the inductive invariant. *)

WizardAssumption ==
  /\ MaxOrders \in Nat /\ MaxMedia \in Nat /\ MaxLost \in Nat /\ MaxReloads \in Nat
  /\ DefaultTier \in Tiers
  /\ None \notin Details \cup Quotes
  /\ Patient = TRUE

Saved == [status: {"DRAFT", "PRICED", "SEARCHING"}, details: Details, tier: Tiers, addressed: BOOLEAN,
          quote: Quotes \cup {None}, media: 0..MaxMedia, agreed: Quotes \cup {None}]
Saves == [kind: {"describe", "schedule", "submit", None},
          at: {"idle", "save", "address", "upload", "diagnose", "diagnosed", "submit", "submitted"},
          id: 0..MaxOrders, details: Details \cup {None}, tier: Tiers \cup {None},
          staged: 0..MaxMedia, quote: Quotes \cup {None}]
Fields == [details: Details \cup {None}, tier: Tiers, staged: 0..MaxMedia, removed: Nat,
           touched: BOOLEAN, consent: BOOLEAN, saving: Calls \cup {None}, made: Nat]

ShapeOK ==
  /\ orders \in Seq(Saved) /\ store \in [order: 0..Len(orders), step: 1..3] /\ local \in Fields
  /\ cache \in [Ids -> Saved \cup {None}] /\ call \in [Calls -> Saves]
  /\ fetch \in [id: 0..Len(orders), val: Saved \cup {None}]

\* A fetch is of the order on screen, before any of its media were removed;
\* nothing else goes on meanwhile.
FetchOK ==
  fetch # NoFetch =>
    /\ opened /\ store.order # 0 /\ fetch.id = store.order
    /\ local.removed = 0 /\ \A c \in Calls : call[c].at = "idle"

\* A step shows what the ones before it have prepared; the last one the quote
\* the server holds, unless it is about to fetch it.
StepOK ==
  /\ store.step > 1 => store.order # 0 /\ orders[store.order].addressed
  /\ store.step = 3 =>
       /\ orders[store.order].status # "DRAFT"
       /\ fetch = NoFetch /\ cache[store.order] # None => cache[store.order].quote = orders[store.order].quote
       /\ fetch.val # None => fetch.val.quote = orders[store.order].quote
  /\ opened => IF order = None THEN local.removed = 0 ELSE local.removed <= order.media

\* A save under way is the only one, and that of the step on screen.
SaveOK(c) ==
  LET s == call[c] IN
  /\ s.at = "idle" => s = NoCall
  /\ s.at # "idle" => /\ opened /\ \A d \in Calls \ {c} : call[d].at = "idle"
                      /\ fetch = NoFetch /\ (store.order # 0 => order # None)
                      /\ s.id \in 0..Len(orders)
                      /\ \/ s.kind = "describe" /\ store.step = 1 /\ s.at \in {"save", "address", "upload"}
                            /\ s.details \in Details
                         \/ s.kind = "schedule" /\ store.step = 2 /\ s.at \in {"save", "diagnose", "diagnosed"}
                            /\ s.id = store.order /\ s.tier \in Tiers
                         \/ s.kind = "submit" /\ store.step = 3 /\ s.at \in {"submit", "submitted"}
                            /\ s.id = store.order
  /\ s.at \in {"address", "upload"} => s.id # 0
  /\ s.at = "upload" => orders[s.id].addressed
  /\ s.at = "diagnosed" => orders[s.id].status = "PRICED"
  /\ s.at = "submit" => s.quote = orders[s.id].quote

WizardInv == ShapeOK /\ FetchOK /\ StepOK /\ AgreedIsQuoted /\ \A c \in Calls : SaveOK(c)
=============================================================================
