------------------------------- MODULE Forms -------------------------------
(***************************************************************************)
(* The rest of the web client side by side: the order wizard, the master's *)
(* onboarding, sign-in and session, the paged lists, the live map and the  *)
(* customer's page of an order.                                            *)
(* They share nothing their properties depend on; a variable that two of   *)
(* them call by the same name is renamed.                                  *)
(*                                                                         *)
(* A customer of the wizard acts on a page at rest (Patient) and the       *)
(* browser shows one tab: without these, WizardConsistent and SessionKept  *)
(* fail, as README says.                                                   *)
(***************************************************************************)
EXTENDS Naturals, Sequences

CONSTANTS
  None,
  Details, Tiers, DefaultTier, Calls, MaxOrders, MaxMedia, MaxLost, MaxReloads,  \* the wizard
  Files, Skills, Admins, Clicks, MaxRequests, MaxCopies,                         \* onboarding
  Users, MaxTokens, MaxLoads,                                                    \* sign-in
  Statuses, Done, Me, Take, MaxRows,                                             \* lists
  Orders, Customers, Masters, MaxMoves, MaxMounts,                               \* the map
  Requests, StartStatuses, Navigated, MaxPayments                                \* an order's page

VARIABLES
  orders, store, opened, local, cache, fetch, call, lost, reloads,
  profile, disk, media, requests, cached, form, sub, admin,
  row, issued, pending, cookie, tab, boot, entry, stray, loads,
  rows, reader, list,
  order, pos, relaying, inbox, page, maps, script,
  status, pays, rated, claim, ready, socket, pushed, view, fetching, mapMounted, req, dropped

W == INSTANCE OrderWizard WITH Patient <- TRUE
O == INSTANCE Onboarding WITH rows <- media
S == INSTANCE WebSession WITH Tabs <- {"tab"}, form <- entry
R == INSTANCE Listings WITH Reading <- TRUE, Browsing <- TRUE, page <- list
T == INSTANCE LiveTracking
P == INSTANCE OrderPage WITH fetch <- fetching, lost <- dropped

\* Each component's assumptions on its constants.
ASSUME FormsAssumption ==
  /\ W!WizardAssumption /\ O!OnboardingAssumption /\ S!SessionAssumption
  /\ R!ListsAssumption /\ T!TrackingAssumption /\ P!PageAssumption

wizardVars == <<orders, store, opened, local, cache, fetch, call, lost, reloads>>
onboardingVars == <<profile, disk, media, requests, cached, form, sub, admin>>
sessionVars == <<row, issued, pending, cookie, tab, boot, entry, stray, loads>>
listVars == <<rows, reader, list>>
mapVars == <<order, pos, relaying, inbox, page, maps, script>>
pageVars == <<status, pays, rated, claim, ready, socket, pushed, view, fetching, mapMounted, req, dropped>>
vars == <<wizardVars, onboardingVars, sessionVars, listVars, mapVars, pageVars>>

Init == W!Init /\ O!Init /\ S!Init /\ R!Init /\ T!Init /\ P!Init

WizardStep == W!Next /\ UNCHANGED <<onboardingVars, sessionVars, listVars, mapVars, pageVars>>
OnboardingStep == O!Next /\ UNCHANGED <<wizardVars, sessionVars, listVars, mapVars, pageVars>>
SessionStep == S!Next /\ UNCHANGED <<wizardVars, onboardingVars, listVars, mapVars, pageVars>>
ListStep == R!Next /\ UNCHANGED <<wizardVars, onboardingVars, sessionVars, mapVars, pageVars>>
MapStep == T!Next /\ UNCHANGED <<wizardVars, onboardingVars, sessionVars, listVars, pageVars>>
PageStep == P!Next /\ UNCHANGED <<wizardVars, onboardingVars, sessionVars, listVars, mapVars>>

Next == WizardStep \/ OnboardingStep \/ SessionStep \/ ListStep \/ MapStep \/ PageStep

Spec == Init /\ [][Next]_vars

-----------------------------------------------------------------------------
\* Every page's type invariant.
TypesOK == W!TypeOK /\ O!TypeOK /\ S!TypeOK /\ R!TypeOK /\ T!TypeOK /\ P!TypeOK

\* Whatever is lost, reloaded or left, a customer who acts on a page at rest
\* comes to no step the earlier ones have not prepared, sees a quote in the
\* last and submits the quote he agreed to (page.tsx, step-*.tsx).
WizardConsistent == W!LaterStepsComplete /\ W!QuoteReady /\ W!AgreedIsQuoted

\* However submissions, resubmissions, uploads and administrators' decisions
\* interleave: the master's status is that of his latest request, at most one
\* request is open, it is complete, and every media row has its file (submit,
\* decide, addMasterMedia).
OnboardingConsistent ==
  O!ProfileFollowsLatest /\ O!OnePending /\ O!PendingIsComplete /\ O!RowsHaveFiles

\* However reloads, closed tabs, sign-ins and sign-outs interleave with the
\* refresh of a rotating cookie: at rest, memory and cookie name the same user
\* (SessionBootstrap, the auth pages).
SessionKept == S!CookieMatchesUser

\* A private page loaded with a live session in the cookie does not turn its
\* user away, unless an earlier page's call was on its way at the load or the
\* refresh was lost (SessionBootstrap, useRequireAuth).
NobodyTurnedAway == S!NobodyTurnedAway

\* A reader gets rows newest first and none twice; a page shows rows of the
\* owner its filter names, in whatever order the answers arrive (the lists'
\* findMany, useQuery).
ListsConsistent == R!NewestFirst /\ R!ShownMatchesFilter

\* However many jobs the dashboard's one LiveTrackingMap shows, and though a
\* map that loses its box is destroyed only when a later job is tracked: every
\* tracked job gets a map in the box on screen, and no browser keeps more maps
\* alive than it has mounted components (the effects of LiveTrackingMap).
MapFollowsJobs == T!MapInItsBox /\ T!OneMapPerMount

\* The order's page and the services agree: whatever its fetches, clicks and
\* pushes have come to, a button shown on a current view is one whose call the
\* server accepts (page.tsx; orders, payments and reviews services).
FreshOffersAccepted == P!FreshOffersAccepted
=============================================================================
