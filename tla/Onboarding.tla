----------------------------- MODULE Onboarding -----------------------------
(***************************************************************************)
(* Master onboarding and verification: the onboarding page with its chain  *)
(* of uploads, profile update and verification request; UsersService and   *)
(* VerificationService behind it; the administrators' queue of requests    *)
(* and AdminController.decideVerification.  One master.                    *)
(*                                                                         *)
(* The page's submit button is given `disabled`, which Button prefers to   *)
(* `loading`: it stays clickable, so several submissions overlap.  Every   *)
(* transaction is one step, every await between them an interleaving       *)
(* point, and every request may fail there.                                *)
(***************************************************************************)
EXTENDS Naturals, Sequences, FiniteSets

CONSTANTS
  Files, Skills, Admins, None,
  Clicks,        \* the submissions the page may have in flight
  MaxRequests,   \* bound on verification requests
  MaxCopies      \* bound on the copies of a file uploaded

VARIABLES
  profile,   \* master_profiles, master_skills, service_areas
  disk,      \* LocalDiskStorage: copies of each file
  rows,      \* master_media rows of each file
  requests,  \* verifications, oldest first
  cached,    \* the page's ['master', 'profile'] query, None before it answers
  form,      \* the page's form and step
  sub,       \* each submission's progress
  admin      \* each administrator's list and decision

vars == <<profile, disk, rows, requests, cached, form, sub, admin>>

VerificationStatus == {"UNVERIFIED", "PENDING", "VERIFIED", "REJECTED"}
Profiles == [skills: SUBSET Skills, area: BOOLEAN, verification: VerificationStatus]
Decided == {"VERIFIED", "REJECTED"}

EmptyForm == [step |-> "form", hydrated |-> FALSE, skills |-> {}, area |-> FALSE, files |-> {}]
Idle == [at |-> "idle", files |-> {}, file |-> None, skills |-> {}, status |-> "UNVERIFIED"]
NoDecision(list) == [list |-> list, at |-> "idle", request |-> 0, approve |-> FALSE]

\* Every variable keeps its type; a request under way is one that exists.
TypeOK ==
  /\ profile \in Profiles /\ cached \in Profiles \cup {None}
  /\ disk \in [Files -> 0..MaxCopies] /\ rows \in [Files -> 0..MaxCopies]
  /\ Len(requests) <= MaxRequests
  /\ \A i \in 1..Len(requests) :
       requests[i] \in [status: VerificationStatus \ {"UNVERIFIED"}, notified: BOOLEAN, audited: BOOLEAN]
  /\ form \in [step: {"form", "submitted"}, hydrated: BOOLEAN, skills: SUBSET Skills, area: BOOLEAN,
               files: SUBSET Files]
  /\ sub \in [Clicks -> [at: {"idle", "upload", "row", "profile", "verify"}, files: SUBSET Files,
                         file: Files \cup {None}, skills: SUBSET Skills, status: VerificationStatus]]
  /\ \A a \in Admins : admin[a].list \subseteq 1..Len(requests) /\ admin[a].request \in 0..Len(requests)

Init ==
  /\ profile = [skills |-> {}, area |-> FALSE, verification |-> "UNVERIFIED"]
  /\ disk = [f \in Files |-> 0] /\ rows = disk
  /\ requests = <<>>
  /\ cached = None /\ form = EmptyForm
  /\ sub = [c \in Clicks |-> Idle]
  /\ admin = [a \in Admins |-> NoDecision({})]

-----------------------------------------------------------------------------
(* The page.                                                               *)

Pages == <<cached, form>>
Server == <<profile, disk, rows, requests>>

\* Prefill from the profile once.
hydrate(p) ==
  IF form.hydrated THEN form
  ELSE [form EXCEPT !.hydrated = TRUE, !.skills = p.skills, !.area = p.area]

\* useQuery's first fetch and its refetches.
getMasterProfile ==
  /\ cached # profile
  /\ cached' = profile /\ form' = hydrate(profile)
  /\ UNCHANGED <<Server, sub, admin>>

\* Leaving the page and coming back: an empty form, filled from the cache.
reopen ==
  /\ form.hydrated /\ \A c \in Clicks : sub[c].at = "idle"
  /\ form' = [EmptyForm EXCEPT !.hydrated = TRUE, !.skills = cached.skills, !.area = cached.area]
  /\ form' # form
  /\ UNCHANGED <<Server, cached, sub, admin>>

Editing == cached # None /\ form.step = "form"

toggleSkill(k) ==
  /\ Editing
  /\ form' = [form EXCEPT !.skills = IF k \in @ THEN @ \ {k} ELSE @ \cup {k}]
  /\ UNCHANGED <<Server, cached, sub, admin>>

\* getCurrentPosition answers; when it is refused only an error is shown.
handleLocate ==
  /\ Editing
  /\ form' = [form EXCEPT !.area = TRUE]
  /\ UNCHANGED <<Server, cached, sub, admin>>

\* The avatar and certificate inputs, and the list's remove buttons.
chooseFile(f) ==
  /\ Editing
  /\ form' = [form EXCEPT !.files = IF f \in @ THEN @ \ {f} ELSE @ \cup {f}]
  /\ UNCHANGED <<Server, cached, sub, admin>>

isValid == form.skills # {} /\ form.area

\* mutate(): the submission works on what the page shows at the click.
submitOnboarding(c) ==
  /\ Editing /\ isValid /\ sub[c].at = "idle"
  /\ sub' = [sub EXCEPT ![c] = [at |-> "upload", files |-> form.files, skills |-> form.skills,
                                status |-> cached.verification, file |-> None]]
  /\ UNCHANGED <<Server, Pages, admin>>

-----------------------------------------------------------------------------
(* One submission: upload the files one by one, update, ask.               *)

\* addMasterMedia: the file is stored, then recorded.
storageSave(c, f) ==
  /\ sub[c].at = "upload" /\ f \in sub[c].files /\ disk[f] < MaxCopies
  /\ disk' = [disk EXCEPT ![f] = @ + 1]
  /\ sub' = [sub EXCEPT ![c].at = "row", ![c].file = f]
  /\ UNCHANGED <<profile, rows, requests, Pages, admin>>

addMasterMedia(c, f) ==
  /\ sub[c].at = "row" /\ sub[c].file = f
  /\ rows' = [rows EXCEPT ![f] = @ + 1]
  /\ sub' = [sub EXCEPT ![c].at = "upload", ![c].file = None, ![c].files = @ \ {f}]
  /\ UNCHANGED <<profile, disk, requests, Pages, admin>>

uploaded(c) ==
  /\ sub[c].at = "upload" /\ sub[c].files = {}
  /\ sub' = [sub EXCEPT ![c].at = "profile"]
  /\ UNCHANGED <<Server, Pages, admin>>

\* updateMasterProfile: skills and area are replaced in one transaction.
updateMasterProfile(c) ==
  /\ sub[c].at = "profile"
  /\ profile' = [profile EXCEPT !.skills = sub[c].skills, !.area = TRUE]
  /\ sub' = [sub EXCEPT ![c].at = "verify"]
  /\ UNCHANGED <<disk, rows, requests, Pages, admin>>

Succeed(c) == sub' = [sub EXCEPT ![c] = Idle] /\ form' = [form EXCEPT !.step = "submitted"]
Fail(c) == sub' = [sub EXCEPT ![c] = Idle] /\ UNCHANGED form

\* The page found nothing to ask for in the status it had read.
submitSkipped(c) ==
  /\ sub[c].at = "verify" /\ sub[c].status \notin {"UNVERIFIED", "REJECTED"}
  /\ Succeed(c)
  /\ UNCHANGED <<Server, cached, admin>>

NoPending == \A i \in 1..Len(requests) : requests[i].status # "PENDING"

\* The request and the profile's status, in one transaction.
Asked ==
  /\ requests' = Append(requests, [status |-> "PENDING", notified |-> FALSE, audited |-> FALSE])
  /\ profile' = [profile EXCEPT !.verification = "PENDING"]

\* VerificationService.submit, under the lock of the profile row.
submit(c) ==
  /\ sub[c].at = "verify" /\ sub[c].status \in {"UNVERIFIED", "REJECTED"}
  /\ IF profile.verification # "VERIFIED" /\ NoPending
       THEN Len(requests) < MaxRequests /\ Asked /\ Succeed(c)
       ELSE Fail(c) /\ UNCHANGED <<profile, requests>>
  /\ UNCHANGED <<disk, rows, cached, admin>>

\* A request is refused or lost, at any await; what is done stays done.
requestFails(c) ==
  /\ sub[c].at # "idle" /\ Fail(c)
  /\ UNCHANGED <<Server, cached, admin>>

\* deleteMasterMedia drops the row and leaves the file.
deleteMasterMedia(f) ==
  /\ rows[f] > 0
  /\ rows' = [rows EXCEPT ![f] = @ - 1]
  /\ UNCHANGED <<profile, disk, requests, Pages, sub, admin>>

-----------------------------------------------------------------------------
(* The administrators.                                                     *)

Pending == {i \in 1..Len(requests) : requests[i].status = "PENDING"}

\* AdminController.listVerifications, when the page loads or is invalidated.
listVerifications(a) ==
  /\ admin[a].list # Pending
  /\ admin' = [admin EXCEPT ![a].list = Pending]
  /\ UNCHANGED <<Server, Pages, sub>>

\* decide: the button, and the first read with its checks.
decide(a, i, approve) ==
  /\ admin[a].at = "idle" /\ i \in admin[a].list /\ requests[i].status = "PENDING"
  /\ admin' = [admin EXCEPT ![a] = [list |-> @.list, at |-> "read", request |-> i, approve |-> approve]]
  /\ UNCHANGED <<Server, Pages, sub>>

Verdict(a) == IF admin[a].approve THEN "VERIFIED" ELSE "REJECTED"

\* The transaction that does not check the status again.
decideTxUnguarded(a) ==
  LET i == admin[a].request IN
  /\ admin[a].at = "read"
  /\ requests' = [requests EXCEPT ![i].status = Verdict(a)]
  /\ profile' = [profile EXCEPT !.verification = Verdict(a)]
  /\ admin' = [admin EXCEPT ![a].at = "notify"]
  /\ UNCHANGED <<disk, rows, Pages, sub>>

decideTx(a) ==
  LET i == admin[a].request IN
  /\ admin[a].at = "read"
  /\ IF requests[i].status = "PENDING"
       THEN /\ requests' = [requests EXCEPT ![i].status = Verdict(a)]
            /\ profile' = [profile EXCEPT !.verification = Verdict(a)]
            /\ admin' = [admin EXCEPT ![a].at = "notify"]
       ELSE /\ admin' = [admin EXCEPT ![a] = NoDecision(@.list)]
            /\ UNCHANGED <<requests, profile>>
  /\ UNCHANGED <<disk, rows, Pages, sub>>

notify(a) ==
  /\ admin[a].at = "notify"
  /\ requests' = [requests EXCEPT ![admin[a].request].notified = TRUE]
  /\ admin' = [admin EXCEPT ![a].at = "audit"]
  /\ UNCHANGED <<profile, disk, rows, Pages, sub>>

auditRecord(a) ==
  /\ admin[a].at = "audit"
  /\ requests' = [requests EXCEPT ![admin[a].request].audited = TRUE]
  /\ admin' = [admin EXCEPT ![a] = NoDecision(@.list)]
  /\ UNCHANGED <<profile, disk, rows, Pages, sub>>

-----------------------------------------------------------------------------
Handle(a) == decideTx(a) \/ notify(a) \/ auditRecord(a)

Next ==
  \/ getMasterProfile \/ reopen \/ handleLocate
  \/ \E k \in Skills : toggleSkill(k)
  \/ \E f \in Files : chooseFile(f) \/ deleteMasterMedia(f)
  \/ \E c \in Clicks :
       \/ submitOnboarding(c) \/ uploaded(c) \/ updateMasterProfile(c)
       \/ submitSkipped(c) \/ submit(c) \/ requestFails(c)
       \/ \E f \in Files : storageSave(c, f) \/ addMasterMedia(c, f)
  \/ \E a \in Admins :
       \/ listVerifications(a) \/ Handle(a)
       \/ \E i \in 1..Len(requests) : \E approve \in BOOLEAN : decide(a, i, approve)

Spec == Init /\ [][Next]_vars

-----------------------------------------------------------------------------
\* The profile's verification status is that of the latest request, however
\* submissions, resubmissions and two administrators' decisions interleave: a
\* late decision on an old request never verifies a master whose new request
\* is still open.
ProfileFollowsLatest ==
  profile.verification = IF requests = <<>> THEN "UNVERIFIED" ELSE requests[Len(requests)].status

\* Overlapping submissions of one page leave at most one request pending.
OnePending == Cardinality(Pending) <= 1

\* A request the administrators are shown is that of a profile dispatch can
\* match: skills and a service area are saved before it is made.
PendingIsComplete == Pending # {} => profile.skills # {} /\ profile.area

\* Every media row names a stored file, also when an upload fails half way.
RowsHaveFiles == \A f \in Files : rows[f] <= disk[f]

\* master/onboarding/page.tsx tells the master that the request was sent and is
\* being examined: it says so of no master whose last request was rejected.
SentMeansAsked ==
  [][form.step = "form" /\ form'.step = "submitted" => profile'.verification # "REJECTED"]_vars

-----------------------------------------------------------------------------
(* What the theorems assume of the constants, and the inductive invariant. *)

OnboardingAssumption ==
  /\ MaxRequests \in Nat /\ MaxCopies \in Nat
  /\ IsFiniteSet(Clicks) /\ None \notin Files

RequestRows == [status: VerificationStatus \ {"UNVERIFIED"}, notified: BOOLEAN, audited: BOOLEAN]
Decisions == [list: SUBSET Nat, at: {"idle", "read", "notify", "audit"}, request: Nat, approve: BOOLEAN]

\* A submission has chosen a skill, and saves it before it asks.
SubmissionOK(c) ==
  /\ sub[c].at # "idle" => sub[c].skills # {}
  /\ sub[c].at = "verify" => profile.skills # {} /\ profile.area
  /\ sub[c].at = "row" => sub[c].file # None

\* Only the latest request can be open.
LatestOpen == \A i \in Pending : i = Len(requests)

\* The copies of a file whose row is about to be written.
Recording(f) == {c \in Clicks : sub[c].at = "row" /\ sub[c].file = f}
FilesOK == \A f \in Files : rows[f] + Cardinality(Recording(f)) <= disk[f]

OnboardingInv ==
  /\ requests \in Seq(RequestRows) /\ admin \in [Admins -> Decisions]
  /\ form.hydrated => cached \in Profiles
  /\ \A a \in Admins : admin[a].at # "idle" => admin[a].request \in 1..Len(requests)
  /\ \A c \in Clicks : SubmissionOK(c)
  /\ requests # <<>> => profile.skills # {} /\ profile.area
  /\ ProfileFollowsLatest /\ LatestOpen /\ FilesOK
=============================================================================
