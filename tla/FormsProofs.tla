----------------------------- MODULE FormsProofs -----------------------------
(***************************************************************************)
(* The wizard, onboarding, the session, the lists, the live map and the    *)
(* page of an order, for any orders, files, administrators, rows, users,   *)
(* clicks and payments, whatever is lost or reloaded: each component's     *)
(* invariant is kept by its own steps and left alone by the others', and   *)
(* what the run checks follows from it, but for WizardConsistent, which    *)
(* supposes a patient customer and is left to TLC.                         *)
(*                                                                         *)
(* Each section has one lemma per group of actions (its last word Keep or  *)
(* Keeps) and ends with four: what the initial state, a step, a step       *)
(* elsewhere, and a state the invariant holds in come to.                  *)
(***************************************************************************)
EXTENDS Forms, FiniteSetTheorems, TLAPS

-----------------------------------------------------------------------------
(* Onboarding.                                                             *)

OnboardingOK == O!TypeOK /\ O!OnboardingInv

Submissions == [at : {"idle", "upload", "row", "profile", "verify"}, files : SUBSET Files,
                file : Files \cup {None}, skills : SUBSET Skills, status : O!VerificationStatus]
Complete == profile.skills # {} /\ profile.area

\* Counting in the component is counting.
LEMMA OnboardingCounts == \A X : O!Cardinality(X) = Cardinality(X) /\ O!IsFiniteSet(X) = IsFiniteSet(X)
BY DEF O!Cardinality, Cardinality, O!IsFiniteSet, IsFiniteSet

\* The page's own actions leave the server and the submissions alone.
LEMMA OnboardingPage ==
  ASSUME OnboardingOK, UNCHANGED <<profile, disk, media, requests, sub, admin>>,
         form' \in [step : {"form", "submitted"}, hydrated : BOOLEAN, skills : SUBSET Skills, area : BOOLEAN,
                    files : SUBSET Files],
         cached' \in O!Profiles \cup {None}, form'.hydrated => cached' \in O!Profiles
  PROVE  OnboardingOK'
<1>1. O!TypeOK'
  BY DEF OnboardingOK, O!TypeOK
<1>2. O!OnboardingInv'
  BY DEF OnboardingOK, O!OnboardingInv, O!SubmissionOK, O!ProfileFollowsLatest, O!LatestOpen, O!Pending,
         O!FilesOK, O!Recording
<1> QED BY <1>1, <1>2 DEF OnboardingOK

\* Each of them keeps the invariant.
LEMMA PageKeeps ==
  ASSUME OnboardingOK,
         \/ O!getMasterProfile \/ O!reopen \/ O!handleLocate
         \/ \E k \in Skills : O!toggleSkill(k)
         \/ \E f \in Files : O!chooseFile(f)
  PROVE  OnboardingOK'
<1> DEFINE FormType == [step : {"form", "submitted"}, hydrated : BOOLEAN, skills : SUBSET Skills, area : BOOLEAN,
                        files : SUBSET Files]
<1>0. /\ form \in FormType /\ profile \in O!Profiles /\ cached \in O!Profiles \cup {None}
      /\ form.hydrated => cached \in O!Profiles
  BY DEF OnboardingOK, O!TypeOK, O!OnboardingInv
<1>1. UNCHANGED <<profile, disk, media, requests, sub, admin>>
  BY DEF O!getMasterProfile, O!reopen, O!handleLocate, O!toggleSkill, O!chooseFile, O!Server
<1> DEFINE Typed == form' \in FormType /\ cached' \in O!Profiles \cup {None} /\ (form'.hydrated => cached' \in O!Profiles)
<1>2. Typed
  <2>1. CASE O!getMasterProfile
    BY <1>0, <2>1 DEF O!getMasterProfile, O!hydrate, O!Profiles
  <2>2. CASE O!reopen
    BY <1>0, <2>2 DEF O!reopen, O!EmptyForm, O!Profiles
  <2>3. CASE O!handleLocate
    BY <1>0, <2>3 DEF O!handleLocate
  <2>4. ASSUME NEW k \in Skills, O!toggleSkill(k) PROVE Typed
    BY <1>0, <2>4 DEF O!toggleSkill
  <2>5. ASSUME NEW f \in Files, O!chooseFile(f) PROVE Typed
    BY <1>0, <2>5 DEF O!chooseFile
  <2> QED BY <2>1, <2>2, <2>3, <2>4, <2>5
<1> QED BY <1>1, <1>2, OnboardingPage

-----------------------------------------------------------------------------
\* A submission that moves on, and leaves the files and the requests alone.
LEMMA SubmissionMoves ==
  ASSUME O!OnboardingAssumption, OnboardingOK, NEW c \in Clicks, NEW e \in Submissions,
         sub' = [sub EXCEPT ![c] = e], UNCHANGED <<disk, media, cached, admin>>,
         form' \in {form, [form EXCEPT !.step = "submitted"]},
         e.at # "row", e.at # "idle" => e.skills # {}, e.at = "verify" => Complete',
         profile' \in O!Profiles, Complete => Complete',
         \/ UNCHANGED requests /\ profile'.verification = profile.verification
         \/ /\ O!NoPending /\ Len(requests) < MaxRequests /\ O!Asked
            /\ Complete
  PROVE  OnboardingOK'
<1> USE DEF OnboardingOK, O!OnboardingInv
<1>1. sub' \in [Clicks -> Submissions] /\ sub \in [Clicks -> Submissions]
  BY DEF O!TypeOK, Submissions
<1>2. \A b \in Clicks : O!SubmissionOK(b)'
  BY <1>1 DEF O!SubmissionOK, Complete
<1>3. O!FilesOK'
  <2> SUFFICES ASSUME NEW f \in Files PROVE media[f] + Cardinality(O!Recording(f)') <= disk[f]
    BY OnboardingCounts DEF O!FilesOK
  <2>1. O!Recording(f)' \subseteq O!Recording(f) /\ IsFiniteSet(O!Recording(f))
    BY <1>1, OnboardingCounts, FS_Subset DEF O!Recording, O!OnboardingAssumption
  <2>2. media[f] + Cardinality(O!Recording(f)) <= disk[f] /\ media[f] \in Nat /\ disk[f] \in Nat
    BY OnboardingCounts DEF O!FilesOK, O!TypeOK, O!OnboardingAssumption
  <2> QED BY <2>1, <2>2, FS_Subset, FS_CardinalityType
<1>4. /\ O!ProfileFollowsLatest' /\ O!LatestOpen' /\ requests' \in Seq(O!RequestRows)
      /\ Len(requests) <= Len(requests') /\ Len(requests') <= MaxRequests
      /\ requests' # <<>> => Complete'
  <2>1. CASE UNCHANGED requests /\ profile'.verification = profile.verification
    BY <2>1 DEF O!ProfileFollowsLatest, O!LatestOpen, O!Pending, O!TypeOK, Complete
  <2>2. CASE O!NoPending /\ Len(requests) < MaxRequests /\ O!Asked /\ Complete
    <3> DEFINE r == [status |-> "PENDING", notified |-> FALSE, audited |-> FALSE]
    <3>1. requests' = Append(requests, r) /\ r \in O!RequestRows /\ requests \in Seq(O!RequestRows)
      BY <2>2 DEF O!Asked, O!RequestRows, O!VerificationStatus
    <3>2. profile'.verification = "PENDING"
      BY <2>2 DEF O!Asked, O!TypeOK, O!Profiles
    <3> HIDE DEF r
    <3>3. /\ requests' \in Seq(O!RequestRows) /\ Len(requests') = Len(requests) + 1 /\ requests' # <<>>
          /\ requests'[Len(requests')] = r /\ \A i \in 1..Len(requests) : requests'[i] = requests[i]
      BY <3>1
    <3>4. O!ProfileFollowsLatest'
      BY <3>2, <3>3 DEF O!ProfileFollowsLatest, r
    <3>5. O!LatestOpen'
      BY <2>2, <3>1, <3>3 DEF O!LatestOpen, O!Pending, O!NoPending
    <3> QED BY <2>2, <3>3, <3>4, <3>5 DEF O!OnboardingAssumption
  <2> QED BY <2>1, <2>2
<1>5. \A a \in Admins : admin[a].at # "idle" => admin[a].request \in 1..Len(requests')
  BY <1>4
<1>6. O!TypeOK'
  <2>1. \A i \in 1..Len(requests') : requests'[i] \in O!RequestRows
    BY <1>4
  <2>2. \A a \in Admins : admin[a].list \subseteq 1..Len(requests') /\ admin[a].request \in 0..Len(requests')
    BY <1>4 DEF O!TypeOK
  <2> QED BY <1>1, <1>4, <2>1, <2>2 DEF O!TypeOK, Submissions, O!RequestRows
<1>7. form'.hydrated => cached \in O!Profiles
  BY DEF O!TypeOK
<1> QED BY <1>2, <1>3, <1>4, <1>5, <1>6, <1>7 DEF Complete
\* Everything a submission does but storing files keeps the invariant.
LEMMA SubmissionKeeps ==
  ASSUME O!OnboardingAssumption, OnboardingOK, NEW c \in Clicks,
         \/ O!submitOnboarding(c) \/ O!uploaded(c) \/ O!updateMasterProfile(c)
         \/ O!submitSkipped(c) \/ O!submit(c) \/ O!requestFails(c)
  PROVE  OnboardingOK'
<1>0. /\ sub[c] \in Submissions /\ sub \in [Clicks -> Submissions] /\ profile \in O!Profiles /\ O!SubmissionOK(c)
      /\ cached \in O!Profiles \cup {None} /\ form.skills \in SUBSET Skills /\ form.files \in SUBSET Files
  BY DEF OnboardingOK, O!TypeOK, O!OnboardingInv, Submissions
<1>1. O!Idle \in Submissions
  BY DEF O!Idle, Submissions, O!VerificationStatus
<1>2. CASE O!submitOnboarding(c)
  <2> DEFINE e == [at |-> "upload", files |-> form.files, skills |-> form.skills,
                   status |-> cached.verification, file |-> None]
  <2>1. sub' = [sub EXCEPT ![c] = e] /\ e.skills # {} /\ cached \in O!Profiles
    BY <1>0, <1>2 DEF O!submitOnboarding, O!isValid, O!Editing
  <2>2. e \in Submissions /\ e.at = "upload"
    BY <1>0, <2>1 DEF Submissions, O!Profiles
  <2>3. UNCHANGED <<disk, media, cached, admin, form, profile, requests>>
    BY <1>2 DEF O!submitOnboarding, O!Server, O!Pages
  <2> HIDE DEF e
  <2> QED BY <1>0, <2>1, <2>2, <2>3, SubmissionMoves DEF Complete
<1>3. CASE O!uploaded(c)
  <2>1. sub' = [sub EXCEPT ![c] = [sub[c] EXCEPT !.at = "profile"]] /\ sub[c].at = "upload"
    BY <1>0, <1>3 DEF O!uploaded
  <2>2. UNCHANGED <<disk, media, cached, admin, form, profile, requests>>
    BY <1>3 DEF O!uploaded, O!Server, O!Pages
  <2>3. sub[c].skills # {} /\ [sub[c] EXCEPT !.at = "profile"] \in Submissions
    BY <1>0, <2>1 DEF O!SubmissionOK, Submissions
  <2> QED BY <1>0, <2>1, <2>2, <2>3, SubmissionMoves DEF Complete, Submissions
<1>4. CASE O!updateMasterProfile(c)
  <2>1. sub' = [sub EXCEPT ![c] = [sub[c] EXCEPT !.at = "verify"]] /\ sub[c].at = "profile"
    BY <1>0, <1>4 DEF O!updateMasterProfile
  <2>2. UNCHANGED <<disk, media, cached, admin, form, requests>>
    BY <1>4 DEF O!updateMasterProfile, O!Pages
  <2>3. sub[c].skills # {} /\ [sub[c] EXCEPT !.at = "verify"] \in Submissions
    BY <1>0, <2>1 DEF O!SubmissionOK, Submissions
  <2>4. profile' = [profile EXCEPT !.skills = sub[c].skills, !.area = TRUE]
    BY <1>4 DEF O!updateMasterProfile
  <2>5. profile' \in O!Profiles /\ profile'.verification = profile.verification /\ Complete'
    BY <1>0, <2>3, <2>4 DEF O!Profiles, Complete, Submissions
  <2> QED BY <1>0, <2>1, <2>2, <2>3, <2>5, SubmissionMoves DEF Submissions
<1>5. CASE O!submitSkipped(c)
  BY <1>0, <1>1, <1>5, SubmissionMoves DEF O!submitSkipped, O!Succeed, O!Server, O!Idle, Complete
<1>6. CASE O!submit(c)
  <2>1. sub' = [sub EXCEPT ![c] = O!Idle] /\ form' \in {form, [form EXCEPT !.step = "submitted"]}
    BY <1>6 DEF O!submit, O!Succeed, O!Fail
  <2>2. UNCHANGED <<disk, media, cached, admin>> /\ Complete
    BY <1>0, <1>6 DEF O!submit, O!SubmissionOK, Complete
  <2>3. \/ UNCHANGED <<requests, profile>>
        \/ O!NoPending /\ Len(requests) < MaxRequests /\ O!Asked
    BY <1>6 DEF O!submit
  <2>4. profile' \in O!Profiles /\ Complete'
    BY <1>0, <2>2, <2>3 DEF O!Asked, O!Profiles, O!VerificationStatus, Complete
  <2> QED BY <1>1, <2>1, <2>2, <2>3, <2>4, SubmissionMoves DEF O!Idle
<1>7. CASE O!requestFails(c)
  BY <1>0, <1>1, <1>7, SubmissionMoves DEF O!requestFails, O!Fail, O!Server, O!Idle, Complete
<1> QED BY <1>2, <1>3, <1>4, <1>5, <1>6, <1>7

\* What an action does to the files, when it leaves everything else alone.
LEMMA FilesMove ==
  ASSUME OnboardingOK, UNCHANGED <<profile, requests, cached, form, admin>>,
         sub' \in [Clicks -> Submissions], \A c \in Clicks : O!SubmissionOK(c)', O!FilesOK',
         disk' \in [Files -> 0..MaxCopies], media' \in [Files -> 0..MaxCopies]
  PROVE  OnboardingOK'
<1>1. O!TypeOK'
  BY DEF OnboardingOK, O!TypeOK, Submissions
<1>2. O!OnboardingInv'
  BY DEF OnboardingOK, O!OnboardingInv, O!ProfileFollowsLatest, O!LatestOpen, O!Pending
<1> QED BY <1>1, <1>2 DEF OnboardingOK

\* A copy counts as soon as its file is stored, whether its row is written or
\* the request fails before; a row deleted leaves the file.
LEMMA FilesKeep ==
  ASSUME O!OnboardingAssumption, OnboardingOK, NEW f \in Files,
         \/ O!deleteMasterMedia(f)
         \/ \E c \in Clicks : O!storageSave(c, f) \/ O!addMasterMedia(c, f)
  PROVE  OnboardingOK'
<1> USE DEF O!Recording
<1>0. /\ sub \in [Clicks -> Submissions] /\ \A c \in Clicks : O!SubmissionOK(c)
      /\ disk \in [Files -> 0..MaxCopies] /\ media \in [Files -> 0..MaxCopies] /\ MaxCopies \in Nat
  BY DEF OnboardingOK, O!TypeOK, O!OnboardingInv, Submissions, O!OnboardingAssumption
<1>1. \A g \in Files : /\ media[g] + Cardinality(O!Recording(g)) <= disk[g]
                       /\ IsFiniteSet(O!Recording(g)) /\ Cardinality(O!Recording(g)) \in Nat
  <2> SUFFICES ASSUME NEW g \in Files
               PROVE  media[g] + Cardinality(O!Recording(g)) <= disk[g] /\ IsFiniteSet(O!Recording(g))
    BY FS_CardinalityType
  <2>1. O!Recording(g) \subseteq Clicks /\ IsFiniteSet(Clicks)
    BY OnboardingCounts DEF O!OnboardingAssumption
  <2> QED BY <2>1, FS_Subset, OnboardingCounts DEF OnboardingOK, O!OnboardingInv, O!FilesOK
<1>2. CASE O!deleteMasterMedia(f)
  <2>1. /\ media[f] > 0 /\ media' = [media EXCEPT ![f] = media[f] - 1]
        /\ UNCHANGED <<profile, disk, requests, cached, form, sub, admin>>
    BY <1>2 DEF O!deleteMasterMedia, O!Pages
  <2>2. media' \in [Files -> 0..MaxCopies] /\ \A g \in Files : media'[g] <= media[g]
    BY <1>0, <2>1
  <2>3. O!FilesOK'
    <3> SUFFICES ASSUME NEW g \in Files PROVE media'[g] + Cardinality(O!Recording(g)) <= disk[g]
      BY <2>1, OnboardingCounts DEF O!FilesOK
    <3> HIDE DEF O!Recording
    <3> QED BY <1>0, <1>1, <2>2
  <2> QED BY <1>0, <2>1, <2>2, <2>3, FilesMove DEF O!SubmissionOK
<1>3. ASSUME NEW c \in Clicks, O!storageSave(c, f) PROVE OnboardingOK'
  <2>1. /\ sub[c].at = "upload" /\ f \in sub[c].files /\ disk[f] < MaxCopies
        /\ disk' = [disk EXCEPT ![f] = disk[f] + 1]
        /\ sub' = [sub EXCEPT ![c] = [sub[c] EXCEPT !.at = "row", !.file = f]]
        /\ UNCHANGED <<profile, media, requests, cached, form, admin>>
    BY <1>0, <1>3 DEF O!storageSave, O!Pages
  <2>2. sub' \in [Clicks -> Submissions] /\ disk' \in [Files -> 0..MaxCopies]
    <3>1. [sub[c] EXCEPT !.at = "row", !.file = f] \in Submissions
      BY <1>0 DEF Submissions
    <3>2. sub' \in [Clicks -> Submissions]
      BY <1>0, <2>1, <3>1
    <3> QED BY <1>0, <2>1, <3>2
  <2>3. \A b \in Clicks : O!SubmissionOK(b)'
    <3>1. f # None
      BY DEF O!OnboardingAssumption
    <3>2. sub'[c] = [sub[c] EXCEPT !.at = "row", !.file = f] /\ \A b \in Clicks \ {c} : sub'[b] = sub[b]
      BY <1>0, <2>1
    <3> QED BY <1>0, <2>1, <3>1, <3>2 DEF O!SubmissionOK, Submissions
  <2>4. O!FilesOK'
    <3> SUFFICES ASSUME NEW g \in Files PROVE media[g] + Cardinality(O!Recording(g)') <= disk'[g]
      BY <2>1, OnboardingCounts DEF O!FilesOK
    <3>1. CASE g = f
      <4>1. O!Recording(g)' = O!Recording(g) \cup {c} /\ c \notin O!Recording(g)
        BY <1>0, <2>1, <3>1
      <4>2. Cardinality(O!Recording(g)') = Cardinality(O!Recording(g)) + 1
        BY <1>1, <4>1, FS_AddElement
      <4> HIDE DEF O!Recording
      <4> QED BY <1>0, <1>1, <2>1, <3>1, <4>2
    <3>2. CASE g # f
      <4>1. O!Recording(g)' = O!Recording(g)
        BY <1>0, <2>1, <3>2
      <4> QED BY <1>0, <1>1, <2>1, <3>2, <4>1
    <3> QED BY <3>1, <3>2
  <2> QED BY <1>0, <2>1, <2>2, <2>3, <2>4, FilesMove
<1>4. ASSUME NEW c \in Clicks, O!addMasterMedia(c, f) PROVE OnboardingOK'
  <2>1. /\ sub[c].at = "row" /\ sub[c].file = f /\ media' = [media EXCEPT ![f] = media[f] + 1]
        /\ sub' = [sub EXCEPT ![c] = [sub[c] EXCEPT !.at = "upload", !.file = None, !.files = sub[c].files \ {f}]]
        /\ UNCHANGED <<profile, disk, requests, cached, form, admin>>
    BY <1>0, <1>4 DEF O!addMasterMedia, O!Pages
  <2>2. sub' \in [Clicks -> Submissions]
    BY <1>0, <2>1 DEF Submissions
  <2>3. \A b \in Clicks : O!SubmissionOK(b)'
    BY <1>0, <2>1 DEF O!SubmissionOK, Submissions
  <2>4. \A g \in Files : media'[g] + Cardinality(O!Recording(g)') <= disk[g]
    <3> SUFFICES ASSUME NEW g \in Files PROVE media'[g] + Cardinality(O!Recording(g)') <= disk[g]
      OBVIOUS
    <3>1. CASE g = f
      <4>1. O!Recording(g)' = O!Recording(g) \ {c} /\ c \in O!Recording(g)
        BY <1>0, <2>1, <3>1
      <4>2. Cardinality(O!Recording(g)') = Cardinality(O!Recording(g)) - 1
        BY <1>1, <4>1, FS_RemoveElement
      <4> HIDE DEF O!Recording
      <4> QED BY <1>0, <1>1, <2>1, <3>1, <4>2
    <3>2. CASE g # f
      <4>1. O!Recording(g)' = O!Recording(g)
        BY <1>0, <2>1, <3>2
      <4> QED BY <1>0, <1>1, <2>1, <3>2, <4>1
    <3> QED BY <3>1, <3>2
  <2>5. O!FilesOK'
    BY <2>1, <2>4, OnboardingCounts DEF O!FilesOK
  <2>6. media' \in [Files -> 0..MaxCopies]
    <3>1. IsFiniteSet(O!Recording(f)') /\ Cardinality(O!Recording(f)') \in Nat
      <4>1. O!Recording(f)' \subseteq O!Recording(f)
        BY <1>0, <2>1
      <4> QED BY <1>1, <4>1, FS_Subset, FS_CardinalityType
    <3>2. media'[f] + Cardinality(O!Recording(f)') <= disk[f]
      BY <2>4
    <3>3. PICK n \in Nat : media'[f] + n <= disk[f]
      BY <3>1, <3>2
    <3>4. media'[f] = media[f] + 1
      BY <1>0, <2>1
    <3>5. media[f] + 1 + n <= disk[f]
      BY <3>3, <3>4
    <3>6. media[f] + 1 \in 0..MaxCopies
      BY <1>0, <3>5
    <3> QED BY <1>0, <2>1, <3>6
  <2> QED BY <1>0, <2>1, <2>2, <2>3, <2>5, <2>6, FilesMove
<1> QED BY <1>2, <1>3, <1>4

\* The administrators' requests, statuses and decisions.
LEMMA AdminMoves ==
  ASSUME OnboardingOK, UNCHANGED <<disk, media, cached, form, sub>>,
         admin' \in [Admins -> O!Decisions], requests' \in Seq(O!RequestRows), Len(requests') = Len(requests),
         \A a \in Admins : /\ admin'[a].list \subseteq 1..Len(requests) /\ admin'[a].request \in 0..Len(requests)
                           /\ admin'[a].at # "idle" => admin'[a].request \in 1..Len(requests),
         \/ UNCHANGED profile /\ \A i \in 1..Len(requests) : requests'[i].status = requests[i].status
         \/ \E i \in O!Pending : \E v \in O!Decided :
              /\ requests' = [requests EXCEPT ![i].status = v]
              /\ profile' = [profile EXCEPT !.verification = v]
  PROVE  OnboardingOK'
<1> USE DEF OnboardingOK, O!OnboardingInv
<1>0. requests \in Seq(O!RequestRows) /\ profile \in O!Profiles
  BY DEF O!TypeOK
<1> DEFINE Kept == /\ O!ProfileFollowsLatest' /\ O!LatestOpen' /\ profile' \in O!Profiles
                   /\ profile'.skills = profile.skills /\ profile'.area = profile.area
<1>1. Kept
  <2>1. CASE UNCHANGED profile /\ \A i \in 1..Len(requests) : requests'[i].status = requests[i].status
    <3>1. requests = <<>> <=> requests' = <<>>
      BY <1>0
    <3>2. requests # <<>> => Len(requests) \in 1..Len(requests)
      BY <1>0
    <3> QED BY <1>0, <2>1, <3>1, <3>2 DEF O!ProfileFollowsLatest, O!LatestOpen, O!Pending
  <2>2. ASSUME NEW i \in O!Pending, NEW v \in O!Decided, requests' = [requests EXCEPT ![i].status = v],
               profile' = [profile EXCEPT !.verification = v]
        PROVE  Kept
    <3>1. i = Len(requests) /\ i \in 1..Len(requests) /\ requests # <<>> /\ requests' # <<>>
      BY <1>0, <2>2 DEF O!LatestOpen, O!Pending
    <3>2. /\ profile'.verification = v /\ profile' \in O!Profiles
          /\ profile'.skills = profile.skills /\ profile'.area = profile.area
      BY <1>0, <2>2 DEF O!Profiles, O!Decided, O!VerificationStatus
    <3>3. requests'[i].status = v /\ \A j \in 1..Len(requests) : j # i => requests'[j] = requests[j]
      BY <1>0, <2>2, <3>1 DEF O!RequestRows
    <3>4. O!ProfileFollowsLatest'
      BY <3>1, <3>2, <3>3 DEF O!ProfileFollowsLatest
    <3>5. O!LatestOpen'
      BY <3>1, <3>3 DEF O!LatestOpen, O!Pending
    <3> QED BY <3>2, <3>4, <3>5
  <2> HIDE DEF Kept
  <2> QED BY <2>1, <2>2
<1>2. O!FilesOK' /\ \A c \in Clicks : O!SubmissionOK(c)'
  BY <1>1 DEF O!FilesOK, O!Recording, O!SubmissionOK
<1>3. requests' # <<>> => profile'.skills # {} /\ profile'.area
  BY <1>0, <1>1
<1>4. O!TypeOK'
  <2>1. \A i \in 1..Len(requests') : requests'[i] \in O!RequestRows
    BY <1>0
  <2> QED BY <1>1, <2>1 DEF O!TypeOK, O!RequestRows
<1> QED BY <1>1, <1>2, <1>3, <1>4
\* A decision writes only a request it finds still open, which is the latest.
LEMMA AdminKeeps ==
  ASSUME OnboardingOK, NEW a \in Admins,
         \/ O!listVerifications(a) \/ O!decideTx(a) \/ O!notify(a) \/ O!auditRecord(a)
         \/ \E i \in 1..Len(requests) : \E approve \in BOOLEAN : O!decide(a, i, approve)
  PROVE  OnboardingOK'
<1> DEFINE AdminOK(e) == /\ e \in O!Decisions /\ e.list \subseteq 1..Len(requests) /\ e.request \in 0..Len(requests)
                         /\ e.at # "idle" => e.request \in 1..Len(requests)
<1>0. /\ admin \in [Admins -> O!Decisions] /\ requests \in Seq(O!RequestRows) /\ Len(requests) \in Nat
      /\ \A b \in Admins : AdminOK(admin[b])
  BY DEF OnboardingOK, O!OnboardingInv, O!TypeOK
<1>1. UNCHANGED <<disk, media, cached, form, sub>>
  BY DEF O!listVerifications, O!decideTx, O!notify, O!auditRecord, O!decide, O!Server, O!Pages
<1>2. ASSUME NEW e, AdminOK(e), admin' = [admin EXCEPT ![a] = e]
      PROVE  /\ admin' \in [Admins -> O!Decisions]
             /\ \A b \in Admins : /\ admin'[b].list \subseteq 1..Len(requests) /\ admin'[b].request \in 0..Len(requests)
                                  /\ admin'[b].at # "idle" => admin'[b].request \in 1..Len(requests)
  BY <1>0, <1>2
<1>3. AdminOK(O!NoDecision(admin[a].list))
  BY <1>0 DEF O!NoDecision, O!Decisions
<1>4. ASSUME NEW p \in {"notify", "audit"}, admin[a].at # "idle"
      PROVE  AdminOK([admin[a] EXCEPT !.at = p]) /\ admin[a].request \in 1..Len(requests)
  BY <1>0, <1>4 DEF O!Decisions
<1>5. CASE O!listVerifications(a)
  <2>1. admin' = [admin EXCEPT ![a] = [admin[a] EXCEPT !.list = O!Pending]] /\ UNCHANGED <<profile, requests>>
    BY <1>0, <1>5 DEF O!listVerifications, O!Server
  <2>2. O!Pending \subseteq 1..Len(requests) /\ O!Pending \in SUBSET Nat
    BY <1>0 DEF O!Pending
  <2>3. AdminOK([admin[a] EXCEPT !.list = O!Pending])
    BY <1>0, <2>2 DEF O!Decisions
  <2> HIDE DEF AdminOK
  <2> QED BY <1>0, <1>1, <1>2, <2>1, <2>3, AdminMoves
<1>6. CASE O!decideTx(a)
  <2> DEFINE i == admin[a].request
  <2>1. admin[a].at = "read" /\ i \in 1..Len(requests)
    BY <1>0, <1>6 DEF O!decideTx
  <2>2. CASE requests[i].status = "PENDING"
    <3>1. /\ requests' = [requests EXCEPT ![i].status = O!Verdict(a)]
          /\ profile' = [profile EXCEPT !.verification = O!Verdict(a)]
          /\ admin' = [admin EXCEPT ![a] = [admin[a] EXCEPT !.at = "notify"]]
      BY <1>0, <1>6, <2>2 DEF O!decideTx
    <3>2. i \in O!Pending /\ O!Verdict(a) \in O!Decided
      BY <2>1, <2>2 DEF O!Pending, O!Verdict, O!Decided
    <3>3. requests' \in Seq(O!RequestRows) /\ Len(requests') = Len(requests)
      <4>1. \A n \in 1..Len(requests) : requests[n] \in O!RequestRows
        BY <1>0
      <4>2. [requests[i] EXCEPT !.status = O!Verdict(a)] \in O!RequestRows
        BY <2>1, <3>2, <4>1 DEF O!RequestRows, O!Decided, O!VerificationStatus
      <4> QED BY <1>0, <2>1, <3>1, <4>2
    <3>4. AdminOK([admin[a] EXCEPT !.at = "notify"])
      BY <1>4, <2>1
    <3> HIDE DEF AdminOK, i
    <3> QED BY <1>0, <1>1, <1>2, <3>1, <3>2, <3>3, <3>4, AdminMoves
  <2>3. CASE requests[i].status # "PENDING"
    <3>1. UNCHANGED <<requests, profile>> /\ admin' = [admin EXCEPT ![a] = O!NoDecision(admin[a].list)]
      BY <1>0, <1>6, <2>3 DEF O!decideTx
    <3> HIDE DEF AdminOK, i
    <3> QED BY <1>0, <1>1, <1>2, <1>3, <3>1, AdminMoves
  <2> QED BY <2>2, <2>3
<1>7. CASE O!notify(a)
  <2>1. /\ admin[a].at = "notify" /\ UNCHANGED profile /\ admin' = [admin EXCEPT ![a] = [admin[a] EXCEPT !.at = "audit"]]
        /\ requests' = [requests EXCEPT ![admin[a].request].notified = TRUE]
    BY <1>0, <1>7 DEF O!notify
  <2>2. AdminOK([admin[a] EXCEPT !.at = "audit"]) /\ admin[a].request \in 1..Len(requests)
    BY <1>4, <2>1
  <2>3. \A n \in 1..Len(requests) : requests[n] \in O!RequestRows
    BY <1>0
  <2>4. requests' \in Seq(O!RequestRows) /\ Len(requests') = Len(requests)
    <3>1. [requests[admin[a].request] EXCEPT !.notified = TRUE] \in O!RequestRows
      BY <2>2, <2>3 DEF O!RequestRows
    <3> QED BY <1>0, <2>1, <2>2, <3>1
  <2>5. \A n \in 1..Len(requests) : requests'[n].status = requests[n].status
    BY <1>0, <2>1, <2>2, <2>3 DEF O!RequestRows
  <2> HIDE DEF AdminOK
  <2> QED BY <1>0, <1>1, <1>2, <2>1, <2>2, <2>4, <2>5, AdminMoves
<1>8. CASE O!auditRecord(a)
  <2>1. /\ admin[a].at = "audit" /\ UNCHANGED profile /\ admin' = [admin EXCEPT ![a] = O!NoDecision(admin[a].list)]
        /\ requests' = [requests EXCEPT ![admin[a].request].audited = TRUE]
    BY <1>0, <1>8 DEF O!auditRecord
  <2>2. admin[a].request \in 1..Len(requests)
    BY <1>0, <2>1
  <2>3. \A n \in 1..Len(requests) : requests[n] \in O!RequestRows
    BY <1>0
  <2>4. requests' \in Seq(O!RequestRows) /\ Len(requests') = Len(requests)
    <3>1. [requests[admin[a].request] EXCEPT !.audited = TRUE] \in O!RequestRows
      BY <2>2, <2>3 DEF O!RequestRows
    <3> QED BY <1>0, <2>1, <2>2, <3>1
  <2>5. \A n \in 1..Len(requests) : requests'[n].status = requests[n].status
    BY <1>0, <2>1, <2>2, <2>3 DEF O!RequestRows
  <2> HIDE DEF AdminOK
  <2> QED BY <1>0, <1>1, <1>2, <1>3, <2>1, <2>4, <2>5, AdminMoves
<1>9. ASSUME NEW i \in 1..Len(requests), NEW approve \in BOOLEAN, O!decide(a, i, approve) PROVE OnboardingOK'
  <2> DEFINE e == [list |-> admin[a].list, at |-> "read", request |-> i, approve |-> approve]
  <2>1. admin' = [admin EXCEPT ![a] = e] /\ UNCHANGED <<profile, requests>>
    BY <1>0, <1>9 DEF O!decide, O!Server
  <2>2. AdminOK(e)
    BY <1>0 DEF O!Decisions
  <2> HIDE DEF AdminOK, e
  <2> QED BY <1>0, <1>1, <1>2, <2>1, <2>2, AdminMoves
<1> QED BY <1>5, <1>6, <1>7, <1>8, <1>9

\* The page opens on a master who has asked for nothing yet.
LEMMA OnboardingStarts ==
  ASSUME O!OnboardingAssumption, O!Init
  PROVE  OnboardingOK
<1> USE DEF O!Init
<1>1. requests = <<>> /\ Len(requests) = 0 /\ O!Pending = {}
  BY DEF O!Pending
<1>2. O!TypeOK
  BY <1>1 DEF O!TypeOK, O!Profiles, O!VerificationStatus, O!EmptyForm, O!Idle, O!NoDecision, O!OnboardingAssumption
<1>3. \A f \in Files : O!Recording(f) = {} /\ Cardinality(O!Recording(f)) = 0
  BY FS_EmptySet DEF O!Recording, O!Idle
<1>4. O!FilesOK
  BY <1>3, OnboardingCounts DEF O!FilesOK
<1>5. O!ProfileFollowsLatest /\ O!LatestOpen
  BY <1>1 DEF O!ProfileFollowsLatest, O!LatestOpen
<1>6. admin \in [Admins -> O!Decisions] /\ \A a \in Admins : admin[a].at = "idle"
  BY DEF O!Decisions, O!NoDecision
<1>7. \A c \in Clicks : O!SubmissionOK(c)
  BY DEF O!SubmissionOK, O!Idle
<1>8. requests \in Seq(O!RequestRows) /\ ~form.hydrated
  BY DEF O!EmptyForm
<1> QED BY <1>1, <1>2, <1>4, <1>5, <1>6, <1>7, <1>8 DEF OnboardingOK, O!OnboardingInv

\* Every step of onboarding keeps the invariant.
LEMMA OnboardingKeeps ==
  ASSUME O!OnboardingAssumption, OnboardingOK, O!Next
  PROVE  OnboardingOK'
BY PageKeeps, SubmissionKeeps, FilesKeep, AdminKeeps DEF O!Next, O!Handle

\* A step elsewhere does not touch it.
LEMMA OnboardingRests ==
  ASSUME OnboardingOK, UNCHANGED onboardingVars
  PROVE  OnboardingOK'
BY DEF OnboardingOK, onboardingVars, O!TypeOK, O!OnboardingInv, O!SubmissionOK, O!ProfileFollowsLatest,
       O!LatestOpen, O!Pending, O!FilesOK, O!Recording

\* What the run checks follows.
LEMMA OnboardingFollows ==
  ASSUME O!OnboardingAssumption, OnboardingOK
  PROVE  OnboardingConsistent
<1> USE DEF OnboardingOK, O!OnboardingInv
<1>1. O!OnePending
  <2>1. O!Pending \subseteq {Len(requests)}
    BY DEF O!LatestOpen
  <2>2. IsFiniteSet({Len(requests)}) /\ Cardinality({Len(requests)}) = 1
    BY FS_Singleton
  <2> QED BY <2>1, <2>2, FS_Subset, OnboardingCounts DEF O!OnePending
<1>2. O!PendingIsComplete
  BY DEF O!PendingIsComplete, O!Pending
<1>3. O!RowsHaveFiles
  <2> SUFFICES ASSUME NEW f \in Files PROVE media[f] <= disk[f]
    BY DEF O!RowsHaveFiles
  <2>1. IsFiniteSet(O!Recording(f))
    BY OnboardingCounts, FS_Subset DEF O!Recording, O!OnboardingAssumption
  <2>2. Cardinality(O!Recording(f)) \in Nat /\ media[f] + Cardinality(O!Recording(f)) <= disk[f]
    BY <2>1, FS_CardinalityType, OnboardingCounts DEF O!FilesOK
  <2>3. media[f] \in Nat /\ disk[f] \in Nat
    BY DEF O!TypeOK, O!OnboardingAssumption
  <2> QED BY <2>2, <2>3
<1> QED BY <1>1, <1>2, <1>3 DEF OnboardingConsistent

-----------------------------------------------------------------------------
(* Sign-in and session.                                                    *)

SessionOK == S!TypeOK /\ S!SessionInv

SessionRows == [user : Users \cup {None}, state : {"none", "live", "rotated", "logout", "reset"}]
TabStates == [page : S!Pages \cup {"closed"}, ready : BOOLEAN, user : Users \cup {None},
              had : BOOLEAN, clean : BOOLEAN]
TabCalls == [kind : S!Kinds \cup {None}, at : {"idle", "sent", "ok", "challenge", "refused"},
             token : 0..MaxTokens, user : Users \cup {None}]

\* What the tab, its refresh and its form are, one by one.
LEMMA SessionShape ==
  ASSUME S!SessionAssumption, SessionOK
  PROVE  /\ MaxTokens \in Nat \ {0} /\ MaxLoads \in Nat /\ None \notin Users /\ None \notin S!Kinds
         /\ row \in [1..MaxTokens -> SessionRows] /\ issued \in 0..MaxTokens /\ issued \in Nat
         /\ pending \subseteq Users /\ cookie \in 0..issued
         /\ tab \in [{"tab"} -> TabStates] /\ tab["tab"] \in TabStates
         /\ boot \in [{"tab"} -> TabCalls] /\ boot["tab"] \in TabCalls
         /\ entry \in [{"tab"} -> TabCalls] /\ entry["tab"] \in TabCalls
         /\ stray \subseteq TabCalls
         /\ tab["tab"].user # None => tab["tab"].page # "closed"
         /\ loads \in 0..MaxLoads
         /\ \A k \in 1..MaxTokens : row[k].state # "none" => row[k].user \in Users
         /\ S!PairOK("tab") /\ S!BootOK("tab") /\ S!FormOK("tab") /\ S!StrayOK("tab") /\ S!RestoreOK("tab")
BY DEF SessionOK, S!TypeOK, S!SessionInv, S!SessionAssumption, S!Tokens, SessionRows, TabStates, TabCalls, S!CallStates

\* It is enough to say the same of the next state.
LEMMA SessionReached ==
  ASSUME S!SessionAssumption,
         row' \in [1..MaxTokens -> SessionRows], issued' \in 0..MaxTokens,
         pending' \subseteq Users, cookie' \in 0..issued',
         tab' \in [{"tab"} -> TabStates], boot' \in [{"tab"} -> TabCalls], entry' \in [{"tab"} -> TabCalls],
         stray' \subseteq TabCalls,
         tab'["tab"].user # None => tab'["tab"].page # "closed",
         loads' \in 0..MaxLoads,
         \A k \in 1..MaxTokens : row'[k].state # "none" => row'[k].user \in Users,
         S!PairOK("tab")', S!BootOK("tab")', S!FormOK("tab")', S!StrayOK("tab")', S!RestoreOK("tab")'
  PROVE  SessionOK'
<1>1. S!TypeOK'
  BY DEF S!TypeOK, S!Tokens, SessionRows, TabStates, TabCalls, S!CallStates
<1>2. S!SessionInv'
  BY DEF S!SessionInv, S!Tokens
<1> QED BY <1>1, <1>2 DEF SessionOK

\* No call is under way, or one of the kinds.
LEMMA SessionCalls ==
  ASSUME S!SessionAssumption
  PROVE  /\ S!NoCall \in TabCalls /\ S!NoCall.at = "idle" /\ S!NoCall.token = 0 /\ S!NoCall.kind = None
         /\ None \notin S!Kinds /\ S!Closed \in TabStates
         /\ \A kind \in S!Kinds, k \in 0..MaxTokens, u \in Users \cup {None} : S!Call(kind, k, u) \in TabCalls
         /\ S!Pages = {"home", "profile", "master", "index", "login", "register", "verify", "forgot"}
         /\ S!Private = {"home", "profile", "master"}
BY DEF S!SessionAssumption, S!NoCall, TabCalls, S!Call, S!Pages, S!Private, S!Public, S!Closed, TabStates

-----------------------------------------------------------------------------
\* A call that a page stops waiting for is as harmless as one it waits for.
LEMMA Abandoned ==
  ASSUME S!SessionAssumption, SessionOK, NEW cs \in SUBSET {boot["tab"], entry["tab"]}, S!Abandon(cs)
  PROVE  /\ stray' \subseteq TabCalls
         /\ \A c \in stray' : c \in stray \/ (c \in cs /\ c.at = "sent")
         /\ \A c \in stray' : c.token \in 0..issued /\ (c.kind # "refresh" => c.user \in Users)
         /\ \A c \in stray' : /\ boot["tab"].at = "ok" => c.token # boot["tab"].token
                              /\ S!SignedIn(entry["tab"]) => c.token # entry["tab"].token
                              /\ tab["tab"].user # None /\ entry["tab"].kind # "logout" => c.token # cookie
<1>1. \A c \in stray' : c \in stray \/ (c \in cs /\ c.at = "sent")
  BY DEF S!Abandon
<1>2. stray' \subseteq TabCalls
  BY <1>1, SessionShape
<1>3. \A c \in stray' : c.token \in 0..issued /\ (c.kind # "refresh" => c.user \in Users)
  BY <1>1, SessionShape DEF S!StrayOK, S!BootOK, S!FormOK
<1>4. ASSUME NEW c \in stray, c \in stray'
      PROVE  /\ boot["tab"].at = "ok" => c.token # boot["tab"].token
             /\ S!SignedIn(entry["tab"]) => c.token # entry["tab"].token
             /\ tab["tab"].user # None /\ entry["tab"].kind # "logout" => c.token # cookie
  BY SessionShape DEF S!StrayOK
<1>5. ASSUME boot["tab"].at = "sent"
      PROVE  /\ S!SignedIn(entry["tab"]) => boot["tab"].token # entry["tab"].token
             /\ tab["tab"].user # None => boot["tab"].token # cookie
  BY <1>5, SessionShape DEF S!BootOK
<1>6. ASSUME entry["tab"].at = "sent"
      PROVE  /\ boot["tab"].at = "ok" => entry["tab"].token # boot["tab"].token
             /\ ~S!SignedIn(entry["tab"])
             /\ tab["tab"].user # None /\ entry["tab"].kind # "logout" => entry["tab"].token # cookie
  BY <1>6, SessionShape DEF S!BootOK, S!FormOK, S!PairOK, S!Holds, S!SignedIn
<1> QED BY <1>1, <1>2, <1>3, <1>4, <1>5, <1>6

\* Loading a page empties the memory, which then waits for the cookie's answer.
LEMMA LoadKeeps ==
  ASSUME S!SessionAssumption, SessionOK, NEW p \in S!Pages, S!load("tab", p)
  PROVE  SessionOK'
<1> DEFINE now == [page |-> p, ready |-> FALSE, user |-> None, had |-> S!Live(cookie), clean |-> stray' = {}]
<1>1. /\ tab'["tab"] = now
      /\ boot'["tab"] = S!Call("refresh", cookie, None) /\ entry'["tab"] = S!NoCall
      /\ loads' = loads + 1 /\ loads < MaxLoads /\ UNCHANGED <<row, issued, pending, cookie>>
      /\ S!Abandon({boot["tab"], entry["tab"]})
  BY SessionShape DEF S!load
<1>2. /\ tab' \in [{"tab"} -> TabStates] /\ boot' \in [{"tab"} -> TabCalls] /\ entry' \in [{"tab"} -> TabCalls]
  <2>1. now \in TabStates
    BY DEF TabStates, S!Live
  <2>2. S!Call("refresh", cookie, None) \in TabCalls /\ S!NoCall \in TabCalls
    BY SessionCalls, SessionShape DEF S!Kinds
  <2> QED BY SessionShape, <2>1, <2>2 DEF S!load
<1>3. S!PairOK("tab")'
  BY <1>1 DEF S!PairOK
<1>4. S!BootOK("tab")'
  BY <1>1, SessionShape, SessionCalls DEF S!BootOK, S!Call, S!SignedIn
<1>5. S!FormOK("tab")'
  BY <1>1, SessionShape, SessionCalls DEF S!FormOK, S!SignedIn, S!Kinds
<1>6. stray' \subseteq TabCalls /\ \A c \in stray' : c.token \in 0..issued /\ (c.kind # "refresh" => c.user \in Users)
  BY <1>1, Abandoned
<1>7. S!StrayOK("tab")'
  BY <1>1, <1>6, SessionCalls DEF S!StrayOK, S!Call, S!SignedIn
<1>8. S!RestoreOK("tab")'
  <2>1. ~now.ready /\ now.had = S!Live(cookie) /\ now.clean = (stray' = {})
    OBVIOUS
  <2>2. /\ boot'["tab"].at = "sent" /\ boot'["tab"].token = cookie
        /\ entry'["tab"].at = "idle"
    BY <1>1, SessionCalls DEF S!Call
  <2>3. /\ ~tab'["tab"].ready /\ (tab'["tab"].had => S!Live(cookie)) /\ (tab'["tab"].clean => stray' = {})
        /\ boot'["tab"].at = "sent" /\ boot'["tab"].token = cookie /\ entry'["tab"].at = "idle"
    <3> HIDE DEF now
    <3> QED BY <1>1, <2>1, <2>2
  <2>4. S!Live(cookie) => S!Live(boot["tab"].token)'
    BY <1>1, <2>3 DEF S!Live
  <2> QED BY <2>3, <2>4 DEF S!RestoreOK
<1> QED BY <1>1, <1>2, <1>3, <1>4, <1>5, <1>6, <1>7, <1>8, SessionShape, SessionReached

\* The refresh uses up the cookie's token, which memory does not rely on.
LEMMA RefreshKeeps ==
  ASSUME S!SessionAssumption, SessionOK, S!refresh("tab")
  PROVE  SessionOK'
<1> DEFINE b == boot["tab"]
<1>0. /\ b \in TabCalls /\ b.at = "sent" /\ UNCHANGED <<pending, cookie, tab, entry, stray, loads>>
      /\ boot \in [{"tab"} -> TabCalls] /\ row \in [1..MaxTokens -> SessionRows] /\ issued \in Nat
      /\ MaxTokens \in Nat /\ tab["tab"].page # "closed" /\ entry["tab"] \in TabCalls
      /\ b.token \in 0..issued /\ cookie \in 0..issued /\ entry["tab"].token \in 0..issued /\ issued \in 0..MaxTokens
      /\ \A k \in 1..MaxTokens : row[k].state # "none" => row[k].user \in Users
  BY SessionShape DEF S!refresh, S!BootOK, S!FormOK
<1>1. CASE S!Live(b.token)
  <2>1. PICK n \in 1..MaxTokens, u \in Users : n = issued + 1 /\ u = row[b.token].user
    <3>1. issued + 1 \in 1..MaxTokens
      BY <1>0, <1>1 DEF S!refresh, S!Rotate, S!Issue
    <3>2. row[b.token].user \in Users
      BY <1>0, <1>1 DEF S!Live
    <3> QED BY <3>1, <3>2
  <2> DEFINE c == [b EXCEPT !.at = "ok", !.token = n, !.user = u]
  <2>2. /\ issued' = n
        /\ row' = [[row EXCEPT ![b.token] = [row[b.token] EXCEPT !.state = "rotated"]]
                     EXCEPT ![n] = [user |-> u, state |-> "live"]]
        /\ boot' = [boot EXCEPT !["tab"] = c]
    BY <1>0, <1>1, <2>1 DEF S!refresh, S!Rotate, S!Issue
  <2>3. b.token \in 1..MaxTokens /\ b.token # n /\ row[b.token] \in SessionRows
    BY <1>0, <1>1, <2>1 DEF S!Live
  <2>4. c \in TabCalls /\ c.at = "ok" /\ c.token = n /\ c.user = u /\ c.kind = b.kind /\ boot'["tab"] = c
    <3>1. n \in 0..MaxTokens
      BY <1>0, <2>1
    <3>2. c \in TabCalls
      BY <1>0, <2>1, <3>1 DEF TabCalls
    <3>3. c.at = "ok" /\ c.token = n /\ c.user = u /\ c.kind = b.kind
      BY <1>0 DEF TabCalls
    <3> HIDE DEF c
    <3> QED BY <1>0, <2>2, <3>2, <3>3
  <2>5. row' \in [1..MaxTokens -> SessionRows] /\ \A k \in 1..MaxTokens : row'[k].state # "none" => row'[k].user \in Users
    BY <1>0, <1>1, <2>1, <2>2, <2>3 DEF SessionRows, S!Live
  <2>6. \A v : \A k \in 1..MaxTokens : S!Holds(k, v) /\ k # b.token => S!Holds(k, v)' /\ k # n
    BY <1>0, <2>1, <2>2, <2>3 DEF S!Holds
  <2>7. S!Holds(n, u)'
    BY <1>0, <2>1, <2>2 DEF S!Holds
  <2> HIDE DEF c
  <2>8. S!PairOK("tab")'
    BY <1>0, <2>6, SessionShape DEF S!PairOK, S!BootOK, S!Holds
  <2>9. S!BootOK("tab")'
    BY <1>0, <2>1, <2>2, <2>4, <2>7, SessionShape DEF S!BootOK, S!SignedIn
  <2>10. S!FormOK("tab")'
    BY <1>0, <2>1, <2>2, <2>6, SessionShape DEF S!BootOK, S!FormOK, S!SignedIn, S!Holds
  <2>11. boot' \in [{"tab"} -> TabCalls] /\ issued' \in 0..MaxTokens /\ cookie' \in 0..issued'
    BY <1>0, <2>1, <2>2, <2>4
  <2>12. S!StrayOK("tab")'
    BY <1>0, <2>1, <2>2, <2>4, SessionShape DEF S!StrayOK, S!SignedIn
  <2>13. S!RestoreOK("tab")'
    BY <1>0, <2>4, SessionShape DEF S!RestoreOK
  <2> QED BY <1>0, <2>5, <2>8, <2>9, <2>10, <2>11, <2>12, <2>13, SessionShape, SessionReached
<1>2. CASE ~S!Live(b.token)
  <2> DEFINE c == [b EXCEPT !.at = "refused"]
  <2>1. boot' = [boot EXCEPT !["tab"] = c] /\ UNCHANGED <<row, issued>>
    BY <1>0, <1>2 DEF S!refresh, S!Rotate
  <2>2. c \in TabCalls /\ c.at = "refused" /\ c.token = b.token /\ c.kind = b.kind /\ boot'["tab"] = c
    BY <1>0, <2>1 DEF TabCalls
  <2> HIDE DEF c
  <2>3. S!BootOK("tab")'
    BY <1>0, <2>1, <2>2, SessionShape DEF S!BootOK
  <2>4. S!PairOK("tab")' /\ S!FormOK("tab")'
    BY <1>0, <2>1, SessionShape DEF S!PairOK, S!FormOK, S!Holds, S!SignedIn
  <2>5. S!StrayOK("tab")' /\ S!RestoreOK("tab")'
    BY <1>0, <1>2, <2>1, <2>2, SessionShape DEF S!StrayOK, S!RestoreOK, S!SignedIn
  <2> QED BY <1>0, <2>1, <2>2, <2>3, <2>4, <2>5, SessionShape, SessionReached
<1> QED BY <1>1, <1>2

\* A refresh that fails leaves the memory empty and a call on its way.
LEMMA RefreshLostKeeps ==
  ASSUME S!SessionAssumption, SessionOK, S!refreshLost("tab")
  PROVE  SessionOK'
<1> DEFINE b == boot["tab"]
           c == [b EXCEPT !.at = "refused"]
<1>0. /\ b \in TabCalls /\ b.at \in {"sent", "ok"} /\ UNCHANGED <<row, issued, pending, cookie, entry, loads>>
      /\ boot' = [boot EXCEPT !["tab"] = c] /\ boot \in [{"tab"} -> TabCalls] /\ S!Abandon({b})
      /\ tab' = [tab EXCEPT !["tab"].clean = FALSE] /\ tab \in [{"tab"} -> TabStates]
  BY SessionShape DEF S!refreshLost
<1>1. c \in TabCalls /\ c.at = "refused" /\ c.token = b.token /\ c.kind = b.kind /\ boot'["tab"] = c
  BY <1>0 DEF TabCalls
<1>2. /\ tab' \in [{"tab"} -> TabStates] /\ tab'["tab"].page = tab["tab"].page /\ tab'["tab"].user = tab["tab"].user
      /\ tab'["tab"].ready = tab["tab"].ready /\ ~tab'["tab"].clean
  BY <1>0 DEF TabStates
<1> HIDE DEF c
<1>3. S!PairOK("tab")' /\ S!BootOK("tab")' /\ S!FormOK("tab")'
  BY <1>0, <1>1, <1>2, SessionShape DEF S!PairOK, S!BootOK, S!FormOK, S!Holds, S!SignedIn
<1>4. /\ stray' \subseteq TabCalls
      /\ \A d \in stray' : d.token \in 0..issued /\ (d.kind # "refresh" => d.user \in Users)
      /\ \A d \in stray' : /\ S!SignedIn(entry["tab"]) => d.token # entry["tab"].token
                           /\ tab["tab"].user # None /\ entry["tab"].kind # "logout" => d.token # cookie
  BY <1>0, Abandoned
<1>5. S!StrayOK("tab")' /\ S!RestoreOK("tab")'
  BY <1>0, <1>1, <1>2, <1>4, SessionShape DEF S!StrayOK, S!RestoreOK, S!SignedIn
<1> QED BY <1>0, <1>1, <1>2, <1>3, <1>4, <1>5, SessionShape, SessionReached

\* Its answer puts a user in memory and his token in the cookie.
LEMMA BootstrapKeeps ==
  ASSUME S!SessionAssumption, SessionOK, S!bootstrap("tab")
  PROVE  SessionOK'
<1> DEFINE b == boot["tab"]
<1>0. /\ b \in TabCalls /\ b.at \in {"ok", "refused"} /\ UNCHANGED <<row, issued, pending, entry, stray, loads>>
      /\ boot \in [{"tab"} -> TabCalls] /\ tab \in [{"tab"} -> TabStates] /\ tab["tab"] \in TabStates
      /\ tab["tab"].page # "closed" /\ b.token \in 0..issued /\ cookie \in 0..issued
  BY SessionShape DEF S!bootstrap, S!BootOK
<1>1. /\ boot' = [boot EXCEPT !["tab"] = S!NoCall] /\ boot'["tab"] = S!NoCall /\ boot' \in [{"tab"} -> TabCalls]
      /\ cookie' = IF b.at = "ok" THEN b.token ELSE cookie
  BY <1>0, SessionCalls DEF S!bootstrap
<1>2. /\ tab' \in [{"tab"} -> TabStates] /\ tab'["tab"].page = tab["tab"].page
      /\ tab'["tab"].user = IF b.at = "ok" THEN b.user ELSE tab["tab"].user
      /\ tab'["tab"].had = tab["tab"].had /\ tab'["tab"].clean = tab["tab"].clean
  BY <1>0, SessionShape DEF S!bootstrap, TabStates, TabCalls
<1>3. S!BootOK("tab")'
  BY <1>0, <1>1, SessionCalls, SessionShape DEF S!BootOK
<1>4. S!FormOK("tab")'
  BY <1>0, <1>2, SessionShape DEF S!FormOK, S!Holds, S!SignedIn
<1>5. S!PairOK("tab")'
  BY <1>0, <1>1, <1>2, SessionShape DEF S!PairOK, S!BootOK, S!Holds
<1>6. S!StrayOK("tab")'
  BY <1>0, <1>1, <1>2, SessionShape, SessionCalls DEF S!StrayOK, S!SignedIn
<1>7. S!RestoreOK("tab")'
  BY <1>0, <1>1, <1>2, SessionShape, SessionCalls DEF S!RestoreOK, S!BootOK
<1> QED BY <1>0, <1>1, <1>2, <1>3, <1>4, <1>5, <1>6, <1>7, SessionShape, SessionReached

\* Redirects and links change the page alone, and no link leads away from a
\* form that is being submitted.
LEMMA PageMoves ==
  ASSUME S!SessionAssumption, SessionOK, NEW p \in S!Pages, tab' = [tab EXCEPT !["tab"].page = p],
         UNCHANGED <<row, issued, pending, cookie, boot, entry, stray, loads>>,
         tab["tab"].page # "closed", p \in S!Private => tab["tab"].user # None,
         entry["tab"].at # "idle" /\ entry["tab"].kind # "logout" => tab["tab"].page \notin S!FormPages
  PROVE  SessionOK'
<1>0. p # "closed"
  BY SessionCalls
<1>1. /\ tab' \in [{"tab"} -> TabStates] /\ tab'["tab"].page = p /\ tab'["tab"].user = tab["tab"].user
      /\ tab'["tab"].ready = tab["tab"].ready
  BY SessionShape DEF TabStates
<1>2. S!PairOK("tab")' /\ S!BootOK("tab")' /\ S!FormOK("tab")'
  BY <1>0, <1>1, SessionShape DEF S!PairOK, S!BootOK, S!FormOK, S!Holds, S!SignedIn
<1>3. S!StrayOK("tab")' /\ S!RestoreOK("tab")'
  BY <1>0, <1>1, SessionShape DEF S!StrayOK, S!RestoreOK, S!SignedIn
<1> QED BY <1>0, <1>1, <1>2, <1>3, SessionShape, SessionReached

\* Each of them.
LEMMA PagesKeep ==
  ASSUME S!SessionAssumption, SessionOK,
         S!useRequireAuth("tab") \/ S!indexPage("tab") \/ \E p \in S!Pages : S!navigate("tab", p)
  PROVE  SessionOK'
<1>1. CASE S!useRequireAuth("tab")
  BY <1>1, PageMoves, SessionCalls DEF S!useRequireAuth, S!Goto, S!Private, S!FormPages
<1>2. CASE S!indexPage("tab")
  BY <1>2, PageMoves, SessionCalls DEF S!indexPage, S!Goto, S!FormPages
<1>3. ASSUME NEW p \in S!Pages, S!navigate("tab", p) PROVE SessionOK'
  BY <1>3, PageMoves, SessionCalls DEF S!navigate, S!Goto, S!Public
<1> QED BY <1>1, <1>2, <1>3

\* A form is submitted; a logout names the token that the cookie then has.
LEMMA SubmitKeeps ==
  ASSUME S!SessionAssumption, SessionOK,
         \/ \E u \in Users : \/ S!login("tab", u) \/ S!register("tab", u) \/ S!verify("tab", u)
                             \/ S!resetPassword("tab", u)
         \/ S!logout("tab")
  PROVE  SessionOK'
<1>1. ASSUME NEW p \in S!FormPages \cup {"profile"}, NEW kind \in {"login", "register", "verify", "reset", "logout"},
             NEW k \in {0, cookie}, NEW u \in Users, S!Submit("tab", p, kind, k, u),
             kind # "logout" => p \in S!FormPages /\ k = 0,
             kind = "logout" => k = cookie /\ tab["tab"].user # None
      PROVE  SessionOK'
  <2>1. /\ tab["tab"].page = p /\ entry["tab"] = S!NoCall /\ entry' = [entry EXCEPT !["tab"] = S!Call(kind, k, u)]
        /\ UNCHANGED <<row, issued, pending, cookie, tab, boot, stray, loads>> /\ p # "closed"
    BY <1>1 DEF S!Submit, S!FormPages
  <2>2. S!Call(kind, k, u) \in TabCalls /\ k \in 0..issued
    BY SessionCalls, SessionShape DEF S!Kinds
  <2>3. entry'["tab"] = [kind |-> kind, at |-> "sent", token |-> k, user |-> u] /\ entry' \in [{"tab"} -> TabCalls]
    BY <2>1, <2>2, SessionShape DEF S!Call
  <2>4. S!PairOK("tab")'
    BY <2>1, <2>3, SessionShape, SessionCalls DEF S!PairOK, S!Holds, S!Kinds
  <2>5. S!BootOK("tab")'
    BY <1>1, <2>1, <2>3, SessionShape DEF S!BootOK, S!Holds, S!SignedIn
  <2>6. S!FormOK("tab")'
    BY <1>1, <2>1, <2>2, <2>3 DEF S!FormOK, S!SignedIn
  <2>7. S!StrayOK("tab")'
    BY <2>1, <2>3, SessionShape, SessionCalls DEF S!StrayOK, S!SignedIn, S!Kinds
  <2>8. S!RestoreOK("tab")'
    BY <1>1, <2>1, SessionShape, SessionCalls DEF S!RestoreOK, S!FormPages
  <2> QED BY <2>1, <2>3, <2>4, <2>5, <2>6, <2>7, <2>8, SessionShape, SessionReached
<1>2. ASSUME NEW u \in Users,
             S!login("tab", u) \/ S!register("tab", u) \/ S!verify("tab", u) \/ S!resetPassword("tab", u)
      PROVE  SessionOK'
  BY <1>1, <1>2 DEF S!login, S!register, S!verify, S!resetPassword, S!FormPages
<1>3. CASE S!logout("tab")
  <2>1. tab["tab"].user \in Users
    BY <1>3, SessionShape DEF S!logout, TabStates
  <2> QED BY <1>1, <1>3, <2>1 DEF S!logout
<1> QED BY <1>2, <1>3

\* The server's answer to a form: what it is, and that its kind stays.
LEMMA SessionAnswered ==
  ASSUME S!SessionAssumption, SessionOK, NEW at \in {"ok", "challenge", "refused"}, NEW k \in 0..MaxTokens,
         S!Answer("tab", at, k), entry["tab"].at = "sent"
  PROVE  /\ entry' \in [{"tab"} -> TabCalls]
         /\ entry'["tab"].kind = entry["tab"].kind /\ entry'["tab"].at = at /\ entry'["tab"].token = k
         /\ entry'["tab"].user = entry["tab"].user /\ entry["tab"].user \in Users
         /\ tab["tab"].page # "closed" /\ (entry["tab"].kind # "logout" => tab["tab"].page \in S!FormPages)
<1> DEFINE c == entry["tab"]
           d == [c EXCEPT !.at = at, !.token = k]
<1>1. c \in TabCalls /\ entry' = [entry EXCEPT !["tab"] = d] /\ entry \in [{"tab"} -> TabCalls]
  BY SessionShape DEF S!Answer
<1>2. d \in TabCalls
  BY <1>1 DEF TabCalls
<1>3. d.kind = c.kind /\ d.at = at /\ d.token = k /\ d.user = c.user
  BY <1>1 DEF TabCalls
<1>4. c.user \in Users /\ tab["tab"].page # "closed" /\ (c.kind # "logout" => tab["tab"].page \in S!FormPages)
  BY SessionShape DEF S!FormOK
<1> HIDE DEF c, d
<1>5. entry' \in [{"tab"} -> TabCalls] /\ entry'["tab"] = d
  BY <1>1, <1>2
<1> QED BY <1>3, <1>4, <1>5 DEF c

\* An answer that brings no token.
LEMMA ServeWithoutToken ==
  ASSUME S!SessionAssumption, SessionOK, NEW at \in {"ok", "challenge", "refused"},
         entry["tab"].at = "sent", S!Answer("tab", at, 0), UNCHANGED <<issued, cookie, tab, boot, stray, loads>>,
         at = "ok" => entry["tab"].kind \notin {"login", "verify"},
         entry["tab"].kind = "logout" => at = "ok",
         pending' \subseteq Users, row' \in [1..MaxTokens -> SessionRows],
         \A k \in 1..MaxTokens : row'[k].user = row[k].user /\ (row'[k].state # "none" => row[k].state # "none"),
         \A k \in 1..MaxTokens : row[k].state \in {"live", "reset"} =>
            row'[k].state \in {"live", "reset"} \/ (entry["tab"].kind = "logout" /\ k = entry["tab"].token)
  PROVE  SessionOK'
<1>0. /\ issued \in Nat /\ 0 \in 0..issued /\ 0 \in 0..MaxTokens /\ issued \in 0..MaxTokens /\ MaxTokens \in Nat
      /\ cookie \in 0..issued
  BY SessionShape
<1>1. /\ entry' \in [{"tab"} -> TabCalls]
      /\ entry'["tab"].kind = entry["tab"].kind /\ entry'["tab"].at = at /\ entry'["tab"].token = 0
      /\ entry'["tab"].user \in Users
      /\ tab["tab"].page # "closed" /\ (entry["tab"].kind # "logout" => tab["tab"].page \in S!FormPages)
  BY <1>0, SessionAnswered
<1>2. \A k, u : S!Holds(k, u) /\ (entry["tab"].kind = "logout" => k # entry["tab"].token) => S!Holds(k, u)'
  <2> SUFFICES ASSUME NEW k, NEW u, S!Holds(k, u), entry["tab"].kind = "logout" => k # entry["tab"].token
               PROVE  S!Holds(k, u)'
    OBVIOUS
  <2>1. k \in 1..issued /\ k \in 1..MaxTokens
    BY <1>0 DEF S!Holds
  <2> QED BY <2>1 DEF S!Holds
<1>3. S!PairOK("tab")'
  BY <1>1, <1>2, SessionShape DEF S!PairOK
<1>4. S!BootOK("tab")'
  <2>1. ~S!SignedIn(entry'["tab"])
    BY <1>1 DEF S!SignedIn
  <2>2. boot["tab"].at = "ok" => S!Holds(boot["tab"].token, boot["tab"].user)' /\ boot["tab"].token # 0
    BY <1>2, SessionShape DEF S!BootOK, S!Holds
  <2> QED BY <1>1, <2>1, <2>2, SessionShape DEF S!BootOK
<1>5. S!FormOK("tab")'
  BY <1>0, <1>1 DEF S!FormOK, S!SignedIn
<1>6. \A k \in 1..MaxTokens : row'[k].state # "none" => row'[k].user \in Users
  BY SessionShape
<1>7. S!StrayOK("tab")' /\ S!RestoreOK("tab")'
  BY <1>1, SessionShape DEF S!StrayOK, S!RestoreOK, S!SignedIn
<1> QED BY <1>0, <1>1, <1>3, <1>4, <1>5, <1>6, <1>7, SessionShape, SessionReached

\* A login or a verification issues a token nobody has yet.
LEMMA ServeWithToken ==
  ASSUME S!SessionAssumption, SessionOK, entry["tab"].at = "sent", entry["tab"].kind \in {"login", "verify"},
         S!Issue(row, entry["tab"].user), S!Answer("tab", "ok", issued + 1),
         UNCHANGED <<cookie, tab, boot, stray, loads>>, pending' \subseteq Users
  PROVE  SessionOK'
<1>1. PICK n \in 1..MaxTokens, u \in Users : n = issued + 1 /\ n \in 0..MaxTokens /\ u = entry["tab"].user
  <2>1. issued + 1 \in 1..MaxTokens /\ issued + 1 \in 0..MaxTokens
    BY SessionShape DEF S!Issue
  <2>2. entry["tab"].user \in Users
    BY SessionShape DEF S!FormOK
  <2> QED BY <2>1, <2>2
<1>2. /\ entry' \in [{"tab"} -> TabCalls]
      /\ entry'["tab"].kind = entry["tab"].kind /\ entry'["tab"].at = "ok" /\ entry'["tab"].token = n
      /\ entry'["tab"].user = u /\ u \in Users
      /\ tab["tab"].page # "closed" /\ tab["tab"].page \in S!FormPages
  BY <1>1, SessionAnswered
<1>3. /\ issued' = n /\ row' = [row EXCEPT ![n] = [user |-> u, state |-> "live"]]
      /\ issued \in Nat /\ cookie \in 0..issued /\ row \in [1..MaxTokens -> SessionRows]
  BY <1>1, SessionShape DEF S!Issue
<1>4. /\ row' \in [1..MaxTokens -> SessionRows]
      /\ \A k \in 1..MaxTokens : row'[k].state # "none" => row'[k].user \in Users
  BY <1>2, <1>3, SessionShape DEF SessionRows
<1>5. \A k, v : S!Holds(k, v) => S!Holds(k, v)'
  BY <1>1, <1>3, SessionShape DEF S!Holds
<1>6. S!Holds(n, u)'
  BY <1>1, <1>3 DEF S!Holds
<1>7. S!PairOK("tab")'
  BY <1>2, <1>5, SessionShape DEF S!PairOK
<1>8. S!BootOK("tab")'
  BY <1>1, <1>2, <1>3, <1>5, SessionShape DEF S!BootOK, S!SignedIn
<1>9. S!FormOK("tab")'
  BY <1>1, <1>2, <1>3, <1>6 DEF S!FormOK, S!Holds
<1>10. cookie' \in 0..issued' /\ issued' \in 0..MaxTokens
  BY <1>1, <1>3
<1>11. S!StrayOK("tab")' /\ S!RestoreOK("tab")'
  BY <1>1, <1>2, <1>3, SessionShape DEF S!StrayOK, S!RestoreOK, S!SignedIn
<1> QED BY <1>2, <1>4, <1>7, <1>8, <1>9, <1>10, <1>11, SessionShape, SessionReached

\* What the server does for a call: it issues a token for a login or a
\* verification, or it issues none and takes none but a logout's away.
Issues(c, at, k) ==
  c.kind \in {"login", "verify"} /\ S!Issue(row, c.user) /\ pending' \subseteq Users /\ at = "ok" /\ k = issued + 1

IssuesNone(c, at, k) ==
  /\ k = 0 /\ issued' = issued /\ pending' \subseteq Users /\ row' \in [1..MaxTokens -> SessionRows]
  /\ at = "ok" => c.kind \notin {"login", "verify"}
  /\ c.kind = "logout" => at = "ok"
  /\ \A n \in 1..MaxTokens : row'[n].user = row[n].user /\ (row'[n].state # "none" => row[n].state # "none")
  /\ \A n \in 1..MaxTokens : row[n].state \in {"live", "reset"} =>
        row'[n].state \in {"live", "reset"} \/ (c.kind = "logout" /\ n = c.token)

LEMMA Served ==
  ASSUME S!SessionAssumption, SessionOK, NEW c \in TabCalls, NEW at, NEW k, S!Serve(c, at, k)
  PROVE  Issues(c, at, k) \/ IssuesNone(c, at, k)
<1>0. row \in [1..MaxTokens -> SessionRows] /\ pending \subseteq Users /\ c.token \in 0..MaxTokens
  BY SessionShape DEF TabCalls
<1>1. CASE /\ c.kind \in {"login", "verify"} /\ S!Issue(row, c.user) /\ pending' = pending \ {c.user}
           /\ at = "ok" /\ k = issued + 1
  BY <1>0, <1>1 DEF Issues
<1>2. CASE /\ at \in {"challenge", "refused"} \/ (c.kind = "register" /\ at = "ok")
           /\ c.kind # "logout" /\ k = 0 /\ UNCHANGED <<row, issued, pending>>
  BY <1>0, <1>2 DEF IssuesNone
<1>3. CASE /\ c.kind = "reset" /\ k = 0 /\ UNCHANGED <<issued, pending>>
           /\ row' = [n \in S!Tokens |-> IF row[n].user = c.user /\ S!Live(n)
                                           THEN [row[n] EXCEPT !.state = "reset"] ELSE row[n]]
  <2>1. row' \in [1..MaxTokens -> SessionRows]
    BY <1>0, <1>3 DEF S!Tokens, SessionRows
  <2>2. \A n \in 1..MaxTokens : /\ row'[n].user = row[n].user
                                /\ row'[n].state = row[n].state \/ (row'[n].state = "reset" /\ row[n].state = "live")
    BY <1>0, <1>3 DEF S!Tokens, S!Live, SessionRows
  <2> QED BY <1>0, <1>3, <2>1, <2>2 DEF IssuesNone
<1>4. CASE /\ c.kind = "logout" /\ at = "ok" /\ k = 0 /\ UNCHANGED <<issued, pending>>
           /\ row' = IF S!Live(c.token) THEN [row EXCEPT ![c.token].state = "logout"] ELSE row
  <2>1. row' \in [1..MaxTokens -> SessionRows]
    BY <1>0, <1>4 DEF S!Live, SessionRows
  <2>2. \A n \in 1..MaxTokens : /\ row'[n].user = row[n].user
                                /\ \/ row'[n].state = row[n].state
                                   \/ row'[n].state = "logout" /\ row[n].state = "live" /\ n = c.token
    BY <1>0, <1>4 DEF S!Live, SessionRows
  <2> QED BY <1>0, <1>4, <2>1, <2>2 DEF IssuesNone
<1> QED BY <1>1, <1>2, <1>3, <1>4 DEF S!Serve

\* A form's call is served.
LEMMA ServeKeeps ==
  ASSUME S!SessionAssumption, SessionOK, S!serve("tab")
  PROVE  SessionOK'
<1>1. PICK at \in S!Outcomes, k \in 0..MaxTokens : S!Serve(entry["tab"], at, k) /\ S!Answer("tab", at, k)
  BY DEF S!serve
<1>2. /\ entry["tab"].at = "sent" /\ UNCHANGED <<cookie, tab, boot, stray, loads>>
      /\ entry["tab"] \in TabCalls /\ at \in {"ok", "challenge", "refused"}
  BY SessionShape DEF S!serve, S!Outcomes
<1>3. Issues(entry["tab"], at, k) \/ IssuesNone(entry["tab"], at, k)
  BY <1>1, <1>2, Served
<1>4. CASE Issues(entry["tab"], at, k)
  BY <1>1, <1>2, <1>4, ServeWithToken DEF Issues
<1>5. CASE IssuesNone(entry["tab"], at, k)
  BY <1>1, <1>2, <1>5, ServeWithoutToken DEF IssuesNone
<1> QED BY <1>3, <1>4, <1>5

\* A token that no stray call names is held as before, and no call brings one
\* that is in use.
LEMMA StrayServed ==
  ASSUME S!SessionAssumption, SessionOK, NEW c \in stray, stray' = stray \ {c}, UNCHANGED <<cookie, tab, boot, entry, loads>>,
         pending' \subseteq Users, row' \in [1..MaxTokens -> SessionRows], issued' \in 0..MaxTokens, issued <= issued',
         \A n \in 1..MaxTokens : row'[n].state # "none" => row'[n].user \in Users,
         \A n, u : S!Holds(n, u) /\ n # c.token => S!Holds(n, u)'
  PROVE  SessionOK'
<1>0. issued \in Nat /\ issued' \in Nat /\ cookie \in 0..issued /\ stray \subseteq TabCalls
  BY SessionShape
<1>1. S!PairOK("tab")'
  BY SessionShape DEF S!PairOK, S!StrayOK
<1>2. S!BootOK("tab")'
  BY <1>0, SessionShape DEF S!BootOK, S!StrayOK, S!SignedIn
<1>3. S!FormOK("tab")'
  BY <1>0, SessionShape DEF S!FormOK, S!StrayOK, S!SignedIn
<1>4. S!StrayOK("tab")'
  BY <1>0, SessionShape DEF S!StrayOK, S!SignedIn
<1>5. S!RestoreOK("tab")'
  BY SessionShape DEF S!RestoreOK
<1> QED BY <1>0, <1>1, <1>2, <1>3, <1>4, <1>5, SessionShape, SessionReached

\* A call that nobody waits for is served.
LEMMA StrayKeeps ==
  ASSUME S!SessionAssumption, SessionOK, NEW c \in stray, S!serveStray(c)
  PROVE  SessionOK'
<1>0. /\ c \in TabCalls /\ c.token \in 0..issued /\ c.token \in 0..MaxTokens /\ (c.kind # "refresh" => c.user \in Users)
      /\ stray' = stray \ {c} /\ UNCHANGED <<cookie, tab, boot, entry, loads>>
      /\ issued \in Nat /\ issued \in 0..MaxTokens /\ MaxTokens \in Nat /\ row \in [1..MaxTokens -> SessionRows]
      /\ pending \subseteq Users /\ \A n \in 1..MaxTokens : row[n].state # "none" => row[n].user \in Users
  BY SessionShape DEF S!serveStray, S!StrayOK, TabCalls
<1>1. ASSUME NEW r, S!Issue(r, IF c.kind = "refresh" THEN row[c.token].user ELSE c.user), pending' \subseteq Users,
             r \in [1..MaxTokens -> SessionRows], (IF c.kind = "refresh" THEN row[c.token].user ELSE c.user) \in Users,
             \A n \in 1..MaxTokens : r[n].user = row[n].user /\ (r[n].state # "none" => row[n].state # "none")
                                     /\ (n # c.token => r[n] = row[n])
      PROVE  SessionOK'
  <2> DEFINE u == IF c.kind = "refresh" THEN row[c.token].user ELSE c.user
  <2>1. PICK n \in 1..MaxTokens : n = issued + 1
    BY <1>0, <1>1 DEF S!Issue
  <2>2. u \in Users /\ issued' = n /\ row' = [r EXCEPT ![n] = [user |-> u, state |-> "live"]]
    BY <1>1, <2>1 DEF S!Issue
  <2> HIDE DEF u
  <2>3. row' \in [1..MaxTokens -> SessionRows] /\ \A m \in 1..MaxTokens : row'[m].state # "none" => row'[m].user \in Users
    BY <1>0, <1>1, <2>2 DEF SessionRows
  <2>4. \A m, v : S!Holds(m, v) /\ m # c.token => S!Holds(m, v)'
    BY <1>0, <1>1, <2>1, <2>2 DEF S!Holds
  <2>5. issued' \in 0..MaxTokens /\ issued <= issued'
    BY <1>0, <2>1, <2>2
  <2> QED BY <1>0, <1>1, <2>3, <2>4, <2>5, StrayServed
<1>2. CASE c.kind = "refresh" /\ S!Live(c.token)
  <2> DEFINE r == [row EXCEPT ![c.token].state = "rotated"]
  <2>1. S!Issue(r, row[c.token].user) /\ pending' = pending /\ c.token \in 1..MaxTokens
    BY <1>0, <1>2 DEF S!serveStray, S!Rotate, S!Live
  <2>2. /\ r \in [1..MaxTokens -> SessionRows] /\ row[c.token].user \in Users
        /\ \A n \in 1..MaxTokens : r[n].user = row[n].user /\ (r[n].state # "none" => row[n].state # "none")
                                    /\ (n # c.token => r[n] = row[n])
    BY <1>0, <1>2, <2>1 DEF SessionRows, S!Live
  <2> HIDE DEF r
  <2> QED BY <1>0, <1>1, <1>2, <2>1, <2>2
<1>3. CASE c.kind = "refresh" /\ ~S!Live(c.token)
  <2>1. UNCHANGED <<row, issued, pending>>
    BY <1>3 DEF S!serveStray, S!Rotate
  <2>2. \A n, u : S!Holds(n, u) => S!Holds(n, u)'
    BY <2>1 DEF S!Holds
  <2> QED BY <1>0, <2>1, <2>2, StrayServed
<1>4. CASE c.kind # "refresh"
  <2>1. PICK at \in S!Outcomes, k \in 0..MaxTokens : S!Serve(c, at, k)
    BY <1>4 DEF S!serveStray
  <2>2. Issues(c, at, k) \/ IssuesNone(c, at, k)
    BY <1>0, <2>1, Served
  <2>3. CASE Issues(c, at, k)
    BY <1>0, <1>1, <1>4, <2>3 DEF Issues
  <2>4. CASE IssuesNone(c, at, k)
    <3>1. \A n, u : S!Holds(n, u) /\ n # c.token => S!Holds(n, u)'
      BY <1>0, <2>4 DEF S!Holds, IssuesNone
    <3>2. \A n \in 1..MaxTokens : row'[n].state # "none" => row'[n].user \in Users
      BY <1>0, <2>4 DEF IssuesNone
    <3> QED BY <1>0, <2>4, <3>1, <3>2, StrayServed DEF IssuesNone
  <2> QED BY <2>2, <2>3, <2>4
<1> QED BY <1>2, <1>3, <1>4

\* The tab takes the answer: memory and cookie change together.
LEMMA AnsweredKeeps ==
  ASSUME S!SessionAssumption, SessionOK, S!answered("tab")
  PROVE  SessionOK'
<1> DEFINE c == entry["tab"]
           in == S!SignedIn(c)
<1>0. /\ c \in TabCalls /\ c.at \in {"ok", "challenge", "refused"} /\ UNCHANGED <<row, issued, pending, boot, stray, loads>>
      /\ tab \in [{"tab"} -> TabStates] /\ tab["tab"] \in TabStates /\ tab["tab"].page # "closed"
      /\ c.user \in Users /\ c.token \in 0..issued /\ cookie \in 0..issued /\ issued \in Nat
      /\ c.kind = "logout" => c.at = "ok"
      /\ in => S!Holds(c.token, c.user)
  BY SessionShape DEF S!answered, S!FormOK
<1>1. /\ entry'["tab"] = S!NoCall /\ entry' \in [{"tab"} -> TabCalls]
      /\ entry'["tab"].at = "idle" /\ entry'["tab"].kind = None /\ entry'["tab"].token = 0
  BY SessionShape, SessionCalls DEF S!answered
<1>2. S!Pages = {"home", "profile", "master", "index", "login", "register", "verify", "forgot"}
      /\ tab["tab"].user \in Users \cup {None} /\ tab["tab"].page \in S!Pages
  BY <1>0, SessionCalls DEF TabStates
<1>3. PICK p \in S!Pages, u \in Users \cup {None} :
        /\ tab' \in [{"tab"} -> TabStates] /\ tab'["tab"].page = p /\ tab'["tab"].user = u /\ p # "closed"
        /\ in => u = c.user /\ cookie' = c.token
        /\ ~in => cookie' = IF c.kind = "logout" THEN 0 ELSE cookie
        /\ ~in => u = IF c.kind = "logout" THEN None ELSE tab["tab"].user
        /\ ~in => p \in {"verify", "login", tab["tab"].page} /\ (c.kind = "logout" => p = "login")
        /\ \A f \in {"ready", "had", "clean"} : tab'["tab"][f] = tab["tab"][f]
  <2>1. CASE in
    <3>1. tab' = [tab EXCEPT !["tab"].user = c.user, !["tab"].page = IF c.kind = "login" THEN "home" ELSE "master"]
      BY <1>0, <2>1 DEF S!answered, S!SignedIn, TabStates
    <3>2. cookie' = c.token
      BY <2>1 DEF S!answered, S!SignedIn
    <3>3. tab' \in [{"tab"} -> TabStates] /\ tab'["tab"].page \in {"home", "master"} /\ tab'["tab"].user = c.user
         /\ \A f \in {"ready", "had", "clean"} : tab'["tab"][f] = tab["tab"][f]
      BY <1>0, <1>2, <3>1 DEF TabStates
    <3> QED BY <1>0, <1>2, <2>1, <3>2, <3>3
  <2>2. CASE ~in /\ c.kind = "logout"
    <3>1. tab' = [tab EXCEPT !["tab"].user = None, !["tab"].page = "login"]
      BY <1>0, <2>2 DEF S!answered, S!SignedIn, TabStates
    <3>2. cookie' = 0
      BY <2>2 DEF S!answered, S!SignedIn
    <3>3. tab' \in [{"tab"} -> TabStates] /\ tab'["tab"].page = "login" /\ tab'["tab"].user = None
         /\ \A f \in {"ready", "had", "clean"} : tab'["tab"][f] = tab["tab"][f]
      BY <1>0, <1>2, <3>1 DEF TabStates
    <3> QED BY <1>0, <1>2, <2>2, <3>2, <3>3
  <2>3. CASE ~in /\ c.kind # "logout"
    <3>1. cookie' = cookie
      BY <2>3 DEF S!answered, S!SignedIn
    <3>2. \/ \E q \in {"verify", "login"} : tab' = [tab EXCEPT !["tab"].page = q]
          \/ tab' = tab
      BY <1>0, <2>3 DEF S!answered, S!SignedIn
    <3>3. /\ tab' \in [{"tab"} -> TabStates] /\ tab'["tab"].page \in {"verify", "login", tab["tab"].page}
          /\ tab'["tab"].user = tab["tab"].user
          /\ \A f \in {"ready", "had", "clean"} : tab'["tab"][f] = tab["tab"][f]
      BY <1>0, <1>2, <3>2 DEF TabStates
    <3> QED BY <1>0, <1>2, <2>3, <3>1, <3>3
  <2> QED BY <2>1, <2>2, <2>3
<1>4. cookie' \in 0..issued' /\ \A k, v : S!Holds(k, v) => S!Holds(k, v)'
  BY <1>0, <1>3 DEF S!Holds
<1> HIDE DEF in
<1>5. S!PairOK("tab")'
  <2>1. CASE in
    BY <1>0, <1>3, <2>1 DEF S!PairOK, S!Holds
  <2>2. CASE ~in
    BY <1>0, <1>3, <2>2, SessionShape DEF S!PairOK, S!Holds
  <2> QED BY <2>1, <2>2
<1>6. S!BootOK("tab")'
  <2>1. S!SignedIn(c) <=> in
    BY DEF in
  <2>2. ~S!SignedIn(entry'["tab"])
    BY <1>1 DEF S!SignedIn
  <2>3. boot["tab"].at = "ok" => /\ S!Holds(boot["tab"].token, boot["tab"].user)'
                                 /\ boot["tab"].token # 0 /\ boot["tab"].token # cookie'
    BY <1>0, <1>3, <1>4, <2>1, SessionShape DEF S!BootOK, S!Holds
  <2>4. boot["tab"].at = "sent" /\ u # None => boot["tab"].token # cookie'
    BY <1>3, <2>1, SessionShape DEF S!BootOK
  <2> QED BY <1>0, <1>1, <1>3, <2>2, <2>3, <2>4, SessionShape, SessionCalls DEF S!BootOK, S!Kinds
<1>7. S!FormOK("tab")'
  BY <1>0, <1>1, SessionCalls DEF S!FormOK, S!SignedIn, S!Kinds
<1>8. S!StrayOK("tab")'
  <2>1. in <=> S!SignedIn(c)
    BY DEF in
  <2>2. ~S!SignedIn(entry'["tab"])
    BY <1>1 DEF S!SignedIn
  <2>3. \A d \in stray : u # None => d.token # cookie'
    BY <1>3, <2>1, SessionShape DEF S!StrayOK
  <2> QED BY <1>0, <1>3, <2>2, <2>3, SessionShape DEF S!StrayOK
<1>9. S!RestoreOK("tab")'
  <2>1. tab'["tab"].ready = tab["tab"].ready /\ tab'["tab"].had = tab["tab"].had /\ tab'["tab"].clean = tab["tab"].clean
    BY <1>3
  <2>2. in => u # None
    BY <1>0, <1>3, SessionShape
  <2>3. p \in S!Private /\ u = None => p = tab["tab"].page /\ tab["tab"].user = None
    BY <1>3, <2>2, SessionCalls
  <2> QED BY <1>0, <1>3, <2>1, <2>3, SessionShape DEF S!RestoreOK
<1> QED BY <1>0, <1>1, <1>3, <1>4, <1>5, <1>6, <1>7, <1>8, <1>9, SessionShape, SessionReached

\* A form's call that fails: a logout empties the memory all the same.
LEMMA FormLostKeeps ==
  ASSUME S!SessionAssumption, SessionOK, S!formLost("tab")
  PROVE  SessionOK'
<1> DEFINE c == entry["tab"]
           d == [c EXCEPT !.at = "refused"]
<1>0. /\ c \in TabCalls /\ c.at \in {"sent", "ok", "challenge"} /\ UNCHANGED <<row, issued, pending, cookie, boot, loads>>
      /\ S!Abandon({c})
  BY SessionShape DEF S!formLost
<1>1. /\ stray' \subseteq TabCalls
      /\ \A e \in stray' : e.token \in 0..issued /\ (e.kind # "refresh" => e.user \in Users)
      /\ \A e \in stray' : /\ boot["tab"].at = "ok" => e.token # boot["tab"].token
                           /\ tab["tab"].user # None /\ c.kind # "logout" => e.token # cookie
  BY <1>0, Abandoned
<1>2. CASE c.kind = "logout"
  <2>1. /\ entry'["tab"] = S!NoCall /\ entry' \in [{"tab"} -> TabCalls]
        /\ entry'["tab"].at = "idle" /\ entry'["tab"].kind = None /\ entry'["tab"].token = 0
    BY <1>2, SessionShape, SessionCalls DEF S!formLost
  <2>2. /\ tab' \in [{"tab"} -> TabStates] /\ tab'["tab"].page = "login" /\ tab'["tab"].user = None
        /\ tab'["tab"].ready = tab["tab"].ready
    BY <1>2, SessionShape, SessionCalls DEF S!formLost, TabStates
  <2>3. S!PairOK("tab")'
    BY <2>2 DEF S!PairOK
  <2>4. S!BootOK("tab")'
    BY <1>0, <2>1, <2>2, SessionShape, SessionCalls DEF S!BootOK, S!Holds, S!SignedIn, S!Kinds
  <2>5. S!FormOK("tab")'
    BY <1>0, <2>1, SessionShape, SessionCalls DEF S!FormOK, S!SignedIn, S!Kinds
  <2>6. S!StrayOK("tab")'
    BY <1>0, <1>1, <2>1, <2>2 DEF S!StrayOK, S!SignedIn
  <2>7. S!RestoreOK("tab")'
    BY <1>0, <2>2, SessionShape, SessionCalls DEF S!RestoreOK
  <2> QED BY <1>0, <1>1, <2>1, <2>2, <2>3, <2>4, <2>5, <2>6, <2>7, SessionShape, SessionReached
<1>3. CASE c.kind # "logout"
  <2>1. entry' = [entry EXCEPT !["tab"] = d] /\ UNCHANGED tab
    BY <1>3 DEF S!formLost
  <2>2. /\ entry'["tab"] = d /\ entry' \in [{"tab"} -> TabCalls]
        /\ d.at = "refused" /\ d.kind = c.kind /\ d.token = c.token /\ d.user = c.user
    BY <1>0, <2>1, SessionShape DEF TabCalls
  <2> HIDE DEF d
  <2>3. S!PairOK("tab")' /\ S!BootOK("tab")' /\ S!FormOK("tab")'
    BY <1>0, <1>3, <2>1, <2>2, SessionShape, SessionCalls DEF S!PairOK, S!BootOK, S!FormOK, S!Holds, S!SignedIn
  <2>4. S!StrayOK("tab")' /\ S!RestoreOK("tab")'
    BY <1>0, <1>1, <1>3, <2>1, <2>2, SessionShape DEF S!StrayOK, S!RestoreOK, S!SignedIn
  <2> QED BY <1>0, <1>1, <2>1, <2>2, <2>3, <2>4, SessionShape, SessionReached
<1> QED BY <1>2, <1>3

\* One user's session is on record and in the cookie; nothing is open.
LEMMA SessionStarts ==
  ASSUME S!SessionAssumption, S!Init
  PROVE  SessionOK
<1>0. PICK u \in Users : row = [k \in S!Tokens |-> IF k = 1 THEN [user |-> u, state |-> "live"] ELSE S!NoRow]
  BY DEF S!Init
<1>1. /\ issued = 1 /\ cookie = 1 /\ pending \subseteq Users /\ tab["tab"] = S!Closed /\ boot["tab"] = S!NoCall
      /\ entry["tab"] = S!NoCall /\ stray = {} /\ loads = 0 /\ MaxTokens \in Nat \ {0} /\ MaxLoads \in Nat
      /\ tab \in [{"tab"} -> TabStates] /\ boot \in [{"tab"} -> TabCalls] /\ entry \in [{"tab"} -> TabCalls]
  BY SessionCalls DEF S!Init, S!SessionAssumption
<1>2. row \in [1..MaxTokens -> SessionRows] /\ \A k \in 1..MaxTokens : row[k].state # "none" => row[k].user \in Users
  BY <1>0 DEF S!Tokens, S!NoRow, SessionRows
<1>3. tab["tab"].user = None /\ ~tab["tab"].ready /\ ~tab["tab"].clean
  BY <1>1 DEF S!Closed
<1>4. S!PairOK("tab") /\ S!BootOK("tab") /\ S!FormOK("tab") /\ S!StrayOK("tab") /\ S!RestoreOK("tab")
  BY <1>1, <1>3, SessionCalls DEF S!PairOK, S!BootOK, S!FormOK, S!StrayOK, S!RestoreOK, S!SignedIn, S!Kinds
<1>5. S!TypeOK
  BY <1>1, <1>2, <1>3 DEF S!TypeOK, S!Tokens, SessionRows, TabStates, TabCalls, S!CallStates
<1>6. S!SessionInv
  BY <1>2, <1>4 DEF S!SessionInv, S!Tokens
<1> QED BY <1>5, <1>6 DEF SessionOK

\* Every step of the session keeps the invariant.
LEMMA SessionKeeps ==
  ASSUME S!SessionAssumption, SessionOK, S!Next
  PROVE  SessionOK'
BY LoadKeeps, RefreshKeeps, RefreshLostKeeps, BootstrapKeeps, PagesKeep, SubmitKeeps, ServeKeeps, StrayKeeps,
   AnsweredKeeps, FormLostKeeps
   DEF S!Next, S!Restore, S!Redirect, S!Process

\* A step elsewhere does not touch it.
LEMMA SessionRests ==
  ASSUME SessionOK, UNCHANGED sessionVars
  PROVE  SessionOK'
<1> USE DEF sessionVars
<1>1. S!TypeOK'
  BY DEF SessionOK, S!TypeOK
<1>2. S!SessionInv'
  BY DEF SessionOK, S!SessionInv, S!PairOK, S!BootOK, S!FormOK, S!StrayOK, S!RestoreOK, S!Holds, S!SignedIn, S!Live
<1> QED BY <1>1, <1>2 DEF SessionOK

\* At rest, the cookie is that of the user in memory.
LEMMA CookieFollows ==
  ASSUME S!SessionAssumption, SessionOK
  PROVE  S!CookieMatchesUser
BY SessionShape, SessionCalls DEF S!CookieMatchesUser, S!Quiet, S!PairOK, S!Holds, S!Kinds

\* Only three actions lead to the login form; the redirect of a private page
\* finds the refresh over and the memory empty.
LEMMA TurnedAwayRightly ==
  ASSUME S!SessionAssumption, SessionOK, S!Next, loads' = loads, tab["tab"].page \in S!Private,
         tab'["tab"].page = "login", entry["tab"].kind # "logout"
  PROVE  ~(tab["tab"].had /\ tab["tab"].clean)
<1>0. /\ tab["tab"].page # "login" /\ tab["tab"].page \notin S!FormPages /\ "login" \notin S!Private
      /\ tab \in [{"tab"} -> TabStates] /\ tab["tab"] \in TabStates /\ loads \in Nat
  BY SessionShape DEF S!Private, S!FormPages, S!SessionAssumption
<1>1. \A p \in S!Pages : ~S!load("tab", p)
  BY <1>0 DEF S!load
<1>2. CASE S!useRequireAuth("tab")
  <2>1. tab["tab"].ready /\ tab["tab"].user = None
    BY <1>2 DEF S!useRequireAuth
  <2>2. boot["tab"].at = "idle"
    BY <2>1, SessionShape DEF S!RestoreOK
  <2> QED BY <2>1, <2>2, SessionShape DEF S!RestoreOK
<1>3. CASE S!indexPage("tab")
  BY <1>0, <1>3 DEF S!indexPage, S!Goto, TabStates
<1>4. ASSUME NEW p \in S!Pages, S!navigate("tab", p) PROVE FALSE
  <2>1. tab'["tab"].page = p
    BY <1>0, <1>4 DEF S!navigate, S!Goto, TabStates
  <2> QED BY <1>0, <1>4, <2>1 DEF S!navigate, S!Private, S!Public
<1>5. CASE S!bootstrap("tab")
  BY <1>0, <1>5 DEF S!bootstrap, TabStates
<1>6. CASE S!refreshLost("tab")
  BY <1>0, <1>6 DEF S!refreshLost, TabStates
<1>7. CASE S!answered("tab")
  BY <1>0, <1>7, SessionShape DEF S!answered, S!FormOK
<1>8. CASE S!formLost("tab")
  BY <1>0, <1>8 DEF S!formLost
<1>9. CASE UNCHANGED tab
  BY <1>0, <1>9
<1> QED BY <1>1, <1>2, <1>3, <1>4, <1>5, <1>6, <1>7, <1>8, <1>9
        DEF S!Next, S!Restore, S!Redirect, S!Process, S!refresh, S!serve, S!serveStray, S!login, S!register,
            S!verify, S!resetPassword, S!logout, S!Submit

-----------------------------------------------------------------------------
(* The live map.                                                           *)

TrackingOK == T!TypeOK /\ T!TrackingInv

TrackedOrders == [customer : Customers, master : Masters, phase : T!Phases]
Positions == T!Event \cup {T!Seed(o) : o \in Orders} \cup {None}
MapPages == [order : Orders \cup {None}, active : BOOLEAN, self : 0..MaxMoves,
             other : Positions, map : {"none", "drawn", "detached"}, mounts : 0..MaxMounts]
Scripts == {"none", "loading", "ready", "failed"}

\* What is known of page q of a browser that keeps n maps alive.
MapOK(q, n) ==
  /\ q.map # "none" => q.order # None
  /\ q.order = None => ~q.active /\ q.map = "none"
  /\ q.order # None /\ q.map = "none" => n < q.mounts
  /\ q.map # "none" => n > 0
  /\ q.active => q.map # "detached"
  /\ n <= q.mounts

\* A page may show no position at all.
LEMMA NoPosition == None \in Positions
<1>1. None \in {None}
  OBVIOUS
<1> QED BY <1>1 DEF Positions

\* The state's types, and each user's page and maps.
LEMMA TrackingShape ==
  ASSUME T!TrackingAssumption, TrackingOK
  PROVE  /\ MaxMoves \in Nat /\ MaxMounts \in Nat /\ None \notin Orders
         /\ order \in [Orders -> TrackedOrders] /\ pos \in [T!Everyone -> 0..MaxMoves]
         /\ relaying \subseteq [from : T!Everyone, at : 1..MaxMoves]
         /\ inbox \in [T!Everyone -> Seq(T!Event)]
         /\ page \in [T!Everyone -> MapPages] /\ maps \in [T!Everyone -> Nat]
         /\ script \in [T!Everyone -> Scripts]
         /\ \A u \in T!Everyone : MapOK(page[u], maps[u])
BY DEF TrackingOK, T!TypeOK, T!TrackingInv, T!TrackingAssumption, TrackedOrders, MapPages, Positions, Scripts,
       T!Shown, T!MapRefs, T!PageOK, T!MapInItsBox, T!OneMapPerMount, MapOK

\* It is enough to say the same of the next state.
LEMMA TrackingReached ==
  ASSUME T!TrackingAssumption,
         order' \in [Orders -> TrackedOrders], pos' \in [T!Everyone -> 0..MaxMoves],
         relaying' \subseteq [from : T!Everyone, at : 1..MaxMoves],
         inbox' \in [T!Everyone -> Seq(T!Event)],
         page' \in [T!Everyone -> MapPages], maps' \in [T!Everyone -> Nat],
         script' \in [T!Everyone -> Scripts],
         \A u \in T!Everyone : MapOK(page'[u], maps'[u])
  PROVE  TrackingOK'
<1>1. T!TypeOK'
  <2>1. \A u \in T!Everyone : \A i \in 1..Len(inbox'[u]) : inbox'[u][i] \in T!Event
    OBVIOUS
  <2> QED BY <2>1 DEF T!TypeOK, TrackedOrders, MapPages, Positions, Scripts, T!Shown, T!MapRefs, MapOK
<1>2. T!TrackingInv'
  BY DEF T!TrackingInv, T!PageOK, T!MapInItsBox, T!OneMapPerMount, MapOK
<1> QED BY <1>1, <1>2 DEF TrackingOK

\* Where the work stands moves on; the pages do not know yet.
LEMMA ProceedKeeps ==
  ASSUME T!TrackingAssumption, TrackingOK, NEW o \in Orders, T!proceed(o)
  PROVE  TrackingOK'
<1>1. PICK to \in T!Phases : order' = [order EXCEPT ![o].phase = to]
  BY DEF T!proceed
<1>2. order' \in [Orders -> TrackedOrders]
  BY <1>1, TrackingShape DEF TrackedOrders
<1>3. UNCHANGED <<pos, relaying, inbox, page, maps, script>>
  BY DEF T!proceed
<1> QED BY <1>2, <1>3, TrackingShape, TrackingReached

\* A step of u's page is his alone.
LEMMA MapPageKeeps ==
  ASSUME T!TrackingAssumption, TrackingOK, NEW u \in T!Everyone, NEW q \in MapPages, NEW n \in Nat,
         order' = order, inbox' \in [T!Everyone -> Seq(T!Event)], pos' \in [T!Everyone -> 0..MaxMoves],
         relaying' \subseteq [from : T!Everyone, at : 1..MaxMoves], script' \in [T!Everyone -> Scripts],
         page' = [page EXCEPT ![u] = q], maps' = [maps EXCEPT ![u] = n], MapOK(q, n)
  PROVE  TrackingOK'
<1>1. page' \in [T!Everyone -> MapPages] /\ maps' \in [T!Everyone -> Nat] /\ page'[u] = q /\ maps'[u] = n
  BY TrackingShape
<1>2. \A v \in T!Everyone : v # u => page'[v] = page[v] /\ maps'[v] = maps[v]
  BY TrackingShape
<1>3. \A v \in T!Everyone : MapOK(page'[v], maps'[v])
  BY <1>1, <1>2, TrackingShape
<1> QED BY <1>1, <1>3, TrackingShape, TrackingReached

\* The page opens.
LEMMA MountKeeps ==
  ASSUME T!TrackingAssumption, TrackingOK, NEW u \in T!Everyone, NEW o \in Orders, T!mount(u, o)
  PROVE  TrackingOK'
<1>0. /\ page[u] \in MapPages /\ maps[u] \in Nat /\ MapOK(page[u], maps[u]) /\ page[u].mounts \in 0..MaxMounts
      /\ maps \in [T!Everyone -> Nat] /\ MaxMounts \in Nat /\ MaxMoves \in Nat /\ None \notin Orders
  BY TrackingShape DEF MapPages
<1>1. PICK seed \in {None, T!Seed(o)} :
        page' = [page EXCEPT ![u] = [T!Closed(page[u].mounts + 1) EXCEPT
                                  !.order = o, !.active = T!Tracked(o), !.other = seed]]
  BY DEF T!mount
<1> DEFINE q == [order |-> o, active |-> T!Tracked(o), self |-> 0, other |-> seed, map |-> "none",
                 mounts |-> page[u].mounts + 1]
<1>2. page' = [page EXCEPT ![u] = q] /\ maps' = [maps EXCEPT ![u] = maps[u]] /\ page[u].mounts < MaxMounts
  BY <1>0, <1>1 DEF T!mount, T!Closed
<1>3. q \in MapPages
  <2>1. T!Tracked(o) \in BOOLEAN /\ page[u].mounts + 1 \in 0..MaxMounts /\ seed \in Positions /\ 0 \in 0..MaxMoves
    BY <1>0, <1>2 DEF T!Tracked, Positions
  <2> QED BY <2>1 DEF MapPages
<1>4. MapOK(q, maps[u])
  BY <1>0 DEF MapOK
<1>5. UNCHANGED <<order, inbox, pos, relaying, script>>
  BY DEF T!mount
<1> HIDE DEF q
<1> QED BY <1>0, <1>2, <1>3, <1>4, <1>5, TrackingShape, MapPageKeeps

\* The page goes to an order that is, or is not, tracked.  A map that loses its
\* box goes on living until the component is active once more, or gone.
LEMMA RerenderKeeps ==
  ASSUME T!TrackingAssumption, TrackingOK, NEW u \in T!Everyone, NEW o \in Orders, T!rerender(u, o)
  PROVE  TrackingOK'
<1> DEFINE m == T!tornDown(page[u].map, page[u].active, T!Tracked(o))
           n == IF T!Tracked(o) THEN T!destroyed(u) ELSE maps[u]
           q == [page[u] EXCEPT !.order = o, !.active = T!Tracked(o), !.map = m]
<1>0. /\ page[u] \in MapPages /\ maps[u] \in Nat /\ MapOK(page[u], maps[u]) /\ page[u].mounts \in 0..MaxMounts
      /\ page[u].map \in {"none", "drawn", "detached"} /\ page[u].active \in BOOLEAN /\ T!Tracked(o) \in BOOLEAN
      /\ maps \in [T!Everyone -> Nat] /\ None \notin Orders
  BY TrackingShape DEF MapPages, T!Tracked
<1>1. page' = [page EXCEPT ![u] = q] /\ maps' = [maps EXCEPT ![u] = n] /\ page[u].order # None
  <2>1. page' = [page EXCEPT ![u] = q] /\ page[u].order # None
    BY DEF T!rerender
  <2>2. maps' = [maps EXCEPT ![u] = n]
    BY DEF T!rerender
  <2> QED BY <2>1, <2>2
<1>2. m \in {"none", "drawn", "detached"} /\ q \in MapPages
  BY <1>0 DEF T!tornDown, MapPages
<1>3. /\ q.order = o /\ q.active = T!Tracked(o) /\ q.map = m /\ q.mounts = page[u].mounts
  BY <1>0 DEF MapPages
<1>4. n \in Nat /\ MapOK(q, n)
  <2>1. CASE T!Tracked(o) /\ page[u].active
    BY <1>0, <1>1, <1>3, <2>1 DEF MapOK, T!tornDown, T!destroyed
  <2>2. CASE T!Tracked(o) /\ ~page[u].active
    <3>1. m = "none" /\ n = IF page[u].map # "none" THEN maps[u] - 1 ELSE maps[u]
      BY <1>0, <2>2 DEF T!tornDown, T!destroyed
    <3>2. n \in Nat /\ n < page[u].mounts
      BY <1>0, <1>1, <3>1 DEF MapOK
    <3> QED BY <1>0, <1>3, <3>1, <3>2 DEF MapOK
  <2>3. CASE ~T!Tracked(o)
    BY <1>0, <1>1, <1>3, <2>3 DEF MapOK, T!tornDown
  <2> QED BY <1>0, <2>1, <2>2, <2>3
<1>5. UNCHANGED <<order, inbox, pos, relaying, script>>
  BY DEF T!rerender
<1> HIDE DEF q, n, m
<1> QED BY <1>1, <1>2, <1>4, <1>5, TrackingShape, MapPageKeeps

\* The page is closed, at a new position, or drawn.
LEMMA MapPagesKeep ==
  ASSUME T!TrackingAssumption, TrackingOK, NEW u \in T!Everyone,
         T!unmount(u) \/ T!onPosition(u) \/ T!Draw(u)
  PROVE  TrackingOK'
<1>0. /\ page[u] \in MapPages /\ maps[u] \in Nat /\ MapOK(page[u], maps[u]) /\ pos[u] \in 0..MaxMoves
      /\ page[u].mounts \in 0..MaxMounts /\ MaxMoves \in Nat /\ MaxMounts \in Nat /\ None \notin Orders
  BY TrackingShape DEF MapPages
<1>1. /\ pos \in [T!Everyone -> 0..MaxMoves] /\ maps \in [T!Everyone -> Nat] /\ page \in [T!Everyone -> MapPages]
      /\ relaying \subseteq [from : T!Everyone, at : 1..MaxMoves] /\ script \in [T!Everyone -> Scripts]
      /\ inbox \in [T!Everyone -> Seq(T!Event)]
  BY TrackingShape
<1>2. CASE T!unmount(u)
  <2> DEFINE q == [order |-> None, active |-> FALSE, self |-> 0, other |-> None, map |-> "none", mounts |-> page[u].mounts]
  <2>1. /\ UNCHANGED <<order, inbox, pos, relaying, script>>
        /\ page' = [page EXCEPT ![u] = q] /\ maps' = [maps EXCEPT ![u] = T!destroyed(u)]
    BY <1>2 DEF T!unmount, T!Closed
  <2>2. q \in MapPages
    <3>1. 0 \in 0..MaxMoves /\ None \in Positions
      BY <1>0, NoPosition
    <3> QED BY <1>0, <3>1 DEF MapPages
  <2>3. T!destroyed(u) \in Nat /\ MapOK(q, T!destroyed(u))
    BY <1>0 DEF T!destroyed, MapOK
  <2> HIDE DEF q
  <2> QED BY <1>1, <2>1, <2>2, <2>3, MapPageKeeps
<1>3. CASE T!onPosition(u)
  <2> DEFINE q == [page[u] EXCEPT !.self = pos[u] + 1]
  <2>1. pos' = [pos EXCEPT ![u] = pos[u] + 1] /\ pos'[u] = pos[u] + 1 /\ pos[u] + 1 \in 1..MaxMoves
    BY <1>0, <1>1, <1>3 DEF T!onPosition
  <2>2. q \in MapPages
    BY <1>0, <2>1 DEF MapPages
  <2>3. q.order = page[u].order /\ q.map = page[u].map /\ q.mounts = page[u].mounts /\ q.active = page[u].active
    BY <1>0 DEF MapPages
  <2>4. page' = [page EXCEPT ![u] = q] /\ maps' = [maps EXCEPT ![u] = maps[u]]
    BY <1>1, <1>3, <2>1 DEF T!onPosition
  <2>5. relaying' \subseteq [from : T!Everyone, at : 1..MaxMoves] /\ UNCHANGED <<order, inbox, script>>
    BY <1>1, <1>3, <2>1 DEF T!onPosition
  <2>6. pos' \in [T!Everyone -> 0..MaxMoves]
    BY <1>0, <1>1, <2>1
  <2> HIDE DEF q
  <2>7. MapOK(q, maps[u])
    BY <1>0, <2>3 DEF MapOK
  <2> QED BY <1>0, <1>1, <2>2, <2>4, <2>5, <2>6, <2>7, MapPageKeeps
<1>4. CASE T!loadYandexMaps(u) \/ T!scriptLoaded(u)
  <2>1. script' \in [T!Everyone -> Scripts]
    BY <1>1, <1>4 DEF T!loadYandexMaps, T!scriptLoaded, Scripts
  <2>2. /\ UNCHANGED <<order, inbox, pos, relaying>>
        /\ page' = [page EXCEPT ![u] = page[u]] /\ maps' = [maps EXCEPT ![u] = maps[u]]
    BY <1>1, <1>4 DEF T!loadYandexMaps, T!scriptLoaded
  <2> QED BY <1>0, <1>1, <2>1, <2>2, MapPageKeeps
<1>5. CASE T!drawMap(u)
  <2> DEFINE q == [page[u] EXCEPT !.map = "drawn"]
  <2>1. /\ page' = [page EXCEPT ![u] = q] /\ maps' = [maps EXCEPT ![u] = maps[u] + 1]
        /\ page[u].active /\ page[u].map = "none" /\ UNCHANGED <<order, inbox, pos, relaying, script>>
    BY <1>5 DEF T!drawMap, T!wantsMap
  <2>2. q \in MapPages
    BY <1>0 DEF MapPages
  <2>3. q.order = page[u].order /\ q.map = "drawn" /\ q.mounts = page[u].mounts /\ q.active = page[u].active
    BY <1>0 DEF MapPages
  <2> HIDE DEF q
  <2>4. maps[u] + 1 \in Nat /\ MapOK(q, maps[u] + 1)
    BY <1>0, <2>1, <2>3 DEF MapOK
  <2> QED BY <1>1, <2>1, <2>2, <2>4, MapPageKeeps
<1> QED BY <1>2, <1>3, <1>4, <1>5 DEF T!Draw

\* A position that arrives is shown; the map stays.
LEMMA LocationKeeps ==
  ASSUME T!TrackingAssumption, TrackingOK, NEW u \in T!Everyone, T!onLocationUpdated(u)
  PROVE  TrackingOK'
<1> DEFINE e == Head(inbox[u])
           q == IF page[u].order = None THEN page[u] ELSE [page[u] EXCEPT !.other = e]
<1>0. /\ page[u] \in MapPages /\ inbox[u] \in Seq(T!Event) /\ inbox[u] # <<>> /\ MapOK(page[u], maps[u])
      /\ UNCHANGED <<order, pos, relaying, maps, script>>
      /\ inbox' = [inbox EXCEPT ![u] = Tail(inbox[u])] /\ inbox \in [T!Everyone -> Seq(T!Event)]
      /\ page \in [T!Everyone -> MapPages] /\ maps \in [T!Everyone -> Nat]
  BY TrackingShape DEF T!onLocationUpdated
<1>1. e \in T!Event /\ Tail(inbox[u]) \in Seq(T!Event)
  BY <1>0
<1>2. page' = [page EXCEPT ![u] = q] /\ maps' = [maps EXCEPT ![u] = maps[u]]
  BY <1>0 DEF T!onLocationUpdated
<1> HIDE DEF e
<1>3. inbox' \in [T!Everyone -> Seq(T!Event)]
  BY <1>0, <1>1
<1>4. q \in MapPages
  BY <1>0, <1>1 DEF MapPages, Positions
<1>5. q.order = page[u].order /\ q.map = page[u].map /\ q.mounts = page[u].mounts /\ q.active = page[u].active
  BY <1>0 DEF MapPages
<1>6. MapOK(q, maps[u])
  BY <1>0, <1>5 DEF MapOK
<1> HIDE DEF q
<1> QED BY <1>0, <1>2, <1>3, <1>4, <1>6, TrackingShape, MapPageKeeps

\* The gateway only emits.
LEMMA RelayKeeps ==
  ASSUME T!TrackingAssumption, TrackingOK, NEW r \in relaying, T!handleLocationUpdate(r)
  PROVE  TrackingOK'
<1>0. /\ r \in [from : T!Everyone, at : 1..MaxMoves] /\ relaying' \subseteq [from : T!Everyone, at : 1..MaxMoves]
      /\ UNCHANGED <<order, pos, page, maps, script>>
  BY TrackingShape DEF T!handleLocationUpdate
<1>1. inbox' \in [T!Everyone -> Seq(T!Event)]
  <2>1. CASE inbox' = inbox
    BY <2>1, TrackingShape
  <2>2. CASE inbox' # inbox
    <3>1. PICK o \in Orders : inbox' = [inbox EXCEPT ![T!counterpart(o, r.from)] =
                                           Append(@, [order |-> o, from |-> r.from, at |-> r.at])]
      BY <2>2 DEF T!handleLocationUpdate
    <3>2. [order |-> o, from |-> r.from, at |-> r.at] \in T!Event
      BY <1>0 DEF T!Event
    <3>3. T!counterpart(o, r.from) \in T!Everyone
      BY TrackingShape DEF T!counterpart, TrackedOrders, T!Everyone
    <3> QED BY <3>1, <3>2, <3>3, TrackingShape
  <2> QED BY <2>1, <2>2
<1> QED BY <1>0, <1>1, TrackingShape, TrackingReached

\* Nobody has moved and nothing is open.
LEMMA TrackingStarts ==
  ASSUME T!TrackingAssumption, T!Init
  PROVE  TrackingOK
<1>1. order \in [Orders -> TrackedOrders]
  BY DEF T!Init, TrackedOrders, T!Phases
<1>2. T!Closed(0) \in MapPages
  BY NoPosition DEF T!Closed, MapPages, T!TrackingAssumption
<1>3. page \in [T!Everyone -> MapPages] /\ \A u \in T!Everyone : page[u] = T!Closed(0) /\ maps[u] = 0 /\ inbox[u] = <<>>
  BY <1>2 DEF T!Init
<1>4. T!TypeOK
  <2>1. /\ pos \in [T!Everyone -> 0..MaxMoves] /\ relaying = {} /\ maps \in [T!Everyone -> Nat]
        /\ script \in [T!Everyone -> {"none", "loading", "ready", "failed"}]
    BY DEF T!Init, T!TrackingAssumption
  <2>2. \A u \in T!Everyone : page[u].map = "none" /\ Len(inbox[u]) = 0
    BY <1>3 DEF T!Closed
  <2> QED BY <1>1, <1>3, <2>1, <2>2 DEF T!TypeOK, TrackedOrders, MapPages, Positions, T!Shown, T!MapRefs
<1>5. inbox \in [T!Everyone -> Seq(T!Event)]
  BY DEF T!Init
<1>6. T!TrackingInv
  BY <1>3, <1>5 DEF T!TrackingInv, T!PageOK, T!Closed, T!MapInItsBox, T!OneMapPerMount
<1> QED BY <1>4, <1>6 DEF TrackingOK

\* Every step of the map keeps the invariant.
LEMMA TrackingKeeps ==
  ASSUME T!TrackingAssumption, TrackingOK, T!Next
  PROVE  TrackingOK'
BY ProceedKeeps, MountKeeps, RerenderKeeps, MapPagesKeep, LocationKeeps, RelayKeeps DEF T!Next

\* A step elsewhere does not touch it.
LEMMA TrackingRests ==
  ASSUME TrackingOK, UNCHANGED mapVars
  PROVE  TrackingOK'
BY DEF TrackingOK, mapVars, T!TypeOK, T!TrackingInv, T!PageOK, T!MapInItsBox, T!OneMapPerMount

\* What the run checks follows.
LEMMA TrackingFollows ==
  ASSUME TrackingOK
  PROVE  MapFollowsJobs
BY DEF TrackingOK, T!TrackingInv, MapFollowsJobs

-----------------------------------------------------------------------------
(* The order wizard.                                                       *)

WizardOK == W!TypeOK /\ W!WizardInv

\* An order has the quote of its details and tier, from the diagnosis on, and
\* was submitted with that quote.
Priced(r) ==
  /\ r.quote = IF r.status = "DRAFT" THEN None ELSE [details |-> r.details, tier |-> r.tier]
  /\ r.status = "SEARCHING" => r.agreed = r.quote

\* A save under way is that of a step.
OfStep(s) ==
  \/ s.kind = "describe" /\ store.step = 1 /\ s.at \in {"save", "address", "upload"} /\ s.details \in Details
  \/ s.kind = "schedule" /\ store.step = 2 /\ s.at \in {"save", "diagnose", "diagnosed"}
     /\ s.id = store.order /\ s.tier \in Tiers
  \/ s.kind = "submit" /\ store.step = 3 /\ s.at \in {"submit", "submitted"} /\ s.id = store.order

\* What a save has achieved is on record.
OnRecord(s) ==
  /\ s.at \in {"address", "upload"} => s.id # 0
  /\ s.at = "upload" => orders[s.id].addressed
  /\ s.at = "diagnosed" => orders[s.id].status = "PRICED"
  /\ s.at = "submit" => s.quote = orders[s.id].quote

\* The invariant, flat.
LEMMA WizardShape ==
  ASSUME W!WizardAssumption, WizardOK
  PROVE  /\ MaxOrders \in Nat /\ MaxMedia \in Nat /\ MaxLost \in Nat /\ MaxReloads \in Nat
         /\ DefaultTier \in Tiers /\ None \notin Details /\ None \notin W!Quotes
         /\ orders \in Seq(W!Saved) /\ Len(orders) \in Nat /\ Len(orders) <= MaxOrders
         /\ \A i \in 1..Len(orders) : orders[i] \in W!Saved /\ Priced(orders[i])
         /\ store \in [order : 0..Len(orders), step : 1..3] /\ store.order \in 0..Len(orders) /\ store.step \in 1..3
         /\ local \in W!Fields /\ cache \in [1..MaxOrders -> W!Saved \cup {None}]
         /\ call \in [Calls -> W!Saves] /\ fetch \in [id : 0..Len(orders), val : W!Saved \cup {None}]
         /\ opened \in BOOLEAN /\ lost \in 0..MaxLost /\ reloads \in 0..MaxReloads
         /\ W!FetchOK /\ W!StepOK
         /\ \A c \in Calls : W!SaveOK(c)
<1>1. /\ MaxOrders \in Nat /\ MaxMedia \in Nat /\ MaxLost \in Nat /\ MaxReloads \in Nat
      /\ DefaultTier \in Tiers /\ None \notin Details /\ None \notin W!Quotes
  BY DEF W!WizardAssumption
<1>2. /\ orders \in Seq(W!Saved) /\ store \in [order : 0..Len(orders), step : 1..3]
      /\ local \in W!Fields /\ cache \in [1..MaxOrders -> W!Saved \cup {None}]
      /\ call \in [Calls -> W!Saves] /\ fetch \in [id : 0..Len(orders), val : W!Saved \cup {None}]
  BY DEF WizardOK, W!WizardInv, W!ShapeOK, W!Ids
<1>3. /\ Len(orders) <= MaxOrders /\ store.order \in 0..Len(orders) /\ store.step \in 1..3
      /\ opened \in BOOLEAN /\ lost \in 0..MaxLost /\ reloads \in 0..MaxReloads
  BY DEF WizardOK, W!TypeOK
<1>4. Len(orders) \in Nat /\ \A i \in 1..Len(orders) : orders[i] \in W!Saved
  BY <1>2
<1>5. \A i \in 1..Len(orders) : Priced(orders[i])
  BY DEF WizardOK, W!TypeOK, W!WizardInv, Priced, W!AgreedIsQuoted
<1>6. W!FetchOK /\ W!StepOK /\ \A c \in Calls : W!SaveOK(c)
  BY DEF WizardOK, W!WizardInv
<1> QED BY <1>1, <1>2, <1>3, <1>4, <1>5, <1>6

\* It is enough to say the same of the next state.
LEMMA WizardReached ==
  ASSUME W!WizardAssumption,
         orders' \in Seq(W!Saved), Len(orders') <= MaxOrders,
         \A i \in 1..Len(orders') : Priced(orders'[i]),
         store' \in [order : 0..Len(orders'), step : 1..3],
         local' \in W!Fields, cache' \in [1..MaxOrders -> W!Saved \cup {None}],
         call' \in [Calls -> W!Saves], fetch' \in [id : 0..Len(orders'), val : W!Saved \cup {None}],
         opened' \in BOOLEAN, lost' \in 0..MaxLost, reloads' \in 0..MaxReloads,
         W!FetchOK', W!StepOK', \A c \in Calls : W!SaveOK(c)'
  PROVE  WizardOK'
<1>1. W!AgreedIsQuoted'
  BY DEF W!AgreedIsQuoted, Priced
<1>2. W!TypeOK'
  <2>1. \A i \in 1..Len(orders') : orders'[i] \in W!Saved
    OBVIOUS
  <2>2. local'.details \in Details \cup {None} /\ local'.tier \in Tiers
        /\ local'.staged \in 0..MaxMedia /\ local'.saving \in Calls \cup {None}
    BY DEF W!Fields
  <2>3. store'.order \in 0..Len(orders') /\ store'.step \in 1..3
    OBVIOUS
  <2> QED BY <2>1, <2>2, <2>3 DEF W!TypeOK, Priced, W!Saved
<1>3. W!WizardInv'
  BY <1>1 DEF W!WizardInv, W!ShapeOK, W!Ids
<1> QED BY <1>2, <1>3 DEF WizardOK

\* A step that comes on screen starts from the order, with nothing removed.
LEMMA WizardLocal ==
  ASSUME W!WizardAssumption, NEW v \in W!Saved \cup {None}
  PROVE  W!Local(v) \in W!Fields /\ W!Local(v).removed = 0
BY DEF W!WizardAssumption, W!Local, W!Fields, W!Saved

\* No save, no fetch.
LEMMA WizardNothing ==
  ASSUME W!WizardAssumption
  PROVE  /\ W!NoCall \in W!Saves /\ W!NoCall.at = "idle" /\ W!NoCall.id = 0
         /\ W!NoFetch.id = 0 /\ W!NoFetch.val = None
         /\ \A n \in Nat : W!NoFetch \in [id : 0..n, val : W!Saved \cup {None}]
BY DEF W!WizardAssumption, W!NoCall, W!NoFetch, W!Saves

\* At rest no save and no fetch is under way.
LEMMA WizardAtRest ==
  ASSUME W!WizardAssumption, WizardOK, W!Acting
  PROVE  /\ opened /\ fetch = W!NoFetch /\ \A c \in Calls : call[c] = W!NoCall /\ call[c].at = "idle"
         /\ store.order # 0 => W!order # None
BY WizardNothing DEF W!Acting, W!Quiet, W!WizardAssumption

\* The fields of a step change as the customer likes.
LEMMA FieldsKeep ==
  ASSUME W!WizardAssumption, WizardOK,
         UNCHANGED <<orders, store, opened, cache, fetch, call, lost, reloads>>,
         local' \in W!Fields, local'.removed = local.removed
  PROVE  WizardOK'
<1>1. W!FetchOK' /\ W!StepOK' /\ \A c \in Calls : W!SaveOK(c)'
  BY WizardShape DEF W!FetchOK, W!StepOK, W!SaveOK, W!order
<1> QED BY <1>1, WizardShape, WizardReached

\* A save that goes on, or ends, keeps the invariant if what it writes to its
\* order does.
LEMMA SaveMoves ==
  ASSUME W!WizardAssumption, WizardOK, NEW c \in Calls, call[c].at # "idle",
         UNCHANGED <<store, opened, cache, fetch, reloads>>, lost' \in 0..MaxLost,
         local' \in W!Fields, local'.removed = local.removed,
         NEW s \in W!Saves, call' = [call EXCEPT ![c] = s],
         orders' \in Seq(W!Saved), Len(orders) <= Len(orders'), Len(orders') <= MaxOrders,
         \A i \in 1..Len(orders') : Priced(orders'[i]),
         \A i \in 1..Len(orders) : orders[i].addressed => orders'[i].addressed,
         store.step = 3 => /\ orders'[store.order].status # "DRAFT"
                           /\ orders'[store.order].quote = orders[store.order].quote,
         \/ s = W!NoCall
         \/ s.id \in 0..Len(orders') /\ OfStep(s) /\ OnRecord(s)'
  PROVE  WizardOK'
<1>0. /\ opened /\ fetch = W!NoFetch /\ (store.order # 0 => W!order # None)
      /\ \A d \in Calls \ {c} : call[d].at = "idle" /\ call[d] = W!NoCall
  BY WizardShape DEF W!SaveOK
<1>1. /\ call' \in [Calls -> W!Saves] /\ call'[c] = s /\ \A d \in Calls \ {c} : call'[d] = call[d]
      /\ Len(orders) \in Nat /\ Len(orders') \in Nat
  BY WizardShape
<1>2. W!FetchOK'
  BY <1>0 DEF W!FetchOK
<1>3. W!StepOK'
  BY <1>0, <1>1, WizardShape, WizardNothing DEF W!StepOK, W!order
<1>4. W!SaveOK(c)'
  <2>1. CASE s = W!NoCall
    BY <1>1, <2>1, WizardNothing DEF W!SaveOK
  <2>2. CASE s.id \in 0..Len(orders') /\ OfStep(s) /\ OnRecord(s)'
    BY <1>0, <1>1, <2>2 DEF W!SaveOK, W!order, OfStep, OnRecord
  <2> QED BY <2>1, <2>2
<1>5. ASSUME NEW d \in Calls \ {c} PROVE W!SaveOK(d)'
  BY <1>0, <1>1 DEF W!SaveOK
<1>6. store' \in [order : 0..Len(orders'), step : 1..3]
      /\ fetch' \in [id : 0..Len(orders'), val : W!Saved \cup {None}]
  BY <1>0, <1>1, WizardShape, WizardNothing
<1> QED BY <1>1, <1>2, <1>3, <1>4, <1>5, <1>6, WizardShape, WizardReached

\* A save starts on a page at rest.
LEMMA StartKeeps ==
  ASSUME W!WizardAssumption, WizardOK, NEW c \in Calls, W!Acting, NEW s \in W!Saves, W!Start(c, s),
         s.id \in 0..Len(orders), OfStep(s), OnRecord(s)
  PROVE  WizardOK'
<1>0. /\ opened /\ fetch = W!NoFetch /\ (store.order # 0 => W!order # None)
      /\ \A d \in Calls : call[d].at = "idle" /\ call[d] = W!NoCall
  BY WizardAtRest
<1>1. /\ call' = [call EXCEPT ![c] = s] /\ UNCHANGED <<orders, store, opened, cache, fetch, lost, reloads>>
      /\ local' = [local EXCEPT !.saving = c]
  BY DEF W!Start
<1>2. /\ call' \in [Calls -> W!Saves] /\ call'[c] = s /\ \A d \in Calls \ {c} : call'[d] = call[d]
      /\ local' \in W!Fields /\ local'.removed = local.removed
  BY <1>1, WizardShape DEF W!Fields
<1>3. W!FetchOK' /\ W!StepOK'
  BY <1>0, <1>1, <1>2, WizardShape DEF W!FetchOK, W!StepOK, W!order
<1>4. W!SaveOK(c)'
  BY <1>0, <1>1, <1>2 DEF W!SaveOK, W!order, OfStep, OnRecord
<1>5. ASSUME NEW d \in Calls \ {c} PROVE W!SaveOK(d)'
  BY <1>0, <1>2, WizardNothing DEF W!SaveOK
<1> QED BY <1>1, <1>2, <1>3, <1>4, <1>5, WizardShape, WizardReached

\* The customer types, picks and removes files, chooses and consents.
LEMMA FormFieldsKeep ==
  ASSUME W!WizardAssumption, WizardOK,
         \/ W!pickFile \/ W!removeStaged \/ W!setConsent
         \/ \E d \in Details : W!describe(d)
         \/ \E t \in Tiers : W!setTier(t)
  PROVE  WizardOK'
<1>0. /\ local \in W!Fields /\ local.staged \in 0..MaxMedia /\ MaxMedia \in Nat /\ local.removed \in Nat
      /\ local.consent \in BOOLEAN
  BY WizardShape DEF W!Fields
<1>1. CASE W!pickFile
  <2>1. local.staged < MaxMedia
    <3>1. opened /\ W!totalMediaCount < MaxMedia
      BY <1>1, WizardAtRest DEF W!pickFile
    <3>2. CASE W!order = None
      BY <1>0, <3>1, <3>2 DEF W!totalMediaCount
    <3>3. CASE W!order # None
      <4>1. local.removed <= W!order.media
        BY <3>1, <3>3, WizardShape DEF W!StepOK
      <4>2. W!order \in W!Saved
        BY <3>3, WizardShape DEF W!order
      <4>3. W!order.media \in Nat
        BY <1>0, <4>2 DEF W!Saved
      <4> QED BY <1>0, <3>1, <3>3, <4>1, <4>3 DEF W!totalMediaCount
    <3> QED BY <3>2, <3>3
  <2>2. local' = [local EXCEPT !.staged = @ + 1] /\ UNCHANGED <<orders, store, opened, cache, fetch, call, lost, reloads>>
    BY <1>1 DEF W!pickFile, W!Set
  <2>3. local' \in W!Fields /\ local'.removed = local.removed
    BY <1>0, <2>1, <2>2 DEF W!Fields
  <2> QED BY <2>2, <2>3, FieldsKeep
<1>2. CASE W!removeStaged
  <2>1. local' = [local EXCEPT !.staged = @ - 1] /\ UNCHANGED <<orders, store, opened, cache, fetch, call, lost, reloads>>
        /\ local.staged > 0
    BY <1>2 DEF W!removeStaged, W!Set
  <2>2. local' \in W!Fields /\ local'.removed = local.removed
    BY <1>0, <2>1 DEF W!Fields
  <2> QED BY <2>1, <2>2, FieldsKeep
<1>3. CASE W!setConsent
  <2>1. local' = [local EXCEPT !.consent = ~@] /\ UNCHANGED <<orders, store, opened, cache, fetch, call, lost, reloads>>
    BY <1>3 DEF W!setConsent, W!Set
  <2>2. local' \in W!Fields /\ local'.removed = local.removed
    BY <1>0, <2>1 DEF W!Fields
  <2> QED BY <2>1, <2>2, FieldsKeep
<1>4. ASSUME NEW d \in Details, W!describe(d) PROVE WizardOK'
  <2>1. local' = [local EXCEPT !.details = d] /\ UNCHANGED <<orders, store, opened, cache, fetch, call, lost, reloads>>
    BY <1>4 DEF W!describe, W!Set
  <2>2. local' \in W!Fields /\ local'.removed = local.removed
    BY <1>0, <2>1 DEF W!Fields
  <2> QED BY <2>1, <2>2, FieldsKeep
<1>5. ASSUME NEW t \in Tiers, W!setTier(t) PROVE WizardOK'
  <2>1. local' = [local EXCEPT !.tier = t, !.touched = TRUE]
        /\ UNCHANGED <<orders, store, opened, cache, fetch, call, lost, reloads>>
    BY <1>5 DEF W!setTier, W!Set
  <2>2. local' \in W!Fields /\ local'.removed = local.removed
    BY <1>0, <2>1 DEF W!Fields
  <2> QED BY <2>1, <2>2, FieldsKeep
<1> QED BY <1>1, <1>2, <1>3, <1>4, <1>5

\* An order that is written to stays in its place among the others.
LEMMA OrderEdited ==
  ASSUME orders \in Seq(W!Saved), NEW i \in 1..Len(orders), NEW r \in W!Saved, orders' = [orders EXCEPT ![i] = r]
  PROVE  /\ orders' \in Seq(W!Saved) /\ Len(orders') = Len(orders) /\ orders'[i] = r
         /\ \A j \in 1..Len(orders) : j # i => orders'[j] = orders[j]
OBVIOUS

\* One file less, here and on the server; nothing else is under way.
LEMMA RemoveKeeps ==
  ASSUME W!WizardAssumption, WizardOK, W!removeExisting
  PROVE  WizardOK'
<1> DEFINE i == store.order
           r == [orders[i] EXCEPT !.media = @ - 1]
<1>0. /\ opened /\ fetch = W!NoFetch /\ \A c \in Calls : call[c] = W!NoCall /\ call[c].at = "idle"
      /\ store.step = 1 /\ W!order # None /\ W!order.media > local.removed /\ orders[i].media > 0
      /\ orders' = [orders EXCEPT ![i].media = @ - 1] /\ local' = [local EXCEPT !.removed = @ + 1]
      /\ UNCHANGED <<store, opened, cache, fetch, call, lost, reloads>>
  BY WizardAtRest DEF W!removeExisting
<1>1. i \in 1..Len(orders) /\ W!order = cache[i] /\ W!order \in W!Saved
  BY <1>0, WizardShape DEF W!order
<1>2. /\ r \in W!Saved /\ Priced(r) /\ r.addressed = orders[i].addressed /\ orders' = [orders EXCEPT ![i] = r]
  <2>1. orders[i] \in W!Saved /\ Priced(orders[i]) /\ orders[i].media \in 0..MaxMedia /\ MaxMedia \in Nat
    BY <1>1, WizardShape DEF W!Saved
  <2>2. orders[i].media - 1 \in 0..MaxMedia
    BY <1>0, <2>1
  <2>3. r \in W!Saved
    BY <2>1, <2>2 DEF W!Saved
  <2>4. /\ r.status = orders[i].status /\ r.quote = orders[i].quote /\ r.agreed = orders[i].agreed
        /\ r.details = orders[i].details /\ r.tier = orders[i].tier /\ r.addressed = orders[i].addressed
    BY <2>1 DEF W!Saved
  <2> QED BY <1>0, <2>1, <2>3, <2>4 DEF Priced
<1> HIDE DEF r
<1>3. /\ orders' \in Seq(W!Saved) /\ Len(orders') = Len(orders)
      /\ orders'[i] = r /\ \A j \in 1..Len(orders) : j # i => orders'[j] = orders[j]
  BY <1>1, <1>2, WizardShape, OrderEdited
<1>4. local' \in W!Fields /\ local'.removed = local.removed + 1 /\ local.removed \in Nat /\ W!order.media \in Nat
  <2>1. local.removed \in Nat /\ local \in W!Fields /\ MaxMedia \in Nat
    BY WizardShape DEF W!Fields
  <2>2. local' \in W!Fields /\ local'.removed = local.removed + 1
    BY <1>0, <2>1 DEF W!Fields
  <2>3. W!order.media \in Nat
    BY <1>1, <2>1 DEF W!Saved
  <2> QED BY <2>1, <2>2, <2>3
<1>5. W!FetchOK'
  BY <1>0 DEF W!FetchOK
<1>6. W!StepOK'
  <2>1. W!order' = W!order
    BY <1>0 DEF W!order
  <2> QED BY <1>0, <1>4, <2>1 DEF W!StepOK
<1>7. \A c \in Calls : W!SaveOK(c)'
  BY <1>0 DEF W!SaveOK, W!NoCall
<1>8. \A j \in 1..Len(orders') : Priced(orders'[j])
  BY <1>1, <1>2, <1>3, WizardShape
<1> QED BY <1>0, <1>3, <1>4, <1>5, <1>6, <1>7, <1>8, WizardShape, WizardReached

\* The buttons of the three steps.
LEMMA ButtonsKeep ==
  ASSUME W!WizardAssumption, WizardOK, NEW c \in Calls,
         W!handleNextDescription(c) \/ W!handleNextSchedule(c) \/ W!handleSubmit(c)
  PROVE  WizardOK'
<1>0. /\ local \in W!Fields /\ local.staged \in 0..MaxMedia /\ local.details \in Details \cup {None}
      /\ local.tier \in Tiers /\ store.order \in 0..Len(orders) /\ Len(orders) \in Nat /\ Len(orders) <= MaxOrders
      /\ MaxOrders \in Nat /\ W!NoCall \in W!Saves
  BY WizardShape, WizardNothing DEF W!Fields
<1>1. CASE W!handleNextDescription(c)
  <2> DEFINE s == [W!NoCall EXCEPT !.kind = "describe", !.at = "save", !.details = local.details,
                     !.id = IF W!order = None THEN 0 ELSE store.order, !.staged = local.staged]
  <2>1. W!Acting /\ store.step = 1 /\ local.details # None /\ W!Start(c, s)
    BY <1>1 DEF W!handleNextDescription
  <2>2. s \in W!Saves
    <3>1. (IF W!order = None THEN 0 ELSE store.order) \in 0..MaxOrders
      BY <1>0
    <3> QED BY <1>0, <3>1 DEF W!Saves
  <2>3. s.kind = "describe" /\ s.at = "save" /\ s.details = local.details /\ s.id \in 0..Len(orders)
    BY <1>0 DEF W!NoCall
  <2> HIDE DEF s
  <2>4. OfStep(s) /\ OnRecord(s)
    BY <1>0, <2>1, <2>3 DEF OfStep, OnRecord
  <2> QED BY <2>1, <2>2, <2>3, <2>4, StartKeeps
<1>2. CASE W!handleNextSchedule(c)
  <2> DEFINE s == [W!NoCall EXCEPT !.kind = "schedule", !.at = "save", !.id = store.order, !.tier = local.tier]
  <2>1. W!Acting /\ store.step = 2 /\ W!Start(c, s)
    BY <1>2 DEF W!handleNextSchedule
  <2>2. s \in W!Saves
    <3>1. store.order \in 0..MaxOrders
      BY <1>0
    <3> QED BY <1>0, <3>1 DEF W!Saves
  <2>3. s.kind = "schedule" /\ s.at = "save" /\ s.id = store.order /\ s.tier = local.tier
    BY <1>0 DEF W!NoCall
  <2> HIDE DEF s
  <2>4. OfStep(s) /\ OnRecord(s)
    BY <1>0, <2>1, <2>3 DEF OfStep, OnRecord
  <2> QED BY <1>0, <2>1, <2>2, <2>3, <2>4, StartKeeps
<1>3. CASE W!handleSubmit(c)
  <2> DEFINE s == [W!NoCall EXCEPT !.kind = "submit", !.at = "submit", !.id = store.order, !.quote = W!order.quote]
  <2>1. W!Acting /\ store.step = 3 /\ W!quoteShown /\ W!Start(c, s)
    BY <1>3 DEF W!handleSubmit
  <2>2. /\ W!order = cache[store.order] /\ store.order \in 1..Len(orders) /\ W!order \in W!Saved
        /\ W!order.quote = orders[store.order].quote /\ W!order.quote \in W!Quotes \cup {None}
    <3>1. store.order # 0 /\ W!order = cache[store.order] /\ W!order # None /\ fetch = W!NoFetch
      BY <2>1, WizardAtRest DEF W!quoteShown, W!order
    <3>2. W!order \in W!Saved
      BY <1>0, <3>1, WizardShape
    <3>3. W!order.quote = orders[store.order].quote
      BY <2>1, <3>1, WizardShape DEF W!StepOK
    <3> QED BY <1>0, <3>1, <3>2, <3>3 DEF W!Saved
  <2>3. s \in W!Saves
    <3>1. store.order \in 0..MaxOrders
      BY <1>0
    <3> QED BY <1>0, <2>2, <3>1 DEF W!Saves
  <2>4. s.kind = "submit" /\ s.at = "submit" /\ s.id = store.order /\ s.quote = W!order.quote
    BY <1>0 DEF W!NoCall
  <2> HIDE DEF s
  <2>5. OfStep(s) /\ OnRecord(s)
    BY <1>0, <2>1, <2>2, <2>4 DEF OfStep, OnRecord
  <2> QED BY <1>0, <2>1, <2>3, <2>4, <2>5, StartKeeps
<1> QED BY <1>1, <1>2, <1>3

\* What the save under way is, for the lemmas on its steps.
LEMMA SaveShape ==
  ASSUME W!WizardAssumption, WizardOK, NEW c \in Calls, call[c].at # "idle"
  PROVE  /\ call[c] \in W!Saves /\ call[c].id \in 0..Len(orders) /\ OfStep(call[c]) /\ OnRecord(call[c])
         /\ fetch = W!NoFetch /\ opened /\ \A d \in Calls \ {c} : call[d].at = "idle" /\ call[d] = W!NoCall
         /\ store.step > 1 => store.order # 0
         /\ call[c].at # "save" \/ call[c].kind # "describe" => call[c].id \in 1..Len(orders)
         /\ store.step = 3 => orders[store.order].status # "DRAFT"
<1>1. W!SaveOK(c) /\ W!StepOK /\ \A d \in Calls : W!SaveOK(d)
  BY WizardShape
<1>2. OfStep(call[c]) /\ OnRecord(call[c])
  BY <1>1 DEF W!SaveOK, OfStep, OnRecord
<1>3. call[c].id \in 0..Len(orders) /\ store.step > 1 => store.order # 0
  BY <1>1 DEF W!SaveOK, W!StepOK
<1>4. call[c].at # "save" \/ call[c].kind # "describe" => call[c].id # 0
  BY <1>1, <1>2, WizardShape DEF OfStep, OnRecord, W!StepOK
<1> QED BY <1>1, <1>2, <1>4, WizardShape DEF W!SaveOK, W!StepOK

\* A save that fails shows its error and leaves the order as it is.
LEMMA SaveFails ==
  ASSUME W!WizardAssumption, WizardOK, NEW c \in Calls, call[c].at # "idle", W!Fail(c),
         UNCHANGED <<orders, store, opened, cache, fetch, reloads>>, lost' \in 0..MaxLost
  PROVE  WizardOK'
<1>1. call' = [call EXCEPT ![c] = W!NoCall] /\ local' = W!Ended(c)
  BY DEF W!Fail
<1>2. local' \in W!Fields /\ local'.removed = local.removed
  BY <1>1, WizardShape DEF W!Ended, W!Fields
<1>3. \A i \in 1..Len(orders) : Priced(orders'[i])
  BY WizardShape
<1>4. store.step = 3 => orders'[store.order].status # "DRAFT" /\ orders'[store.order].quote = orders[store.order].quote
  BY WizardShape DEF W!StepOK
<1>5. /\ orders' \in Seq(W!Saved) /\ Len(orders) <= Len(orders') /\ Len(orders') <= MaxOrders
      /\ orders' = orders /\ W!NoCall \in W!Saves
  BY WizardShape, WizardNothing
<1> QED BY <1>1, <1>2, <1>3, <1>4, <1>5, SaveMoves

\* A save that writes to its order keeps the others, and the quote of an
\* order that is agreed on.
LEMMA SaveWrites ==
  ASSUME W!WizardAssumption, WizardOK, NEW c \in Calls, call[c].at # "idle",
         UNCHANGED <<local, store, opened, cache, fetch, lost, reloads>>,
         NEW i \in 1..Len(orders), i = call[c].id, NEW r \in W!Saved, orders' = [orders EXCEPT ![i] = r],
         Priced(r), orders[i].addressed => r.addressed,
         store.step = 3 => r.quote = orders[i].quote /\ r.status # "DRAFT",
         NEW s \in W!Saves, call' = [call EXCEPT ![c] = s], s.id = i, OfStep(s),
         s.at = "upload" => r.addressed, s.at = "diagnosed" => r.status = "PRICED", s.at # "submit"
  PROVE  WizardOK'
<1>1. /\ orders' \in Seq(W!Saved) /\ Len(orders') = Len(orders) /\ orders'[i] = r
      /\ \A j \in 1..Len(orders) : j # i => orders'[j] = orders[j]
  BY WizardShape, OrderEdited
<1>2. \A j \in 1..Len(orders') : Priced(orders'[j])
  BY <1>1, WizardShape
<1>3. \A j \in 1..Len(orders) : orders[j].addressed => orders'[j].addressed
  BY <1>1
<1>4. store.step = 3 => /\ orders'[store.order].status # "DRAFT"
                        /\ orders'[store.order].quote = orders[store.order].quote
  BY <1>1, SaveShape DEF OfStep
<1>5. s.id \in 0..Len(orders') /\ OnRecord(s)'
  BY <1>1, WizardShape DEF OnRecord
<1>6. /\ Len(orders) <= Len(orders') /\ Len(orders') <= MaxOrders /\ lost' \in 0..MaxLost
      /\ local' \in W!Fields /\ local'.removed = local.removed
  BY <1>1, WizardShape
<1> QED BY <1>1, <1>2, <1>3, <1>4, <1>5, <1>6, SaveMoves

\* The draft of a description has an id of its own, and its price to come.
LEMMA CreateKeeps ==
  ASSUME W!WizardAssumption, WizardOK, NEW c \in Calls, W!createDraft(c)
  PROVE  WizardOK'
<1> DEFINE r == W!Draft(call[c].details)
<1>0. /\ call[c].at = "save" /\ call[c].id = 0 /\ Len(orders) < MaxOrders /\ orders' = Append(orders, r)
      /\ call' = [call EXCEPT ![c].id = Len(orders) + 1, ![c].at = "address"]
      /\ UNCHANGED <<store, opened, cache, fetch, lost, reloads>>
      /\ local' = IF local.saving = c THEN [local EXCEPT !.made = Len(orders) + 1] ELSE local
  BY DEF W!createDraft
<1>1. /\ call[c] \in W!Saves /\ OfStep(call[c]) /\ call[c].kind = "describe" /\ store.step = 1
      /\ call[c].details \in Details /\ Len(orders) \in Nat /\ MaxOrders \in Nat /\ call \in [Calls -> W!Saves]
  BY <1>0, SaveShape, WizardShape DEF OfStep
<1>2. r \in W!Saved /\ Priced(r)
  BY <1>1, WizardShape DEF W!Draft, W!Saved, Priced
<1>3. PICK s \in W!Saves : /\ s.kind = "describe" /\ s.at = "address" /\ s.id = Len(orders) + 1
                           /\ s.details = call[c].details /\ call' = [call EXCEPT ![c] = s]
  <2> DEFINE t == [call[c] EXCEPT !.id = Len(orders) + 1, !.at = "address"]
  <2>1. Len(orders) + 1 \in 0..MaxOrders
    BY <1>0, <1>1
  <2>2. t \in W!Saves
    BY <1>1, <2>1 DEF W!Saves
  <2>3. t.kind = call[c].kind /\ t.at = "address" /\ t.id = Len(orders) + 1 /\ t.details = call[c].details
    BY <1>1 DEF W!Saves
  <2>4. call' = [call EXCEPT ![c] = t]
    BY <1>0, <1>1
  <2> HIDE DEF t
  <2> QED BY <1>1, <2>2, <2>3, <2>4
<1>5. local' \in W!Fields /\ local'.removed = local.removed
  <2>1. [local EXCEPT !.made = Len(orders) + 1] \in W!Fields
        /\ [local EXCEPT !.made = Len(orders) + 1].removed = local.removed
    <3>1. local \in W!Fields /\ Len(orders) + 1 \in Nat
      BY <1>1, WizardShape
    <3> QED BY <3>1 DEF W!Fields
  <2> QED BY <1>0, <2>1, WizardShape
<1> HIDE DEF r
<1>6. /\ orders' \in Seq(W!Saved) /\ Len(orders') = Len(orders) + 1 /\ orders'[Len(orders) + 1] = r
      /\ \A j \in 1..Len(orders) : orders'[j] = orders[j]
  BY <1>0, <1>2, WizardShape
<1>7. \A j \in 1..Len(orders') : Priced(orders'[j])
  <2> SUFFICES ASSUME NEW j \in 1..Len(orders') PROVE Priced(orders'[j])
    OBVIOUS
  <2>1. j \in 1..Len(orders) \/ j = Len(orders) + 1
    BY <1>1, <1>6
  <2> QED BY <1>2, <1>6, <2>1, WizardShape
<1>8. s.id \in 0..Len(orders') /\ OfStep(s) /\ OnRecord(s)'
  BY <1>1, <1>3, <1>6 DEF OfStep, OnRecord
<1>9. Len(orders) <= Len(orders') /\ Len(orders') <= MaxOrders
  BY <1>0, <1>1, <1>6
<1>10. /\ lost' \in 0..MaxLost /\ store.step # 3 /\ call[c].at # "idle"
       /\ \A j \in 1..Len(orders) : orders[j].addressed => orders'[j].addressed
  BY <1>0, <1>1, <1>6, WizardShape
<1> QED BY <1>0, <1>3, <1>5, <1>6, <1>7, <1>8, <1>9, <1>10, SaveMoves

\* An edit takes a priced order back to a draft: not the one on the last step.
LEMMA UpdateKeeps ==
  ASSUME W!WizardAssumption, WizardOK, NEW c \in Calls, W!updateDraft(c)
  PROVE  WizardOK'
<1> DEFINE i == call[c].id
<1>0. /\ call[c].at = "save" /\ i # 0 /\ UNCHANGED <<store, opened, cache, fetch, lost, reloads>>
  BY DEF W!updateDraft
<1>1. /\ call[c] \in W!Saves /\ OfStep(call[c]) /\ i \in 1..Len(orders) /\ call \in [Calls -> W!Saves]
      /\ store.step # 3 /\ orders[i] \in W!Saved /\ lost \in 0..MaxLost
  BY <1>0, SaveShape, WizardShape DEF OfStep
<1>2. CASE ~W!Editable(i)
  <2>1. W!Fail(c) /\ UNCHANGED orders
    BY <1>2 DEF W!updateDraft
  <2> QED BY <1>0, <1>1, <2>1, SaveFails
<1>3. CASE W!Editable(i)
  <2> DEFINE d == IF call[c].kind = "describe" THEN call[c].details ELSE orders[i].details
             t == IF call[c].kind = "schedule" THEN call[c].tier ELSE orders[i].tier
             r == [orders[i] EXCEPT !.status = "DRAFT", !.quote = None, !.details = d, !.tier = t]
             a == IF call[c].kind = "describe" THEN "address" ELSE "diagnose"
             s == [call[c] EXCEPT !.at = a]
  <2>1. orders' = [orders EXCEPT ![i] = r] /\ UNCHANGED local /\ call' = [call EXCEPT ![c] = s]
    <3>1. UNCHANGED local /\ call' = [call EXCEPT ![c] = s]
      BY <1>1, <1>3 DEF W!updateDraft
    <3>2. orders' = [orders EXCEPT ![i] = r]
      BY <1>1, <1>3 DEF W!updateDraft
    <3> QED BY <3>1, <3>2
  <2>2. d \in Details /\ t \in Tiers
    BY <1>0, <1>1 DEF OfStep, W!Saved
  <2>3. a \in {"address", "diagnose"} /\ a = IF call[c].kind = "describe" THEN "address" ELSE "diagnose"
    OBVIOUS
  <2> HIDE DEF d, t, a
  <2>4. r \in W!Saved
    BY <1>1, <2>2 DEF W!Saved
  <2>5. Priced(r) /\ (orders[i].addressed => r.addressed)
    BY <1>1 DEF W!Saved, Priced
  <2>6. s \in W!Saves
    BY <1>1, <2>3 DEF W!Saves
  <2>7. s.id = i /\ s.at = a /\ s.kind = call[c].kind /\ s.tier = call[c].tier /\ s.details = call[c].details
    BY <1>1 DEF W!Saves
  <2> HIDE DEF r, s
  <2>8. OfStep(s) /\ s.at \notin {"upload", "diagnosed", "submit"}
    BY <1>0, <1>1, <2>3, <2>7 DEF OfStep
  <2> QED BY <1>0, <1>1, <2>1, <2>4, <2>5, <2>6, <2>7, <2>8, SaveWrites
<1> QED BY <1>2, <1>3

\* The address and the files: what the order is about stays.
LEMMA AddressKeeps ==
  ASSUME W!WizardAssumption, WizardOK, NEW c \in Calls, W!updateAddress(c) \/ W!addMedia(c)
  PROVE  WizardOK'
<1> DEFINE i == call[c].id
<1>0. /\ call[c].at \in {"address", "upload"} /\ UNCHANGED <<store, opened, cache, fetch, lost, reloads>>
  BY DEF W!updateAddress, W!addMedia
<1>1. /\ call[c] \in W!Saves /\ OfStep(call[c]) /\ i \in 1..Len(orders) /\ call \in [Calls -> W!Saves]
      /\ store.step # 3 /\ orders[i] \in W!Saved /\ Priced(orders[i]) /\ OnRecord(call[c])
      /\ call[c].kind = "describe" /\ lost \in 0..MaxLost /\ MaxMedia \in Nat
  <2>1. /\ call[c] \in W!Saves /\ OfStep(call[c]) /\ i \in 1..Len(orders) /\ OnRecord(call[c])
    BY <1>0, SaveShape
  <2>2. store.step = 1 /\ call[c].kind = "describe"
    BY <1>0, <2>1 DEF OfStep
  <2> QED BY <2>1, <2>2, WizardShape
<1>2. CASE W!Fail(c) /\ UNCHANGED orders
  BY <1>0, <1>1, <1>2, SaveFails
<1>3. CASE W!updateAddress(c) /\ W!Editable(i)
  <2> DEFINE r == [orders[i] EXCEPT !.addressed = TRUE]
             s == [call[c] EXCEPT !.at = "upload"]
  <2>1. orders' = [orders EXCEPT ![i] = r] /\ UNCHANGED local /\ call' = [call EXCEPT ![c] = s]
    BY <1>1, <1>3 DEF W!updateAddress
  <2>2. r \in W!Saved /\ s \in W!Saves
    BY <1>1 DEF W!Saved, W!Saves
  <2>3. /\ r.addressed /\ r.status = orders[i].status /\ r.quote = orders[i].quote
        /\ r.details = orders[i].details /\ r.tier = orders[i].tier /\ r.agreed = orders[i].agreed
    BY <1>1 DEF W!Saved
  <2>4. s.id = i /\ s.at = "upload" /\ s.kind = "describe" /\ s.details = call[c].details
    BY <1>1 DEF W!Saves
  <2> HIDE DEF r, s
  <2>5. Priced(r) /\ OfStep(s)
    BY <1>0, <1>1, <2>3, <2>4 DEF OfStep, Priced
  <2> QED BY <1>0, <1>1, <2>1, <2>2, <2>3, <2>4, <2>5, SaveWrites
<1>4. CASE W!addMedia(c) /\ W!Editable(i) /\ orders[i].media < MaxMedia
  <2> DEFINE r == [orders[i] EXCEPT !.media = @ + 1]
             s == [call[c] EXCEPT !.staged = @ - 1]
  <2>1. /\ orders' = [orders EXCEPT ![i] = r] /\ UNCHANGED local /\ call' = [call EXCEPT ![c] = s]
        /\ call[c].at = "upload" /\ call[c].staged > 0
    BY <1>1, <1>4 DEF W!addMedia
  <2>2. r \in W!Saved /\ s \in W!Saves
    <3>1. orders[i].media \in 0..MaxMedia /\ call[c].staged \in 0..MaxMedia
      BY <1>1 DEF W!Saved, W!Saves
    <3>2. orders[i].media + 1 \in 0..MaxMedia /\ call[c].staged - 1 \in 0..MaxMedia
      BY <1>1, <1>4, <2>1, <3>1
    <3> QED BY <1>1, <3>2 DEF W!Saved, W!Saves
  <2>3. /\ r.addressed = orders[i].addressed /\ r.status = orders[i].status /\ r.quote = orders[i].quote
        /\ r.details = orders[i].details /\ r.tier = orders[i].tier /\ r.agreed = orders[i].agreed
    BY <1>1 DEF W!Saved
  <2>4. s.id = i /\ s.at = "upload" /\ s.kind = "describe" /\ s.details = call[c].details
    BY <1>1, <2>1 DEF W!Saves
  <2> HIDE DEF r, s
  <2>5. Priced(r) /\ OfStep(s) /\ r.addressed
    BY <1>0, <1>1, <2>1, <2>3, <2>4 DEF OfStep, OnRecord, Priced
  <2> QED BY <1>0, <1>1, <2>1, <2>2, <2>3, <2>4, <2>5, SaveWrites
<1> QED BY <1>2, <1>3, <1>4 DEF W!updateAddress, W!addMedia

\* The diagnosis gives a draft the quote of its details and tier.
LEMMA DiagnoseKeeps ==
  ASSUME W!WizardAssumption, WizardOK, NEW c \in Calls, W!diagnose(c)
  PROVE  WizardOK'
<1> DEFINE i == call[c].id
<1>0. /\ call[c].at = "diagnose" /\ UNCHANGED <<store, opened, cache, fetch, lost, reloads>>
  BY DEF W!diagnose
<1>1. /\ call[c] \in W!Saves /\ OfStep(call[c]) /\ i \in 1..Len(orders) /\ call \in [Calls -> W!Saves]
      /\ store.step = 2 /\ orders[i] \in W!Saved /\ lost \in 0..MaxLost /\ call[c].kind = "schedule"
      /\ i = store.order /\ call[c].tier \in Tiers
  BY <1>0, SaveShape, WizardShape DEF OfStep
<1>2. CASE orders[i].status # "DRAFT"
  <2>1. W!Fail(c) /\ UNCHANGED orders
    BY <1>2 DEF W!diagnose
  <2> QED BY <1>0, <1>1, <2>1, SaveFails
<1>3. CASE orders[i].status = "DRAFT"
  <2> DEFINE q == [details |-> orders[i].details, tier |-> orders[i].tier]
             r == [orders[i] EXCEPT !.status = "PRICED", !.quote = q]
             s == [call[c] EXCEPT !.at = "diagnosed"]
  <2>1. orders' = [orders EXCEPT ![i] = r] /\ UNCHANGED local /\ call' = [call EXCEPT ![c] = s]
    <3>1. /\ orders' = [orders EXCEPT ![i].status = "PRICED", ![i].quote = q]
          /\ call' = [call EXCEPT ![c].at = "diagnosed"] /\ UNCHANGED local
      BY <1>3 DEF W!diagnose
    <3> QED BY <1>1, <3>1, WizardShape
  <2>2. q \in W!Quotes
    BY <1>1 DEF W!Saved, W!Quotes
  <2>3. r \in W!Saved /\ s \in W!Saves
    <3> HIDE DEF q
    <3> QED BY <1>1, <2>2 DEF W!Saved, W!Saves
  <2>4. /\ r.addressed = orders[i].addressed /\ r.status = "PRICED" /\ r.quote = q
        /\ r.details = orders[i].details /\ r.tier = orders[i].tier
    BY <1>1 DEF W!Saved
  <2>5. s.id = i /\ s.at = "diagnosed" /\ s.kind = "schedule" /\ s.tier = call[c].tier
    BY <1>1 DEF W!Saves
  <2> HIDE DEF r, s
  <2>6. Priced(r) /\ OfStep(s) /\ (orders[i].addressed => r.addressed)
    BY <1>1, <2>4, <2>5 DEF OfStep, Priced
  <2>7. store.step # 3 /\ r.status = "PRICED" /\ s.id = i /\ s.at = "diagnosed"
    BY <1>1, <2>4, <2>5
  <2> QED BY <1>0, <2>1, <2>3, <2>6, <2>7, <1>1, SaveWrites
<1> QED BY <1>2, <1>3

\* The order is submitted with the quote on record, which the save brings.
LEMMA SubmitOrderKeeps ==
  ASSUME W!WizardAssumption, WizardOK, NEW c \in Calls, W!submit(c)
  PROVE  WizardOK'
<1> DEFINE i == call[c].id
<1>0. /\ call[c].at = "submit" /\ UNCHANGED <<store, opened, cache, fetch, lost, reloads>>
  BY DEF W!submit
<1>1. /\ call[c] \in W!Saves /\ OfStep(call[c]) /\ i \in 1..Len(orders) /\ call \in [Calls -> W!Saves]
      /\ store.step = 3 /\ orders[i] \in W!Saved /\ Priced(orders[i]) /\ lost \in 0..MaxLost /\ call[c].kind = "submit"
      /\ i = store.order /\ call[c].quote = orders[i].quote
  BY <1>0, SaveShape, WizardShape DEF OfStep, OnRecord
<1>2. CASE ~(orders[i].status = "PRICED" /\ orders[i].addressed)
  <2>1. W!Fail(c) /\ UNCHANGED orders
    BY <1>2 DEF W!submit
  <2> QED BY <1>0, <1>1, <2>1, SaveFails
<1>3. CASE orders[i].status = "PRICED" /\ orders[i].addressed
  <2> DEFINE r == [orders[i] EXCEPT !.status = "SEARCHING", !.agreed = call[c].quote]
             s == [call[c] EXCEPT !.at = "submitted"]
  <2>1. orders' = [orders EXCEPT ![i] = r] /\ UNCHANGED local /\ call' = [call EXCEPT ![c] = s]
    <3>1. /\ orders' = [orders EXCEPT ![i].status = "SEARCHING", ![i].agreed = call[c].quote]
          /\ call' = [call EXCEPT ![c].at = "submitted"] /\ UNCHANGED local
      BY <1>3 DEF W!submit
    <3> QED BY <1>1, <3>1, WizardShape
  <2>2. r \in W!Saved /\ s \in W!Saves
    BY <1>1 DEF W!Saved, W!Saves
  <2>3. /\ r.addressed = orders[i].addressed /\ r.status = "SEARCHING" /\ r.quote = orders[i].quote
        /\ r.details = orders[i].details /\ r.tier = orders[i].tier /\ r.agreed = orders[i].quote
    BY <1>1 DEF W!Saved
  <2>4. s.id = i /\ s.at = "submitted" /\ s.kind = "submit"
    BY <1>1 DEF W!Saves
  <2> HIDE DEF r, s
  <2>5. Priced(r) /\ OfStep(s)
    BY <1>1, <1>3, <2>3, <2>4 DEF OfStep, Priced
  <2> QED BY <1>0, <1>1, <2>1, <2>2, <2>3, <2>4, <2>5, SaveWrites
<1> QED BY <1>2, <1>3

\* A request or its answer is lost on the way.
LEMMA LossKeeps ==
  ASSUME W!WizardAssumption, WizardOK, NEW c \in Calls, W!requestLost(c)
  PROVE  WizardOK'
<1>1. call[c].at # "idle" /\ W!Fail(c) /\ UNCHANGED <<orders, store, opened, cache, fetch, reloads>>
  BY WizardShape DEF W!requestLost, W!SaveOK
<1>2. lost' \in 0..MaxLost
  BY WizardShape DEF W!requestLost
<1> QED BY <1>1, <1>2, SaveFails

\* The save is done: the next step comes on screen and the order is fetched
\* again before anybody can act on what is cached.
LEMMA MoveOnKeeps ==
  ASSUME W!WizardAssumption, WizardOK, NEW c \in Calls, W!onNextDescription(c) \/ W!onNextSchedule(c)
  PROVE  WizardOK'
<1>0. /\ call[c].at # "idle" /\ call \in [Calls -> W!Saves] /\ Len(orders) \in Nat
      /\ store \in [order : 0..Len(orders), step : 1..3]
  BY WizardShape DEF W!onNextDescription, W!onNextSchedule
<1>1. PICK n \in {2, 3} : /\ W!MoveOn(c, n) /\ call[c].id \in 1..Len(orders) /\ orders[call[c].id].addressed
                          /\ n = 3 => call[c].id = store.order /\ orders[call[c].id].status = "PRICED"
  <2>1. CASE W!onNextDescription(c)
    <3>1. call[c].at = "upload" /\ W!MoveOn(c, 2)
      BY <2>1 DEF W!onNextDescription
    <3> QED BY <1>0, <3>1, SaveShape DEF OnRecord
  <2>2. CASE W!onNextSchedule(c)
    <3>1. call[c].at = "diagnosed" /\ W!MoveOn(c, 3)
      BY <2>2 DEF W!onNextSchedule
    <3>2. /\ call[c].id \in 1..Len(orders) /\ orders[call[c].id].status = "PRICED"
          /\ call[c].id = store.order /\ store.step = 2
      BY <1>0, <3>1, SaveShape DEF OnRecord, OfStep
    <3>3. orders[store.order].addressed
      BY <3>2, WizardShape DEF W!StepOK
    <3> QED BY <3>1, <3>2, <3>3
  <2> QED BY <2>1, <2>2
<1>2. PICK k \in 1..Len(orders) : k = call[c].id
  BY <1>1
<1>3. /\ store' = [order |-> k, step |-> n] /\ store'.order = k /\ store'.step = n
      /\ local' = W!Local(cache[k]) /\ fetch' = [id |-> k, val |-> None] /\ fetch'.id = k /\ fetch'.val = None
      /\ call' = [call EXCEPT ![c] = W!NoCall] /\ UNCHANGED <<orders, opened, cache, lost, reloads>>
  BY <1>0, <1>1, <1>2 DEF W!MoveOn
<1>4. \A d \in Calls : call'[d] = W!NoCall /\ call'[d].at = "idle"
  BY <1>0, <1>3, SaveShape, WizardNothing
<1>5. cache[k] \in W!Saved \cup {None} /\ k \in 1..MaxOrders
  BY <1>2, WizardShape
<1>6. local' \in W!Fields /\ local'.removed = 0 /\ opened
  BY <1>0, <1>3, <1>5, WizardLocal, SaveShape
<1>7. fetch' # W!NoFetch /\ fetch' \in [id : 0..Len(orders'), val : W!Saved \cup {None}]
      /\ store' \in [order : 0..Len(orders'), step : 1..3]
  BY <1>0, <1>3, WizardNothing
<1>8. W!FetchOK'
  BY <1>3, <1>4, <1>6 DEF W!FetchOK
<1>9. W!StepOK'
  <2>1. W!order' # None => W!order' = cache[k] /\ W!order' \in W!Saved
    BY <1>3, <1>5 DEF W!order
  <2>2. W!order' # None => 0 <= W!order'.media
    BY <2>1, WizardShape DEF W!Saved
  <2> QED BY <1>1, <1>2, <1>3, <1>6, <1>7, <2>2 DEF W!StepOK
<1>10. \A d \in Calls : W!SaveOK(d)'
  BY <1>4, WizardNothing DEF W!SaveOK, W!NoCall
<1>11. call' \in [Calls -> W!Saves]
  BY <1>0, <1>3, WizardNothing
<1> QED BY <1>3, <1>6, <1>7, <1>8, <1>9, <1>10, <1>11, WizardShape, WizardReached

\* Coming, going and coming back: no save is under way, or none any more.
LEMMA NavigationKeeps ==
  ASSUME W!WizardAssumption, WizardOK,
         W!openWizard \/ W!leave \/ W!reload \/ W!onBack \/ (\E c \in Calls : W!onSubmitted(c))
  PROVE  WizardOK'
<1> USE WizardNothing
<1>0. /\ store \in [order : 0..Len(orders), step : 1..3] /\ call \in [Calls -> W!Saves]
      /\ Len(orders) \in Nat /\ Len(orders) <= MaxOrders /\ MaxOrders \in Nat /\ MaxMedia \in Nat
      /\ cache \in [1..MaxOrders -> W!Saved \cup {None}]
  BY WizardShape
<1>1. ~opened => fetch = W!NoFetch /\ \A c \in Calls : call[c] = W!NoCall
  BY WizardShape DEF W!FetchOK, W!SaveOK
<1>2. CASE W!openWizard
  <2>1. /\ ~opened /\ opened' = TRUE /\ UNCHANGED <<orders, cache, fetch, call, lost, reloads>>
        /\ store' = store \/ (\E i \in 0..Len(orders) : store' = [order |-> i, step |-> 1])
    BY <1>0, <1>2 DEF W!openWizard
  <2>2. store' \in [order : 0..Len(orders), step : 1..3] /\ (store' = store \/ store'.step = 1)
    BY <1>0, <2>1
  <2>3. /\ W!order' \in W!Saved \cup {None}
        /\ \/ local' = W!Local(W!order')
           \/ \E d \in Details : local' = [W!Local(W!order') EXCEPT !.details = d]
    <3>1. W!order' \in W!Saved \cup {None} /\ W!order \in W!Saved \cup {None}
      BY <1>0, <2>1, <2>2 DEF W!order
    <3>2. W!order # None => W!order.details \in Details
      BY <3>1 DEF W!Saved
    <3>3. W!order' = IF store'.order = 0 THEN None ELSE cache[store'.order]
      BY <2>1 DEF W!order
    <3> QED BY <1>2, <3>1, <3>2, <3>3 DEF W!openWizard
  <2>4. local' \in W!Fields /\ local'.removed = 0 /\ (W!order' # None => 0 <= W!order'.media)
    <3>1. PICK v \in W!Saved \cup {None} : v = W!order'
      BY <2>3
    <3>2. v # None => 0 <= v.media
      BY <1>0, <3>1 DEF W!Saved
    <3>3. W!Local(v) \in W!Fields /\ W!Local(v).removed = 0
      BY <3>1, WizardLocal
    <3>4. ASSUME NEW d \in Details
          PROVE  [W!Local(v) EXCEPT !.details = d] \in W!Fields /\ [W!Local(v) EXCEPT !.details = d].removed = 0
      BY <3>3 DEF W!Fields
    <3> QED BY <2>3, <3>1, <3>2, <3>3, <3>4
  <2>5. W!FetchOK' /\ \A c \in Calls : W!SaveOK(c)'
    BY <1>1, <2>1 DEF W!FetchOK, W!SaveOK, W!NoCall
  <2>6. W!StepOK'
    BY <2>1, <2>2, <2>4, WizardShape DEF W!StepOK
  <2> QED BY <2>1, <2>2, <2>4, <2>5, <2>6, WizardShape, WizardReached
<1>3. CASE W!leave
  <2>1. /\ opened' = FALSE /\ UNCHANGED <<orders, store, local, cache, fetch, call, lost, reloads>>
        /\ fetch = W!NoFetch /\ \A c \in Calls : call[c] = W!NoCall
    BY <1>3, WizardAtRest DEF W!leave
  <2>2. W!FetchOK' /\ \A c \in Calls : W!SaveOK(c)'
    BY <2>1 DEF W!FetchOK, W!SaveOK, W!NoCall
  <2>3. W!StepOK'
    BY <2>1, WizardShape DEF W!StepOK
  <2> QED BY <2>1, <2>2, <2>3, WizardShape, WizardReached
<1>4. CASE W!reload
  <2>1. /\ reloads' \in 0..MaxReloads /\ UNCHANGED <<orders, store, opened, lost>>
        /\ local' = W!Local(None) /\ cache' = [i \in 1..MaxOrders |-> None] /\ fetch' = W!NoFetch
        /\ call' = [c \in Calls |-> W!NoCall]
    BY <1>4, WizardShape DEF W!reload, W!Ids
  <2>2. local' \in W!Fields /\ local'.removed = 0
    BY <2>1, WizardLocal
  <2>3. W!order' = None
    BY <1>0, <2>1 DEF W!order
  <2>4. W!FetchOK' /\ \A c \in Calls : W!SaveOK(c)'
    BY <2>1 DEF W!FetchOK, W!SaveOK, W!NoCall
  <2>5. W!StepOK'
    <3>1. store'.order # 0 => cache'[store'.order] = None
      BY <1>0, <2>1
    <3> QED BY <2>1, <2>2, <2>3, <3>1, WizardShape DEF W!StepOK
  <2>6. /\ cache' \in [1..MaxOrders -> W!Saved \cup {None}] /\ call' \in [Calls -> W!Saves]
        /\ fetch' \in [id : 0..Len(orders'), val : W!Saved \cup {None}]
    BY <1>0, <2>1
  <2> QED BY <2>1, <2>2, <2>4, <2>5, <2>6, WizardShape, WizardReached
<1>5. CASE W!onBack
  <2>1. /\ opened /\ fetch = W!NoFetch /\ \A c \in Calls : call[c] = W!NoCall
        /\ store.step > 1 /\ store' = [store EXCEPT !.step = @ - 1] /\ local' = W!Local(W!order)
        /\ UNCHANGED <<orders, opened, cache, fetch, call, lost, reloads>>
    BY <1>5, WizardAtRest DEF W!onBack
  <2>2. /\ store' \in [order : 0..Len(orders), step : 1..3] /\ store'.order = store.order /\ store'.step \in {1, 2}
        /\ store.order # 0 /\ orders[store.order].addressed
    BY <1>0, <2>1, WizardShape DEF W!StepOK
  <2>3. W!order' = W!order /\ W!order \in W!Saved \cup {None}
    BY <1>0, <2>1, <2>2 DEF W!order
  <2>4. local' \in W!Fields /\ local'.removed = 0 /\ (W!order # None => 0 <= W!order.media)
    BY <1>0, <2>1, <2>3, WizardLocal DEF W!Saved
  <2>5. W!FetchOK' /\ \A c \in Calls : W!SaveOK(c)'
    BY <2>1 DEF W!FetchOK, W!SaveOK, W!NoCall
  <2>6. W!StepOK'
    BY <2>1, <2>2, <2>3, <2>4 DEF W!StepOK
  <2> QED BY <2>1, <2>2, <2>4, <2>5, <2>6, WizardShape, WizardReached
<1>6. ASSUME NEW c \in Calls, W!onSubmitted(c) PROVE WizardOK'
  <2>1. /\ call[c].at # "idle" /\ store' = [order |-> 0, step |-> 1] /\ opened' = FALSE
        /\ call' = [call EXCEPT ![c] = W!NoCall] /\ UNCHANGED <<orders, local, cache, fetch, lost, reloads>>
    BY <1>6 DEF W!onSubmitted
  <2>2. fetch = W!NoFetch /\ \A d \in Calls : call'[d] = W!NoCall
    BY <1>0, <2>1, SaveShape
  <2>3. W!FetchOK' /\ \A d \in Calls : W!SaveOK(d)'
    BY <2>1, <2>2 DEF W!FetchOK, W!SaveOK, W!NoCall
  <2>4. W!StepOK'
    BY <2>1 DEF W!StepOK
  <2>5. call' \in [Calls -> W!Saves] /\ store' \in [order : 0..Len(orders'), step : 1..3]
    BY <1>0, <2>1
  <2> QED BY <2>1, <2>3, <2>4, <2>5, WizardShape, WizardReached
<1> QED BY <1>2, <1>3, <1>4, <1>5, <1>6

\* The order on screen is fetched while nothing else is under way.
LEMMA QueryKeeps ==
  ASSUME W!WizardAssumption, WizardOK, W!Query \/ W!fetchFails
  PROVE  WizardOK'
<1> USE WizardNothing
<1>0. /\ store \in [order : 0..Len(orders), step : 1..3] /\ store.order \in 0..Len(orders)
      /\ Len(orders) \in Nat /\ Len(orders) <= MaxOrders /\ MaxOrders \in Nat /\ MaxMedia \in Nat
      /\ cache \in [1..MaxOrders -> W!Saved \cup {None}] /\ call \in [Calls -> W!Saves]
      /\ fetch \in [id : 0..Len(orders), val : W!Saved \cup {None}]
      /\ \A i \in 1..Len(orders) : orders[i] \in W!Saved
  BY WizardShape
<1>1. CASE W!useQuery
  <2>1. /\ opened /\ store.order # 0 /\ W!order = None /\ fetch = W!NoFetch
        /\ fetch' = [id |-> store.order, val |-> None] /\ fetch'.id = store.order /\ fetch'.val = None
        /\ UNCHANGED <<orders, store, opened, local, cache, call, lost, reloads>>
    BY <1>1 DEF W!useQuery
  <2>2. \A c \in Calls : call[c].at = "idle" /\ call[c] = W!NoCall
    BY <2>1, WizardShape DEF W!SaveOK
  <2>3. local.removed = 0
    BY <2>1, WizardShape DEF W!StepOK
  <2>4. W!FetchOK' /\ \A c \in Calls : W!SaveOK(c)'
    BY <2>1, <2>2, <2>3 DEF W!FetchOK, W!SaveOK, W!NoCall
  <2>5. W!StepOK'
    <3>1. fetch' # W!NoFetch /\ W!order' = W!order
      BY <2>1 DEF W!order
    <3> QED BY <2>1, <2>3, <3>1, WizardShape DEF W!StepOK
  <2>6. fetch' \in [id : 0..Len(orders'), val : W!Saved \cup {None}]
    BY <1>0, <2>1
  <2> QED BY <2>1, <2>4, <2>5, <2>6, WizardShape, WizardReached
<1>2. CASE W!serverReads
  <2>1. /\ fetch.id # 0 /\ fetch' = [fetch EXCEPT !.val = orders[fetch.id]]
        /\ UNCHANGED <<orders, store, opened, local, cache, call, lost, reloads>>
    BY <1>2 DEF W!serverReads
  <2>2. /\ fetch # W!NoFetch /\ fetch.id = store.order /\ store.order # 0 /\ opened /\ local.removed = 0
        /\ \A c \in Calls : call[c].at = "idle" /\ call[c] = W!NoCall
    BY <2>1, WizardShape DEF W!FetchOK, W!SaveOK
  <2>3. /\ fetch' \in [id : 0..Len(orders'), val : W!Saved \cup {None}]
        /\ fetch'.id = store.order /\ fetch'.val = orders[store.order] /\ fetch' # W!NoFetch
    BY <1>0, <2>1, <2>2
  <2>4. W!FetchOK' /\ \A c \in Calls : W!SaveOK(c)'
    BY <2>1, <2>2, <2>3 DEF W!FetchOK, W!SaveOK, W!NoCall
  <2>5. W!StepOK'
    BY <2>1, <2>3, WizardShape DEF W!StepOK, W!order
  <2> QED BY <2>1, <2>3, <2>4, <2>5, WizardShape, WizardReached
<1>3. CASE W!fetched
  <2> DEFINE k == fetch.id
             v == fetch.val
  <2>1. /\ v # None /\ cache' = [cache EXCEPT ![k] = v] /\ fetch' = W!NoFetch
        /\ local' = IF store.step = 1 /\ k = store.order /\ local.details = None
                      THEN [local EXCEPT !.details = v.details] ELSE local
        /\ UNCHANGED <<orders, store, opened, call, lost, reloads>>
    BY <1>3 DEF W!fetched
  <2>2. /\ fetch # W!NoFetch /\ k = store.order /\ store.order # 0 /\ opened /\ local.removed = 0
        /\ \A c \in Calls : call[c].at = "idle" /\ call[c] = W!NoCall
    BY <2>1, WizardShape DEF W!FetchOK, W!SaveOK
  <2>3. v \in W!Saved /\ v.details \in Details /\ v.media \in 0..MaxMedia
    BY <1>0, <2>1 DEF W!Saved
  <2>4. local' \in W!Fields /\ local'.removed = 0
    <3>1. [local EXCEPT !.details = v.details] \in W!Fields /\ [local EXCEPT !.details = v.details].removed = local.removed
      <4>1. local \in W!Fields
        BY WizardShape
      <4> QED BY <2>3, <4>1 DEF W!Fields
    <3> QED BY <2>1, <2>2, <3>1, WizardShape
  <2>5. cache' \in [1..MaxOrders -> W!Saved \cup {None}] /\ cache'[store.order] = v
    BY <1>0, <2>1, <2>2, <2>3
  <2>6. W!FetchOK' /\ \A c \in Calls : W!SaveOK(c)'
    BY <2>1, <2>2 DEF W!FetchOK, W!SaveOK, W!NoCall
  <2>7. W!StepOK'
    <3>1. W!order' = v /\ store.step = 3 => v.quote = orders[store.order].quote
      BY <2>1, <2>2, <2>5, WizardShape DEF W!order, W!StepOK
    <3>2. W!order' = v
      BY <2>1, <2>2, <2>5 DEF W!order
    <3> QED BY <1>0, <2>1, <2>2, <2>3, <2>4, <2>5, <3>1, <3>2, WizardShape DEF W!StepOK
  <2>8. fetch' \in [id : 0..Len(orders'), val : W!Saved \cup {None}]
    BY <1>0, <2>1
  <2> QED BY <2>1, <2>4, <2>5, <2>6, <2>7, <2>8, WizardShape, WizardReached
<1>4. CASE W!fetchFails
  <2>1. /\ fetch # W!NoFetch /\ lost' \in 0..MaxLost /\ fetch' = W!NoFetch
        /\ UNCHANGED <<orders, opened, cache, call, reloads>>
    BY <1>4, WizardShape DEF W!fetchFails
  <2>2. /\ fetch.id = store.order /\ opened /\ local.removed = 0
        /\ \A c \in Calls : call[c].at = "idle" /\ call[c] = W!NoCall
    BY <2>1, WizardShape DEF W!FetchOK, W!SaveOK
  <2>3. store' = [order |-> 0, step |-> 1] /\ local' = IF store.step = 1 THEN local ELSE W!Local(None)
    BY <1>4, <2>2 DEF W!fetchFails
  <2>4. local' \in W!Fields /\ local'.removed = 0
    BY <2>2, <2>3, WizardShape, WizardLocal
  <2>5. W!FetchOK' /\ \A c \in Calls : W!SaveOK(c)'
    BY <2>1, <2>2 DEF W!FetchOK, W!SaveOK, W!NoCall
  <2>6. W!StepOK'
    BY <2>3, <2>4 DEF W!StepOK, W!order
  <2>7. /\ fetch' \in [id : 0..Len(orders'), val : W!Saved \cup {None}]
        /\ store' \in [order : 0..Len(orders'), step : 1..3]
    BY <1>0, <2>1, <2>3
  <2> QED BY <2>1, <2>4, <2>5, <2>6, <2>7, WizardShape, WizardReached
<1> QED BY <1>1, <1>2, <1>3, <1>4 DEF W!Query

\* Nothing has been ordered, and the wizard is closed.
LEMMA WizardStarts ==
  ASSUME W!WizardAssumption, W!Init
  PROVE  WizardOK
<1> USE WizardNothing
<1>1. /\ orders = <<>> /\ store = [order |-> 0, step |-> 1] /\ opened = FALSE /\ local = W!Local(None)
      /\ cache = [i \in 1..MaxOrders |-> None] /\ fetch = W!NoFetch /\ call = [c \in Calls |-> W!NoCall]
      /\ lost = 0 /\ reloads = 0 /\ Len(orders) = 0 /\ orders \in Seq(W!Saved)
      /\ MaxOrders \in Nat /\ MaxMedia \in Nat /\ MaxLost \in Nat /\ MaxReloads \in Nat
  BY DEF W!Init, W!Ids, W!WizardAssumption
<1>2. local \in W!Fields
  BY <1>1, WizardLocal
<1>3. W!ShapeOK
  BY <1>1, <1>2 DEF W!ShapeOK, W!Ids
<1>4. W!TypeOK
  <2>1. local.details \in Details \cup {None} /\ local.tier \in Tiers /\ local.staged \in 0..MaxMedia
        /\ local.saving \in Calls \cup {None}
    BY <1>2 DEF W!Fields
  <2>2. store.order = 0 /\ store.step = 1 /\ opened \in BOOLEAN /\ lost \in 0..MaxLost /\ reloads \in 0..MaxReloads
    BY <1>1
  <2>3. \A i \in 1..Len(orders) : FALSE
    BY <1>1
  <2> QED BY <1>1, <2>1, <2>2, <2>3 DEF W!TypeOK
<1>5. W!FetchOK /\ W!StepOK /\ W!AgreedIsQuoted
  BY <1>1 DEF W!FetchOK, W!StepOK, W!AgreedIsQuoted
<1>6. \A c \in Calls : W!SaveOK(c)
  BY <1>1 DEF W!SaveOK, W!NoCall
<1> QED BY <1>3, <1>4, <1>5, <1>6 DEF WizardOK, W!WizardInv

\* Every step of the wizard keeps the invariant.
LEMMA WizardKeeps ==
  ASSUME W!WizardAssumption, WizardOK, W!Next
  PROVE  WizardOK'
BY FormFieldsKeep, RemoveKeeps, ButtonsKeep, CreateKeeps, UpdateKeeps, AddressKeeps, DiagnoseKeeps,
   SubmitOrderKeeps, LossKeeps, MoveOnKeeps, NavigationKeeps, QueryKeeps DEF W!Next, W!Save

\* A step elsewhere does not touch it.
LEMMA WizardRests ==
  ASSUME WizardOK, UNCHANGED wizardVars
  PROVE  WizardOK'
<1> USE DEF wizardVars
<1>1. W!TypeOK'
  BY DEF WizardOK, W!TypeOK
<1>2. W!ShapeOK' /\ W!FetchOK' /\ W!AgreedIsQuoted'
  BY DEF WizardOK, W!WizardInv, W!ShapeOK, W!FetchOK, W!AgreedIsQuoted
<1>3. W!StepOK' /\ \A c \in Calls : W!SaveOK(c)'
  BY DEF WizardOK, W!WizardInv, W!StepOK, W!SaveOK, W!order
<1> QED BY <1>1, <1>2, <1>3 DEF WizardOK, W!WizardInv

-----------------------------------------------------------------------------
(* The paged lists.                                                        *)

ListsOK == R!TypeOK /\ R!ListsInv

\* A sequence that is sorted, the largest first.
Falling(s, n) == \A i, j \in 1..n : i < j => s[i] > s[j]

\* Any set of rows can be listed newest first: of the sets that cannot, a
\* smallest one could be, by taking its oldest row last.
LEMMA Listed ==
  ASSUME NEW n \in Nat, NEW X \in SUBSET (1..n)
  PROVE  /\ Cardinality(X) \in Nat
         /\ \E f \in [1..Cardinality(X) -> X] : Falling(f, Cardinality(X))
<1> DEFINE Sorted(Y) == \E f \in [1..Cardinality(Y) -> Y] : Falling(f, Cardinality(Y))
           Bad == {k \in Nat : \E Y \in SUBSET (1..n) : Cardinality(Y) = k /\ ~Sorted(Y)}
           Less == OpToRel(<, Nat)
<1>0. IsWellFoundedOn(Less, Nat)
  BY NatLessThanWellFounded, Zenon
<1>1. \A x, y \in Nat : x < y => <<x, y>> \in Less
  BY Zenon DEF OpToRel
<1> HIDE DEF Less
<1>2. ASSUME NEW Y \in SUBSET (1..n) PROVE IsFiniteSet(Y) /\ Cardinality(Y) \in Nat
  <2>1. IsFiniteSet(1..n)
    BY FS_Interval
  <2> QED BY <2>1, FS_Subset, FS_CardinalityType
<1>3. ASSUME Bad # {} PROVE FALSE
  <2>1. PICK k \in Bad : \A y \in Bad : ~(<<y, k>> \in Less)
    <3>1. Bad \subseteq Nat
      OBVIOUS
    <3> HIDE DEF Bad
    <3> QED BY <1>0, <1>3, <3>1, WFMin
  <2>2. PICK Y \in SUBSET (1..n) : Cardinality(Y) = k /\ ~Sorted(Y)
    OBVIOUS
  <2>3. k \in Nat /\ IsFiniteSet(Y)
    BY <1>2, <2>2
  <2>4. Y # {}
    <3> SUFFICES ASSUME Y = {} PROVE FALSE
      OBVIOUS
    <3>1. Cardinality(Y) = 0
      BY FS_EmptySet
    <3>2. [i \in 1..0 |-> 0] \in [1..0 -> Y] /\ Falling([i \in 1..0 |-> 0], 0)
      BY DEF Falling
    <3> QED BY <2>2, <3>1, <3>2
  <2>5. PICK m \in Y : \A x \in Y : ~(<<x, m>> \in Less)
    <3>1. Y \subseteq Nat
      OBVIOUS
    <3> QED BY <1>0, <2>4, <3>1, WFMin
  <2>6. ASSUME NEW x \in Y \ {m} PROVE x > m
    <3>1. x \in Nat /\ m \in Nat /\ x # m /\ x \in Y
      BY <1>2
    <3>2. ~(x < m)
      BY <1>1, <2>5, <3>1
    <3> QED BY <3>1, <3>2
  <2> DEFINE U == Y \ {m}
  <2>7. IsFiniteSet(U) /\ Cardinality(U) = k - 1 /\ k - 1 \in Nat /\ U \in SUBSET (1..n)
    <3>1. U \in SUBSET (1..n)
      OBVIOUS
    <3>2. IsFiniteSet(U) /\ Cardinality(U) = k - 1
      BY <2>2, <2>3, FS_RemoveElement
    <3> QED BY <1>2, <3>1, <3>2
  <2>8. Sorted(U)
    <3>1. k - 1 < k
      BY <2>3
    <3>2. ~(k - 1 \in Bad)
      BY <1>1, <2>1, <2>3, <2>7, <3>1
    <3> HIDE DEF Sorted, U
    <3> QED BY <2>7, <3>2
  <2>9. PICK g \in [1..(k - 1) -> U] : Falling(g, k - 1)
    BY <2>7, <2>8
  <2> DEFINE f == [i \in 1..k |-> IF i = k THEN m ELSE g[i]]
  <2>10. f \in [1..k -> Y]
    <3> SUFFICES ASSUME NEW i \in 1..k, i # k PROVE g[i] \in Y
      OBVIOUS
    <3>1. i \in 1..(k - 1)
      BY <2>3
    <3> QED BY <2>9, <3>1
  <2>11. Falling(f, k)
    <3> SUFFICES ASSUME NEW i \in 1..k, NEW j \in 1..k, i < j PROVE f[i] > f[j]
      BY DEF Falling
    <3>1. i \in 1..(k - 1) /\ f[i] = g[i]
      BY <2>3
    <3>2. CASE j = k
      BY <2>6, <2>9, <3>1, <3>2
    <3>3. CASE j # k
      <4>1. j \in 1..(k - 1) /\ f[j] = g[j]
        BY <2>3, <3>3
      <4> QED BY <2>9, <3>1, <4>1 DEF Falling
    <3> QED BY <3>2, <3>3
  <2> HIDE DEF f
  <2> QED BY <2>2, <2>10, <2>11
<1>4. Sorted(X)
  <2> HIDE DEF Sorted
  <2>1. Cardinality(X) \in Nat
    BY <1>2
  <2>2. Cardinality(X) \notin Bad
    BY <1>3
  <2> QED BY <2>1, <2>2
<1> QED BY <1>2, <1>4

\* What a query finds and what of it is shown: matching rows below the
\* cursor, newest first, at most one more than a page.
Fit(l, f, cursor, found, shown) ==
  /\ found \in Seq(Nat) /\ Len(found) <= Take + 1 /\ Falling(found, Len(found))
  /\ \A i \in 1..Len(found) : /\ found[i] \in 1..Len(rows) /\ R!where(l, f, rows[found[i]])
                              /\ cursor # None => found[i] < cursor
  /\ shown \in Seq(Nat) /\ Len(shown) <= Len(found) /\ Len(shown) <= Take
  /\ \A i \in 1..Len(shown) : i \in 1..Len(found) /\ shown[i] = found[i]

\* What the database answers: rows that match, before the cursor, newest first.
LEMMA Found ==
  ASSUME R!ListsAssumption, rows \in Seq(R!Rows), NEW l, NEW f, NEW cursor \in Nat \cup {None}, NEW got
  PROVE  Fit(l, f, cursor, R!findMany(l, f, cursor, got), R!items(R!findMany(l, f, cursor, got)))
<1> DEFINE X == {i \in 1..Len(rows) : R!where(l, f, rows[i]) /\ (cursor # None => i < cursor)}
           n == Cardinality(X)
           all == R!Newest(X)
           found == R!findMany(l, f, cursor, got)
           shown == R!items(found)
<1>0. Len(rows) \in Nat /\ Take \in Nat \ {0} /\ None \notin Nat /\ X \in SUBSET (1..Len(rows))
  BY DEF R!ListsAssumption
<1>1. n \in Nat /\ \E g \in [1..n -> X] : Falling(g, n)
  <2> HIDE DEF X
  <2> QED BY <1>0, Listed
<1>2. all \in [1..n -> X] /\ Falling(all, n)
  <2>1. all = CHOOSE g \in [1..n -> X] : Falling(g, n)
    BY DEF R!Newest, R!Cardinality, Cardinality, Falling
  <2> HIDE DEF all, n, X
  <2> QED BY <1>1, <2>1
<1>3. all \in Seq(X) /\ all \in Seq(Nat) /\ Len(all) = n
  <2>1. X \subseteq Nat
    BY <1>0
  <2> HIDE DEF all, n, X
  <2>2. all \in [1..n -> Nat]
    BY <1>2, <2>1
  <2> QED BY <1>1, <1>2, <2>2
<1>4. \A a, b \in Nat : R!Min({a, b}) = IF a <= b THEN a ELSE b
  <2> SUFFICES ASSUME NEW a \in Nat, NEW b \in Nat PROVE R!Min({a, b}) = IF a <= b THEN a ELSE b
    OBVIOUS
  <2>1. \E x \in {a, b} : \A y \in {a, b} : x <= y
    OBVIOUS
  <2> QED BY <2>1 DEF R!Min
<1>5. PICK m \in Nat : m <= n /\ m <= Take + 1 /\ found = SubSeq(all, 1, m)
  <2>1. found = SubSeq(all, 1, R!Min({Len(all), Take + 1}))
    BY DEF R!findMany
  <2>2. R!Min({n, Take + 1}) = IF n <= Take + 1 THEN n ELSE Take + 1
    <3> HIDE DEF n
    <3> QED BY <1>0, <1>1, <1>4
  <2> DEFINE x == R!Min({n, Take + 1})
  <2>3. x \in Nat /\ x <= n /\ x <= Take + 1
    <3> HIDE DEF n
    <3> QED BY <1>0, <1>1, <2>2
  <2>4. found = SubSeq(all, 1, x)
    <3> HIDE DEF found, all, n, X
    <3> QED BY <1>3, <2>1
  <2> HIDE DEF found, all, n, X, x
  <2> QED BY <2>3, <2>4
<1>6. found \in Seq(X) /\ Len(found) = m /\ \A i \in 1..m : found[i] = all[i]
  <2> HIDE DEF found, all, n, X
  <2> QED BY <1>1, <1>3, <1>5
<1>7. Falling(found, Len(found))
  <2> HIDE DEF found, all, n, X
  <2> QED BY <1>1, <1>2, <1>5, <1>6 DEF Falling
<1>8. \A i \in 1..Len(found) : /\ found[i] \in 1..Len(rows) /\ R!where(l, f, rows[found[i]])
                               /\ cursor # None => found[i] < cursor
  <2>1. \A i \in 1..Len(found) : found[i] \in X
    <3> HIDE DEF found, X
    <3> QED BY <1>6
  <2> HIDE DEF found
  <2> QED BY <2>1
<1>9. found \in Seq(Nat)
  <2> HIDE DEF found, all, n, X
  <2> QED BY <1>1, <1>3, <1>5
<1>10. PICK k \in Nat : k <= Len(found) /\ k <= Take /\ shown = SubSeq(found, 1, k)
  <2>1. shown = SubSeq(found, 1, R!Min({Len(found), Take}))
    BY DEF R!items
  <2> DEFINE k0 == Len(found)
             x == R!Min({k0, Take})
  <2>2. k0 \in Nat
    <3> HIDE DEF found
    <3> QED BY <1>9
  <2>3. x = IF k0 <= Take THEN k0 ELSE Take
    <3> HIDE DEF k0
    <3> QED BY <1>0, <1>4, <2>2
  <2>4. x \in Nat /\ x <= k0 /\ x <= Take
    <3> HIDE DEF k0, x
    <3> QED BY <1>0, <2>2, <2>3
  <2> HIDE DEF found, shown, x
  <2> QED BY <2>1, <2>4 DEF x
<1>11. shown \in Seq(Nat) /\ Len(shown) = k /\ \A i \in 1..k : shown[i] = found[i]
  <2> HIDE DEF found, shown
  <2> QED BY <1>9, <1>10
<1>12. found = R!findMany(l, f, cursor, got) /\ shown = R!items(found)
  OBVIOUS
<1> QED
  <2>1. /\ found \in Seq(Nat) /\ Len(found) <= Take + 1 /\ Falling(found, Len(found))
        /\ shown \in Seq(Nat) /\ Len(shown) <= Len(found) /\ Len(shown) <= Take
        /\ \A i \in 1..Len(shown) : i \in 1..Len(found) /\ shown[i] = found[i]
    <3> HIDE DEF found, shown, all, n, X
    <3> QED BY <1>5, <1>6, <1>7, <1>9, <1>10, <1>11
  <2> HIDE DEF found, shown, all, n, X
  <2> QED BY <1>8, <1>12, <2>1 DEF Fit

\* The invariant, flat.
LEMMA ListsShape ==
  ASSUME R!ListsAssumption, ListsOK
  PROVE  /\ None \notin Nat /\ Take \in Nat \ {0} /\ MaxRows \in Nat
         /\ rows \in Seq(R!Rows) /\ Len(rows) \in Nat
         /\ reader \in R!Readers /\ list \in R!Pages
         /\ reader.filter \in reader.list.filters /\ reader.cursor \in 1..Len(rows) \cup {None}
         /\ list.filter \in list.of.filters
         /\ reader.got \in Seq(Nat) /\ Len(reader.got) \in Nat /\ Falling(reader.got, Len(reader.got))
         /\ list.cache \in [R!Filters -> R!Answers] /\ list.filter \in R!Filters
         /\ R!ReaderOK /\ \A f \in R!Filters : R!AnswerOK(f)
<1>1. reader.got \in Seq(Nat)
  BY DEF ListsOK, R!ListsInv, R!Readers
<1>2. Falling(reader.got, Len(reader.got))
  BY DEF ListsOK, R!ListsInv, R!NewestFirst, Falling
<1> QED BY <1>1, <1>2 DEF ListsOK, R!TypeOK, R!ListsInv, R!ListsAssumption, R!Pages

\* It is enough to say the same of the next state.
LEMMA ListsReached ==
  ASSUME R!ListsAssumption,
         rows' \in Seq(R!Rows), reader' \in R!Readers, list' \in R!Pages,
         reader'.filter \in reader'.list.filters, reader'.cursor \in 1..Len(rows') \cup {None},
         list'.filter \in list'.of.filters, Falling(reader'.got, Len(reader'.got)),
         R!ReaderOK', \A f \in R!Filters : R!AnswerOK(f)'
  PROVE  ListsOK'
<1>1. R!TypeOK'
  <2>1. \A i \in 1..Len(rows') : rows'[i] \in R!Rows
    OBVIOUS
  <2>2. reader'.list \in R!Lists
    BY DEF R!Readers
  <2>3. \A f \in R!Filters : list'.cache[f].state \in {"none", "loading"} \cup R!Settled
    <3>1. list'.cache \in [R!Filters -> R!Answers]
      BY DEF R!Pages
    <3> QED BY <3>1 DEF R!Answers
  <2> QED BY <2>1, <2>2, <2>3 DEF R!TypeOK, R!Rows
<1>2. R!ListsInv'
  BY DEF R!ListsInv, R!NewestFirst, Falling
<1> QED BY <1>1, <1>2 DEF ListsOK

\* What is added or changes keeps its place and its owner.
LEMMA RowsKeep ==
  ASSUME R!ListsAssumption, ListsOK, UNCHANGED <<reader, list>>, rows' \in Seq(R!Rows), Len(rows) <= Len(rows'),
         \A i \in 1..Len(rows) : rows'[i].owner = rows[i].owner
  PROVE  ListsOK'
<1>1. Len(rows) \in Nat /\ Len(rows') \in Nat
  BY ListsShape
<1>2. reader'.cursor \in 1..Len(rows') \cup {None}
  BY <1>1, ListsShape
<1>3. R!ReaderOK'
  BY ListsShape DEF R!ReaderOK
<1>4. ASSUME NEW f \in R!Filters PROVE R!AnswerOK(f)'
  <2>1. R!AnswerOK(f)
    BY ListsShape
  <2> QED BY <1>1, <2>1 DEF R!AnswerOK
<1> QED BY <1>2, <1>3, <1>4, ListsShape, ListsReached

\* A new row comes last; a status changes in its row.
LEMMA TableKeeps ==
  ASSUME R!ListsAssumption, ListsOK,
         \/ \E u \in Users : \E s \in Statuses : R!insert(u, s)
         \/ \E i \in 1..Len(rows) : \E s \in Statuses : R!change(i, s)
  PROVE  ListsOK'
<1>0. rows \in Seq(R!Rows) /\ Len(rows) \in Nat
  BY ListsShape
<1>1. ASSUME NEW u \in Users, NEW s \in Statuses, R!insert(u, s) PROVE ListsOK'
  <2>1. rows' = Append(rows, [owner |-> u, status |-> s]) /\ UNCHANGED <<reader, list>>
    BY <1>1 DEF R!insert
  <2>2. [owner |-> u, status |-> s] \in R!Rows
    BY DEF R!Rows
  <2>3. rows' \in Seq(R!Rows) /\ Len(rows') = Len(rows) + 1 /\ \A i \in 1..Len(rows) : rows'[i] = rows[i]
    BY <1>0, <2>1, <2>2
  <2> QED BY <1>0, <2>1, <2>3, RowsKeep
<1>2. ASSUME NEW i \in 1..Len(rows), NEW s \in Statuses, R!change(i, s) PROVE ListsOK'
  <2> DEFINE r == [rows[i] EXCEPT !.status = s]
  <2>1. rows' = [rows EXCEPT ![i] = r] /\ UNCHANGED <<reader, list>>
    BY <1>0, <1>2 DEF R!change
  <2>2. r \in R!Rows /\ r.owner = rows[i].owner
    <3>1. rows[i] \in R!Rows
      BY <1>0
    <3> QED BY <3>1 DEF R!Rows
  <2> HIDE DEF r
  <2>3. /\ rows' \in Seq(R!Rows) /\ Len(rows') = Len(rows)
        /\ \A j \in 1..Len(rows) : rows'[j] = IF j = i THEN r ELSE rows[j]
    BY <1>0, <2>1, <2>2
  <2> QED BY <1>0, <2>1, <2>2, <2>3, RowsKeep
<1> QED BY <1>1, <1>2

\* The next page goes on below the cursor, and leaves it below what was got.
LEMMA NextPageKeeps ==
  ASSUME R!ListsAssumption, ListsOK, R!nextPage
  PROVE  ListsOK'
<1> DEFINE old == reader.got
           m == Len(old)
<1>0. /\ rows \in Seq(R!Rows) /\ reader \in R!Readers /\ reader.cursor \in 1..Len(rows) \cup {None}
      /\ reader.cursor \in Nat \cup {None} /\ old \in Seq(Nat) /\ m \in Nat /\ Falling(old, m)
      /\ Take \in Nat \ {0} /\ None \notin Nat /\ ~reader.done /\ UNCHANGED <<rows, list>>
  BY ListsShape DEF R!nextPage
<1>1. PICK found, shown :
        /\ found \in Seq(Nat) /\ Len(found) <= Take + 1 /\ Falling(found, Len(found))
        /\ \A i \in 1..Len(found) : found[i] \in 1..Len(rows) /\ (reader.cursor # None => found[i] < reader.cursor)
        /\ shown \in Seq(Nat) /\ Len(shown) <= Len(found) /\ Len(shown) <= Take
        /\ \A i \in 1..Len(shown) : i \in 1..Len(found) /\ shown[i] = found[i]
        /\ reader' = [reader EXCEPT !.got = old \o shown, !.cursor = R!nextCursor(found),
                                    !.done = R!nextCursor(found) = None]
  <2>1. rows \in Seq(R!Rows) /\ reader.cursor \in Nat \cup {None}
    BY <1>0
  <2> DEFINE found == R!findMany(reader.list, reader.filter, reader.cursor, Len(reader.got))
             shown == R!items(found)
  <2>2. Fit(reader.list, reader.filter, reader.cursor, found, shown)
    BY <2>1, Found
  <2>3. reader' = [reader EXCEPT !.got = old \o shown, !.cursor = R!nextCursor(found),
                                 !.done = R!nextCursor(found) = None]
    BY DEF R!nextPage
  <2> HIDE DEF found, shown
  <2> QED BY <2>2, <2>3 DEF Fit
<1> DEFINE next == R!nextCursor(found)
<1>2. /\ next = IF Len(found) > Take THEN found[Take + 1] ELSE None
      /\ next \in 1..Len(rows) \cup {None} /\ next \in Nat \cup {None}
      /\ next # None => Len(found) > Take /\ Take + 1 \in 1..Len(found) /\ next = found[Take + 1]
  BY <1>0, <1>1 DEF R!nextCursor
<1> HIDE DEF next, old
<1>3. /\ old \o shown \in Seq(Nat) /\ Len(old \o shown) = m + Len(shown) /\ Len(shown) \in Nat
      /\ \A i \in 1..(m + Len(shown)) : (old \o shown)[i] = IF i <= m THEN old[i] ELSE shown[i - m]
  BY <1>0, <1>1
<1>4. /\ reader' \in R!Readers /\ reader'.got = old \o shown /\ reader'.cursor = next
      /\ reader'.list = reader.list /\ reader'.filter = reader.filter
  <2>1. reader' = [reader EXCEPT !.got = old \o shown, !.cursor = next, !.done = next = None]
    BY <1>1 DEF next
  <2>2. reader' \in R!Readers
    BY <1>0, <1>2, <1>3, <2>1 DEF R!Readers
  <2> QED BY <1>0, <2>1, <2>2 DEF R!Readers
<1>5. reader'.done <=> next = None
  BY <1>0, <1>1 DEF R!Readers, next
<1>6. \A i \in 1..m : reader.cursor # None /\ old[i] > reader.cursor
  <2>1. reader.cursor = None => m = 0
    BY <1>0, ListsShape DEF R!ReaderOK, old
  <2> QED BY <1>0, <2>1, ListsShape DEF R!ReaderOK, old
<1>7. Falling(old \o shown, m + Len(shown))
  <2> SUFFICES ASSUME NEW i \in 1..(m + Len(shown)), NEW j \in 1..(m + Len(shown)), i < j
               PROVE  (old \o shown)[i] > (old \o shown)[j]
    BY DEF Falling
  <2>0. old \in Seq(Nat) /\ m = Len(old)
    BY <1>0
  <2>1. CASE j <= m
    BY <1>0, <1>3, <2>1 DEF Falling
  <2>2. CASE i <= m /\ j > m
    <3>1. j - m \in 1..Len(shown) /\ (old \o shown)[j] = shown[j - m] /\ (old \o shown)[i] = old[i] /\ i \in 1..m
      BY <1>0, <1>3, <2>2
    <3>2. old[i] \in Nat /\ reader.cursor \in Nat /\ reader.cursor # None /\ old[i] > reader.cursor
      BY <1>0, <1>6, <2>0, <3>1
    <3>3. j - m \in 1..Len(found) /\ shown[j - m] = found[j - m]
      BY <1>1, <3>1
    <3>4. found[j - m] \in Nat /\ found[j - m] < reader.cursor
      BY <1>1, <3>2, <3>3
    <3> QED BY <3>1, <3>2, <3>3, <3>4
  <2>3. CASE i > m
    <3>1. /\ i - m \in 1..Len(shown) /\ j - m \in 1..Len(shown) /\ i - m < j - m
          /\ (old \o shown)[i] = shown[i - m] /\ (old \o shown)[j] = shown[j - m]
      BY <1>0, <1>3, <2>3
    <3>2. shown[i - m] = found[i - m] /\ shown[j - m] = found[j - m] /\ found[i - m] > found[j - m]
      BY <1>1, <3>1 DEF Falling
    <3> QED BY <3>1, <3>2
  <2> QED BY <1>0, <2>1, <2>2, <2>3
<1>8. R!ReaderOK'
  <2>1. CASE next = None
    BY <1>4, <1>5, <2>1 DEF R!ReaderOK
  <2>2. CASE next # None
    <3> SUFFICES ASSUME NEW i \in 1..(m + Len(shown)) PROVE (old \o shown)[i] > next
      BY <1>3, <1>4, <2>2 DEF R!ReaderOK
    <3>1. next = found[Take + 1] /\ Take + 1 \in 1..Len(found) /\ found[Take + 1] \in Nat
      BY <1>1, <1>2, <2>2
    <3>2. CASE i <= m
      <4>1. i \in 1..m /\ (old \o shown)[i] = old[i] /\ old[i] > reader.cursor /\ reader.cursor \in Nat
        BY <1>0, <1>3, <1>6, <3>2
      <4>2. next < reader.cursor /\ old[i] \in Nat
        BY <1>0, <1>1, <1>6, <3>1, <4>1
      <4> QED BY <3>1, <4>1, <4>2
    <3>3. CASE i > m
      <4>1. i - m \in 1..Len(shown) /\ (old \o shown)[i] = shown[i - m]
        BY <1>0, <1>3, <3>3
      <4>2. i - m \in 1..Len(found) /\ shown[i - m] = found[i - m] /\ i - m < Take + 1
        BY <1>0, <1>1, <4>1
      <4>3. found[i - m] > found[Take + 1]
        BY <1>1, <3>1, <4>2 DEF Falling
      <4> QED BY <3>1, <4>1, <4>2, <4>3
    <3> QED BY <1>0, <3>2, <3>3
  <2> QED BY <2>1, <2>2
<1>9. ASSUME NEW f \in R!Filters PROVE R!AnswerOK(f)'
  <2>1. R!AnswerOK(f) /\ UNCHANGED <<rows, list>>
    BY <1>0, ListsShape
  <2> QED BY <2>1 DEF R!AnswerOK
<1> QED BY <1>0, <1>2, <1>3, <1>4, <1>7, <1>8, <1>9, ListsShape, ListsReached

\* The page of a list changes what it keeps under one filter.
LEMMA PageChanges ==
  ASSUME R!ListsAssumption, ListsOK, UNCHANGED <<rows, reader>>,
         NEW f \in R!Filters, NEW a \in R!Answers,
         list' \in R!Pages, list'.of = list.of, list'.filter = list.filter, list'.cache = [list.cache EXCEPT ![f] = a],
         \A i \in 1..Len(a.ids) : /\ a.ids[i] \in 1..Len(rows)
                                  /\ f.owner \in {None, rows[a.ids[i]].owner}
                                  /\ list.of.list.scoped => rows[a.ids[i]].owner = Me
  PROVE  ListsOK'
<1>1. R!ReaderOK'
  BY ListsShape DEF R!ReaderOK
<1>2. ASSUME NEW g \in R!Filters PROVE R!AnswerOK(g)'
  <2>1. R!AnswerOK(g) /\ list.cache \in [R!Filters -> R!Answers]
    BY ListsShape
  <2>2. list'.cache[g] = IF g = f THEN a ELSE list.cache[g]
    BY <2>1
  <2> QED BY <2>1, <2>2 DEF R!AnswerOK
<1> QED BY <1>1, <1>2, ListsShape, ListsReached

\* A list is asked for, answered, refused; its page changes filter.
LEMMA ListPageKeeps ==
  ASSUME R!ListsAssumption, ListsOK,
         \/ R!refetch
         \/ \E f \in R!Filters : R!useQuery(f) \/ R!answer(f) \/ R!fetchFails(f) \/ R!setFilter(f)
  PROVE  ListsOK'
<1>0. /\ list \in R!Pages /\ list.cache \in [R!Filters -> R!Answers] /\ list.filter \in R!Filters
      /\ list.filter \in list.of.filters /\ rows \in Seq(R!Rows)
  BY ListsShape
<1>1. ASSUME NEW f \in R!Filters, NEW a \in R!Answers, list' = [list EXCEPT !.cache[f] = a], UNCHANGED <<rows, reader>>,
             \A i \in 1..Len(a.ids) : /\ a.ids[i] \in 1..Len(rows)
                                      /\ f.owner \in {None, rows[a.ids[i]].owner}
                                      /\ list.of.list.scoped => rows[a.ids[i]].owner = Me
      PROVE  ListsOK'
  <2>1. list'.cache = [list.cache EXCEPT ![f] = a] /\ list'.of = list.of /\ list'.filter = list.filter
    BY <1>0, <1>1 DEF R!Pages
  <2>2. list' = [list EXCEPT !.cache = [list.cache EXCEPT ![f] = a]] /\ [list.cache EXCEPT ![f] = a] \in [R!Filters -> R!Answers]
    BY <1>0, <1>1
  <2>3. list' \in R!Pages
    BY <1>0, <2>2 DEF R!Pages
  <2> QED BY <1>0, <1>1, <2>1, <2>3, PageChanges
<1>2. ASSUME NEW s \in {"loading", "error"} PROVE [state |-> s, ids |-> <<>>] \in R!Answers
  BY DEF R!Answers, R!Settled
<1>3. ASSUME NEW f \in R!Filters, R!useQuery(f) \/ R!fetchFails(f) PROVE ListsOK'
  <2>1. PICK s \in {"loading", "error"} : list' = [list EXCEPT !.cache[f] = [state |-> s, ids |-> <<>>]]
                                          /\ UNCHANGED <<rows, reader>>
    BY <1>3 DEF R!useQuery, R!fetchFails, R!key
  <2>2. PICK a \in R!Answers : a = [state |-> s, ids |-> <<>>]
    BY <1>2
  <2> QED BY <1>1, <2>1, <2>2
<1>4. CASE R!refetch
  <2>1. list' = [list EXCEPT !.cache[list.filter] = [state |-> "loading", ids |-> <<>>]] /\ UNCHANGED <<rows, reader>>
    BY <1>4 DEF R!refetch, R!key
  <2>2. PICK a \in R!Answers : a = [state |-> "loading", ids |-> <<>>]
    BY <1>2
  <2> QED BY <1>0, <1>1, <2>1, <2>2
<1>5. ASSUME NEW f \in R!Filters, R!answer(f) PROVE ListsOK'
  <2>1. PICK found, shown :
          /\ \A i \in 1..Len(found) : found[i] \in 1..Len(rows) /\ R!where(list.of.list, f, rows[found[i]])
          /\ shown \in Seq(Nat) /\ \A i \in 1..Len(shown) : i \in 1..Len(found) /\ shown[i] = found[i]
          /\ list' = [list EXCEPT !.cache[f] = [state |-> "items", ids |-> shown]]
    <3>1. rows \in Seq(R!Rows) /\ None \in Nat \cup {None}
      BY <1>0
    <3> DEFINE found == R!findMany(list.of.list, f, None, 0)
               shown == R!items(found)
    <3>2. Fit(list.of.list, f, None, found, shown)
      BY <3>1, Found
    <3>3. list' = [list EXCEPT !.cache[f] = [state |-> "items", ids |-> shown]]
      BY <1>5 DEF R!answer, R!key
    <3> HIDE DEF found, shown
    <3> QED BY <3>2, <3>3 DEF Fit
  <2>2. PICK a \in R!Answers : a = [state |-> "items", ids |-> shown] /\ a.ids = shown
    <3>1. [state |-> "items", ids |-> shown] \in R!Answers
      BY <2>1 DEF R!Answers, R!Settled
    <3> QED BY <3>1
  <2>3. \A i \in 1..Len(shown) : /\ shown[i] \in 1..Len(rows)
                                 /\ f.owner \in {None, rows[shown[i]].owner}
                                 /\ list.of.list.scoped => rows[shown[i]].owner = Me
    BY <2>1 DEF R!where
  <2>4. UNCHANGED <<rows, reader>>
    BY <1>5 DEF R!answer
  <2> QED BY <1>1, <2>1, <2>2, <2>3, <2>4
<1>6. ASSUME NEW f \in R!Filters, R!setFilter(f) PROVE ListsOK'
  <2>1. f \in list.of.filters /\ list' = [list EXCEPT !.filter = f] /\ UNCHANGED <<rows, reader>>
    BY <1>6 DEF R!setFilter
  <2>2. list' \in R!Pages /\ list'.of = list.of /\ list'.filter = f /\ list'.cache = list.cache
    BY <1>0, <2>1 DEF R!Pages
  <2>3. R!ReaderOK' /\ \A g \in R!Filters : R!AnswerOK(g)'
    BY <2>1, <2>2, ListsShape DEF R!ReaderOK, R!AnswerOK
  <2> QED BY <2>1, <2>2, <2>3, ListsShape, ListsReached
<1> QED BY <1>3, <1>4, <1>5, <1>6

\* Some rows; nothing has been got, nothing is shown.
LEMMA ListsStart ==
  ASSUME R!ListsAssumption, R!Init
  PROVE  ListsOK
<1>1. PICK n \in 0..MaxRows : rows \in [1..n -> R!Rows]
  BY DEF R!Init, R!Rows
<1>2. rows \in Seq(R!Rows) /\ Len(rows) = n
  BY <1>1 DEF R!ListsAssumption
<1>3. PICK l \in R!Lists : \E f \in l.filters :
        reader = [list |-> l, filter |-> f, got |-> <<>>, cursor |-> None, done |-> FALSE, start |-> rows]
  BY DEF R!Init
<1>33. PICK f \in l.filters :
        reader = [list |-> l, filter |-> f, got |-> <<>>, cursor |-> None, done |-> FALSE, start |-> rows]
  BY <1>3
<1>4. f \in R!Filters
  BY <1>33 DEF R!Lists, R!ordersList, R!getJobHistory, R!getMasterEarnings, R!notificationsList,
              R!auditList, R!adminOrdersList, R!adminUsersList, R!List
<1>5. reader \in R!Readers
  BY <1>2, <1>33, <1>4 DEF R!Readers
<1>6. PICK p \in R!WebPages : list = [of |-> p, filter |-> R!NoFilter, cache |-> [g \in R!Filters |-> R!NoAnswer]]
  BY DEF R!Init
<1>7. R!NoFilter \in R!Filters /\ R!NoFilter.owner = None /\ R!NoFilter.status = None
  BY DEF R!NoFilter, R!Filters
<1>8. R!NoFilter \in p.filters
  <2>1. \A x, y \in BOOLEAN : R!NoFilter \in R!List(FALSE, {}, x, y).filters
    BY <1>7 DEF R!List
  <2>2. \E l2 : \E x, y \in BOOLEAN : p.filters = R!Page(l2, x, y).filters
    BY <1>6 DEF R!WebPages, R!OrdersPage, R!MasterJobsPage, R!MasterEarningsPage, R!AdminAuditLogPage,
                R!AdminOrdersPage, R!AdminMastersPage, R!AdminCustomersPage
  <2> QED BY <2>1, <2>2 DEF R!Page
<1>9. list \in R!Pages
  <2>1. R!NoAnswer \in R!Answers
    BY DEF R!NoAnswer, R!Answers
  <2> QED BY <1>6, <1>7, <2>1 DEF R!Pages
<1>10. R!TypeOK
  <2>1. \A i \in 1..Len(rows) : rows[i] \in [owner: Users, status: Statuses]
    <3>1. \A i \in 1..Len(rows) : rows[i] \in R!Rows
      BY <1>2
    <3> QED BY <3>1 DEF R!Rows
  <2>2. reader.list \in R!Lists /\ reader.filter \in reader.list.filters /\ reader.cursor = None
    BY <1>33
  <2>3. list.of = p /\ list.filter = R!NoFilter /\ \A g \in R!Filters : list.cache[g].state = "none"
    BY <1>6 DEF R!NoAnswer
  <2> QED BY <1>8, <2>1, <2>2, <2>3 DEF R!TypeOK
<1>11. R!ListsInv
  BY <1>2, <1>33, <1>5, <1>6, <1>9 DEF R!ListsInv, R!ReaderOK, R!NewestFirst, R!AnswerOK, R!NoAnswer
<1> QED BY <1>10, <1>11 DEF ListsOK

\* Every step of the lists keeps the invariant.
LEMMA ListsKeep ==
  ASSUME R!ListsAssumption, ListsOK, R!Next
  PROVE  ListsOK'
BY TableKeeps, NextPageKeeps, ListPageKeeps DEF R!Next

\* A step elsewhere does not touch it.
LEMMA ListsRest ==
  ASSUME ListsOK, UNCHANGED listVars
  PROVE  ListsOK'
BY DEF ListsOK, listVars, R!TypeOK, R!ListsInv, R!ReaderOK, R!NewestFirst, R!AnswerOK, R!Answers, R!Pages

\* What the run checks follows.
LEMMA ListsFollow ==
  ASSUME R!ListsAssumption, ListsOK
  PROVE  ListsConsistent
<1>1. R!NewestFirst
  BY DEF ListsOK, R!ListsInv
<1>2. R!ShownMatchesFilter
  BY ListsShape DEF R!ShownMatchesFilter, R!AnswerOK, R!key
<1> QED BY <1>1, <1>2 DEF ListsConsistent

-----------------------------------------------------------------------------
(* The page of an order.                                                   *)

OrderPageOK == P!TypeOK /\ P!PageInv

\* The server's part: its types, and a payment retried only after a failure.
ServerOK(s, ps, rt, cl) ==
  /\ s \in P!OrderStatus /\ ps \in Seq(P!PaymentStatus) /\ Len(ps) <= MaxPayments
  /\ rt \in BOOLEAN /\ cl \in {"none", "OPEN", "DECIDED"}
  /\ \A i \in 2..Len(ps) : ps[i] \notin P!ActivePayments

\* The queries: what is cached and fetched is valid, and asked for by a
\* restored session; no payment list is longer than the server's.
QueriesOK(vw, ft, n, rd) ==
  /\ DOMAIN vw = P!Queries /\ DOMAIN ft = P!Queries
  /\ \A q \in P!Queries : /\ vw[q] = None \/ P!Valid(q, vw[q])
                          /\ ft[q].at \in {"idle", "sent", "answered", "error"}
                          /\ ft[q].val = None \/ P!Valid(q, ft[q].val)
                          /\ (vw[q] # None \/ ft[q].at # "idle") => rd
  /\ vw["payments"] # None => Len(vw["payments"]) <= n
  /\ ft["payments"].val # None => Len(ft["payments"].val) <= n

ClickStates == [button : P!Buttons \cup {None}, at : {"idle", "sent", "ok", "refused", "lost"}]

\* The clicks: made by a restored session, one payment at a time.
ClicksOK(rq, n, rd) ==
  /\ rq \in [Requests -> ClickStates]
  /\ \A r \in Requests : rq[r].at # "idle" => rd
  /\ \A r \in Requests : rq[r].button = "pay" =>
       /\ \A s \in Requests : rq[s].button = "pay" => s = r
       /\ rq[r].at = "sent" => n < MaxPayments

\* The page's own flags.
FlagsOK(rd, mm, sk, pd, lo) ==
  /\ rd \in BOOLEAN /\ mm \in BOOLEAN /\ sk \in {"off", "connecting", "joined", "refused"}
  /\ pd \in BOOLEAN /\ lo \in 0..MaxLost

PageParts == /\ ServerOK(status, pays, rated, claim) /\ QueriesOK(view, fetching, Len(pays), ready)
             /\ ClicksOK(req, Len(pays), ready) /\ FlagsOK(ready, mapMounted, socket, pushed, dropped)

\* The invariant is its four parts.
LEMMA PageIsParts == OrderPageOK <=> PageParts
<1>1. (\A q \in P!Queries : P!Valid(q, P!Server(q))) <=>
        /\ status \in P!OrderStatus /\ pays \in Seq(P!PaymentStatus) /\ Len(pays) <= MaxPayments
        /\ rated \in BOOLEAN /\ claim \in {"none", "OPEN", "DECIDED"}
  <2>1. /\ P!Valid("order", P!Server("order")) <=> status \in P!OrderStatus
        /\ P!Valid("payments", P!Server("payments")) <=> pays \in Seq(P!PaymentStatus) /\ Len(pays) <= MaxPayments
        /\ P!Valid("review", P!Server("review")) <=> rated \in BOOLEAN
        /\ P!Valid("claim", P!Server("claim")) <=> claim \in {"none", "OPEN", "DECIDED"}
    BY DEF P!Valid, P!Server
  <2> QED BY <2>1 DEF P!Queries
<1>2. P!TypeOK <=>
        /\ (\A q \in P!Queries : P!Valid(q, P!Server(q))) /\ FlagsOK(ready, mapMounted, socket, pushed, dropped)
        /\ \A q \in P!Queries : /\ view[q] = None \/ P!Valid(q, view[q])
                                /\ fetching[q].at \in {"idle", "sent", "answered", "error"}
                                /\ fetching[q].val = None \/ P!Valid(q, fetching[q].val)
        /\ view["payments"] # None => Len(view["payments"]) <= Len(pays)
        /\ req \in [Requests -> ClickStates]
  BY DEF P!TypeOK, FlagsOK, ClickStates
<1> QED BY <1>1, <1>2 DEF OrderPageOK, PageParts, ServerOK, QueriesOK, ClicksOK,
                          P!PageInv, P!SignedIn, P!OnePaying, P!NewestActive

-----------------------------------------------------------------------------
\* What holds of the queries goes on to hold when the session is restored or
\* the server has more payments.
LEMMA QueriesStay ==
  ASSUME NEW vw, NEW ft, NEW n \in Nat, NEW m \in Nat, n <= m, NEW rd, NEW re, rd => re,
         QueriesOK(vw, ft, n, rd)
  PROVE  QueriesOK(vw, ft, m, re)
<1>1. \A q \in P!Queries : /\ vw[q] = None \/ P!Valid(q, vw[q])
                           /\ ft[q].at \in {"idle", "sent", "answered", "error"}
                           /\ ft[q].val = None \/ P!Valid(q, ft[q].val)
                           /\ (vw[q] # None \/ ft[q].at # "idle") => re
  BY DEF QueriesOK
<1>2. \A s : P!Valid("payments", s) => Len(s) \in Nat
  BY DEF P!Valid
<1>3. /\ vw["payments"] # None => Len(vw["payments"]) <= m
      /\ ft["payments"].val # None => Len(ft["payments"].val) <= m
  <2>1. "payments" \in P!Queries
    BY DEF P!Queries
  <2> QED BY <1>1, <1>2, <2>1 DEF QueriesOK
<1> QED BY <1>1, <1>3 DEF QueriesOK

\* A query's fetch is put into another state.
LEMMA FetchPut ==
  ASSUME NEW vw, NEW ft, NEW n, NEW rd, QueriesOK(vw, ft, n, rd), NEW q \in P!Queries,
         NEW a \in {"idle", "sent", "answered", "error"}, a # "idle" => rd,
         NEW v, v = None \/ P!Valid(q, v), q = "payments" /\ v # None => Len(v) <= n
  PROVE  QueriesOK(vw, [ft EXCEPT ![q] = [at |-> a, val |-> v]], n, rd)
<1> DEFINE gt == [ft EXCEPT ![q] = [at |-> a, val |-> v]]
<1>1. DOMAIN gt = P!Queries /\ \A p \in P!Queries : gt[p] = IF p = q THEN [at |-> a, val |-> v] ELSE ft[p]
  BY DEF QueriesOK
<1>2. gt[q].at = a /\ gt[q].val = v
  BY <1>1
<1>3. \A p \in P!Queries : p # q => gt[p] = ft[p]
  BY <1>1
<1> HIDE DEF gt
<1>4. "payments" \in P!Queries
  BY DEF P!Queries
<1>5. ASSUME NEW p \in P!Queries
      PROVE  /\ vw[p] = None \/ P!Valid(p, vw[p])
             /\ gt[p].at \in {"idle", "sent", "answered", "error"}
             /\ gt[p].val = None \/ P!Valid(p, gt[p].val)
             /\ (vw[p] # None \/ gt[p].at # "idle") => rd
  BY <1>2, <1>3 DEF QueriesOK
<1>6. gt["payments"].val # None => Len(gt["payments"].val) <= n
  BY <1>2, <1>3, <1>4 DEF QueriesOK
<1>7. QueriesOK(vw, gt, n, rd)
  BY <1>1, <1>5, <1>6 DEF QueriesOK
<1> QED BY <1>7 DEF gt

\* Some queries are fetched anew.
LEMMA FetchesRestart ==
  ASSUME QueriesOK(view, fetching, Len(pays), ready), NEW Q, (\E q \in P!Queries : q \in Q) => ready
  PROVE  QueriesOK(view, P!Restarted(Q), Len(pays), ready)
<1> DEFINE vw == view  ft == fetching  n == Len(pays)  rd == ready  gt == P!Restarted(Q)
<1>1. \A p \in P!Queries : p \in Q => gt[p].at = "sent" /\ gt[p].val = None
  BY DEF P!Restarted
<1>2. \A p \in P!Queries : p \notin Q => gt[p] = ft[p]
  BY DEF P!Restarted
<1>3. DOMAIN gt = P!Queries
  BY DEF P!Restarted
<1> HIDE DEF gt
<1>4. "payments" \in P!Queries
  BY DEF P!Queries
<1>5. ASSUME NEW p \in P!Queries
      PROVE  /\ vw[p] = None \/ P!Valid(p, vw[p])
             /\ gt[p].at \in {"idle", "sent", "answered", "error"}
             /\ gt[p].val = None \/ P!Valid(p, gt[p].val)
             /\ (vw[p] # None \/ gt[p].at # "idle") => rd
  <2>1. CASE p \in Q
    BY <1>1, <2>1 DEF QueriesOK
  <2>2. CASE p \notin Q
    BY <1>2, <2>2 DEF QueriesOK
  <2> QED BY <2>1, <2>2
<1>6. gt["payments"].val # None => Len(gt["payments"].val) <= n
  BY <1>1, <1>2, <1>4 DEF QueriesOK
<1>7. QueriesOK(vw, gt, n, rd)
  BY <1>3, <1>5, <1>6 DEF QueriesOK
<1> QED BY <1>7 DEF gt

\* What was fetched is shown.
LEMMA FetchShown ==
  ASSUME NEW vw, NEW ft, NEW n, NEW rd, QueriesOK(vw, ft, n, rd), NEW q \in P!Queries, ft[q].at # "idle"
  PROVE  QueriesOK([vw EXCEPT ![q] = ft[q].val], ft, n, rd)
<1> DEFINE wv == [vw EXCEPT ![q] = ft[q].val]
<1>1. DOMAIN wv = P!Queries /\ wv[q] = ft[q].val /\ \A p \in P!Queries : p # q => wv[p] = vw[p]
  BY DEF QueriesOK
<1> HIDE DEF wv
<1>2. "payments" \in P!Queries
  BY DEF P!Queries
<1>3. ASSUME NEW p \in P!Queries
      PROVE  /\ wv[p] = None \/ P!Valid(p, wv[p])
             /\ (wv[p] # None \/ ft[p].at # "idle") => rd
  BY <1>1 DEF QueriesOK
<1>4. wv["payments"] # None => Len(wv["payments"]) <= n
  BY <1>1, <1>2 DEF QueriesOK
<1>5. QueriesOK(wv, ft, n, rd)
  BY <1>1, <1>3, <1>4 DEF QueriesOK
<1> QED BY <1>5 DEF wv

-----------------------------------------------------------------------------
\* One click changes its state.
LEMMA ClickPut ==
  ASSUME NEW rq, NEW n, NEW rd, ClicksOK(rq, n, rd), NEW r \in Requests, NEW c \in ClickStates,
         c.at # "idle" => rd,
         c.button = "pay" => /\ \A s \in Requests : s # r => rq[s].button # "pay"
                             /\ c.at = "sent" => n < MaxPayments
  PROVE  ClicksOK([rq EXCEPT ![r] = c], n, rd)
<1> DEFINE qr == [rq EXCEPT ![r] = c]
<1>1. qr \in [Requests -> ClickStates] /\ qr[r] = c /\ \A s \in Requests : s # r => qr[s] = rq[s]
  BY DEF ClicksOK
<1> HIDE DEF qr
<1>2. \A s \in Requests : qr[s].at # "idle" => rd
  BY <1>1 DEF ClicksOK
<1>3. ASSUME NEW s \in Requests, qr[s].button = "pay"
      PROVE  /\ \A t \in Requests : qr[t].button = "pay" => t = s
             /\ qr[s].at = "sent" => n < MaxPayments
  <2>1. CASE s = r
    BY <1>1, <1>3, <2>1
  <2>2. CASE s # r
    <3>1. rq[s].button = "pay" /\ c.button # "pay"
      BY <1>1, <1>3, <2>2
    <3> QED BY <1>1, <2>2, <3>1 DEF ClicksOK
  <2> QED BY <2>1, <2>2
<1>4. ClicksOK(qr, n, rd)
  BY <1>1, <1>2, <1>3 DEF ClicksOK
<1> QED BY <1>4 DEF qr

\* The parts, flat.
LEMMA PageShape ==
  ASSUME PageParts
  PROVE  /\ MaxPayments \in Nat /\ MaxLost \in Nat /\ None \notin P!Buttons
         /\ pays \in Seq(P!PaymentStatus) /\ Len(pays) \in Nat /\ Len(pays) <= MaxPayments
         /\ ready \in BOOLEAN /\ dropped \in 0..MaxLost
         /\ req \in [Requests -> ClickStates]
         /\ DOMAIN fetching = P!Queries /\ DOMAIN view = P!Queries
         /\ \A q \in P!Queries : view[q] # None \/ fetching[q].at # "idle" => ready
         /\ \A r \in Requests : req[r].at # "idle" => ready
<1>1. pays \in Seq(P!PaymentStatus)
  BY DEF PageParts, ServerOK
<1> QED BY <1>1, FormsAssumption DEF P!PageAssumption, PageParts, ServerOK, QueriesOK, ClicksOK, FlagsOK

\* The session, the socket and the pushes.
LEMMA SocketKeeps ==
  ASSUME PageParts,
         \/ P!bootstrap \/ P!useSocketEvent \/ P!mountMap \/ P!handleConnection \/ P!onOrderUpdated
         \/ \E to \in P!OrderStatus : P!othersMove(to)
  PROVE  PageParts'
<1>0. /\ ServerOK(status, pays, rated, claim) /\ QueriesOK(view, fetching, Len(pays), ready)
      /\ ClicksOK(req, Len(pays), ready) /\ FlagsOK(ready, mapMounted, socket, pushed, dropped)
  BY DEF PageParts
<1> USE DEF P!server
<1>1. CASE P!bootstrap
  <2>1. ready' = TRUE /\ UNCHANGED <<status, pays, rated, claim, socket, pushed, mapMounted, view, fetching, req, dropped>>
    BY <1>1 DEF P!bootstrap
  <2>2. QueriesOK(view, fetching, Len(pays), ready')
    <3>1. Len(pays) \in Nat /\ Len(pays) <= Len(pays) /\ (ready => ready')
      BY <2>1, PageShape
    <3> QED BY <1>0, <3>1, QueriesStay
  <2>3. ClicksOK(req, Len(pays), ready')
    BY <1>0, <2>1 DEF ClicksOK
  <2>4. FlagsOK(ready', mapMounted, socket, pushed, dropped)
    BY <1>0, <2>1 DEF FlagsOK
  <2> QED BY <1>0, <2>1, <2>2, <2>3, <2>4 DEF PageParts
<1>2. CASE P!useSocketEvent \/ P!mountMap \/ P!handleConnection
  <2>1. /\ UNCHANGED <<status, pays, rated, claim, ready, pushed, view, fetching, req, dropped>>
        /\ mapMounted' \in {mapMounted, TRUE} /\ socket' \in {socket, "connecting", "joined", "refused"}
    BY <1>2 DEF P!useSocketEvent, P!mountMap, P!handleConnection, P!getSocket
  <2>2. FlagsOK(ready, mapMounted', socket', pushed, dropped)
    BY <1>0, <2>1 DEF FlagsOK
  <2> QED BY <1>0, <2>1, <2>2 DEF PageParts
<1>3. CASE P!onOrderUpdated
  <2>1. UNCHANGED <<status, pays, rated, claim, ready, socket, mapMounted, view, req, dropped>> /\ pushed' = FALSE
    BY <1>3 DEF P!onOrderUpdated
  <2>2. fetching' = P!Restarted({q \in P!Queries : P!enabled(q)})
    BY <1>3 DEF P!onOrderUpdated, P!Invalidated
  <2>3. (\E q \in P!Queries : q \in {p \in P!Queries : P!enabled(p)}) => ready
    BY DEF P!enabled
  <2>4. QueriesOK(view, fetching', Len(pays), ready)
    BY <1>0, <2>2, <2>3, FetchesRestart
  <2>5. FlagsOK(ready, mapMounted, socket, pushed', dropped)
    BY <1>0, <2>1 DEF FlagsOK
  <2> QED BY <1>0, <2>1, <2>4, <2>5 DEF PageParts
<1>4. ASSUME NEW to \in P!OrderStatus, P!othersMove(to) PROVE PageParts'
  <2>1. /\ UNCHANGED <<pays, rated, claim, ready, socket, mapMounted, view, fetching, req, dropped>>
        /\ status' = to /\ pushed' \in BOOLEAN
    BY <1>4 DEF P!othersMove, P!emitOrderUpdated
  <2>2. ServerOK(status', pays, rated, claim) /\ FlagsOK(ready, mapMounted, socket, pushed', dropped)
    BY <1>0, <2>1 DEF ServerOK, FlagsOK
  <2> QED BY <1>0, <2>1, <2>2 DEF PageParts
<1> QED BY <1>1, <1>2, <1>3, <1>4

\* The queries: asked for, read, shown, failed, asked for again.
LEMMA QueriesKeep ==
  ASSUME PageParts, \/ P!refetch \/ \E q \in P!Queries : P!Query(q) \/ P!fetchFails(q)
  PROVE  PageParts'
<1>0. /\ ServerOK(status, pays, rated, claim) /\ QueriesOK(view, fetching, Len(pays), ready)
      /\ ClicksOK(req, Len(pays), ready) /\ FlagsOK(ready, mapMounted, socket, pushed, dropped)
  BY DEF PageParts
<1> USE DEF P!server, P!page
<1>1. ASSUME NEW Q, UNCHANGED <<status, pays, rated, claim, ready, socket, pushed, mapMounted, view, req, dropped>>,
             fetching' = P!Restarted(Q), ready
      PROVE  PageParts'
  <2>1. QueriesOK(view, fetching', Len(pays), ready)
    BY <1>0, <1>1, FetchesRestart
  <2> QED BY <1>0, <1>1, <2>1 DEF PageParts
<1>2. CASE P!refetch
  <2>1. ready
    BY <1>2, PageShape DEF P!refetch, P!Queries
  <2> QED BY <1>1, <1>2, <2>1 DEF P!refetch
<1>3. ASSUME NEW q \in P!Queries, P!useQuery(q) PROVE PageParts'
  <2>1. ready
    BY <1>3 DEF P!useQuery, P!enabled
  <2> QED BY <1>1, <1>3, <2>1 DEF P!useQuery
<1>4. ASSUME NEW q \in P!Queries, P!serverReads(q) PROVE PageParts'
  <2>1. /\ fetching' = [fetching EXCEPT ![q] = [at |-> "answered", val |-> P!Server(q)]] /\ fetching[q].at = "sent"
        /\ UNCHANGED <<status, pays, rated, claim, ready, socket, pushed, mapMounted, view, req, dropped>>
    BY <1>4 DEF P!serverReads
  <2>2. P!Valid(q, P!Server(q)) /\ (q = "payments" => Len(P!Server(q)) <= Len(pays))
    <3>1. CASE q = "order"
      BY <1>0, <3>1 DEF P!Valid, P!Server, ServerOK
    <3>2. CASE q = "payments"
      BY <1>0, <3>2, PageShape DEF P!Valid, P!Server
    <3>3. CASE q = "review"
      BY <1>0, <3>3 DEF P!Valid, P!Server, ServerOK
    <3>4. CASE q = "claim"
      BY <1>0, <3>4 DEF P!Valid, P!Server, ServerOK
    <3> QED BY <3>1, <3>2, <3>3, <3>4 DEF P!Queries
  <2>3. ready
    BY <2>1, PageShape
  <2>4. QueriesOK(view, [fetching EXCEPT ![q] = [at |-> "answered", val |-> P!Server(q)]], Len(pays), ready)
    BY <1>0, <2>2, <2>3, FetchPut
  <2> QED BY <1>0, <2>1, <2>4 DEF PageParts
<1>5. ASSUME NEW q \in P!Queries, P!fetched(q) PROVE PageParts'
  <2>1. /\ view' = [view EXCEPT ![q] = fetching[q].val] /\ fetching[q].at # "idle"
        /\ fetching' = [fetching EXCEPT ![q] = [at |-> "idle", val |-> None]]
        /\ UNCHANGED <<status, pays, rated, claim, ready, socket, pushed, mapMounted, req, dropped>>
    BY <1>5 DEF P!fetched, P!NoFetch
  <2>2. QueriesOK(view', fetching, Len(pays), ready)
    BY <1>0, <2>1, FetchShown
  <2>3. QueriesOK(view', fetching', Len(pays), ready)
    BY <2>1, <2>2, FetchPut
  <2> QED BY <1>0, <2>1, <2>3 DEF PageParts
<1>6. ASSUME NEW q \in P!Queries, P!fetchFails(q) PROVE PageParts'
  <2>1. /\ fetching' = [fetching EXCEPT ![q] = [at |-> "error", val |-> None]] /\ fetching[q].at # "idle"
        /\ dropped < MaxLost /\ dropped' = dropped + 1
        /\ UNCHANGED <<status, pays, rated, claim, ready, socket, pushed, mapMounted, view, req>>
    BY <1>6 DEF P!fetchFails
  <2>2. ready
    BY <2>1, PageShape
  <2>3. QueriesOK(view, fetching', Len(pays), ready)
    BY <1>0, <2>1, <2>2, FetchPut
  <2>4. FlagsOK(ready, mapMounted, socket, pushed, dropped')
    BY <1>0, <2>1, PageShape DEF FlagsOK
  <2> QED BY <1>0, <2>1, <2>3, <2>4 DEF PageParts
<1> QED BY <1>2, <1>3, <1>4, <1>5, <1>6 DEF P!Query

\* The buttons, and the answers that are lost or shown.
LEMMA ClicksKeep ==
  ASSUME PageParts, NEW r \in Requests,
         P!handled(r) \/ P!answerLost(r) \/ (\E b \in P!Buttons : P!click(r, b))
  PROVE  PageParts'
<1>0. /\ ServerOK(status, pays, rated, claim) /\ QueriesOK(view, fetching, Len(pays), ready)
      /\ ClicksOK(req, Len(pays), ready) /\ FlagsOK(ready, mapMounted, socket, pushed, dropped)
  BY DEF PageParts
<1>1. req[r] \in ClickStates
  BY PageShape
<1> USE DEF P!server, P!page
<1>2. ASSUME NEW b \in P!Buttons, P!click(r, b) PROVE PageParts'
  <2> DEFINE c == [button |-> b, at |-> "sent"]
  <2>1. /\ req' = [req EXCEPT ![r] = c]
        /\ UNCHANGED <<status, pays, rated, claim, ready, socket, pushed, mapMounted, view, fetching, dropped>>
        /\ b = "pay" => Len(pays) < MaxPayments /\ \A s \in Requests : req[s].button # b
    BY <1>2 DEF P!click, P!DisabledWhileLoading
  <2>2. ready
    <3>1. view["order"] # None /\ "order" \in P!Queries
      BY <1>2 DEF P!click, P!offered, P!shown, P!Queries
    <3> QED BY <3>1, PageShape
  <2>3. c \in ClickStates /\ c.at = "sent" /\ c.button = b
    BY DEF ClickStates
  <2> HIDE DEF c
  <2>4. ClicksOK(req', Len(pays), ready)
    BY <1>0, <2>1, <2>2, <2>3, ClickPut
  <2> QED BY <1>0, <2>1, <2>4 DEF PageParts
<1>3. CASE P!answerLost(r)
  <2> DEFINE c == [req[r] EXCEPT !.at = "lost"]
  <2>1. /\ req' = [req EXCEPT ![r] = c] /\ req[r].at # "idle" /\ dropped < MaxLost /\ dropped' = dropped + 1
        /\ UNCHANGED <<status, pays, rated, claim, ready, socket, pushed, mapMounted, view, fetching>>
    BY <1>3 DEF P!answerLost, P!Answer
  <2>2. c \in ClickStates /\ c.at = "lost" /\ c.button = req[r].button
    BY <1>1 DEF ClickStates
  <2> HIDE DEF c
  <2>3. c.button = "pay" => \A s \in Requests : s # r => req[s].button # "pay"
    BY <1>0, <2>2 DEF ClicksOK
  <2>4. ClicksOK(req', Len(pays), ready)
    BY <1>0, <2>1, <2>2, <2>3, PageShape, ClickPut
  <2>5. FlagsOK(ready, mapMounted, socket, pushed, dropped')
    BY <1>0, <2>1, PageShape DEF FlagsOK
  <2> QED BY <1>0, <2>1, <2>4, <2>5 DEF PageParts
<1>4. CASE P!handled(r)
  <2> DEFINE c == P!IdleRequest
  <2>1. /\ req' = [req EXCEPT ![r] = c] /\ req[r].at # "idle"
        /\ UNCHANGED <<status, pays, rated, claim, ready, socket, pushed, mapMounted, view, dropped>>
    BY <1>4 DEF P!handled
  <2>2. c \in ClickStates /\ c.at = "idle" /\ c.button = None
    BY DEF ClickStates, P!IdleRequest
  <2>3. None # "pay"
    BY PageShape DEF P!Buttons
  <2>4. ready
    BY <2>1, PageShape
  <2> HIDE DEF c
  <2>5. ClicksOK(req', Len(pays), ready)
    BY <1>0, <2>1, <2>2, <2>3, ClickPut
  <2>6. fetching' = fetching \/ \E Q : fetching' = P!Restarted(Q)
    BY <1>4 DEF P!handled, P!Invalidated
  <2>7. QueriesOK(view, fetching', Len(pays), ready)
    BY <1>0, <2>4, <2>6, FetchesRestart
  <2> QED BY <1>0, <2>1, <2>5, <2>7 DEF PageParts
<1> QED BY <1>2, <1>3, <1>4

\* The server's lists of payments: one more, or the newest refunded.
LEMMA PaymentsGrow ==
  ASSUME NEW ps \in Seq(P!PaymentStatus), NEW p \in P!PaymentStatus
  PROVE  /\ <<p>> \o ps \in Seq(P!PaymentStatus) /\ Len(<<p>> \o ps) = Len(ps) + 1
         /\ \A i \in 2..(Len(ps) + 1) : i - 1 \in 1..Len(ps) /\ (<<p>> \o ps)[i] = ps[i - 1]
OBVIOUS

\* The services accept a click, or refuse it.
LEMMA ServeKeepsPage ==
  ASSUME PageParts, NEW r \in Requests, P!serve(r)
  PROVE  PageParts'
<1> DEFINE b == req[r].button
           n == Len(pays)
<1>0. /\ ServerOK(status, pays, rated, claim) /\ QueriesOK(view, fetching, n, ready)
      /\ ClicksOK(req, n, ready) /\ FlagsOK(ready, mapMounted, socket, pushed, dropped)
      /\ n \in Nat /\ n <= MaxPayments /\ MaxPayments \in Nat /\ pays \in Seq(P!PaymentStatus)
  BY PageShape DEF PageParts
<1>1. req[r] \in ClickStates /\ req \in [Requests -> ClickStates] /\ ready /\ req[r].at = "sent"
  <2>1. req[r].at = "sent"
    BY DEF P!serve
  <2> QED BY <2>1, PageShape
<1>2. UNCHANGED <<ready, socket, pushed, mapMounted, view, fetching, dropped>>
  BY DEF P!serve, P!page
<1>3. PICK a \in {"refused", "ok"} :
        /\ req' = [req EXCEPT ![r] = [req[r] EXCEPT !.at = a]]
        /\ a = "refused" => UNCHANGED <<status, pays, rated, claim>>
        /\ a = "ok" => /\ P!accepts(b)
                       /\ status' = CASE b = "cancel" -> "CANCELLED_BY_CUSTOMER"
                                      [] b = "confirm" -> "CLOSED" [] OTHER -> status
                       /\ IF b = "pay" THEN \E p \in {"SUCCEEDED", "FAILED"} : pays' = <<p>> \o pays
                                       ELSE pays' = pays
                       /\ rated' = (rated \/ b = "review")
                       /\ claim' = IF b = "claim" THEN "OPEN" ELSE claim
  BY DEF P!serve, P!Answer, P!server
<1> DEFINE c == [req[r] EXCEPT !.at = a]
<1>4. c \in ClickStates /\ c.at = a /\ c.button = b
  BY <1>1 DEF ClickStates
<1>5. req' = [req EXCEPT ![r] = c]
  BY <1>3
<1> HIDE DEF c
<1>6. c.button = "pay" => \A s \in Requests : s # r => req[s].button # "pay"
  BY <1>0, <1>4 DEF ClicksOK
<1>7. ClicksOK(req', n, ready)
  BY <1>0, <1>1, <1>4, <1>5, <1>6, ClickPut
<1>8. CASE a = "refused"
  BY <1>0, <1>2, <1>3, <1>7, <1>8 DEF PageParts
<1>9. CASE a = "ok" /\ b = "pay"
  <2>1. PICK p \in {"SUCCEEDED", "FAILED"} : pays' = <<p>> \o pays
    BY <1>3, <1>9
  <2>2. p \in P!PaymentStatus
    BY <2>1 DEF P!PaymentStatus, P!ActivePayments
  <2>3. /\ pays' \in Seq(P!PaymentStatus) /\ Len(pays') = n + 1
        /\ \A i \in 2..(n + 1) : i - 1 \in 1..n /\ pays'[i] = pays[i - 1]
    BY <1>0, <2>1, <2>2, PaymentsGrow
  <2>4. \A i \in 1..n : pays[i] \notin P!ActivePayments
    <3>1. \A i \in DOMAIN pays : pays[i] \notin P!ActivePayments
      BY <1>3, <1>9 DEF P!accepts
    <3> QED BY <1>0, <3>1
  <2>5. n < MaxPayments
    BY <1>0, <1>1, <1>9 DEF ClicksOK
  <2>6. ServerOK(status', pays', rated', claim')
    <3>1. status' = status /\ claim' = claim /\ rated' \in BOOLEAN
      BY <1>3, <1>9
    <3>2. \A i \in 2..Len(pays') : pays'[i] \notin P!ActivePayments
      BY <2>3, <2>4
    <3>3. Len(pays') <= MaxPayments
      BY <1>0, <2>3, <2>5
    <3> QED BY <1>0, <2>3, <3>1, <3>2, <3>3 DEF ServerOK
  <2>7. QueriesOK(view, fetching, n + 1, ready)
    BY <1>0, QueriesStay
  <2>8. ClicksOK(req', n + 1, ready)
    <3>1. req' \in [Requests -> ClickStates] /\ req'[r] = c /\ \A s \in Requests : s # r => req'[s] = req[s]
      BY <1>1, <1>4, <1>5
    <3>2. \A s \in Requests : req'[s].button = "pay" => s = r
      BY <1>4, <1>6, <1>9, <3>1
    <3>3. req'[r].at # "sent"
      BY <1>4, <1>9, <3>1
    <3> QED BY <1>1, <3>1, <3>2, <3>3 DEF ClicksOK
  <2> QED BY <1>0, <1>2, <2>3, <2>6, <2>7, <2>8 DEF PageParts
<1>10. CASE a = "ok" /\ b # "pay"
  <2>1. pays' = pays /\ rated' \in BOOLEAN /\ claim' \in {"OPEN", claim}
        /\ status' \in {status, "CANCELLED_BY_CUSTOMER", "CLOSED"}
    BY <1>3, <1>10
  <2>2. ServerOK(status', pays', rated', claim')
    BY <1>0, <2>1 DEF ServerOK, P!OrderStatus
  <2> QED BY <1>0, <1>2, <1>7, <2>1, <2>2 DEF PageParts
<1> QED BY <1>3, <1>8, <1>9, <1>10

\* The administrator refunds the newest payment or decides the claim.
LEMMA AdminKeepsPage ==
  ASSUME PageParts, P!adminActs
  PROVE  PageParts'
<1>0. /\ ServerOK(status, pays, rated, claim) /\ QueriesOK(view, fetching, Len(pays), ready)
      /\ ClicksOK(req, Len(pays), ready) /\ FlagsOK(ready, mapMounted, socket, pushed, dropped)
      /\ pays \in Seq(P!PaymentStatus) /\ Len(pays) \in Nat
  BY PageShape DEF PageParts
<1>1. UNCHANGED <<status, rated, ready, socket, pushed, mapMounted, view, fetching, req, dropped>>
  BY DEF P!adminActs, P!page
<1>2. CASE pays # <<>> /\ pays' = [pays EXCEPT ![1] = "REFUNDED"] /\ claim' = claim
  <2>1. "REFUNDED" \in P!PaymentStatus
    BY DEF P!PaymentStatus
  <2>2. /\ pays' \in Seq(P!PaymentStatus) /\ Len(pays') = Len(pays)
        /\ \A i \in 2..Len(pays) : pays'[i] = pays[i]
    BY <1>0, <1>2, <2>1
  <2>3. ServerOK(status, pays', rated, claim)
    BY <1>0, <2>2 DEF ServerOK
  <2> QED BY <1>0, <1>1, <1>2, <2>2, <2>3 DEF PageParts
<1>3. CASE claim' = "DECIDED" /\ pays' = pays
  <2>1. ServerOK(status, pays, rated, claim')
    BY <1>0, <1>3 DEF ServerOK
  <2> QED BY <1>0, <1>1, <1>3, <2>1 DEF PageParts
<1> QED BY <1>2, <1>3 DEF P!adminActs, P!paid

\* The page opens with nothing cached, fetched or clicked.
LEMMA OrderPageStarts == P!Init => OrderPageOK
<1> SUFFICES ASSUME P!Init PROVE PageParts
  BY PageIsParts
<1>0. /\ StartStatuses \subseteq P!OrderStatus /\ Navigated \in BOOLEAN /\ MaxPayments \in Nat /\ MaxLost \in Nat
      /\ None \notin P!Buttons
  BY FormsAssumption DEF P!PageAssumption
<1>1. /\ status \in StartStatuses /\ pays = << >> /\ rated = FALSE /\ claim = "none"
      /\ ready = Navigated /\ mapMounted = FALSE /\ socket \in {"joined", "off"} /\ pushed = FALSE /\ dropped = 0
      /\ view = [q \in P!Queries |-> None] /\ fetching = [q \in P!Queries |-> [at |-> "idle", val |-> None]]
      /\ req = [r \in Requests |-> [button |-> None, at |-> "idle"]]
  BY DEF P!Init, P!NoFetch, P!IdleRequest
<1>2. Len(pays) = 0 /\ pays \in Seq(P!PaymentStatus)
  BY <1>1
<1>3. ServerOK(status, pays, rated, claim)
  <2>1. status \in P!OrderStatus /\ rated \in BOOLEAN /\ claim \in {"none", "OPEN", "DECIDED"}
    BY <1>0, <1>1
  <2>2. Len(pays) <= MaxPayments /\ \A i \in 2..Len(pays) : FALSE
    BY <1>0, <1>2
  <2> QED BY <1>2, <2>1, <2>2 DEF ServerOK
<1>4. QueriesOK(view, fetching, Len(pays), ready)
  BY <1>1 DEF QueriesOK, P!Queries
<1>5. ClicksOK(req, Len(pays), ready)
  BY <1>0, <1>1 DEF ClicksOK, ClickStates, P!Buttons
<1>6. FlagsOK(ready, mapMounted, socket, pushed, dropped)
  <2>1. ready \in BOOLEAN /\ mapMounted \in BOOLEAN /\ pushed \in BOOLEAN
    BY <1>0, <1>1
  <2>2. dropped \in 0..MaxLost
    BY <1>0, <1>1
  <2> QED BY <1>1, <2>1, <2>2 DEF FlagsOK
<1> QED BY <1>3, <1>4, <1>5, <1>6 DEF PageParts

\* Every step of the page keeps the invariant.
LEMMA OrderPageKeeps == OrderPageOK /\ P!Next => OrderPageOK'
<1>1. PageParts /\ P!Next => PageParts'
  BY SocketKeeps, QueriesKeep, ClicksKeep, ServeKeepsPage, AdminKeepsPage DEF P!Next, P!Browser, P!Request
<1> QED BY <1>1, PageIsParts, PTL

\* A step elsewhere does not touch it.
LEMMA OrderPageRests ==
  ASSUME OrderPageOK, UNCHANGED pageVars
  PROVE  OrderPageOK'
<1>1. PageParts
  BY PageIsParts
<1>2. PageParts'
  BY <1>1 DEF PageParts, pageVars
<1> QED BY <1>2, PageIsParts, PTL

\* What is offered on a current view is accepted.
LEMMA OrderPageFollows ==
  ASSUME OrderPageOK
  PROVE  FreshOffersAccepted
<1> SUFFICES ASSUME NEW b \in P!Buttons \ {"claim"}, P!offered(b),
                    \A q \in P!Queries : P!enabled(q) => view[q] = P!Server(q)
             PROVE  P!accepts(b)
  BY DEF FreshOffersAccepted, P!FreshOffersAccepted
<1>0. PageParts
  BY PageIsParts
<1>1. ready /\ P!shown
  <2>1. P!shown /\ view["order"] # None /\ "order" \in P!Queries
    BY DEF P!offered, P!shown, P!Queries
  <2> QED BY <1>0, <2>1, PageShape
<1>2. view["order"] = status
  BY <1>1 DEF P!enabled, P!Queries, P!Server
<1>3. CASE b = "cancel"
  BY <1>2, <1>3 DEF P!offered, P!offersCancel, P!CANCELABLE, P!accepts, P!canTransition, P!TRANSITIONS
<1>4. CASE b = "confirm"
  BY <1>2, <1>4 DEF P!offered, P!offersConfirm, P!accepts, P!canTransition, P!TRANSITIONS
<1>5. CASE b = "pay"
  <2>1. status \in P!PAYABLE_STATUSES /\ P!latestPayment \in {"none", "FAILED"}
    BY <1>2, <1>5 DEF P!offered, P!offersPay
  <2>2. view["payments"] = pays
    BY <1>1, <1>2, <2>1 DEF P!enabled, P!Queries, P!Server
  <2>3. /\ pays \in Seq(P!PaymentStatus) /\ Len(pays) \in Nat /\ None \notin Seq(P!PaymentStatus)
        /\ \A i \in 2..Len(pays) : pays[i] \notin P!ActivePayments
    BY <1>0, PageShape, FormsAssumption DEF PageParts, ServerOK, P!PageAssumption
  <2>4. CASE pays = << >>
    <3>1. \A i \in DOMAIN pays : FALSE
      BY <2>4
    <3> QED BY <1>5, <2>1, <3>1 DEF P!accepts
  <2>5. CASE pays # << >>
    <3>1. Head(pays) = pays[1] /\ DOMAIN pays = 1..Len(pays) /\ pays[1] \in P!PaymentStatus
      BY <2>3, <2>5
    <3>2. pays # None
      BY <2>3
    <3>3. pays[1] = "FAILED"
      <4>1. P!latestPayment = Head(pays)
        BY <2>2, <2>5, <3>2 DEF P!latestPayment
      <4> QED BY <2>1, <3>1, <4>1 DEF P!PaymentStatus, P!ActivePayments
    <3>4. \A i \in 1..Len(pays) : pays[i] \notin P!ActivePayments
      BY <2>3, <3>3 DEF P!ActivePayments
    <3> QED BY <1>5, <2>1, <3>1, <3>4 DEF P!accepts
  <2> QED BY <2>4, <2>5
<1>6. CASE b = "review"
  <2>1. status = "CLOSED" /\ view["review"] # TRUE
    BY <1>2, <1>6 DEF P!offered, P!offersReview
  <2>2. view["review"] = rated
    BY <1>1, <1>2, <2>1 DEF P!enabled, P!Queries, P!Server
  <2>3. ~rated
    BY <2>1, <2>2
  <2> QED BY <1>6, <2>1, <2>3 DEF P!accepts
<1> QED BY <1>3, <1>4, <1>5, <1>6 DEF P!Buttons

-----------------------------------------------------------------------------
(* Side by side.                                                           *)

FormsOK == WizardOK /\ OnboardingOK /\ SessionOK /\ ListsOK /\ TrackingOK /\ OrderPageOK

\* The components start together.
LEMMA FormsStart == Init => FormsOK
BY FormsAssumption, WizardStarts, OnboardingStarts, SessionStarts, ListsStart, TrackingStarts, OrderPageStarts
   DEF Init, FormsOK

\* A step is one component's, and the others rest; or it is a stutter.
LEMMA FormsStep == FormsOK /\ [Next]_vars => FormsOK'
<1> SUFFICES ASSUME FormsOK, [Next]_vars PROVE FormsOK'
  OBVIOUS
<1>1. WizardOK'
  <2>1. CASE W!Next
    BY <2>1, FormsAssumption, WizardKeeps DEF FormsOK
  <2>2. CASE UNCHANGED wizardVars
    BY <2>2, WizardRests DEF FormsOK
  <2> QED BY <2>1, <2>2 DEF Next, vars, WizardStep, OnboardingStep, SessionStep, ListStep, MapStep, PageStep
<1>2. OnboardingOK'
  <2>1. CASE O!Next
    BY <2>1, FormsAssumption, OnboardingKeeps DEF FormsOK
  <2>2. CASE UNCHANGED onboardingVars
    BY <2>2, OnboardingRests DEF FormsOK
  <2> QED BY <2>1, <2>2 DEF Next, vars, WizardStep, OnboardingStep, SessionStep, ListStep, MapStep, PageStep
<1>3. SessionOK'
  <2>1. CASE S!Next
    BY <2>1, FormsAssumption, SessionKeeps DEF FormsOK
  <2>2. CASE UNCHANGED sessionVars
    BY <2>2, SessionRests DEF FormsOK
  <2> QED BY <2>1, <2>2 DEF Next, vars, WizardStep, OnboardingStep, SessionStep, ListStep, MapStep, PageStep
<1>4. ListsOK'
  <2>1. CASE R!Next
    BY <2>1, FormsAssumption, ListsKeep DEF FormsOK
  <2>2. CASE UNCHANGED listVars
    BY <2>2, ListsRest DEF FormsOK
  <2> QED BY <2>1, <2>2 DEF Next, vars, WizardStep, OnboardingStep, SessionStep, ListStep, MapStep, PageStep
<1>5. TrackingOK'
  <2>1. CASE T!Next
    BY <2>1, FormsAssumption, TrackingKeeps DEF FormsOK
  <2>2. CASE UNCHANGED mapVars
    BY <2>2, TrackingRests DEF FormsOK
  <2> QED BY <2>1, <2>2 DEF Next, vars, WizardStep, OnboardingStep, SessionStep, ListStep, MapStep, PageStep
<1>6. OrderPageOK'
  <2>1. CASE P!Next
    BY <2>1, OrderPageKeeps DEF FormsOK
  <2>2. CASE UNCHANGED pageVars
    BY <2>2, OrderPageRests DEF FormsOK
  <2> QED BY <2>1, <2>2 DEF Next, vars, WizardStep, OnboardingStep, SessionStep, ListStep, MapStep, PageStep
<1> QED BY <1>1, <1>2, <1>3, <1>4, <1>5, <1>6 DEF FormsOK

\* Nobody is turned away in any step.
LEMMA TurnedAwayStep == FormsOK /\ [Next]_vars =>
  [loads' = loads => \A t \in {"tab"} :
     tab[t].page \in S!Private /\ tab'[t].page = "login" /\ entry[t].kind # "logout"
       => ~(tab[t].had /\ tab[t].clean)]_(S!vars)
<1> SUFFICES ASSUME FormsOK, [Next]_vars, S!vars' # S!vars, loads' = loads, tab["tab"].page \in S!Private,
                    tab'["tab"].page = "login", entry["tab"].kind # "logout"
             PROVE  ~(tab["tab"].had /\ tab["tab"].clean)
  OBVIOUS
<1>1. ~UNCHANGED sessionVars
  BY DEF sessionVars, S!vars
<1>2. S!Next
  BY <1>1 DEF Next, vars, WizardStep, OnboardingStep, SessionStep, ListStep, MapStep, PageStep
<1> QED BY <1>2, FormsAssumption, TurnedAwayRightly DEF FormsOK

\* Every page and every endpoint behind it keeps the types of its state.
THEOREM FormsTypes == Spec => []TypesOK
<1>1. FormsOK => TypesOK
  BY DEF FormsOK, WizardOK, OnboardingOK, SessionOK, ListsOK, TrackingOK, OrderPageOK, TypesOK
<1> QED BY <1>1, FormsStart, FormsStep, PTL DEF Spec

\* Onboarding (submit, decide, addMasterMedia): the master's status is that of
\* his latest request, one request at most is open and complete, and a media
\* row has its file, for any administrators, submissions and uploads at once.
THEOREM OnboardingConsistentHolds == Spec => []OnboardingConsistent
<1>1. FormsOK => OnboardingConsistent
  BY FormsAssumption, OnboardingFollows DEF FormsOK
<1> QED BY <1>1, FormsStart, FormsStep, PTL DEF Spec

\* The session (SessionBootstrap, the auth pages): at rest the cookie is that
\* of the user in memory, however often it was rotated and whatever was closed,
\* reloaded or signed out meanwhile.
THEOREM SessionKeptHolds == Spec => []SessionKept
<1>1. FormsOK => SessionKept
  BY FormsAssumption, CookieFollows DEF FormsOK, SessionKept
<1> QED BY <1>1, FormsStart, FormsStep, PTL DEF Spec

\* The restore (SessionBootstrap, the auth controller, useRequireAuth): a private
\* page loaded with a live session in the cookie does not turn its user away,
\* unless an earlier page's call was on its way at the load or the refresh was
\* lost.
THEOREM NobodyTurnedAwayHolds == Spec => NobodyTurnedAway
<1> QED BY TurnedAwayStep, FormsStart, FormsStep, PTL DEF Spec, NobodyTurnedAway, S!NobodyTurnedAway

\* The lists (findMany, useQuery): page after page a reader gets rows newest
\* first and none twice, however long the table and the pages and whatever is
\* added meanwhile; a page shows rows of the owner its filter names.
THEOREM ListsConsistentHolds == Spec => []ListsConsistent
<1>1. FormsOK => ListsConsistent
  BY FormsAssumption, ListsFollow DEF FormsOK
<1> QED BY <1>1, FormsStart, FormsStep, PTL DEF Spec

\* The live map (the effects of LiveTrackingMap): whatever jobs a page shows one
\* after the other, each tracked one gets a map in the box on screen, and no
\* browser keeps more maps alive than it has mounted components.
THEOREM MapFollowsJobsHolds == Spec => []MapFollowsJobs
<1>1. FormsOK => MapFollowsJobs
  BY TrackingFollows DEF FormsOK
<1> QED BY <1>1, FormsStart, FormsStep, PTL DEF Spec

\* The page of an order (page.tsx against the orders, payments and reviews
\* services): for any number of clicks and payments, on a network that loses
\* what it likes, a button shown on a current view is one the server accepts.
\* To pay is the hard one: it is offered when the newest payment failed, and
\* accepted when none is active.
THEOREM FreshOffersAcceptedHolds == Spec => []FreshOffersAccepted
<1>1. FormsOK => FreshOffersAccepted
  BY OrderPageFollows DEF FormsOK
<1> QED BY <1>1, FormsStart, FormsStep, PTL DEF Spec
=============================================================================
