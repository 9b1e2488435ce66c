----------------------------- MODULE Guarantee -----------------------------
(***************************************************************************)
(* Guarantee claims: GuaranteeService, statement by statement, the         *)
(* administrators' page of open claims, and                                *)
(* AdminController.decideGuaranteeClaim around the decision.  The orders   *)
(* are closed; an order that was paid for has one SUCCEEDED payment, which *)
(* an administrator may refund at any time.  Their master is verified: he  *)
(* was when dispatch chose him, and no operation takes VERIFIED back.      *)
(***************************************************************************)
EXTENDS Naturals, Sequences, FiniteSets

CONSTANTS
  Orders, Admins, None,
  Filings, Decisions,  \* requests that may be in flight: the customer's, the administrators'
  GuaranteeDays,       \* how long the documents say the guarantee lasts
  MaxDays,             \* bound on the days after completion
  MaxFailures          \* bound on handlers broken off

ASSUME GuaranteeAssumption ==
  /\ None \notin Orders \cup {"OPEN", "APPROVED", "REJECTED"}
  /\ None \notin [day : Nat, covered : BOOLEAN]
  /\ GuaranteeDays \in Nat /\ MaxDays \in Nat /\ MaxFailures \in Nat

VARIABLES
  paid,      \* the order has a SUCCEEDED payment
  days,      \* since the orders were completed
  claim,     \* guarantee_claims: status, or None
  filed,     \* when the claim was created: the day, and whether it was covered
  notes,     \* GUARANTEE_CLAIM_DECIDED notifications of each claim
  audit,     \* audit_log rows of each claim
  items,     \* each administrator's cached ['admin', 'guarantee-claims']
  last,      \* the decision each page's mutation hook has in its variables
  filing,    \* fileClaim requests
  call,      \* decide requests
  failures

world == <<paid, days>>
table == <<claim, filed, notes, audit>>
vars == <<paid, days, claim, filed, notes, audit, items, last, filing, call, failures>>

Decided == {"APPROVED", "REJECTED"}
NoFiling == [at |-> "idle", o |-> None]
NoCall == [at |-> "idle", o |-> None, by |-> None, to |-> None, before |-> None]

\* Every variable keeps its type; a decision past its write is the claim's.
ClaimStatus == {"OPEN"} \cup Decided
CallStates == {"idle", "before", "read", "write", "notify", "audit", "ok", "refused"}
Calls == [at : CallStates, o : Orders \cup {None}, by : Admins \cup {None},
          to : Decided \cup {None}, before : ClaimStatus \cup {None}]
AuditRows == [by : Admins, before : ClaimStatus, after : Decided]
TypeOK ==
  /\ paid \in [Orders -> BOOLEAN] /\ days \in 0..MaxDays /\ failures \in 0..MaxFailures
  /\ claim \in [Orders -> ClaimStatus \cup {None}]
  /\ filed \in [Orders -> [day : Nat, covered : BOOLEAN] \cup {None}]
  /\ \A o \in Orders : claim[o] = None <=> filed[o] = None
  /\ notes \in [Orders -> Seq(Decided)]
  /\ audit \in [Orders -> Seq(AuditRows)]
  /\ items \in [Admins -> SUBSET Orders] /\ last \in [Admins -> Decisions \cup {None}]
  /\ filing \in [Filings -> [at : {"idle", "existing", "create"}, o : Orders \cup {None}]]
  /\ \A f \in Filings : filing[f].at # "idle" => filing[f].o \in Orders
  /\ call \in [Decisions -> Calls]
  /\ \A c \in Decisions : call[c].at \in {"notify", "audit", "ok"} => claim[call[c].o] = call[c].to

Init ==
  /\ paid \in [Orders -> BOOLEAN] /\ days = 0
  /\ claim = [o \in Orders |-> None] /\ filed = claim
  /\ notes = [o \in Orders |-> <<>>] /\ audit = notes
  /\ items = [a \in Admins |-> {}] /\ last = [a \in Admins |-> None]
  /\ filing = [c \in Filings |-> NoFiling] /\ call = [c \in Decisions |-> NoCall]
  /\ failures = 0

-----------------------------------------------------------------------------
(* Time and refunds.                                                       *)

dayPasses ==
  /\ days < MaxDays /\ days' = days + 1
  /\ UNCHANGED <<paid, table, items, last, filing, call, failures>>
refund(o) ==
  /\ paid[o] /\ paid' = [paid EXCEPT ![o] = FALSE]
  /\ UNCHANGED <<days, table, items, last, filing, call, failures>>

-----------------------------------------------------------------------------
(* fileClaim: the order with its master and payments, the existing claim,  *)
(* the insert; orderId is unique.                                          *)

eligible(o) == paid[o]

fileClaim(c, o) ==
  /\ filing[c] = NoFiling /\ eligible(o)
  /\ filing' = [filing EXCEPT ![c] = [at |-> "existing", o |-> o]]
  /\ UNCHANGED <<world, table, items, last, call, failures>>

findExisting(c) ==
  /\ filing[c].at = "existing"
  /\ filing' = [filing EXCEPT ![c] = IF claim[filing[c].o] = None THEN [@ EXCEPT !.at = "create"] ELSE NoFiling]
  /\ UNCHANGED <<world, table, items, last, call, failures>>

createClaim(c) ==
  LET o == filing[c].o IN
  /\ filing[c].at = "create"
  /\ IF claim[o] # None THEN UNCHANGED <<claim, filed>>
     ELSE /\ claim' = [claim EXCEPT ![o] = "OPEN"]
          /\ filed' = [filed EXCEPT ![o] = [day |-> days, covered |-> eligible(o)]]
  /\ filing' = [filing EXCEPT ![c] = NoFiling]
  /\ UNCHANGED <<world, notes, audit, items, last, call, failures>>

-----------------------------------------------------------------------------
(* The administrators' page.                                               *)

listGuaranteeClaims(a) ==
  /\ items' = [items EXCEPT ![a] = {o \in Orders : claim[o] = "OPEN"}]
  /\ items' # items
  /\ UNCHANGED <<world, table, last, filing, call, failures>>

\* The buttons of a claim are disabled while the latest decision is about it;
\* a decision on another claim enables them again.
decidePending(a, o) == last[a] # None /\ call[last[a]].at # "idle" /\ call[last[a]].by = a /\ call[last[a]].o = o

decideMutation(a, o, to, c) ==
  /\ o \in items[a] /\ ~decidePending(a, o) /\ call[c] = NoCall
  /\ call' = [call EXCEPT ![c] = [at |-> "before", o |-> o, by |-> a, to |-> to, before |-> None]]
  /\ last' = [last EXCEPT ![a] = c]
  /\ UNCHANGED <<world, table, items, filing, failures>>

\* Success fetches the list again; a refusal shows a message and keeps it.
answered(c) ==
  /\ call[c].at \in {"ok", "refused"}
  /\ items' = IF call[c].at = "ok" THEN [items EXCEPT ![call[c].by] = {o \in Orders : claim[o] = "OPEN"}] ELSE items
  /\ call' = [call EXCEPT ![c] = NoCall]
  /\ UNCHANGED <<world, table, last, filing, failures>>

-----------------------------------------------------------------------------
(* decideGuaranteeClaim and decide.                                        *)

Goto(c, at) == call' = [call EXCEPT ![c] = [at |-> at, o |-> @.o, by |-> @.by, to |-> @.to, before |-> @.before]]

readBefore(c) ==
  /\ call[c].at = "before"
  /\ call' = [call EXCEPT ![c] = [at |-> "read", o |-> @.o, by |-> @.by, to |-> @.to, before |-> claim[@.o]]]
  /\ UNCHANGED <<world, table, items, last, filing, failures>>

decide(c) ==
  /\ call[c].at = "read"
  /\ Goto(c, IF claim[call[c].o] = "OPEN" THEN "write" ELSE "refused")
  /\ UNCHANGED <<world, table, items, last, filing, failures>>

\* The update by id alone.
updateManyUnguarded(c) ==
  /\ call[c].at = "write"
  /\ claim' = [claim EXCEPT ![call[c].o] = call[c].to]
  /\ Goto(c, "notify")
  /\ UNCHANGED <<world, filed, notes, audit, items, last, filing, failures>>

\* updateMany where the status is still the one read, always OPEN.
updateMany(c) ==
  LET o == call[c].o  ok == claim[o] = "OPEN" IN
  /\ call[c].at = "write"
  /\ claim' = IF ok THEN [claim EXCEPT ![o] = call[c].to] ELSE claim
  /\ Goto(c, IF ok THEN "notify" ELSE "refused")
  /\ UNCHANGED <<world, filed, notes, audit, items, last, filing, failures>>

notify(c) ==
  /\ call[c].at = "notify"
  /\ notes' = [notes EXCEPT ![call[c].o] = Append(@, call[c].to)]
  /\ Goto(c, "audit")
  /\ UNCHANGED <<world, claim, filed, audit, items, last, filing, failures>>

\* An audit of the row as it is after the decision.
recordAfter(c) ==
  LET o == call[c].o IN
  /\ call[c].at = "audit"
  /\ audit' = [audit EXCEPT ![o] = Append(@, [by |-> call[c].by, before |-> claim[o], after |-> call[c].to])]
  /\ Goto(c, "ok")
  /\ UNCHANGED <<world, claim, filed, notes, items, last, filing, failures>>

\* An audit nobody waits for and nobody writes.
recordForgotten(c) ==
  /\ call[c].at = "audit" /\ Goto(c, "ok")
  /\ UNCHANGED <<world, table, items, last, filing, failures>>

record(c) ==
  LET o == call[c].o IN
  /\ call[c].at = "audit"
  /\ audit' = [audit EXCEPT ![o] = Append(@, [by |-> call[c].by, before |-> call[c].before, after |-> call[c].to])]
  /\ Goto(c, "ok")
  /\ UNCHANGED <<world, claim, filed, notes, items, last, filing, failures>>

\* An exception or a dying process, at any await of the decision.
decideFails(c) ==
  /\ call[c].at \in {"before", "read", "write", "notify", "audit"} /\ failures < MaxFailures
  /\ failures' = failures + 1 /\ Goto(c, "refused")
  /\ UNCHANGED <<world, table, items, last, filing>>

-----------------------------------------------------------------------------
Step(c) == readBefore(c) \/ decide(c) \/ updateMany(c) \/ notify(c) \/ record(c)

Next ==
  \/ dayPasses
  \/ \E o \in Orders : refund(o) \/ \E c \in Filings : fileClaim(c, o)
  \/ \E c \in Filings : findExisting(c) \/ createClaim(c)
  \/ \E a \in Admins : \/ listGuaranteeClaims(a)
                       \/ \E o \in Orders, to \in Decided, c \in Decisions : decideMutation(a, o, to, c)
  \/ \E c \in Decisions : Step(c) \/ answered(c) \/ decideFails(c)

\* A request that was taken is carried on with.
Spec == Init /\ [][Next]_vars /\ \A c \in Decisions : WF_vars(Step(c))

-----------------------------------------------------------------------------
\* However many decisions of a claim are in flight, the customer is told of
\* one at most, and it is the one the claim has.
OneDecision == \A o \in Orders : Len(notes[o]) <= 1 /\ \A i \in 1..Len(notes[o]) : notes[o][i] = claim[o]

\* The audit trail tells what happened: an open claim was decided, once, the
\* way it stands; its `before` is read apart from the decision.
AuditTruthful ==
  \A o \in Orders : /\ Len(audit[o]) <= 1
                    /\ \A i \in 1..Len(audit[o]) : audit[o][i].before = "OPEN" /\ audit[o][i].after = claim[o]

\* Why both hold: a call past its write holds the only decision of its claim,
\* which was open all the time before.
CallOK(c) ==
  /\ call[c].at # "idle" => /\ call[c].o \in Orders /\ call[c].by \in Admins /\ call[c].to \in Decided
                            /\ claim[call[c].o] # None
  /\ call[c].at = "read" => call[c].before # None /\ (claim[call[c].o] = "OPEN" => call[c].before = "OPEN")
  /\ call[c].at \in {"write", "notify", "audit"} => call[c].before = "OPEN"
  /\ call[c].at = "notify" => notes[call[c].o] = <<>>
  /\ call[c].at \in {"notify", "audit"} => claim[call[c].o] = call[c].to /\ audit[call[c].o] = <<>>
OneHolder ==
  \A c, d \in Decisions : call[c].at \in {"notify", "audit"} /\ call[d].at \in {"notify", "audit"}
                            /\ call[c].o = call[d].o => c = d
RowsOK(o) ==
  /\ notes[o] # <<>> => claim[o] \in Decided /\ notes[o] = <<claim[o]>>
  /\ audit[o] # <<>> => /\ claim[o] \in Decided
                        /\ \E a \in Admins : audit[o] = <<[by |-> a, before |-> "OPEN", after |-> claim[o]]>>
DecisionInv ==
  /\ \A a \in Admins : \A o \in items[a] : claim[o] # None
  /\ \A c \in Decisions : CallOK(c)
  /\ OneHolder
  /\ \A o \in Orders : RowsOK(o)

\* Every decision comes to be in the audit log.
DecisionAudited == \A o \in Orders : claim[o] \in Decided ~> audit[o] # <<>>

\* A claim exists only for an order that was covered, that is paid for in
\* the app, when it was created.
CoveredWhenFiled == \A o \in Orders : filed[o] # None => filed[o].covered

\* A claim is filed within the guarantee period.
FiledInTime == \A o \in Orders : filed[o] # None => filed[o].day <= GuaranteeDays
=============================================================================
