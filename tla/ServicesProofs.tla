---------------------------- MODULE ServicesProofs ----------------------------
(***************************************************************************)
(* The theorems of the services, for the behaviours of MCServices: in its  *)
(* part, each service takes the steps it takes by itself, and in the other *)
(* parts it rests.  What the components' own proofs show of every step is  *)
(* used here for the instances MCServices makes of them; Guarantee, which  *)
(* MCServices extends, LoginGuard, Subscriptions and TrustScore are proved    *)
(* here.                                                                   *)
(***************************************************************************)
EXTENDS MCServices, SequenceTheorems, FiniteSetTheorems, TLAPS

-----------------------------------------------------------------------------
(* Guarantee claims, for any orders, administrators and requests in        *)
(* flight, any bounds and any failures: the types, and that a claim is     *)
(* decided, told and audited once.                                         *)

\* What Append makes of an empty sequence: notify and record write first rows.
LEMMA FirstRow == ASSUME NEW Rows, NEW e \in Rows PROVE Append(<<>>, e) = <<e>> /\ <<e>> \in Seq(Rows) /\ <<e>> # <<>> /\ Len(<<e>>) = 1
  OBVIOUS

\* The names a claim's status has are not the name of its absence.
LEMMA StatusNames == None \notin ClaimStatus /\ Decided \subseteq ClaimStatus /\ "OPEN" \in ClaimStatus /\ "OPEN" \notin Decided
  BY GuaranteeAssumption DEF ClaimStatus, Decided

USE DEF world, table

\* The first states have the types, and nothing decided.
LEMMA InitOK == Init => TypeOK /\ DecisionInv
<1> SUFFICES ASSUME Init PROVE TypeOK /\ DecisionInv OBVIOUS
<1>1. TypeOK
  BY GuaranteeAssumption, SMT DEF Init, TypeOK, NoFiling, NoCall, CallStates, Calls
<1>2. DecisionInv
  BY GuaranteeAssumption DEF Init, DecisionInv, CallOK, OneHolder, RowsOK, NoCall
<1> QED BY <1>1, <1>2

-----------------------------------------------------------------------------
(* Types.                                                                  *)

\* A step outside the decisions, and a click, keep the types.
LEMMA OutsideTypes ==
  ASSUME TypeOK, \/ dayPasses
                 \/ \E o \in Orders : refund(o) \/ \E f \in Filings : fileClaim(f, o)
                 \/ \E f \in Filings : findExisting(f)
                 \/ \E a \in Admins : listGuaranteeClaims(a)
  PROVE  TypeOK'
<1>1. ASSUME dayPasses PROVE TypeOK'
  BY <1>1, GuaranteeAssumption DEF TypeOK, dayPasses
<1>2. ASSUME NEW o \in Orders, refund(o) PROVE TypeOK'
  BY <1>2 DEF TypeOK, refund
<1>3. ASSUME NEW o \in Orders, NEW f \in Filings, fileClaim(f, o) PROVE TypeOK'
  BY <1>3 DEF TypeOK, fileClaim
<1>4. ASSUME NEW f \in Filings, findExisting(f) PROVE TypeOK'
  BY <1>4 DEF TypeOK, findExisting, NoFiling
<1>5. ASSUME NEW a \in Admins, listGuaranteeClaims(a) PROVE TypeOK'
  BY <1>5 DEF TypeOK, listGuaranteeClaims
<1> QED BY <1>1, <1>2, <1>3, <1>4, <1>5

\* A claim is created where there was none, so no decision has one to lose.
LEMMA CreateTypes == ASSUME TypeOK, DecisionInv, NEW f \in Filings, createClaim(f) PROVE TypeOK'
<1> DEFINE o == filing[f].o
<1>0. o \in Orders
  BY DEF TypeOK, createClaim
<1>1. CASE claim[o] # None
  BY <1>1 DEF TypeOK, createClaim, NoFiling
<1>2. CASE claim[o] = None
  <2> DEFINE r == [day |-> days, covered |-> eligible(o)]
  <2>1. claim' = [claim EXCEPT ![o] = "OPEN"] /\ filed' = [filed EXCEPT ![o] = r]
    BY <1>2 DEF createClaim
  <2>2. r \in [day : Nat, covered : BOOLEAN] /\ r # None
    BY <1>0, GuaranteeAssumption DEF TypeOK, eligible
  <2> HIDE DEF r, o
  <2>3. claim' \in [Orders -> ClaimStatus \cup {None}] /\ filed' \in [Orders -> [day : Nat, covered : BOOLEAN] \cup {None}]
    BY <2>1, <2>2, StatusNames DEF TypeOK
  <2>4. \A p \in Orders : claim'[p] = None <=> filed'[p] = None
    BY <1>0, <2>1, <2>2, StatusNames DEF TypeOK
  <2>5. \A c \in Decisions : call'[c].at \in {"notify", "audit", "ok"} => claim'[call'[c].o] = call'[c].to
    BY <1>0, <1>2, <2>1 DEF TypeOK, createClaim, DecisionInv, CallOK
  <2> QED BY <2>3, <2>4, <2>5 DEF TypeOK, createClaim, NoFiling
<1> QED BY <1>1, <1>2

\* A call that only moves to another state keeps the types.
LEMMA GotoTypes ==
  ASSUME TypeOK, NEW c \in Decisions, NEW place \in CallStates, Goto(c, place)
  PROVE  /\ call' \in [Decisions -> Calls]
         /\ \A d \in Decisions : /\ call'[d].at = (IF d = c THEN place ELSE call[d].at)
                                 /\ call'[d].o = call[d].o /\ call'[d].by = call[d].by
                                 /\ call'[d].to = call[d].to /\ call'[d].before = call[d].before
                                 /\ d # c => call'[d] = call[d]
  BY DEF TypeOK, Goto, Calls

\* The states of a call, one by one, and a move that leaves the claims alone.
LEMMA StateNames == /\ "write" \in CallStates /\ "refused" \in CallStates /\ "notify" \in CallStates
                    /\ "audit" \in CallStates /\ "ok" \in CallStates
  BY DEF CallStates
CallsTyped == /\ call \in [Decisions -> Calls]
              /\ \A c \in Decisions : call[c].at \in {"notify", "audit", "ok"} => claim[call[c].o] = call[c].to
LEMMA GotoCalls ==
  ASSUME TypeOK, NEW c \in Decisions, NEW place \in CallStates, Goto(c, place), claim' = claim,
         place \in {"notify", "audit", "ok"} => claim[call[c].o] = call[c].to
  PROVE  CallsTyped'
<1>1. \A d \in Decisions : call'[d].at \in {"notify", "audit", "ok"} => claim'[call'[d].o] = call'[d].to
  <2> SUFFICES ASSUME NEW d \in Decisions, call'[d].at \in {"notify", "audit", "ok"}
               PROVE  claim'[call'[d].o] = call'[d].to OBVIOUS
  <2>1. CASE d = c
    BY <2>1, GotoTypes
  <2>2. CASE d # c
    BY <2>2, GotoTypes DEF TypeOK
  <2> QED BY <2>1, <2>2
<1> QED BY <1>1, GotoTypes DEF CallsTyped

\* The steps of a decision keep the types; only updateMany changes a claim,
\* and no other call is done with a claim that is still open.
LEMMA DecisionTypes ==
  ASSUME TypeOK, DecisionInv, NEW c \in Decisions
  PROVE  Step(c) \/ answered(c) \/ decideFails(c) => TypeOK'
<1> USE DEF CallStates
<1>1. ASSUME readBefore(c) PROVE TypeOK'
  BY <1>1 DEF TypeOK, readBefore, DecisionInv, CallOK, Calls
<1>2. ASSUME decide(c) PROVE TypeOK'
  <2> DEFINE place == IF claim[call[c].o] = "OPEN" THEN "write" ELSE "refused"
  <2>1. Goto(c, place) /\ place \in CallStates /\ place \notin {"notify", "audit", "ok"}
    BY <1>2, StateNames DEF decide
  <2> HIDE DEF place
  <2>2. CallsTyped'
    BY <1>2, <2>1, GotoCalls DEF decide
  <2> QED BY <1>2, <2>2 DEF TypeOK, CallsTyped, decide
<1>3. ASSUME updateMany(c) PROVE TypeOK'
  <2> DEFINE o == call[c].o
             ok == claim[o] = "OPEN"
  <2>0. o \in Orders /\ call[c].to \in Decided
    BY <1>3 DEF updateMany, DecisionInv, CallOK
  <2>1. Goto(c, IF ok THEN "notify" ELSE "refused") /\ call[c].at = "write"
    BY <1>3 DEF updateMany
  <2>2. claim' = IF ok THEN [claim EXCEPT ![o] = call[c].to] ELSE claim
    BY <1>3 DEF updateMany
  <2>3. claim' \in [Orders -> ClaimStatus \cup {None}]
    BY <2>0, <2>2, StatusNames DEF TypeOK
  <2>4. \A p \in Orders : claim'[p] = None <=> filed'[p] = None
    BY <1>3, <2>0, <2>2, StatusNames DEF TypeOK, updateMany
  <2>5. \A d \in Decisions : call'[d].at \in {"notify", "audit", "ok"} => claim'[call'[d].o] = call'[d].to
    <3> SUFFICES ASSUME NEW d \in Decisions, call'[d].at \in {"notify", "audit", "ok"}
                 PROVE  claim'[call'[d].o] = call'[d].to OBVIOUS
    <3>1. CASE d = c
      BY <3>1, <2>0, <2>1, <2>2, GotoTypes DEF TypeOK
    <3>2. CASE d # c
      <4>1. call'[d] = call[d]
        BY <3>2, <2>1, GotoTypes
      <4>2. claim[call[d].o] = call[d].to /\ call[d].to \in Decided
        BY <4>1 DEF TypeOK, DecisionInv, CallOK
      <4>3. ok => call[d].o # o
        BY <4>2, StatusNames
      <4> QED BY <4>1, <4>2, <4>3, <2>0, <2>2 DEF TypeOK, DecisionInv, CallOK
    <3> QED BY <3>1, <3>2
  <2>6. call' \in [Decisions -> Calls]
    BY <2>1, GotoTypes
  <2> HIDE DEF o, ok
  <2> QED BY <1>3, <2>3, <2>4, <2>5, <2>6 DEF TypeOK, updateMany
<1>4. ASSUME notify(c) PROVE TypeOK'
  <2>1. call[c].to \in Decided /\ notes' \in [Orders -> Seq(Decided)]
    BY <1>4, AppendProperties DEF notify, TypeOK, DecisionInv, CallOK
  <2>2. CallsTyped'
    <3>1. Goto(c, "audit") /\ claim' = claim /\ claim[call[c].o] = call[c].to
      BY <1>4 DEF notify, TypeOK
    <3> QED BY <3>1, StateNames, GotoCalls
  <2> QED BY <1>4, <2>1, <2>2 DEF TypeOK, CallsTyped, notify
<1>5. ASSUME record(c) PROVE TypeOK'
  <2> DEFINE e == [by |-> call[c].by, before |-> call[c].before, after |-> call[c].to]
  <2>1. e \in AuditRows
    BY <1>5, StatusNames DEF record, DecisionInv, CallOK, AuditRows
  <2>2. audit' = [audit EXCEPT ![call[c].o] = Append(audit[call[c].o], e)]
    BY <1>5 DEF record
  <2>3. audit' \in [Orders -> Seq(AuditRows)]
    BY <1>5, <2>1, <2>2, AppendProperties DEF record, TypeOK, DecisionInv, CallOK
  <2>4. CallsTyped'
    <3>1. Goto(c, "ok") /\ claim' = claim /\ claim[call[c].o] = call[c].to
      BY <1>5 DEF record, TypeOK
    <3> QED BY <3>1, StateNames, GotoCalls
  <2> HIDE DEF e
  <2> QED BY <1>5, <2>3, <2>4 DEF TypeOK, CallsTyped, record
<1>6. ASSUME answered(c) PROVE TypeOK'
  BY <1>6 DEF TypeOK, answered, NoCall, Calls
<1>7. ASSUME decideFails(c) PROVE TypeOK'
  <2>1. failures' \in 0..MaxFailures
    BY <1>7, GuaranteeAssumption DEF TypeOK, decideFails
  <2>2. CallsTyped'
    <3>1. Goto(c, "refused") /\ claim' = claim
      BY <1>7 DEF decideFails
    <3> QED BY <3>1, StateNames, GotoCalls
  <2> QED BY <1>7, <2>1, <2>2 DEF TypeOK, CallsTyped, decideFails
<1> QED BY <1>1, <1>2, <1>3, <1>4, <1>5, <1>6, <1>7 DEF Step

\* A click starts a decision that holds nothing yet.
LEMMA ClickTypes ==
  ASSUME TypeOK, NEW a \in Admins, NEW o \in Orders, NEW to \in Decided, NEW c \in Decisions,
         decideMutation(a, o, to, c)
  PROVE  TypeOK'
BY DEF TypeOK, decideMutation, CallStates, Calls

\* Every step keeps the types.
LEMMA TypesKept == ASSUME TypeOK, DecisionInv, [Next]_vars PROVE TypeOK'
<1>1. CASE UNCHANGED vars
  BY <1>1 DEF TypeOK, vars
<1>2. CASE Next
  BY <1>2, OutsideTypes, CreateTypes, DecisionTypes, ClickTypes DEF Next
<1> QED BY <1>1, <1>2

-----------------------------------------------------------------------------
(* The decisions.                                                          *)

\* What does not touch claims, their records, lists and calls keeps it all.
LEMMA FrameInv == ASSUME DecisionInv, UNCHANGED <<claim, notes, audit, items, call>> PROVE DecisionInv'
  BY DEF DecisionInv, CallOK, OneHolder, RowsOK

\* A list shows claims that exist.
LEMMA ListInv == ASSUME TypeOK, DecisionInv, NEW a \in Admins, listGuaranteeClaims(a) PROVE DecisionInv'
<1>1. \A b \in Admins : \A o \in items'[b] : claim'[o] # None
  BY StatusNames DEF TypeOK, DecisionInv, listGuaranteeClaims
<1> QED BY <1>1 DEF DecisionInv, CallOK, OneHolder, RowsOK, listGuaranteeClaims

\* Nothing is known of a claim that does not exist.
LEMMA CreateInv == ASSUME TypeOK, DecisionInv, NEW f \in Filings, createClaim(f) PROVE DecisionInv'
<1> DEFINE o == filing[f].o
<1>1. CASE claim[o] # None
  BY <1>1, FrameInv DEF createClaim
<1>2. CASE claim[o] = None
  <2>1. o \in Orders /\ claim' = [claim EXCEPT ![o] = "OPEN"] /\ UNCHANGED <<notes, audit, items, call>>
    BY <1>2 DEF createClaim, TypeOK
  <2> HIDE DEF o
  <2>2. \A p \in Orders : claim'[p] = (IF p = o THEN "OPEN" ELSE claim[p])
    BY <2>1 DEF TypeOK
  <2>3. \A c \in Decisions : call[c].at # "idle" => call[c].o \in Orders /\ call[c].o # o
    BY <1>2 DEF DecisionInv, CallOK
  <2>4. \A a \in Admins : \A p \in items'[a] : claim'[p] # None
    BY <2>1, <2>2, StatusNames DEF DecisionInv, TypeOK
  <2>5. \A c \in Decisions : CallOK(c)'
    BY <2>1, <2>2, <2>3 DEF DecisionInv, CallOK
  <2>6. \A p \in Orders : RowsOK(p)'
    <3>1. notes[o] = <<>> /\ audit[o] = <<>>
      BY <1>2, <2>1, StatusNames DEF DecisionInv, RowsOK
    <3> SUFFICES ASSUME NEW p \in Orders PROVE RowsOK(p)' OBVIOUS
    <3>2. CASE p = o
      BY <3>1, <3>2, <2>1 DEF RowsOK
    <3>3. CASE p # o
      BY <3>3, <2>1, <2>2 DEF DecisionInv, RowsOK
    <3> QED BY <3>2, <3>3
  <2> QED BY <2>1, <2>4, <2>5, <2>6 DEF DecisionInv, OneHolder
<1> QED BY <1>1, <1>2

\* A click names a claim of the list.
LEMMA ClickInv ==
  ASSUME TypeOK, DecisionInv, NEW a \in Admins, NEW o \in Orders, NEW to \in Decided, NEW c \in Decisions,
         decideMutation(a, o, to, c)
  PROVE  DecisionInv'
<1>1. /\ call' = [call EXCEPT ![c] = [at |-> "before", o |-> o, by |-> a, to |-> to, before |-> None]]
      /\ claim[o] # None /\ UNCHANGED <<claim, notes, audit, items>>
  BY DEF decideMutation, DecisionInv
<1>2. \A d \in Decisions : CallOK(d)'
  BY <1>1 DEF TypeOK, DecisionInv, CallOK
<1>3. OneHolder'
  BY <1>1 DEF TypeOK, DecisionInv, OneHolder
<1> QED BY <1>1, <1>2, <1>3 DEF DecisionInv, RowsOK

\* A call that moves on without writing anything.
LEMMA MoveInv ==
  ASSUME TypeOK, DecisionInv, NEW c \in Decisions, NEW place \in CallStates, Goto(c, place), call[c].at # "idle",
         place \notin {"read", "notify", "audit"}, place = "write" => call[c].before = "OPEN",
         UNCHANGED <<claim, notes, audit, items>>
  PROVE  DecisionInv'
<1>1. \A d \in Decisions : CallOK(d)'
  <2> SUFFICES ASSUME NEW d \in Decisions PROVE CallOK(d)' OBVIOUS
  <2>1. CASE d = c
    BY <2>1, GotoTypes DEF DecisionInv, CallOK
  <2>2. CASE d # c
    BY <2>2, GotoTypes DEF DecisionInv, CallOK
  <2> QED BY <2>1, <2>2
<1>2. OneHolder'
  BY GotoTypes DEF DecisionInv, OneHolder
<1> QED BY <1>1, <1>2 DEF DecisionInv, RowsOK

\* An administrator's request reads the claim before and after it is decided.
LEMMA ReadInv == ASSUME TypeOK, DecisionInv, NEW c \in Decisions, readBefore(c) PROVE DecisionInv'
<1> DEFINE r == [at |-> "read", o |-> call[c].o, by |-> call[c].by, to |-> call[c].to, before |-> claim[call[c].o]]
<1>1. call' = [call EXCEPT ![c] = r] /\ UNCHANGED <<claim, notes, audit, items>>
  BY DEF readBefore
<1>2. call[c].o \in Orders /\ call[c].by \in Admins /\ call[c].to \in Decided /\ claim[call[c].o] # None
  BY DEF readBefore, DecisionInv, CallOK
<1>3. \A d \in Decisions : CallOK(d)'
  BY <1>1, <1>2 DEF TypeOK, DecisionInv, CallOK
<1>4. OneHolder'
  BY <1>1 DEF TypeOK, DecisionInv, OneHolder
<1> QED BY <1>1, <1>3, <1>4 DEF DecisionInv, RowsOK

\* What decide reads open was open before, too.
LEMMA DecideInv == ASSUME TypeOK, DecisionInv, NEW c \in Decisions, decide(c) PROVE DecisionInv'
<1>1. CASE claim[call[c].o] = "OPEN"
  <2>1. call[c].before = "OPEN" /\ Goto(c, "write") /\ call[c].at # "idle" /\ UNCHANGED <<claim, notes, audit, items>>
    BY <1>1 DEF decide, DecisionInv, CallOK
  <2> QED BY <2>1, StateNames, MoveInv
<1>2. CASE claim[call[c].o] # "OPEN"
  <2>1. Goto(c, "refused") /\ call[c].at # "idle" /\ UNCHANGED <<claim, notes, audit, items>>
    BY <1>2 DEF decide
  <2> QED BY <2>1, StateNames, MoveInv
<1> QED BY <1>1, <1>2

\* Whoever finds the claim still open is its only holder.
LEMMA WriteInv == ASSUME TypeOK, DecisionInv, NEW c \in Decisions, updateMany(c) PROVE DecisionInv'
<1> DEFINE o == call[c].o
<1>0. call[c].at = "write" /\ o \in Orders /\ call[c].to \in Decided /\ call[c].before = "OPEN" /\ call[c].by \in Admins
  BY DEF updateMany, DecisionInv, CallOK
<1>1. CASE claim[o] # "OPEN"
  <2>1. Goto(c, "refused") /\ UNCHANGED <<claim, notes, audit, items>>
    BY <1>1 DEF updateMany
  <2> QED BY <1>0, <2>1, StateNames, MoveInv
<1>2. CASE claim[o] = "OPEN"
  <2>1. Goto(c, "notify") /\ claim' = [claim EXCEPT ![o] = call[c].to] /\ UNCHANGED <<notes, audit, items>>
    BY <1>2 DEF updateMany
  <2>2. \A p \in Orders : claim'[p] = (IF p = o THEN call[c].to ELSE claim[p])
    BY <1>0, <2>1 DEF TypeOK
  <2>3. notes[o] = <<>> /\ audit[o] = <<>>
    BY <1>0, <1>2, StatusNames DEF DecisionInv, RowsOK
  <2>4. \A d \in Decisions : call[d].at \in {"notify", "audit"} => call[d].o \in Orders /\ call[d].o # o
    BY <1>2, StatusNames DEF DecisionInv, CallOK
  <2>5. call[c].to # None /\ call[c].to # "OPEN"
    BY <1>0, StatusNames
  <2> HIDE DEF o
  <2>6. \A a \in Admins : \A p \in items'[a] : claim'[p] # None
    BY <2>1, <2>2, <2>5 DEF DecisionInv, TypeOK
  <2>7. \A d \in Decisions : CallOK(d)'
    <3> SUFFICES ASSUME NEW d \in Decisions PROVE CallOK(d)' OBVIOUS
    <3>1. CASE d = c
      BY <3>1, <1>0, <2>1, <2>2, <2>3, <2>5, StateNames, GotoTypes DEF CallOK, o
    <3>2. CASE d # c
      <4>1. call'[d] = call[d] /\ CallOK(d)
        BY <3>2, <2>1, StateNames, GotoTypes DEF DecisionInv
      <4> QED BY <4>1, <2>1, <2>2, <2>4, <2>5 DEF CallOK
    <3> QED BY <3>1, <3>2
  <2>8. OneHolder'
    BY <2>1, <2>4, StateNames, GotoTypes DEF DecisionInv, OneHolder, o
  <2>9. \A p \in Orders : RowsOK(p)'
    BY <2>1, <2>2, <2>3 DEF DecisionInv, RowsOK
  <2> QED BY <2>6, <2>7, <2>8, <2>9 DEF DecisionInv
<1> QED BY <1>1, <1>2

\* The first notification of the claim, and it says what the claim says.
LEMMA NotifyInv == ASSUME TypeOK, DecisionInv, NEW c \in Decisions, notify(c) PROVE DecisionInv'
<1> DEFINE o == call[c].o
<1>1. /\ call[c].at = "notify" /\ o \in Orders /\ call[c].to \in Decided /\ claim[o] = call[c].to
      /\ notes[o] = <<>> /\ audit[o] = <<>> /\ call[c].before = "OPEN" /\ call[c].by \in Admins
  BY DEF notify, DecisionInv, CallOK
<1>2. Goto(c, "audit") /\ notes' = [notes EXCEPT ![o] = <<call[c].to>>] /\ UNCHANGED <<claim, audit, items>>
  BY <1>1, FirstRow DEF notify
<1>3. \A p \in Orders : notes'[p] = (IF p = o THEN <<call[c].to>> ELSE notes[p])
  BY <1>1, <1>2 DEF TypeOK
<1>4. \A d \in Decisions : d # c /\ call[d].at \in {"notify", "audit"} => call[d].o # o
  BY <1>1 DEF DecisionInv, OneHolder
<1> HIDE DEF o
<1>5. \A d \in Decisions : CallOK(d)'
  <2> SUFFICES ASSUME NEW d \in Decisions PROVE CallOK(d)' OBVIOUS
  <2>1. CASE d = c
    BY <2>1, <1>1, <1>2, StateNames, GotoTypes, StatusNames DEF CallOK, o
  <2>2. CASE d # c
    <3>1. call'[d] = call[d] /\ CallOK(d)
      BY <2>2, <1>2, StateNames, GotoTypes DEF DecisionInv
    <3> QED BY <3>1, <2>2, <1>2, <1>3, <1>4 DEF CallOK
  <2> QED BY <2>1, <2>2
<1>6. OneHolder'
  BY <1>1, <1>2, StateNames, GotoTypes DEF DecisionInv, OneHolder
<1>7. \A p \in Orders : RowsOK(p)'
  BY <1>1, <1>2, <1>3 DEF DecisionInv, RowsOK
<1> QED BY <1>2, <1>5, <1>6, <1>7 DEF DecisionInv

\* The first audit row of the claim.
LEMMA RecordInv == ASSUME TypeOK, DecisionInv, NEW c \in Decisions, record(c) PROVE DecisionInv'
<1> DEFINE o == call[c].o
           e == [by |-> call[c].by, before |-> "OPEN", after |-> claim[o]]
<1>1. /\ call[c].at = "audit" /\ o \in Orders /\ call[c].to \in Decided /\ claim[o] = call[c].to
      /\ audit[o] = <<>> /\ call[c].before = "OPEN" /\ call[c].by \in Admins
  BY DEF record, DecisionInv, CallOK
<1>2. Goto(c, "ok") /\ audit' = [audit EXCEPT ![o] = <<e>>] /\ UNCHANGED <<claim, notes, items>>
  BY <1>1, FirstRow DEF record
<1>3. \A p \in Orders : audit'[p] = (IF p = o THEN <<e>> ELSE audit[p])
  BY <1>1, <1>2 DEF TypeOK
<1>4. \A d \in Decisions : d # c /\ call[d].at \in {"notify", "audit"} => call[d].o # o
  BY <1>1 DEF DecisionInv, OneHolder
<1> HIDE DEF o
<1>5. \A d \in Decisions : CallOK(d)'
  <2> SUFFICES ASSUME NEW d \in Decisions PROVE CallOK(d)' OBVIOUS
  <2>1. CASE d = c
    BY <2>1, <1>1, <1>2, StateNames, GotoTypes, StatusNames DEF CallOK, o
  <2>2. CASE d # c
    <3>1. call'[d] = call[d] /\ CallOK(d)
      BY <2>2, <1>2, StateNames, GotoTypes DEF DecisionInv
    <3> QED BY <3>1, <2>2, <1>2, <1>3, <1>4 DEF CallOK
  <2> QED BY <2>1, <2>2
<1>6. OneHolder'
  BY <1>2, StateNames, GotoTypes DEF DecisionInv, OneHolder
<1>7. \A p \in Orders : RowsOK(p)'
  <2> SUFFICES ASSUME NEW p \in Orders PROVE RowsOK(p)' OBVIOUS
  <2>1. CASE p = o
    BY <2>1, <1>1, <1>2, <1>3 DEF DecisionInv, RowsOK
  <2>2. CASE p # o
    BY <2>2, <1>2, <1>3 DEF DecisionInv, RowsOK
  <2> QED BY <2>1, <2>2
<1> QED BY <1>2, <1>5, <1>6, <1>7 DEF DecisionInv

\* The answer shows claims that exist.
LEMMA AnsweredInv == ASSUME TypeOK, DecisionInv, NEW c \in Decisions, answered(c) PROVE DecisionInv'
<1>1. \A b \in Admins : \A o \in items'[b] : claim'[o] # None
  BY StatusNames DEF TypeOK, DecisionInv, answered
<1>2. \A d \in Decisions : CallOK(d)'
  BY DEF TypeOK, DecisionInv, CallOK, answered, NoCall
<1>3. OneHolder'
  BY DEF TypeOK, DecisionInv, OneHolder, answered, NoCall
<1> QED BY <1>1, <1>2, <1>3 DEF DecisionInv, RowsOK, answered

\* A handler broken off holds nothing.
LEMMA FailsInv == ASSUME TypeOK, DecisionInv, NEW c \in Decisions, decideFails(c) PROVE DecisionInv'
<1>1. Goto(c, "refused") /\ call[c].at # "idle" /\ UNCHANGED <<claim, notes, audit, items>>
  BY DEF decideFails
<1> QED BY <1>1, StateNames, MoveInv

\* Every step keeps it.
LEMMA DecisionsKept == ASSUME TypeOK, DecisionInv, [Next]_vars PROVE DecisionInv'
<1>1. CASE UNCHANGED vars
  BY <1>1, FrameInv DEF vars
<1>2. ASSUME dayPasses PROVE DecisionInv'
  BY <1>2, FrameInv DEF dayPasses
<1>3. ASSUME NEW o \in Orders, refund(o) PROVE DecisionInv'
  BY <1>3, FrameInv DEF refund
<1>4. ASSUME NEW o \in Orders, NEW f \in Filings, fileClaim(f, o) PROVE DecisionInv'
  BY <1>4, FrameInv DEF fileClaim
<1>5. ASSUME NEW f \in Filings, findExisting(f) PROVE DecisionInv'
  BY <1>5, FrameInv DEF findExisting
<1>6. ASSUME NEW c \in Decisions, Step(c) PROVE DecisionInv'
  BY <1>6, ReadInv, DecideInv, WriteInv, NotifyInv, RecordInv DEF Step
<1> QED BY <1>1, <1>2, <1>3, <1>4, <1>5, <1>6, CreateInv, ListInv, ClickInv, AnsweredInv, FailsInv DEF Next

-----------------------------------------------------------------------------
\* The types hold in every reachable state, and with them the invariant that
\* a decision past its write is its claim's only one.
THEOREM GuaranteeTypes == Spec => [](TypeOK /\ DecisionInv)
<1>1. TypeOK /\ DecisionInv /\ [Next]_vars => (TypeOK /\ DecisionInv)'
  BY TypesKept, DecisionsKept
<1> QED BY InitOK, <1>1, PTL DEF Spec

\* "Two concurrent decide() calls on the same claim" never send two
\* notifications: the update guarded by the status lets one of them through.
THEOREM OneDecisionHolds == Spec => []OneDecision
<1>1. TypeOK /\ DecisionInv => OneDecision
  <2> SUFFICES ASSUME TypeOK, DecisionInv, NEW o \in Orders
               PROVE  Len(notes[o]) <= 1 /\ \A i \in 1..Len(notes[o]) : notes[o][i] = claim[o]
    BY DEF OneDecision
  <2>1. CASE notes[o] = <<>>
    BY <2>1
  <2>2. CASE notes[o] = <<claim[o]>>
    BY <2>2
  <2> QED BY <2>1, <2>2 DEF DecisionInv, RowsOK
<1> QED BY <1>1, GuaranteeTypes, PTL

\* Every row of the audit log says that an open claim was decided, and how it
\* stands, although what it says of before was read in a statement of its own.
THEOREM AuditTruthfulHolds == Spec => []AuditTruthful
<1>1. TypeOK /\ DecisionInv => AuditTruthful
  <2> SUFFICES ASSUME TypeOK, DecisionInv, NEW o \in Orders
               PROVE  /\ Len(audit[o]) <= 1
                      /\ \A i \in 1..Len(audit[o]) : audit[o][i].before = "OPEN" /\ audit[o][i].after = claim[o]
    BY DEF AuditTruthful
  <2>1. CASE audit[o] = <<>>
    BY <2>1
  <2>2. ASSUME NEW a \in Admins, audit[o] = <<[by |-> a, before |-> "OPEN", after |-> claim[o]]>>
        PROVE  /\ Len(audit[o]) <= 1
               /\ \A i \in 1..Len(audit[o]) : audit[o][i].before = "OPEN" /\ audit[o][i].after = claim[o]
    BY <2>2
  <2> QED BY <2>1, <2>2 DEF DecisionInv, RowsOK
<1> QED BY <1>1, GuaranteeTypes, PTL

HIDE DEF world, table

-----------------------------------------------------------------------------
(* The login guard.                                                        *)

\* The logins at a place are finitely many; one that is at none leaves room.
LEMMA Sizes ==
  ASSUME L!LoginAssumption
  PROVE  /\ L!Cardinality(Requests) \in Nat
         /\ \A step : L!Cardinality(L!Where(step)) \in Nat
         /\ \A r \in Requests : at[r] = "idle" =>
              L!Cardinality(L!Where("compare")) + L!Cardinality(L!Where("increment")) + 1 <= L!Cardinality(Requests)
<1>1. \A X : L!Cardinality(X) = Cardinality(X) /\ L!IsFiniteSet(X) = IsFiniteSet(X)
  BY DEF L!Cardinality, Cardinality, L!IsFiniteSet, IsFiniteSet
<1>2. \A X \in SUBSET Requests : IsFiniteSet(X) /\ Cardinality(X) <= Cardinality(Requests)
  BY <1>1, FS_Subset DEF L!LoginAssumption
<1>3. \A X \in SUBSET Requests : Cardinality(X) \in Nat
  BY <1>2, FS_CardinalityType
<1>4. \A step : L!Where(step) \in SUBSET Requests
  BY DEF L!Where
<1>5. ASSUME NEW r \in Requests, at[r] = "idle"
      PROVE  Cardinality(L!Where("compare")) + Cardinality(L!Where("increment")) + 1 <= Cardinality(Requests)
  <2> DEFINE X == L!Where("compare")
             Y == L!Where("increment")
  <2>1. X \cap Y = {} /\ r \notin X \cup Y
    BY <1>5 DEF L!Where
  <2>2. X \in SUBSET Requests /\ Y \in SUBSET Requests /\ (X \cup Y) \cup {r} \in SUBSET Requests
    BY <1>4
  <2> HIDE DEF X, Y
  <2>3. IsFiniteSet(X) /\ IsFiniteSet(Y) /\ IsFiniteSet(X \cup Y)
    BY <1>2, <2>2
  <2>4. Cardinality(X \cup Y) = Cardinality(X) + Cardinality(Y) - Cardinality(X \cap Y)
    BY <2>3, FS_Union
  <2>5. Cardinality(X \cap Y) = 0
    BY <2>1, FS_EmptySet
  <2>6. Cardinality((X \cup Y) \cup {r}) = Cardinality(X \cup Y) + 1
    BY <2>1, <2>3, FS_AddElement
  <2>7. Cardinality((X \cup Y) \cup {r}) <= Cardinality(Requests) /\ Cardinality(X) \in Nat /\ Cardinality(Y) \in Nat
    BY <1>2, <1>3, <2>2
  <2>8. Cardinality(X \cup Y) = Cardinality(X) + Cardinality(Y)
    BY <2>4, <2>5, <2>7
  <2>9. Cardinality(X) + Cardinality(Y) + 1 <= Cardinality(Requests)
    BY <2>6, <2>7, <2>8
  <2> QED BY <2>9 DEF X, Y
<1> QED BY <1>1, <1>3, <1>4, <1>5

\* What a login at step x adds to the logins at step y.
Same(x, y) == IF x = y THEN 1 ELSE 0

\* A login that moves on joins or leaves the logins at a place alone.
LEMMA LoginMoves ==
  ASSUME L!LoginAssumption, L!TypeOK, NEW r \in Requests, NEW step, at' = [at EXCEPT ![r] = step]
  PROVE  \A place : /\ L!Cardinality(L!Where(place)) \in Nat /\ L!Cardinality(L!Where(place)') \in Nat
                    /\ L!Cardinality(L!Where(place)') + Same(at[r], place)
                         = L!Cardinality(L!Where(place)) + Same(step, place)
<1>1. \A X : L!Cardinality(X) = C!Cardinality(X) /\ L!IsFiniteSet(X) = C!IsFiniteSet(X)
  BY DEF L!Cardinality, C!Cardinality, L!IsFiniteSet, C!IsFiniteSet
<1> SUFFICES ASSUME NEW place
             PROVE  /\ L!Cardinality(L!Where(place)) \in Nat /\ L!Cardinality(L!Where(place)') \in Nat
                    /\ L!Cardinality(L!Where(place)') + Same(at[r], place)
                         = L!Cardinality(L!Where(place)) + Same(step, place)
  OBVIOUS
<1>2. /\ L!Where(place) \in SUBSET Requests /\ L!Where(place)' \in SUBSET Requests
      /\ \A q \in Requests : q # r => (q \in L!Where(place) <=> q \in L!Where(place)')
      /\ (r \in L!Where(place)) = (at[r] = place) /\ (r \in L!Where(place)') = (step = place)
  BY DEF L!Where, L!TypeOK
<1>3. C!IsFiniteSet(Requests)
  BY <1>1 DEF L!LoginAssumption
<1>4. /\ C!Cardinality(L!Where(place)) \in Nat /\ C!Cardinality(L!Where(place)') \in Nat
      /\ C!Cardinality(L!Where(place)') + C!One(r \in L!Where(place))
           = C!Cardinality(L!Where(place)) + C!One(r \in L!Where(place)')
  BY <1>2, <1>3, C!CountMoves
<1> QED BY <1>1, <1>2, <1>4 DEF C!One, Same

\* No login, no guess.
LEMMA LoginInit == L!LoginAssumption /\ L!Init => L!TypeOK /\ L!LoginInv
<1> SUFFICES ASSUME L!LoginAssumption, L!Init PROVE L!TypeOK /\ L!LoginInv
  OBVIOUS
<1>1. /\ fails = 0 /\ ttl = FALSE /\ guesses = 0 /\ open = FALSE
      /\ \A r \in Requests : at[r] = "idle"
  BY DEF L!Init
<1>2. L!Cardinality(Requests) \in Nat /\ LOGIN_MAX_ATTEMPTS \in Nat /\ LOGIN_MAX_ATTEMPTS > 0
  BY Sizes DEF L!LoginAssumption
<1>3. at \in [Requests -> {"idle", "compare", "increment", "expire", "clear"}]
  BY DEF L!Init
<1>4. L!TypeOK
  <2>1. fails \in 0..L!MaxFails /\ guesses \in Nat
    BY <1>1, <1>2 DEF L!MaxFails
  <2>2. ttl \in BOOLEAN /\ open \in BOOLEAN /\ ~ttl
    BY <1>1
  <2> QED BY <1>3, <2>1, <2>2 DEF L!TypeOK
<1>5. L!Where("compare") = {} /\ L!Where("increment") = {}
  BY <1>1 DEF L!Where
<1>6. L!Cardinality({}) = 0
  BY FS_EmptySet DEF L!Cardinality, Cardinality
<1>7. L!LoginInv
  BY <1>1, <1>2, <1>5, <1>6 DEF L!LoginInv
<1> QED BY <1>4, <1>7

\* Every step of a login, and the end of a lockout, keep the types and the
\* invariant.
LEMMA LoginStep ==
  ASSUME L!LoginAssumption, L!TypeOK, L!LoginInv, L!Next
  PROVE  L!TypeOK' /\ L!LoginInv'
<1> DEFINE N == L!Cardinality(Requests)
           inc == L!Cardinality(L!Where("increment"))
           cmp == L!Cardinality(L!Where("compare"))
<1>1. N \in Nat /\ inc \in Nat /\ cmp \in Nat /\ LOGIN_MAX_ATTEMPTS \in Nat /\ LOGIN_MAX_ATTEMPTS > 0
  BY Sizes DEF L!LoginAssumption
<1>2. /\ fails \in Nat /\ fails <= LOGIN_MAX_ATTEMPTS + N /\ guesses \in Nat /\ ttl \in BOOLEAN /\ open \in BOOLEAN
      /\ ttl => fails > 0
  BY <1>1 DEF L!TypeOK, L!MaxFails
<1>3. ~open => guesses <= fails + inc /\ guesses + cmp < LOGIN_MAX_ATTEMPTS + N
  BY DEF L!LoginInv
\* What is left to show of a login that goes to a step.
<1>4. ASSUME NEW r \in Requests, NEW step \in {"idle", "compare", "increment", "expire", "clear"}, L!Goto(r, step),
             fails' \in Nat, fails' <= LOGIN_MAX_ATTEMPTS + N, ttl' \in BOOLEAN, guesses' \in Nat, open' \in BOOLEAN,
             ttl' => fails' > 0,
             ~open' => /\ guesses' + Same(at[r], "increment") <= fails' + inc + Same(step, "increment")
                       /\ guesses' + cmp + Same(step, "compare") < LOGIN_MAX_ATTEMPTS + N + Same(at[r], "compare")
      PROVE  L!TypeOK' /\ L!LoginInv'
  <2>1. at' = [at EXCEPT ![r] = step]
    BY <1>4 DEF L!Goto
  <2>2. at' \in [Requests -> {"idle", "compare", "increment", "expire", "clear"}]
    BY <2>1 DEF L!TypeOK
  <2>3. fails' \in 0..L!MaxFails
    BY <1>1, <1>4 DEF L!MaxFails
  <2>4. L!TypeOK'
    BY <1>4, <2>2, <2>3 DEF L!TypeOK, L!MaxFails
  <2>5. \A place : /\ L!Cardinality(L!Where(place)) \in Nat /\ L!Cardinality(L!Where(place)') \in Nat
                   /\ L!Cardinality(L!Where(place)') + Same(at[r], place)
                        = L!Cardinality(L!Where(place)) + Same(step, place)
    BY <2>1, LoginMoves
  <2>6. \A x, y : Same(x, y) \in Nat
    BY DEF Same
  <2>7. ASSUME ~open' PROVE guesses' <= fails' + L!Cardinality(L!Where("increment")')
    <3> DEFINE new == L!Cardinality(L!Where("increment")')
    <3>1. new \in Nat /\ new + Same(at[r], "increment") = inc + Same(step, "increment")
      BY <2>5
    <3> HIDE DEF new, inc, cmp, N
    <3>2. guesses' \in Nat /\ fails' \in Nat /\ inc \in Nat
      BY <1>1, <1>4
    <3>3. Same(at[r], "increment") \in Nat /\ Same(step, "increment") \in Nat
      BY <2>6
    <3>4. guesses' + Same(at[r], "increment") <= fails' + inc + Same(step, "increment")
      BY <1>4, <2>7
    <3>5. PICK g, f, w \in Nat : g = guesses' /\ f = fails' /\ w = new
      BY <3>1, <3>2
    <3>6. PICK a, b \in Nat : a = Same(at[r], "increment") /\ b = Same(step, "increment")
      BY <3>3
    <3>7. w + a = inc + b /\ g + a <= f + inc + b
      BY <3>1, <3>4, <3>5, <3>6
    <3>8. g <= f + w
      BY <3>2, <3>7
    <3> QED BY <3>5, <3>8 DEF new
  <2>8. ASSUME ~open'
        PROVE  guesses' + L!Cardinality(L!Where("compare")') < LOGIN_MAX_ATTEMPTS + N
    <3> DEFINE new == L!Cardinality(L!Where("compare")')
    <3>1. new \in Nat /\ new + Same(at[r], "compare") = cmp + Same(step, "compare")
      BY <2>5
    <3> HIDE DEF new, inc, cmp, N
    <3>2. guesses' \in Nat /\ N \in Nat /\ cmp \in Nat /\ LOGIN_MAX_ATTEMPTS \in Nat
      BY <1>1, <1>4
    <3>3. Same(at[r], "compare") \in Nat /\ Same(step, "compare") \in Nat
      BY <2>6
    <3>4. guesses' + cmp + Same(step, "compare") < LOGIN_MAX_ATTEMPTS + N + Same(at[r], "compare")
      BY <1>4, <2>8
    <3>5. PICK g, w \in Nat : g = guesses' /\ w = new
      BY <3>1, <3>2
    <3>6. PICK a, b \in Nat : a = Same(at[r], "compare") /\ b = Same(step, "compare")
      BY <3>3
    <3>7. w + a = cmp + b /\ g + cmp + b < LOGIN_MAX_ATTEMPTS + N + a
      BY <3>1, <3>4, <3>5, <3>6
    <3>8. g + w < LOGIN_MAX_ATTEMPTS + N
      BY <3>2, <3>7
    <3> QED BY <3>5, <3>8 DEF new
  <2> QED BY <2>4, <2>7, <2>8 DEF L!LoginInv
<1>5. \A r \in Requests : at[r] = "idle" => cmp + inc + 1 <= N
  BY Sizes
<1> HIDE DEF N, inc, cmp
<1> USE DEF Same
<1>6. ASSUME NEW r \in Requests, L!enforceLoginRateLimit(r) PROVE L!TypeOK' /\ L!LoginInv'
  BY <1>1, <1>2, <1>3, <1>4, <1>5, <1>6 DEF L!enforceLoginRateLimit
<1>7. ASSUME NEW r \in Requests, L!refuseLogin(r) PROVE L!TypeOK' /\ L!LoginInv'
  BY <1>7 DEF L!refuseLogin, L!vars, L!TypeOK, L!LoginInv, L!Where
<1>8. ASSUME NEW r \in Requests, NEW right \in BOOLEAN, L!comparePassword(r, right) PROVE L!TypeOK' /\ L!LoginInv'
  <2>1. CASE right
    BY <1>1, <1>2, <1>3, <1>4, <1>8, <2>1 DEF L!comparePassword
  <2>2. CASE ~right
    BY <1>1, <1>2, <1>3, <1>4, <1>8, <2>2 DEF L!comparePassword
  <2> QED BY <2>1, <2>2
<1>9. ASSUME NEW r \in Requests, L!registerFailedLogin(r) PROVE L!TypeOK' /\ L!LoginInv'
  <2>1. fails' = IF fails < LOGIN_MAX_ATTEMPTS + N THEN fails + 1 ELSE fails
    BY <1>9 DEF L!registerFailedLogin, L!MaxFails, N
  <2>2. CASE fails = 0
    BY <1>1, <1>2, <1>3, <1>4, <1>9, <2>1, <2>2 DEF L!registerFailedLogin
  <2>3. CASE fails # 0
    BY <1>1, <1>2, <1>3, <1>4, <1>9, <2>1, <2>3 DEF L!registerFailedLogin
  <2> QED BY <2>2, <2>3
<1>10. ASSUME NEW r \in Requests, L!expire(r) PROVE L!TypeOK' /\ L!LoginInv'
  BY <1>1, <1>2, <1>3, <1>4, <1>10 DEF L!expire
<1>11. ASSUME NEW r \in Requests, L!clearFailedLogins(r) PROVE L!TypeOK' /\ L!LoginInv'
  <2>1. at[r] = "clear" /\ cmp <= N
    <3>1. L!Where("compare") \in SUBSET Requests
      BY DEF L!Where
    <3>2. \A X : L!Cardinality(X) = Cardinality(X) /\ L!IsFiniteSet(X) = IsFiniteSet(X)
      BY DEF L!Cardinality, Cardinality, L!IsFiniteSet, IsFiniteSet
    <3> QED BY <1>11, <3>1, <3>2, FS_Subset DEF L!clearFailedLogins, L!LoginAssumption, cmp, N
  <2>2. /\ L!Goto(r, "idle") /\ fails' = 0 /\ guesses' = 0 /\ ttl' = FALSE /\ open' = FALSE
    BY <1>11 DEF L!clearFailedLogins
  <2>3. ttl' \in BOOLEAN /\ open' \in BOOLEAN /\ ~ttl'
    BY <2>2
  <2>4. 0 <= LOGIN_MAX_ATTEMPTS + N /\ cmp < LOGIN_MAX_ATTEMPTS + N
    BY <1>1, <2>1
  <2>5. /\ guesses' + Same(at[r], "increment") <= fails' + inc + Same("idle", "increment")
        /\ guesses' + cmp + Same("idle", "compare") < LOGIN_MAX_ATTEMPTS + N + Same(at[r], "compare")
    BY <1>1, <2>1, <2>2, <2>4
  <2> QED BY <1>4, <2>2, <2>3, <2>4, <2>5
<1>12. ASSUME NEW r \in Requests, L!RedisCallFails(r) PROVE L!TypeOK' /\ L!LoginInv'
  BY <1>1, <1>2, <1>4, <1>12 DEF L!RedisCallFails
<1>13. ASSUME L!LockoutEnds PROVE L!TypeOK' /\ L!LoginInv'
  <2>1. L!TypeOK'
    <3>1. fails' \in 0..L!MaxFails /\ guesses' \in Nat /\ L!MaxFails' = L!MaxFails
      BY <1>1, <1>13 DEF L!LockoutEnds, L!MaxFails, N
    <3>2. ttl' \in BOOLEAN /\ open' \in BOOLEAN /\ ~ttl' /\ at' = at
      BY <1>13 DEF L!LockoutEnds
    <3> QED BY <3>1, <3>2 DEF L!TypeOK
  <2>2. cmp <= N /\ L!Where("increment")' = L!Where("increment") /\ L!Where("compare")' = L!Where("compare")
    <3>1. L!Where("compare") \in SUBSET Requests
      BY DEF L!Where
    <3>2. \A X : L!Cardinality(X) = Cardinality(X) /\ L!IsFiniteSet(X) = IsFiniteSet(X)
      BY DEF L!Cardinality, Cardinality, L!IsFiniteSet, IsFiniteSet
    <3> QED BY <1>13, <3>1, <3>2, FS_Subset DEF L!LockoutEnds, L!LoginAssumption, L!Where, cmp, N
  <2> QED BY <1>1, <1>13, <2>1, <2>2 DEF L!LockoutEnds, L!LoginInv, inc, cmp, N
<1> QED BY <1>6, <1>7, <1>8, <1>9, <1>10, <1>11, <1>12, <1>13 DEF L!Next, L!Continue

-----------------------------------------------------------------------------
(* The trial.                                                              *)

\* Before any request there is no row.
LEMMA TrialInit == S!TrialAssumption /\ S!Init => S!TypeOK /\ S!TrialInv
<1> SUFFICES ASSUME S!TrialAssumption, S!Init PROVE S!TypeOK /\ S!TrialInv
  OBVIOUS
<1>1. S!TrialInv
  BY DEF S!Init, S!Idle, S!TrialInv
<1>2. \A c \in Requests : trial[c].op \in {None, "getStatus", "upgrade"} /\ trial[c].read \in S!Rows \cup {None}
  BY DEF S!Init, S!Idle
<1> QED BY <1>1, <1>2 DEF S!Init, S!TypeOK, S!TrialAssumption

\* A trial that is marked was read as over, and its row is still there.
LEMMA TrialStep ==
  ASSUME S!TrialAssumption, S!TypeOK, S!TrialInv, S!Next
  PROVE  S!TypeOK' /\ S!TrialInv'
<1> DEFINE Trials == [op: {None, "getStatus", "upgrade"}, at: {"idle", "heal", "decide"}, read: S!Rows \cup {None}]
<1>1. trial \in [Requests -> Trials] /\ row \in S!Rows \cup {None} /\ now \in 0..MaxDay
  BY DEF S!TypeOK, S!TrialInv
\* What is left to show of a step that moves one request, or none.
<1>2. ASSUME row' \in S!Rows \cup {None}, now' \in 0..MaxDay, trial' \in [Requests -> Trials],
             row' # None => row'.ends <= now' + TrialDays,
             \A c \in Requests : trial'[c].at = "heal" => row' # None
      PROVE  S!TypeOK' /\ S!TrialInv'
  <2>1. \A c \in Requests : trial'[c].op \in {None, "getStatus", "upgrade"} /\ trial'[c].read \in S!Rows \cup {None}
    BY <1>2
  <2>2. S!TypeOK'
    BY <1>2, <2>1 DEF S!TypeOK
  <2> QED BY <1>2, <2>2 DEF S!TrialInv
<1>3. ASSUME S!tick PROVE S!TypeOK' /\ S!TrialInv'
  <2>1. row' = row /\ trial' = trial /\ now' = now + 1 /\ now < MaxDay
    BY <1>3 DEF S!tick
  <2>2. row # None => row.ends \in Nat
    BY <1>1 DEF S!Rows, S!TrialAssumption
  <2>3. row' # None => row'.ends <= now' + TrialDays
    BY <1>1, <2>1, <2>2 DEF S!TypeOK, S!TrialAssumption
  <2>4. now' \in 0..MaxDay
    BY <1>1, <2>1 DEF S!TrialAssumption
  <2> QED BY <1>1, <1>2, <2>1, <2>3, <2>4 DEF S!TrialInv
<1>4. ASSUME NEW c \in Requests, NEW op \in {"getStatus", "upgrade"}, S!getStatus(c, op)
      PROVE  S!TypeOK' /\ S!TrialInv'
  <2> DEFINE h == [op |-> op, read |-> row, at |-> IF S!Over(row) THEN "heal" ELSE "decide"]
  <2>1. trial' = [trial EXCEPT ![c] = h] /\ row' = row /\ now' = now
    BY <1>4 DEF S!getStatus
  <2>2. h \in Trials /\ (h.at = "heal" => row # None)
    BY <1>1 DEF S!Over
  <2> HIDE DEF h
  <2>3. trial' \in [Requests -> Trials] /\ \A d \in Requests : trial'[d] = IF d = c THEN h ELSE trial[d]
    BY <1>1, <2>1, <2>2
  <2>4. \A d \in Requests : trial'[d].at = "heal" => row' # None
    BY <2>1, <2>2, <2>3 DEF S!TrialInv
  <2>5. row' # None => row'.ends <= now' + TrialDays
    BY <2>1 DEF S!TypeOK
  <2> QED BY <1>1, <1>2, <2>1, <2>3, <2>4, <2>5
<1>5. ASSUME NEW c \in Requests, S!selfHeal(c) PROVE S!TypeOK' /\ S!TrialInv'
  <2> DEFINE h == [trial[c] EXCEPT !.at = "decide", !.read = row']
  <2>1. row # None /\ row \in S!Rows
    BY <1>1, <1>5 DEF S!selfHeal, S!TrialInv
  <2>2. row' = [row EXCEPT !.status = "EXPIRED"] /\ now' = now
    BY <1>5 DEF S!selfHeal
  <2>3. row' \in S!Rows /\ row' # None /\ row'.ends = row.ends
    BY <2>1, <2>2 DEF S!Rows, S!TrialAssumption
  <2>4. trial' = [trial EXCEPT ![c] = h]
    BY <1>1, <1>5 DEF S!selfHeal
  <2>5. h \in Trials
    BY <1>1, <2>3
  <2> HIDE DEF h
  <2>6. trial' \in [Requests -> Trials]
    BY <1>1, <2>4, <2>5
  <2>7. row'.ends <= now' + TrialDays
    BY <2>1, <2>2, <2>3 DEF S!TypeOK
  <2> QED BY <1>1, <1>2, <2>2, <2>3, <2>6, <2>7
<1>6. S!Idle \in Trials /\ S!Idle.at = "idle"
  BY DEF S!Idle
<1>7. ASSUME NEW c \in Requests, trial' = [trial EXCEPT ![c] = S!Idle], row' \in S!Rows \cup {None},
             row' = None => row = None, now' = now, row' # None => row'.ends <= now' + TrialDays
      PROVE  S!TypeOK' /\ S!TrialInv'
  <2>1. trial' \in [Requests -> Trials] /\ \A d \in Requests : trial'[d] = IF d = c THEN S!Idle ELSE trial[d]
    BY <1>1, <1>6, <1>7
  <2>2. \A d \in Requests : trial'[d].at = "heal" => row' # None
    BY <1>6, <1>7, <2>1 DEF S!TrialInv
  <2> QED BY <1>1, <1>2, <1>7, <2>1, <2>2
<1>8. ASSUME NEW c \in Requests, S!upgradeToPremium(c) PROVE S!TypeOK' /\ S!TrialInv'
  <2> DEFINE new == [status |-> "TRIAL", ends |-> now + TrialDays]
  <2>1. trial' = [trial EXCEPT ![c] = S!Idle] /\ now' = now
    BY <1>8 DEF S!upgradeToPremium
  <2>2. CASE row' = row
    BY <1>1, <1>7, <2>1, <2>2 DEF S!TypeOK
  <2>3. CASE row' = new
    <3>1. new \in S!Rows /\ new.ends <= now + TrialDays
      BY <1>1 DEF S!Rows, S!TrialAssumption
    <3>2. new # None
      BY <3>1 DEF S!TrialAssumption
    <3> QED BY <1>7, <2>1, <2>3, <3>1, <3>2
  <2> QED BY <1>8, <2>2, <2>3 DEF S!upgradeToPremium
<1>9. ASSUME NEW c \in Requests, S!answer(c) PROVE S!TypeOK' /\ S!TrialInv'
  BY <1>1, <1>7, <1>9 DEF S!answer, S!TypeOK
<1> QED BY <1>3, <1>4, <1>5, <1>8, <1>9 DEF S!Next

-----------------------------------------------------------------------------
(* The trust score, for any history: the range, what penalties may cost,   *)
(* and that no event moves it the wrong way.  The score is computed by     *)
(* rounding a quotient, so that two scores are compared crosswise.         *)

\* Multiplication, and division as computeTrustScore's Math.round uses it.
LEMMA MulMono == ASSUME NEW x \in Int, NEW y \in Int, NEW m \in Nat, x <= y PROVE x * m <= y * m
  OBVIOUS

\* The quotient is the last multiple that fits.
LEMMA DivDef == ASSUME NEW a \in Int, NEW m \in Nat, m > 0
  PROVE a \div m \in Int /\ (a \div m) * m <= a /\ a < (a \div m) * m + m
  OBVIOUS

\* Any multiple that fits is at most the quotient.
LEMMA DivLow == ASSUME NEW a \in Int, NEW m \in Nat, m > 0, NEW q \in Int, q * m <= a
  PROVE q <= a \div m
<1> DEFINE d == a \div m
<1>1. d \in Int /\ a < d * m + m
  BY DivDef
<1> HIDE DEF d
<1>2. SUFFICES ASSUME q >= d + 1 PROVE FALSE
  BY <1>1 DEF d
<1>3. (d + 1) * m <= q * m
  BY <1>1, <1>2, MulMono
<1>4. (d + 1) * m = d * m + m
  BY <1>1
<1> QED BY <1>1, <1>3, <1>4

\* Whole units can be taken off before dividing or after.
LEMMA DivShift == ASSUME NEW a \in Int, NEW m \in Nat, m > 0, NEW p \in Int
  PROVE (a - p * m) \div m = (a \div m) - p
<1> DEFINE d == a \div m
           e == (a - p * m) \div m
<1>1. d \in Int /\ d * m <= a /\ a < d * m + m
  BY DivDef
<1>2. p * m \in Int /\ a - p * m \in Int
  OBVIOUS
<1>3. e \in Int /\ e * m <= a - p * m /\ a - p * m < e * m + m
  BY <1>2, DivDef
<1>4. (d - p) * m = d * m - p * m /\ (e + p) * m = e * m + p * m
  BY <1>1, <1>3
<1>5. d - p <= e
  BY <1>1, <1>2, <1>4, DivLow
<1>6. e + p <= d
  BY <1>1, <1>2, <1>3, <1>4, DivLow
<1> QED BY <1>1, <1>3, <1>5, <1>6

\* A positive factor can be cancelled.
LEMMA MulCancel == ASSUME NEW x \in Int, NEW y \in Int, NEW m \in Nat, m > 0, x * m <= y * m PROVE x <= y
  <1>1. SUFFICES ASSUME y + 1 <= x PROVE FALSE
    OBVIOUS
  <1>2. (y + 1) * m <= x * m
    BY <1>1, MulMono
  <1>3. (y + 1) * m = y * m + m
    OBVIOUS
  <1> QED BY <1>2, <1>3

\* Rounding respects the order of quotients.
LEMMA RoundMono ==
  ASSUME NEW n \in Int, NEW d \in Nat, d > 0, NEW k \in Int, NEW e \in Nat, e > 0, n * e <= k * d
  PROVE  T!round(n, d) <= T!round(k, e)
<1> DEFINE q == (2 * n + d) \div (2 * d)
<1>1. q \in Int /\ q * (2 * d) <= 2 * n + d
  BY DivDef
<1> HIDE DEF q
<1>2. (q * (2 * d)) * e <= (2 * n + d) * e
  BY <1>1, MulMono
<1>3. (2 * n + d) * e = 2 * (n * e) + d * e /\ (2 * k + e) * d = 2 * (k * d) + d * e
  OBVIOUS
<1>4. (q * (2 * d)) * e = (q * (2 * e)) * d
  BY <1>1
<1>5. n * e \in Int /\ k * d \in Int /\ d * e \in Int
  OBVIOUS
<1>6. (q * (2 * e)) * d <= (2 * k + e) * d
  <2>1. PICK a, b, c, x \in Int : a = n * e /\ b = k * d /\ c = d * e /\ x = (q * (2 * e)) * d
    BY <1>1, <1>5
  <2>2. x <= 2 * a + c /\ a <= b
    BY <1>2, <1>3, <1>4, <2>1
  <2>3. x <= 2 * b + c
    BY <2>2
  <2> QED BY <1>3, <2>1, <2>3
<1>7. q * (2 * e) <= 2 * k + e
  <2>1. q * (2 * e) \in Int /\ 2 * k + e \in Int
    BY <1>1
  <2> QED BY <1>6, <2>1, MulCancel
<1>8. q <= (2 * k + e) \div (2 * e)
  BY <1>1, <1>7, DivLow
<1> QED BY <1>8 DEF q, T!round

\* A multiple is divided exactly.
LEMMA DivExact == ASSUME NEW a \in Int, NEW m \in Nat, m > 0 PROVE (a * m) \div m = a
<1> DEFINE d == (a * m) \div m
<1>1. a * m \in Int
  OBVIOUS
<1>2. a <= d /\ d \in Int /\ d * m <= a * m
  BY <1>1, DivLow, DivDef
<1> HIDE DEF d
<1>3. d <= a
  BY <1>2, MulCancel
<1> QED BY <1>2, <1>3 DEF d

\* rawScore and its denominator by their parts: capped jobs, rating, rates of
\* response and of kept jobs as fractions, bonus for the verification.
Total(j, r, rn, rd, kn, kd, v) ==
  30 * j * (500 * (kd * rd)) + 25 * r * (50 * (kd * rd)) + 15 * rn * (25000 * kd) + 15 * kn * (25000 * rd)
    + v * (25000 * (kd * rd))

Den(kd, rd) == 25000 * (kd * rd)

\* Denominators are positive, and so is their product.
LEMMA PosProduct == ASSUME NEW x \in Nat, NEW y \in Nat, x > 0, y > 0 PROVE x * y \in Nat /\ x * y > 0
  OBVIOUS

\* A score none of whose parts is less is not less.
LEMMA TotalMono ==
  ASSUME NEW j1 \in Nat, NEW j2 \in Nat, NEW r \in Nat, NEW v1 \in Nat, NEW v2 \in Nat,
         NEW a1 \in Nat, NEW a2 \in Nat, NEW R1 \in Nat, NEW R2 \in Nat,
         NEW k1 \in Nat, NEW k2 \in Nat, NEW K1 \in Nat, NEW K2 \in Nat,
         j1 <= j2, v1 <= v2, a1 * R2 <= a2 * R1, k1 * K2 <= k2 * K1
  PROVE  Total(j1, r, a1, R1, k1, K1, v1) * Den(K2, R2) <= Total(j2, r, a2, R2, k2, K2, v2) * Den(K1, R1)
<1> DEFINE P == (K1 * R1) * (K2 * R2)
           A1 == (a1 * R2) * (K1 * K2)
           A2 == (a2 * R1) * (K1 * K2)
           B1 == (k1 * K2) * (R1 * R2)
           B2 == (k2 * K1) * (R1 * R2)
<1>1. P \in Nat /\ K1 * K2 \in Nat /\ R1 * R2 \in Nat
  OBVIOUS
<1>2. j1 * P <= j2 * P /\ v1 * P <= v2 * P
  BY <1>1, MulMono
<1>3. A1 <= A2
  <2>1. a1 * R2 \in Int /\ a2 * R1 \in Int
    OBVIOUS
  <2> QED BY <1>1, <2>1, MulMono
<1>4. B1 <= B2
  <2>1. k1 * K2 \in Int /\ k2 * K1 \in Int
    OBVIOUS
  <2> QED BY <1>1, <2>1, MulMono
<1>5. Total(j1, r, a1, R1, k1, K1, v1) * Den(K2, R2)
        = 375000000 * (j1 * P) + 31250000 * (r * P) + 9375000000 * A1 + 9375000000 * B1 + 625000000 * (v1 * P)
  BY DEF Total, Den
<1>6. Total(j2, r, a2, R2, k2, K2, v2) * Den(K1, R1)
        = 375000000 * (j2 * P) + 31250000 * (r * P) + 9375000000 * A2 + 9375000000 * B2 + 625000000 * (v2 * P)
  BY DEF Total, Den
<1>7. j1 * P \in Int /\ j2 * P \in Int /\ r * P \in Int /\ v1 * P \in Int /\ v2 * P \in Int
      /\ A1 \in Int /\ A2 \in Int /\ B1 \in Int /\ B2 \in Int
  OBVIOUS
<1> HIDE DEF P, A1, A2, B1, B2
<1> QED BY <1>2, <1>3, <1>4, <1>5, <1>6, <1>7

\* A rate is a fraction with a positive denominator, whatever was counted.
LEMMA RateOf ==
  ASSUME NEW some \in Nat, NEW whole \in Nat
  PROVE  T!over(some, whole, 1)[1] \in Nat /\ T!over(some, whole, 1)[2] \in Nat /\ T!over(some, whole, 1)[2] > 0
BY DEF T!over

\* The rates, and the cap on jobs, are natural numbers.
LEMMA FactorTypes ==
  ASSUME T!TrustInv
  PROVE  /\ T!keptRate[1] \in Nat /\ T!keptRate[2] \in Nat /\ T!keptRate[2] > 0
         /\ T!responseRate[1] \in Nat /\ T!responseRate[2] \in Nat /\ T!responseRate[2] > 0
         /\ T!atMost(jobsDone, 50) \in Nat /\ rating \in Nat
<1>1. cancelled + closed \in Nat /\ taken + declined \in Nat /\ closed \in Nat /\ taken \in Nat
  BY DEF T!TrustInv
<1>2. /\ T!keptRate[1] \in Nat /\ T!keptRate[2] \in Nat /\ T!keptRate[2] > 0
      /\ T!responseRate[1] \in Nat /\ T!responseRate[2] \in Nat /\ T!responseRate[2] > 0
  BY <1>1, RateOf DEF T!keptRate, T!responseRate
<1> QED BY <1>2 DEF T!atMost, T!TrustInv

\* The weight of a verification.
Badge(b) == IF b THEN 15 ELSE 0

\* The raw score over its denominator.
LEMMA RawIs ==
  ASSUME T!TrustInv
  PROVE  /\ T!rawDenominator = Den(T!keptRate[2], T!responseRate[2])
         /\ T!rawScore = Total(T!atMost(jobsDone, 50), rating, T!responseRate[1], T!responseRate[2],
                             T!keptRate[1], T!keptRate[2], Badge(checked))
         /\ T!rawDenominator \in Nat /\ T!rawDenominator > 0 /\ T!rawScore \in Nat
<1> DEFINE kd == T!keptRate[2]
           kn == T!keptRate[1]
           rd == T!responseRate[2]
           rn == T!responseRate[1]
           jobs == T!atMost(jobsDone, 50)
           bonus == Badge(checked)
<1>1. kd \in Nat /\ kd > 0 /\ kn \in Nat /\ rd \in Nat /\ rd > 0 /\ rn \in Nat /\ jobs \in Nat /\ rating \in Nat
      /\ bonus \in Nat
  BY FactorTypes DEF Badge
<1>2. T!rawDenominator = 50 * 500 * kd * rd
  BY DEF T!rawDenominator, T!JOBS_DONE_CAP
<1>3. T!rawScore = 30 * jobs * (T!rawDenominator \div 50) + 25 * rating * (T!rawDenominator \div 500)
                   + 15 * rn * (T!rawDenominator \div rd) + 15 * kn * (T!rawDenominator \div kd)
                   + (IF checked THEN 15 * T!rawDenominator ELSE 0)
  BY DEF T!rawScore, T!TRUST_WEIGHTS, T!JOBS_DONE_CAP
<1>4. (IF checked THEN 15 * T!rawDenominator ELSE 0) = bonus * T!rawDenominator
  <2>1. T!rawDenominator \in Nat
    BY <1>1, <1>2
  <2> QED BY <2>1 DEF Badge
<1> HIDE DEF kd, kn, rd, rn, jobs, bonus
<1>5. kd * rd \in Nat /\ kd * rd > 0
  BY <1>1, PosProduct
<1>6. T!rawDenominator = 25000 * (kd * rd)
  BY <1>1, <1>2
<1>7. T!rawDenominator \div 50 = 500 * (kd * rd) /\ T!rawDenominator \div 500 = 50 * (kd * rd)
  <2>1. PICK n \in Nat : n = kd * rd
    BY <1>5
  <2>2. T!rawDenominator = (500 * n) * 50 /\ T!rawDenominator = (50 * n) * 500
    BY <1>6, <2>1
  <2> QED BY <2>1, <2>2, DivExact
<1>8. T!rawDenominator \div rd = 25000 * kd /\ T!rawDenominator \div kd = 25000 * rd
  <2>1. T!rawDenominator = (25000 * kd) * rd /\ T!rawDenominator = (25000 * rd) * kd
    BY <1>1, <1>6
  <2>2. 25000 * kd \in Int /\ 25000 * rd \in Int
    BY <1>1
  <2> QED BY <1>1, <2>1, <2>2, DivExact
<1>9. T!rawScore = Total(jobs, rating, rn, rd, kn, kd, bonus)
  BY <1>3, <1>4, <1>6, <1>7, <1>8 DEF Total
<1>10. Total(jobs, rating, rn, rd, kn, kd, bonus) \in Nat
  <2>1. \A x, y \in Nat : x * y \in Nat
    OBVIOUS
  <2>2. /\ 30 * jobs * (500 * (kd * rd)) \in Nat /\ 25 * rating * (50 * (kd * rd)) \in Nat
        /\ 15 * rn * (25000 * kd) \in Nat /\ 15 * kn * (25000 * rd) \in Nat /\ bonus * (25000 * (kd * rd)) \in Nat
    BY <1>1, <1>5, <2>1
  <2> QED BY <2>2 DEF Total
<1>11. T!rawDenominator = Den(kd, rd) /\ T!rawDenominator \in Nat /\ T!rawDenominator > 0
  BY <1>5, <1>6 DEF Den
<1> QED BY <1>9, <1>10, <1>11 DEF kd, kn, rd, rn, jobs, bonus

\* The score without penalties, not yet clamped.
Earned == T!round(T!rawScore, T!rawDenominator)

\* A penalty comes off the rounded score.
LEMMA ScoreIs ==
  ASSUME T!TrustInv
  PROVE  /\ Earned \in Int
         /\ \A p \in Nat : T!scoreWith(p) = T!atLeast(0, T!atMost(100, Earned - T!penaltyDeduction(p)))
<1>1. T!rawDenominator \in Nat /\ T!rawDenominator > 0 /\ T!rawScore \in Nat
  BY RawIs
<1>2. PICK den, raw \in Nat : den = T!rawDenominator /\ raw = T!rawScore /\ den > 0
  BY <1>1
<1>3. Earned = (2 * raw + den) \div (2 * den) /\ Earned \in Int
  BY <1>2, DivDef DEF Earned, T!round
<1>4. ASSUME NEW p \in Nat
      PROVE  T!scoreWith(p) = T!atLeast(0, T!atMost(100, Earned - T!penaltyDeduction(p)))
  <2>1. PICK q \in Nat : q = T!penaltyDeduction(p)
    BY DEF T!penaltyDeduction, T!atMost, T!MAX_PENALTY_DEDUCTION
  <2>2. T!scoreWith(p) = T!atLeast(0, T!atMost(100, (2 * (raw - q * den) + den) \div (2 * den)))
    BY <1>2, <2>1 DEF T!scoreWith, T!round
  <2>3. 2 * (raw - q * den) + den = (2 * raw + den) - q * (2 * den)
    OBVIOUS
  <2>4. ((2 * raw + den) - q * (2 * den)) \div (2 * den) = ((2 * raw + den) \div (2 * den)) - q
    <3>1. 2 * raw + den \in Int /\ 2 * den \in Nat /\ 2 * den > 0 /\ q \in Int
      BY <1>2
    <3> QED BY <3>1, DivShift
  <2> QED BY <1>3, <2>1, <2>2, <2>3, <2>4
<1> QED BY <1>3, <1>4

\* So a score none of whose parts is less is not less when it is rounded.
LEMMA RoundedMono ==
  ASSUME NEW j1 \in Nat, NEW j2 \in Nat, NEW r \in Nat, NEW v1 \in Nat, NEW v2 \in Nat,
         NEW a1 \in Nat, NEW a2 \in Nat, NEW R1 \in Nat, NEW R2 \in Nat,
         NEW k1 \in Nat, NEW k2 \in Nat, NEW K1 \in Nat, NEW K2 \in Nat,
         R1 > 0, R2 > 0, K1 > 0, K2 > 0,
         j1 <= j2, v1 <= v2, a1 * R2 <= a2 * R1, k1 * K2 <= k2 * K1
  PROVE  T!round(Total(j1, r, a1, R1, k1, K1, v1), Den(K1, R1)) <= T!round(Total(j2, r, a2, R2, k2, K2, v2), Den(K2, R2))
<1>1. Den(K1, R1) \in Nat /\ Den(K1, R1) > 0 /\ Den(K2, R2) \in Nat /\ Den(K2, R2) > 0
  <2>1. K1 * R1 \in Nat /\ K1 * R1 > 0 /\ K2 * R2 \in Nat /\ K2 * R2 > 0
    BY PosProduct
  <2> QED BY <2>1 DEF Den
<1>2. Total(j1, r, a1, R1, k1, K1, v1) \in Int /\ Total(j2, r, a2, R2, k2, K2, v2) \in Int
  BY DEF Total
<1> QED BY <1>1, <1>2, TotalMono, RoundMono

\* The score of a T!history, not yet clamped and without penalties.
Rounded(j, r, a, m, c, x, v) ==
  T!round(Total(T!atMost(j, 50), r, T!over(a, a + m, 1)[1], T!over(a, a + m, 1)[2],
              T!over(c, c + x, 1)[1], T!over(c, c + x, 1)[2], Badge(v)),
        Den(T!over(c, c + x, 1)[2], T!over(a, a + m, 1)[2]))

\* A T!history is what the score is computed from.
Past == [j : Nat, r : Nat, a : Nat, m : Nat, c : Nat, x : Nat, v : BOOLEAN]
Now == [j |-> jobsDone, r |-> rating, a |-> taken, m |-> declined, c |-> closed, x |-> cancelled, v |-> checked]
ScoreOf(h) == Rounded(h.j, h.r, h.a, h.m, h.c, h.x, h.v)

\* What the score is made of.
ScoreIsParts ==
  /\ Now \in Past /\ points \in Nat /\ ScoreOf(Now) \in Int
  /\ \A p \in Nat : T!scoreWith(p) = T!atLeast(0, T!atMost(100, ScoreOf(Now) - T!penaltyDeduction(p)))

\* So it is in every state.
LEMMA ScoreParts == T!TrustInv => ScoreIsParts
<1> SUFFICES ASSUME T!TrustInv PROVE ScoreIsParts
  OBVIOUS
<1>1. Now \in Past /\ points \in Nat
  BY DEF T!TrustInv, Now, Past
<1>2. cancelled + closed = closed + cancelled
  BY DEF T!TrustInv
<1>3. Earned = ScoreOf(Now)
  BY <1>2, RawIs DEF Earned, ScoreOf, Rounded, Now, T!keptRate, T!responseRate
<1> QED BY <1>1, <1>3, ScoreIs DEF ScoreIsParts

\* x parts of x + y and w parts of w + z, compared by their complements.
LEMMA RateMono ==
  ASSUME NEW x \in Nat, NEW y \in Nat, NEW w \in Nat, NEW z \in Nat, x <= w, z <= y
  PROVE  T!over(x, x + y, 1)[1] * T!over(w, w + z, 1)[2] <= T!over(w, w + z, 1)[1] * T!over(x, x + y, 1)[2]
<1>1. CASE x + y = 0
  <2>1. x = 0 /\ y = 0 /\ z = 0
    BY <1>1
  <2>2. T!over(x, x + y, 1) = <<1, 1>>
    BY <1>1 DEF T!over
  <2>3. T!over(w, w + z, 1)[2] = T!over(w, w + z, 1)[1]
    BY <2>1 DEF T!over
  <2>4. T!over(w, w + z, 1)[1] \in Nat
    BY RateOf
  <2> QED BY <2>2, <2>3, <2>4
<1>2. CASE x + y # 0 /\ w + z = 0
  <2>1. T!over(x, x + y, 1) = <<x, x + y>> /\ T!over(w, w + z, 1) = <<1, 1>>
    BY <1>2 DEF T!over
  <2> QED BY <2>1
<1>3. CASE x + y # 0 /\ w + z # 0
  <2>1. T!over(x, x + y, 1) = <<x, x + y>> /\ T!over(w, w + z, 1) = <<w, w + z>>
    BY <1>3 DEF T!over
  <2>2. x * (w + z) = x * w + x * z /\ w * (x + y) = w * x + w * y /\ x * w = w * x
    OBVIOUS
  <2>3. x * z <= w * z
    BY MulMono
  <2>4. w * z <= w * y
    <3>1. z * w <= y * w
      BY MulMono
    <3> QED BY <3>1
  <2>5. x * z \in Int /\ w * z \in Int /\ w * y \in Int /\ x * w \in Int
    OBVIOUS
  <2>6. x * (w + z) <= w * (x + y)
    BY <2>2, <2>3, <2>4, <2>5
  <2> QED BY <2>1, <2>6
<1> QED BY <1>1, <1>2, <1>3

\* A T!history that is better in every respect does not score less.
Better(g, h) ==
  /\ g.r = h.r /\ g.j <= h.j /\ g.a <= h.a /\ h.m <= g.m /\ g.c <= h.c /\ h.x <= g.x
  /\ g.v => h.v
LEMMA ScoreMono ==
  ASSUME NEW g \in Past, NEW h \in Past, Better(g, h)
  PROVE  ScoreOf(g) <= ScoreOf(h)
<1> DEFINE Resp(p) == T!over(p.a, p.a + p.m, 1)
           Kept(p) == T!over(p.c, p.c + p.x, 1)
<1>1. \A p \in Past : /\ Resp(p)[1] \in Nat /\ Resp(p)[2] \in Nat /\ Resp(p)[2] > 0
                      /\ Kept(p)[1] \in Nat /\ Kept(p)[2] \in Nat /\ Kept(p)[2] > 0
                      /\ p.r \in Nat /\ p.j \in Nat /\ Badge(p.v) \in Nat
  <2> TAKE p \in Past
  <2>1. p.a \in Nat /\ p.a + p.m \in Nat /\ p.c \in Nat /\ p.c + p.x \in Nat /\ p.r \in Nat /\ p.j \in Nat
    BY DEF Past
  <2> QED BY <2>1, RateOf DEF Badge
<1>2. Resp(g)[1] * Resp(h)[2] <= Resp(h)[1] * Resp(g)[2] /\ Kept(g)[1] * Kept(h)[2] <= Kept(h)[1] * Kept(g)[2]
  BY RateMono DEF Past, Better
<1>3. T!atMost(g.j, 50) <= T!atMost(h.j, 50) /\ T!atMost(g.j, 50) \in Nat /\ T!atMost(h.j, 50) \in Nat
      /\ Badge(g.v) <= Badge(h.v) /\ g.r = h.r
  BY <1>1 DEF Better, T!atMost, Badge
<1>4. /\ ScoreOf(g) = T!round(Total(T!atMost(g.j, 50), g.r, Resp(g)[1], Resp(g)[2], Kept(g)[1], Kept(g)[2], Badge(g.v)), Den(Kept(g)[2], Resp(g)[2]))
      /\ ScoreOf(h) = T!round(Total(T!atMost(h.j, 50), h.r, Resp(h)[1], Resp(h)[2], Kept(h)[1], Kept(h)[2], Badge(h.v)), Den(Kept(h)[2], Resp(h)[2]))
  BY DEF ScoreOf, Rounded
<1>5. PICK A1, A2, B1, B2, C1, C2, D1, D2 \in Nat :
        A1 = Resp(g)[1] /\ A2 = Resp(g)[2] /\ B1 = Resp(h)[1] /\ B2 = Resp(h)[2]
        /\ C1 = Kept(g)[1] /\ C2 = Kept(g)[2] /\ D1 = Kept(h)[1] /\ D2 = Kept(h)[2]
  BY <1>1
<1>6. PICK j, k, r, v, w \in Nat :
        j = T!atMost(g.j, 50) /\ k = T!atMost(h.j, 50) /\ r = g.r /\ v = Badge(g.v) /\ w = Badge(h.v)
  BY <1>1, <1>3
<1> HIDE DEF Resp, Kept
<1>7. A2 > 0 /\ B2 > 0 /\ C2 > 0 /\ D2 > 0 /\ j <= k /\ v <= w /\ A1 * B2 <= B1 * A2 /\ C1 * D2 <= D1 * C2
  BY <1>1, <1>2, <1>3, <1>5, <1>6
<1>8. T!round(Total(j, r, A1, A2, C1, C2, v), Den(C2, A2)) <= T!round(Total(k, r, B1, B2, D1, D2, w), Den(D2, B2))
  BY <1>7, RoundedMono
<1> QED BY <1>3, <1>4, <1>5, <1>6, <1>8

\* The clamp and the deduction keep the order.
LEMMA ClampMono ==
  ASSUME NEW e \in Int, NEW f \in Int, NEW p \in Nat, NEW q \in Nat, e <= f, q <= p
  PROVE  T!atLeast(0, T!atMost(100, e - T!penaltyDeduction(p))) <= T!atLeast(0, T!atMost(100, f - T!penaltyDeduction(q)))
BY DEF T!atLeast, T!atMost, T!penaltyDeduction, T!MAX_PENALTY_DEDUCTION

\* A history starts with numbers.
LEMMA TrustInit == ASSUME T!TrustAssumption PROVE T!Init => T!TrustInv
<1> SUFFICES ASSUME T!Init PROVE T!TrustInv
  OBVIOUS
<1>1. jobsDone \in Nat /\ rating \in 0..500
  BY DEF T!Init, T!TrustAssumption
<1> QED BY <1>1 DEF T!Init, T!TrustInv

\* Every event extends the T!history by counts.
LEMMA TrustStep == T!TrustInv /\ [T!Next]_(T!vars) => T!TrustInv'
<1> SUFFICES ASSUME T!TrustInv, [T!Next]_(T!vars) PROVE T!TrustInv'
  OBVIOUS
<1> USE DEF T!TrustInv
<1>1. CASE T!CloseJob
  BY <1>1 DEF T!CloseJob
<1>2. CASE T!CancelJob
  BY <1>2 DEF T!CancelJob, T!PENALTY_RULES
<1>3. CASE T!AcceptOffer
  BY <1>3 DEF T!AcceptOffer
<1>4. ASSUME NEW late \in BOOLEAN, T!MissOffer(late) PROVE T!TrustInv'
  BY <1>4 DEF T!MissOffer, T!PENALTY_RULES
<1>5. CASE T!PenaltyLapses
  BY <1>5 DEF T!PenaltyLapses, T!PENALTY_RULES, T!history, T!atLeast
<1>6. CASE T!Verified
  BY <1>6 DEF T!Verified, T!history
<1>7. CASE UNCHANGED T!vars
  BY <1>7 DEF T!vars
<1> QED BY <1>1, <1>2, <1>3, <1>4, <1>5, <1>6, <1>7 DEF T!Next

\* The range of the score, and what penalties may cost: they come off the
\* rounded score, and the tiers are as far apart as penalties may take it.
LEMMA InRange == T!TrustInv => T!ScoreInRange /\ T!PenaltiesCostOneTier
<1> SUFFICES ASSUME T!TrustInv PROVE T!ScoreInRange /\ T!PenaltiesCostOneTier
  OBVIOUS
<1>1. PICK e \in Int, p \in Nat :
        /\ T!computeTrustScore = T!atLeast(0, T!atMost(100, e - T!penaltyDeduction(p)))
        /\ T!scoreWith(0) = T!atLeast(0, T!atMost(100, e - T!penaltyDeduction(0)))
  BY ScoreParts DEF ScoreIsParts, T!computeTrustScore
<1>2. PICK s, t \in 0..100 : s = T!computeTrustScore /\ t = T!scoreWith(0) /\ s >= t - 20 /\ s <= t
  <2>1. PICK d \in 0..20 : d = T!penaltyDeduction(p)
    BY DEF T!atMost, T!penaltyDeduction, T!MAX_PENALTY_DEDUCTION
  <2>2. T!penaltyDeduction(0) = 0
    BY DEF T!atMost, T!penaltyDeduction, T!MAX_PENALTY_DEDUCTION
  <2>3. PICK s, t \in 0..100 : /\ s = T!atLeast(0, T!atMost(100, e - d))
                               /\ t = T!atLeast(0, T!atMost(100, e - 0)) /\ s >= t - 20 /\ s <= t
    <3>1. /\ T!atLeast(0, T!atMost(100, e - d)) \in 0..100 /\ T!atLeast(0, T!atMost(100, e - 0)) \in 0..100
          /\ T!atLeast(0, T!atMost(100, e - d)) >= T!atLeast(0, T!atMost(100, e - 0)) - 20
          /\ T!atLeast(0, T!atMost(100, e - d)) <= T!atLeast(0, T!atMost(100, e - 0))
      BY DEF T!atLeast, T!atMost
    <3> QED BY <3>1
  <2> QED BY <1>1, <2>1, <2>2, <2>3
<1>3. \A u \in Int : T!scoreToTier(u) \in 0..3
  BY DEF T!scoreToTier
<1>4. T!scoreToTier(s) >= T!scoreToTier(t) - 1
  BY <1>2 DEF T!scoreToTier
<1>5. \A u \in T!TRUST_TIER_THRESHOLDS : T!scoreToTier(u) = T!scoreToTier(u - 1) + 1
  BY DEF T!scoreToTier, T!TRUST_TIER_THRESHOLDS
<1> QED BY <1>2, <1>3, <1>4, <1>5 DEF T!ScoreInRange, T!PenaltiesCostOneTier, T!MAX_PENALTY_DEDUCTION

\* The score before an event and after it.
LEMMA BeforeAfter ==
  ASSUME T!TrustInv, T!TrustInv'
  PROVE  \E g, h \in Past, p, q \in Nat :
           /\ g = Now /\ h = Now' /\ p = points /\ q = points'
           /\ ScoreOf(g) \in Int /\ ScoreOf(h) \in Int
           /\ T!computeTrustScore = T!atLeast(0, T!atMost(100, ScoreOf(g) - T!penaltyDeduction(p)))
           /\ T!computeTrustScore' = T!atLeast(0, T!atMost(100, ScoreOf(h) - T!penaltyDeduction(q)))
<1>1. ScoreIsParts /\ ScoreIsParts'
  BY ScoreParts, PTL
<1>2. PICK g \in Past, p \in Nat :
        /\ g = Now /\ p = points /\ ScoreOf(g) \in Int
        /\ T!computeTrustScore = T!atLeast(0, T!atMost(100, ScoreOf(g) - T!penaltyDeduction(p)))
  BY <1>1 DEF ScoreIsParts, T!computeTrustScore
<1>3. PICK h \in Past, q \in Nat :
        /\ h = Now' /\ q = points' /\ ScoreOf(h) \in Int
        /\ T!computeTrustScore' = T!atLeast(0, T!atMost(100, ScoreOf(h) - T!penaltyDeduction(q)))
  BY <1>1 DEF ScoreIsParts, T!computeTrustScore
<1> QED BY <1>2, <1>3

\* A better T!history with no more points does not score less.
LEMMA Rises ==
  ASSUME T!TrustInv, T!TrustInv', Better(Now, Now'), points' <= points
  PROVE  T!computeTrustScore' >= T!computeTrustScore
<1>1. PICK g, h \in Past, p, q \in Nat :
           /\ g = Now /\ h = Now' /\ p = points /\ q = points'
           /\ ScoreOf(g) \in Int /\ ScoreOf(h) \in Int
           /\ T!computeTrustScore = T!atLeast(0, T!atMost(100, ScoreOf(g) - T!penaltyDeduction(p)))
           /\ T!computeTrustScore' = T!atLeast(0, T!atMost(100, ScoreOf(h) - T!penaltyDeduction(q)))
  BY BeforeAfter
<1>2. ScoreOf(g) <= ScoreOf(h) /\ q <= p
  BY <1>1, ScoreMono
<1>3. PICK e, f \in Int : e = ScoreOf(g) /\ f = ScoreOf(h)
  BY <1>1
<1>4. PICK s, t \in Int : s = T!computeTrustScore /\ t = T!computeTrustScore' /\ s <= t
  <2>1. T!atLeast(0, T!atMost(100, e - T!penaltyDeduction(p))) <= T!atLeast(0, T!atMost(100, f - T!penaltyDeduction(q)))
    BY <1>2, <1>3, ClampMono
  <2>2. T!atLeast(0, T!atMost(100, e - T!penaltyDeduction(p))) \in Int /\ T!atLeast(0, T!atMost(100, f - T!penaltyDeduction(q))) \in Int
    BY DEF T!atLeast, T!atMost, T!penaltyDeduction, T!MAX_PENALTY_DEDUCTION
  <2> QED BY <1>1, <1>3, <2>1, <2>2
<1> QED BY <1>4

\* A worse one with no fewer points does not score more.
LEMMA Falls ==
  ASSUME T!TrustInv, T!TrustInv', Better(Now', Now), points <= points'
  PROVE  T!computeTrustScore' <= T!computeTrustScore
<1>1. PICK g, h \in Past, p, q \in Nat :
           /\ g = Now /\ h = Now' /\ p = points /\ q = points'
           /\ ScoreOf(g) \in Int /\ ScoreOf(h) \in Int
           /\ T!computeTrustScore = T!atLeast(0, T!atMost(100, ScoreOf(g) - T!penaltyDeduction(p)))
           /\ T!computeTrustScore' = T!atLeast(0, T!atMost(100, ScoreOf(h) - T!penaltyDeduction(q)))
  BY BeforeAfter
<1>2. ScoreOf(h) <= ScoreOf(g) /\ p <= q
  BY <1>1, ScoreMono
<1>3. PICK e, f \in Int : e = ScoreOf(g) /\ f = ScoreOf(h)
  BY <1>1
<1>4. PICK s, t \in Int : s = T!computeTrustScore /\ t = T!computeTrustScore' /\ t <= s
  <2>1. T!atLeast(0, T!atMost(100, f - T!penaltyDeduction(q))) <= T!atLeast(0, T!atMost(100, e - T!penaltyDeduction(p)))
    BY <1>2, <1>3, ClampMono
  <2>2. T!atLeast(0, T!atMost(100, e - T!penaltyDeduction(p))) \in Int /\ T!atLeast(0, T!atMost(100, f - T!penaltyDeduction(q))) \in Int
    BY DEF T!atLeast, T!atMost, T!penaltyDeduction, T!MAX_PENALTY_DEDUCTION
  <2> QED BY <1>1, <1>3, <2>1, <2>2
<1> QED BY <1>4

\* Every event improves the history or worsens it.
LEMMA EventsMove ==
  ASSUME T!TrustInv, T!TrustInv'
  PROVE  /\ T!CloseJob \/ T!AcceptOffer \/ T!PenaltyLapses \/ T!Verified => T!computeTrustScore' >= T!computeTrustScore
         /\ T!CancelJob \/ (\E late \in BOOLEAN : T!MissOffer(late)) => T!computeTrustScore' <= T!computeTrustScore
<1>1. ASSUME T!CloseJob \/ T!AcceptOffer \/ T!PenaltyLapses \/ T!Verified
      PROVE  T!computeTrustScore' >= T!computeTrustScore
  <2>1. points' <= points
    BY <1>1 DEF T!CloseJob, T!AcceptOffer, T!PenaltyLapses, T!Verified, T!TrustInv, T!PENALTY_RULES, T!atLeast
  <2>2. Better(Now, Now')
    BY <1>1 DEF T!CloseJob, T!AcceptOffer, T!PenaltyLapses, T!Verified, T!history, T!TrustInv, Better, Now
  <2> QED BY <2>1, <2>2, Rises
<1>2. ASSUME T!CancelJob \/ (\E late \in BOOLEAN : T!MissOffer(late))
      PROVE  T!computeTrustScore' <= T!computeTrustScore
  <2>1. points <= points'
    BY <1>2 DEF T!CancelJob, T!MissOffer, T!TrustInv, T!PENALTY_RULES
  <2>2. Better(Now', Now)
    BY <1>2 DEF T!CancelJob, T!MissOffer, T!TrustInv, Better, Now
  <2> QED BY <2>1, <2>2, Falls
<1> QED BY <1>1, <1>2

-----------------------------------------------------------------------------
(* The services together.                                                  *)

\* Every service's invariant, in its part.
ServicesInv ==
  /\ part = "guarantee" => TypeOK /\ DecisionInv
  /\ part = "accounts" => A!TypeOK /\ A!AccountsInv
  /\ part = "failing" => F!TypeOK /\ F!AccountsInv
  /\ part = "codes" => C!TypeOK /\ C!CodesInv
  /\ part = "logins" => L!TypeOK /\ L!LoginInv
  /\ part = "trust" => T!TrustInv
  /\ part = "reviews" => R!TypeOK /\ R!ReputationInv
  /\ part = "trial" => S!TypeOK /\ S!TrialInv

\* The services' initial states satisfy it.
LEMMA ServicesInit == MCInit => ServicesInv
<1> SUFFICES ASSUME MCInit PROVE ServicesInv
  OBVIOUS
<1>1. part = "guarantee" => TypeOK /\ DecisionInv
  BY InitOK DEF MCInit
<1>2. part = "accounts" => A!TypeOK /\ A!AccountsInv
  BY ServicesAssumption, A!InitOK DEF MCInit
<1>3. part = "failing" => F!TypeOK /\ F!AccountsInv
  BY ServicesAssumption, F!InitOK DEF MCInit
<1>4. part = "codes" => C!TypeOK /\ C!CodesInv
  BY ServicesAssumption, C!InitOK DEF MCInit
<1>5. part = "logins" => L!TypeOK /\ L!LoginInv
  BY ServicesAssumption, LoginInit DEF MCInit
<1>6. part = "reviews" => R!TypeOK /\ R!ReputationInv
  BY ServicesAssumption, R!InitOK DEF MCInit
<1>7. part = "trial" => S!TypeOK /\ S!TrialInv
  BY ServicesAssumption, TrialInit DEF MCInit
<1>8. part = "trust" => T!TrustInv
  BY ServicesAssumption, TrustInit DEF MCInit
<1> QED BY <1>1, <1>2, <1>3, <1>4, <1>5, <1>6, <1>7, <1>8 DEF ServicesInv

\* Every step of every part keeps it.
LEMMA ServicesStep ==
  ASSUME ServicesInv, [MCNext]_all
  PROVE  ServicesInv'
<1>1. part' = part
  BY DEF MCNext, all
<1>2. CASE part = "guarantee"
  <2>1. [Next]_vars
    BY <1>2 DEF MCNext, all
  <2>2. TypeOK' /\ DecisionInv'
    BY <1>2, <2>1, TypesKept, DecisionsKept DEF ServicesInv
  <2> QED BY <1>1, <1>2, <2>2 DEF ServicesInv
<1>3. CASE part = "accounts"
  <2>1. A!Next \/ UNCHANGED A!vars
    BY <1>3 DEF MCNext, all, accountsVars, A!vars
  <2>2. A!TypeOK' /\ A!AccountsInv'
    BY <1>3, <2>1, ServicesAssumption, A!StepKeeps, A!StutterKeeps DEF ServicesInv
  <2> QED BY <1>1, <1>3, <2>2 DEF ServicesInv
<1>4. CASE part = "failing"
  <2>1. F!Next \/ UNCHANGED F!vars
    BY <1>4 DEF MCNext, all, accountsVars, F!vars
  <2>2. F!TypeOK' /\ F!AccountsInv'
    BY <1>4, <2>1, ServicesAssumption, F!StepKeeps, F!StutterKeeps DEF ServicesInv
  <2> QED BY <1>1, <1>4, <2>2 DEF ServicesInv
<1>5. CASE part = "codes"
  <2>1. C!Next \/ UNCHANGED C!vars
    BY <1>5 DEF MCNext, all, codesVars, C!vars
  <2>2. C!TypeOK' /\ C!CodesInv'
    BY <1>5, <2>1, ServicesAssumption, C!StepKeeps DEF ServicesInv
  <2> QED BY <1>1, <1>5, <2>2 DEF ServicesInv
<1>6. CASE part = "logins"
  <2>1. CASE UNCHANGED L!vars
    <3>1. L!TypeOK' /\ L!LoginInv'
      BY <1>6, <2>1 DEF L!vars, L!TypeOK, L!MaxFails, L!LoginInv, L!Where, ServicesInv
    <3> QED BY <1>1, <1>6, <3>1 DEF ServicesInv
  <2>2. CASE L!Next
    <3>1. L!TypeOK' /\ L!LoginInv'
      BY <1>6, <2>2, ServicesAssumption, LoginStep DEF ServicesInv
    <3> QED BY <1>1, <1>6, <3>1 DEF ServicesInv
  <2> QED BY <1>6, <2>1, <2>2 DEF MCNext, all, loginsVars, L!vars
<1>7. CASE part = "reviews"
  <2>1. R!Next \/ UNCHANGED R!vars
    BY <1>7 DEF MCNext, all, reviewsVars, R!vars
  <2>2. R!TypeOK' /\ R!ReputationInv'
    BY <1>7, <2>1, ServicesAssumption, R!StepKeeps DEF ServicesInv
  <2> QED BY <1>1, <1>7, <2>2 DEF ServicesInv
<1>8. CASE part = "trial"
  <2>1. CASE UNCHANGED S!vars
    <3>1. S!TypeOK' /\ S!TrialInv'
      BY <1>8, <2>1 DEF S!vars, S!TypeOK, S!TrialInv, ServicesInv
    <3> QED BY <1>1, <1>8, <3>1 DEF ServicesInv
  <2>2. CASE S!Next
    <3>1. S!TypeOK' /\ S!TrialInv'
      BY <1>8, <2>2, ServicesAssumption, TrialStep DEF ServicesInv
    <3> QED BY <1>1, <1>8, <3>1 DEF ServicesInv
  <2> QED BY <1>8, <2>1, <2>2 DEF MCNext, all, trialVars, S!vars
<1>9. CASE part = "trust"
  <2>1. [T!Next]_(T!vars)
    BY <1>9 DEF MCNext, all, trustVars, T!vars
  <2>2. T!TrustInv'
    BY <1>9, <2>1, TrustStep DEF ServicesInv
  <2> QED BY <1>1, <1>9, <2>2 DEF ServicesInv
<1>10. CASE part \notin {"guarantee", "accounts", "failing", "codes", "logins", "trust", "reviews", "trial"}
  BY <1>1, <1>10 DEF ServicesInv
<1> QED BY <1>2, <1>3, <1>4, <1>5, <1>6, <1>7, <1>8, <1>9, <1>10

-----------------------------------------------------------------------------
(* The theorems.                                                           *)

\* Every behaviour keeps the invariant: what the theorems below follow from.
LEMMA ServicesKept == MCSpec => []ServicesInv
<1>1. MCInit => ServicesInv
  BY ServicesInit
<1>2. ServicesInv /\ [MCNext]_all => ServicesInv'
  BY ServicesStep
<1> QED BY <1>1, <1>2, PTL DEF MCSpec

\* Every variable of every service keeps its type.
THEOREM ServicesTypes == MCSpec => []TypesOK
<1>1. ServicesInv => TypesOK
  BY DEF ServicesInv, TypesOK
<1> QED BY <1>1, ServicesKept, PTL

\* A refresh token is exchanged at most once, for any requests and sessions.
THEOREM SingleUseHolds == MCSpec => []SingleUse
<1>1. ServicesInv => SingleUse
  BY DEF ServicesInv, SingleUse, A!SingleUse, A!AccountsInv, A!SessionOK
<1> QED BY <1>1, ServicesKept, PTL

\* The master is charged at most one complaint per order, for a low rating that
\* is stored, for any orders and requests.
THEOREM OneComplaintHolds == MCSpec => []OneComplaintPerOrder
<1>1. ServicesInv => OneComplaintPerOrder
  BY DEF ServicesInv, OneComplaintPerOrder, R!OneComplaintPerOrder, R!ReputationInv, R!OrderOK,
         R!COMPLAINT_RATING_THRESHOLD
<1> QED BY <1>1, ServicesKept, PTL

\* For any requests and limits, and whenever Redis is out of reach: no more
\* metered messages are sent than the daily cap, no more wrong codes and
\* passwords compared than the limits and the requests past the check allow,
\* and no code accepted that a newer one has replaced.
THEOREM ServiceLimitsHold == MCSpec => LimitsHold
<1>1. ServicesInv => (part = "codes" => C!MeteredWithinCap /\ C!GuessesBounded)
  BY ServicesAssumption, C!LimitsKept DEF ServicesInv
<1>2. ServicesInv => (part = "logins" => L!GuessesBounded)
  <2> SUFFICES ASSUME L!TypeOK, L!LoginInv, ~open PROVE guesses < LOGIN_MAX_ATTEMPTS + L!Cardinality(Requests)
    BY DEF ServicesInv, L!GuessesBounded
  <2>1. L!Cardinality(Requests) \in Nat /\ L!Cardinality(L!Where("compare")) \in Nat
    BY ServicesAssumption, Sizes
  <2> QED BY <2>1, ServicesAssumption DEF L!LoginInv, L!LoginAssumption, L!TypeOK
<1>3. ServicesInv /\ [MCNext]_all
        => [\A c \in DOMAIN codes : codes[c].state = "deleted" => accepted'[c] = accepted[c]]_(C!vars)
  <2> SUFFICES ASSUME ServicesInv, [MCNext]_all, ~(UNCHANGED C!vars) PROVE C!NoneAccepted
    BY DEF C!NoneAccepted
  <2>1. part = "codes" /\ C!Next
    BY DEF MCNext, all, codesVars, C!vars
  <2> QED BY <2>1, ServicesAssumption, C!ReplacedKept DEF ServicesInv
<1> QED BY <1>1, <1>2, <1>3, ServicesKept, PTL DEF LimitsHold, C!ReplacedNotAccepted, MCSpec

\* The score stays in its range, penalties cost one tier at most, and no event
\* moves it the wrong way, for any ratings and any counts of events.
THEOREM TrustScoreHolds == MCSpec => TrustScoreSound
<1>1. ServicesInv => (part = "trust" => T!ScoreInRange /\ T!PenaltiesCostOneTier)
  BY InRange DEF ServicesInv
<1>2. ServicesInv /\ ServicesInv' /\ [MCNext]_all =>
        [/\ T!CloseJob \/ T!AcceptOffer \/ T!PenaltyLapses \/ T!Verified =>
              T!computeTrustScore' >= T!computeTrustScore
         /\ T!CancelJob \/ (\E late \in BOOLEAN : T!MissOffer(late)) =>
              T!computeTrustScore' <= T!computeTrustScore]_(T!vars)
  <2> SUFFICES ASSUME ServicesInv, ServicesInv', [MCNext]_all, ~(UNCHANGED T!vars)
               PROVE  /\ T!CloseJob \/ T!AcceptOffer \/ T!PenaltyLapses \/ T!Verified =>
                            T!computeTrustScore' >= T!computeTrustScore
                      /\ T!CancelJob \/ (\E late \in BOOLEAN : T!MissOffer(late)) =>
                            T!computeTrustScore' <= T!computeTrustScore
    OBVIOUS
  <2>1. part = "trust" /\ part' = "trust"
    BY DEF MCNext, all, trustVars, T!vars
  <2>2. T!TrustInv /\ T!TrustInv'
    BY <2>1 DEF ServicesInv
  <2> QED BY <2>2, EventsMove
<1> QED BY <1>1, <1>2, ServicesKept, PTL DEF TrustScoreSound, T!EventsMoveScoreRightWay, MCSpec
=============================================================================
