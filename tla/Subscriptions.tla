--------------------------- MODULE Subscriptions ---------------------------
(***************************************************************************)
(* The Premium trial of one master (subscriptions.service.ts): no row is   *)
(* the free plan, a trial lasts TrialDays, and a trial that is over is     *)
(* marked EXPIRED by whoever reads it next.  A read and the write that     *)
(* follows it are two statements.                                          *)
(***************************************************************************)
EXTENDS Naturals

CONSTANTS
  Callers,     \* requests that may be in flight at the same time
  TrialDays,
  MaxDay,      \* bound on time
  None

VARIABLES
  row,    \* master_subscriptions: status and trialEndsAt, or None
  now,
  call    \* requests in flight: what they do next and the row they have read

vars == <<row, now, call>>

Rows == [status: {"TRIAL", "EXPIRED"}, ends: 0..(MaxDay + TrialDays)]
Idle == [op |-> None, at |-> "idle", read |-> None]

\* Every variable keeps its type; no trial is further away than its length.
TypeOK ==
  /\ row \in Rows \cup {None} /\ now \in 0..MaxDay
  /\ \A c \in Callers : call[c].op \in {None, "getStatus", "upgrade"} /\ call[c].read \in Rows \cup {None}
  /\ row # None => row.ends <= now + TrialDays

Init == row = None /\ now = 0 /\ call = [c \in Callers |-> Idle]

tick == now < MaxDay /\ now' = now + 1 /\ UNCHANGED <<row, call>>

\* toDto and freeDto; nothing sets a subscription ACTIVE yet.
isPremiumActive(r) == r # None /\ r.status = "TRIAL"

Over(r) == r # None /\ r.status = "TRIAL" /\ r.ends < now

\* GET subscription and POST subscription/upgrade both begin with getStatus.
getStatus(c, op) ==
  /\ call[c] = Idle
  /\ call' = [call EXCEPT ![c] = [op |-> op, read |-> row,
                                  at |-> IF Over(row) THEN "heal" ELSE "decide"]]
  /\ UNCHANGED <<row, now>>

\* update where masterId: the row as it is by now.
selfHeal(c) ==
  /\ call[c].at = "heal"
  /\ row' = [row EXCEPT !.status = "EXPIRED"]
  /\ call' = [call EXCEPT ![c].at = "decide", ![c].read = row']
  /\ UNCHANGED now

upgradeToPremium(c) ==
  /\ call[c].at = "decide" /\ call[c].op = "upgrade"
  /\ row' = IF isPremiumActive(call[c].read) THEN row
            ELSE [status |-> "TRIAL", ends |-> now + TrialDays]
  /\ call' = [call EXCEPT ![c] = Idle] /\ UNCHANGED now

answer(c) ==
  /\ call[c].at = "decide" /\ call[c].op = "getStatus"
  /\ call' = [call EXCEPT ![c] = Idle] /\ UNCHANGED <<row, now>>

Next ==
  \/ tick
  \/ \E c \in Callers : \/ getStatus(c, "getStatus") \/ getStatus(c, "upgrade")
                        \/ selfHeal(c) \/ upgradeToPremium(c) \/ answer(c)

Spec == Init /\ [][Next]_vars

-----------------------------------------------------------------------------
\* A trial is marked EXPIRED only when its time is over, so whoever upgrades
\* has the days he was promised.
TrialHonoured == row # None /\ row.status = "EXPIRED" => row.ends < now

-----------------------------------------------------------------------------
\* What the constants are; None, null, is not a row.
TrialAssumption == TrialDays \in Nat /\ MaxDay \in Nat /\ None \notin Rows

\* Every request is at a known step, and one about to mark a trial as over has
\* a row to mark: no row is ever deleted.
TrialInv ==
  /\ call \in [Callers -> [op: {None, "getStatus", "upgrade"},
                           at: {"idle", "heal", "decide"}, read: Rows \cup {None}]]
  /\ \A c \in Callers : call[c].at = "heal" => row # None
=============================================================================
