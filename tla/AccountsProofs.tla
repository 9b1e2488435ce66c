---------------------------- MODULE AccountsProofs ----------------------------
(***************************************************************************)
(* One account, for any requests in flight, session rows, passwords and    *)
(* failures: the types, and that a refresh token is single-use.            *)
(***************************************************************************)
EXTENDS Accounts, FiniteSetTheorems, TLAPS

Handlers == [at: Steps \cup {"idle"}, seen: UserStatus \cup {None},
             arg: signupRoles \cup Sessions \cup {None}, pw: 0..MaxPasswords]
writing == {"register", "reset"}

\* What a request that moves on is seen as: its new state h, the others' old.
Becomes(r, h) == /\ exec' \in [Requests -> Handlers] /\ exec'[r] = h
                 /\ \A q \in Requests : q # r => exec'[q] = exec[q]

\* A request that starts, goes on or returns changes its own state alone.
LEMMA Moves ==
  ASSUME TypeOK, NEW r \in Requests, NEW h \in Handlers, exec' = [exec EXCEPT ![r] = h]
  PROVE  Becomes(r, h)
BY DEF TypeOK, Becomes, Handlers

\* Goto keeps what the request carries.
LEMMA Goes ==
  ASSUME TypeOK, NEW r \in Requests, NEW step \in Steps \cup {"idle"}, Goto(r, step)
  PROVE  Becomes(r, [exec[r] EXCEPT !.at = step]) /\ [exec[r] EXCEPT !.at = step] \in Handlers
<1> DEFINE h == [exec[r] EXCEPT !.at = step]
<1>1. h \in Handlers
  BY DEF TypeOK, Handlers
<1>2. exec' = [exec EXCEPT ![r] = h]
  BY DEF TypeOK, Goto
<1> HIDE DEF h
<1>3. Becomes(r, h)
  BY <1>1, <1>2, Moves
<1> QED BY <1>1, <1>3 DEF h

\* The requests about to write a password are finitely many, and a request that
\* moves on joins or leaves them alone.
LEMMA WritingMoves ==
  ASSUME AccountsAssumption, TypeOK, NEW r \in Requests, NEW h, Becomes(r, h)
  PROVE  /\ Cardinality(Writing) \in Nat /\ Cardinality(Writing') \in Nat
         /\ Cardinality(Writing') =
              Cardinality(Writing) + (IF h.at \in writing THEN 1 ELSE 0)
                                   - (IF exec[r].at \in writing THEN 1 ELSE 0)
<1>1. IsFiniteSet(Writing)
  BY FS_Subset DEF AccountsAssumption, Writing
<1>2. Writing' = IF h.at \in writing THEN Writing \cup {r} ELSE Writing \ {r}
  BY DEF Becomes, Writing, writing
<1>3. r \in Writing <=> exec[r].at \in writing
  BY DEF Writing, writing
<1>4. Cardinality(Writing) \in Nat
  BY <1>1, FS_CardinalityType
<1>5. /\ IsFiniteSet(Writing \cup {r}) /\ IsFiniteSet(Writing \ {r})
      /\ Cardinality(Writing \cup {r}) = (IF r \in Writing THEN Cardinality(Writing) ELSE Cardinality(Writing) + 1)
      /\ Cardinality(Writing \ {r}) = (IF r \in Writing THEN Cardinality(Writing) - 1 ELSE Cardinality(Writing))
  BY <1>1, FS_AddElement, FS_RemoveElement
<1>6. Cardinality(Writing \cup {r}) \in Nat /\ Cardinality(Writing \ {r}) \in Nat
  BY <1>5, FS_CardinalityType
<1> QED BY <1>2, <1>3, <1>4, <1>5, <1>6

\* One that is about to write a password is counted.
LEMMA WritingCounted ==
  ASSUME AccountsAssumption, NEW r \in Requests, exec[r].at \in writing
  PROVE  Cardinality(Writing) \in Nat /\ Cardinality(Writing) >= 1
<1>1. IsFiniteSet(Writing) /\ r \in Writing
  BY FS_Subset DEF AccountsAssumption, Writing, writing
<1>2. Cardinality(Writing) \in Nat /\ Cardinality(Writing \ {r}) \in Nat
  BY <1>1, FS_RemoveElement, FS_CardinalityType
<1>3. Cardinality(Writing \ {r}) = Cardinality(Writing) - 1
  BY <1>1, FS_RemoveElement
<1> QED BY <1>2, <1>3

\* The first states have the types and the invariant.
LEMMA InitOK == AccountsAssumption /\ Init => TypeOK /\ AccountsInv
<1> SUFFICES ASSUME AccountsAssumption, Init PROVE TypeOK /\ AccountsInv OBVIOUS
<1>1. TypeOK
  <2>1. sessions \in [Sessions -> [live: BOOLEAN, access: BOOLEAN, password: 0..MaxPasswords, used: Nat]]
    BY DEF AccountsAssumption, Init, NoSession
  <2>2. Idle \in Handlers
    BY DEF AccountsAssumption, Idle, Handler, Handlers
  <2>3. exec \in [Requests -> Handlers]
    BY <2>2 DEF Init
  <2>4. lock \in [Sessions -> Requests \cup {None}]
    BY DEF Init
  <2>5. /\ status \in UserStatus \cup {None} /\ role \in signupRoles \cup {None}
        /\ profiles \subseteq signupRoles /\ referral \in {"PENDING", "ACTIVE", None}
        /\ verified \in BOOLEAN /\ audits \subseteq {"USER_SUSPEND", "USER_RESTORE"}
    BY DEF Init
  <2>6. password \in 0..MaxPasswords /\ resetTo \in 0..password /\ failures \in 0..MaxFailures
    BY DEF Init, AccountsAssumption
  <2> QED BY <2>1, <2>3, <2>4, <2>5, <2>6 DEF TypeOK, Handlers
<1>2. Writing = {}
  BY DEF Init, Writing, Idle, Handler
<1>3. \A r \in Requests : RequestOK(r)
  BY DEF Init, RequestOK, Idle, Handler
<1>4. \A s \in Sessions : SessionOK(s)
  BY DEF Init, SessionOK, NoSession
<1>5. password + Cardinality(Writing) <= MaxPasswords
  BY <1>2, FS_EmptySet DEF Init, AccountsAssumption
<1> QED BY <1>1, <1>3, <1>4, <1>5 DEF AccountsInv

-----------------------------------------------------------------------------
(* Steps that leave the session rows and their locks alone.                *)

\* Such a step of a request that holds no lock, and takes none, keeps the
\* invariant, when what the request carries after it is in order.
LEMMA Quiet ==
  ASSUME AccountsAssumption, TypeOK, AccountsInv, NEW r \in Requests, NEW h \in Handlers,
         Becomes(r, h), UNCHANGED <<sessions, lock>>,
         exec[r].at # "revoke", h.at # "revoke",
         h.at \in {"register", "profile"} => h.arg \in signupRoles,
         h.at = "register" => h.seen \in {None, "PENDING"},
         h.pw <= password', password' \in Nat, password <= password',
         password' + Cardinality(Writing') <= MaxPasswords
  PROVE  AccountsInv' /\ password' \in 0..MaxPasswords
<1>0. Cardinality(Writing') \in Nat
  BY WritingMoves
<1>1. ASSUME NEW q \in Requests PROVE RequestOK(q)'
  <2>1. CASE q = r
    BY <2>1 DEF Becomes, RequestOK
  <2>2. CASE q # r
    BY <2>2 DEF Becomes, RequestOK, AccountsInv, TypeOK, Handlers
  <2> QED BY <2>1, <2>2
<1>2. ASSUME NEW s \in Sessions PROVE SessionOK(s)'
  <2>1. SessionOK(s) /\ lock[s] \in Requests \cup {None} /\ lock[s] # r /\ sessions[s].password \in Nat
    BY DEF AccountsInv, SessionOK, TypeOK, AccountsAssumption
  <2> QED BY <2>1 DEF Becomes, SessionOK, TypeOK
<1> QED BY <1>0, <1>1, <1>2 DEF AccountsInv, TypeOK, AccountsAssumption


\* A request that begins: what it carries is what it has just read.
LEMMA BeginKeeps ==
  ASSUME AccountsAssumption, TypeOK, AccountsInv, NEW r \in Requests
  PROVE  \/ \E signupRole \in signupRoles : register(r, signupRole)
         \/ verifyOtp(r) \/ login(r) \/ resetPassword(r) \/ suspend(r) \/ restore(r)
         => TypeOK' /\ AccountsInv'
<1> USE DEF userRow, writing
<1>1. ASSUME NEW signupRole \in signupRoles, register(r, signupRole) PROVE TypeOK' /\ AccountsInv'
  <2> DEFINE h == Handler("register", status, signupRole, 0)
  <2>1. h \in Handlers /\ exec' = [exec EXCEPT ![r] = h] /\ exec[r].at = "idle" /\ UNCHANGED <<password, sessions, lock>>
    BY <1>1 DEF TypeOK, register, Start, Handlers, Handler, Idle, Steps, AccountsAssumption
  <2>2. Becomes(r, h)
    BY <2>1, Moves
  <2>3. password' + Cardinality(Writing') <= MaxPasswords
    <3>1. password + Cardinality(Writing) < MaxPasswords
      BY <1>1 DEF register, PasswordLeft, Writing
    <3> QED BY <2>1, <2>2, <3>1, WritingMoves DEF TypeOK, Handler, AccountsAssumption
  <2>4. AccountsInv' /\ password' \in 0..MaxPasswords
    BY <1>1, <2>1, <2>2, <2>3, Quiet DEF TypeOK, Handler, register
  <2> QED BY <1>1, <2>1, <2>2, <2>4 DEF TypeOK, Becomes, Handlers, register
<1>2. ASSUME verifyOtp(r) PROVE TypeOK' /\ AccountsInv'
  <2> DEFINE h == Handler(IF status = "PENDING" THEN "activate" ELSE "issue", status, None, password)
  <2>1. h \in Handlers /\ exec' = [exec EXCEPT ![r] = h] /\ exec[r].at = "idle" /\ UNCHANGED <<password, sessions, lock>>
    BY <1>2 DEF TypeOK, verifyOtp, Start, Handlers, Handler, Idle, Steps, AccountsAssumption
  <2>2. Becomes(r, h)
    BY <2>1, Moves
  <2>3. password' + Cardinality(Writing') <= MaxPasswords
    BY <1>2, <2>1, <2>2, WritingMoves DEF AccountsInv, TypeOK, Handler, verifyOtp
  <2>4. AccountsInv' /\ password' \in 0..MaxPasswords
    BY <1>2, <2>1, <2>2, <2>3, Quiet DEF TypeOK, Handler, verifyOtp
  <2> QED BY <1>2, <2>1, <2>2, <2>4 DEF TypeOK, Becomes, Handlers, verifyOtp
<1>3. ASSUME login(r) PROVE TypeOK' /\ AccountsInv'
  <2> DEFINE h == Handler("issue", status, None, password)
  <2>1. h \in Handlers /\ exec' = [exec EXCEPT ![r] = h] /\ exec[r].at = "idle" /\ UNCHANGED <<password, sessions, lock>>
    BY <1>3 DEF TypeOK, login, Start, Handlers, Handler, Idle, Steps, AccountsAssumption
  <2>2. Becomes(r, h)
    BY <2>1, Moves
  <2>3. password' + Cardinality(Writing') <= MaxPasswords
    BY <1>3, <2>1, <2>2, WritingMoves DEF AccountsInv, TypeOK, Handler, login
  <2>4. AccountsInv' /\ password' \in 0..MaxPasswords
    BY <1>3, <2>1, <2>2, <2>3, Quiet DEF TypeOK, Handler, login
  <2> QED BY <1>3, <2>1, <2>2, <2>4 DEF TypeOK, Becomes, Handlers, login
<1>4. ASSUME resetPassword(r) PROVE TypeOK' /\ AccountsInv'
  <2> DEFINE h == Handler("reset", None, None, 0)
  <2>1. h \in Handlers /\ exec' = [exec EXCEPT ![r] = h] /\ exec[r].at = "idle" /\ UNCHANGED <<password, sessions, lock>>
    BY <1>4 DEF TypeOK, resetPassword, Start, Handlers, Handler, Idle, Steps, AccountsAssumption
  <2>2. Becomes(r, h)
    BY <2>1, Moves
  <2>3. password' + Cardinality(Writing') <= MaxPasswords
    <3>1. password + Cardinality(Writing) < MaxPasswords
      BY <1>4 DEF resetPassword, PasswordLeft, Writing
    <3> QED BY <2>1, <2>2, <3>1, WritingMoves DEF TypeOK, Handler, AccountsAssumption
  <2>4. AccountsInv' /\ password' \in 0..MaxPasswords
    BY <1>4, <2>1, <2>2, <2>3, Quiet DEF TypeOK, Handler, resetPassword
  <2> QED BY <1>4, <2>1, <2>2, <2>4 DEF TypeOK, Becomes, Handlers, resetPassword
<1>5. ASSUME suspend(r) PROVE TypeOK' /\ AccountsInv'
  <2> DEFINE h == Handler("auditSuspend", None, None, 0)
  <2>1. h \in Handlers /\ exec' = [exec EXCEPT ![r] = h] /\ exec[r].at = "idle" /\ UNCHANGED <<password, sessions, lock>>
    BY <1>5 DEF TypeOK, suspend, Start, Handlers, Handler, Idle, Steps, AccountsAssumption
  <2>2. Becomes(r, h)
    BY <2>1, Moves
  <2>3. password' + Cardinality(Writing') <= MaxPasswords
    BY <1>5, <2>1, <2>2, WritingMoves DEF AccountsInv, TypeOK, Handler, suspend
  <2>4. AccountsInv' /\ password' \in 0..MaxPasswords
    BY <1>5, <2>1, <2>2, <2>3, Quiet DEF TypeOK, Handler, suspend
  <2> QED BY <1>5, <2>1, <2>2, <2>4 DEF TypeOK, Becomes, Handlers, UserStatus, suspend
<1>6. ASSUME restore(r) PROVE TypeOK' /\ AccountsInv'
  <2> DEFINE h == Handler("auditRestore", None, None, 0)
  <2>1. h \in Handlers /\ exec' = [exec EXCEPT ![r] = h] /\ exec[r].at = "idle" /\ UNCHANGED <<password, sessions, lock>>
    BY <1>6 DEF TypeOK, restore, Start, Handlers, Handler, Idle, Steps, AccountsAssumption
  <2>2. Becomes(r, h)
    BY <2>1, Moves
  <2>3. password' + Cardinality(Writing') <= MaxPasswords
    BY <1>6, <2>1, <2>2, WritingMoves DEF AccountsInv, TypeOK, Handler, restore
  <2>4. AccountsInv' /\ password' \in 0..MaxPasswords
    BY <1>6, <2>1, <2>2, <2>3, Quiet DEF TypeOK, Handler, restore
  <2> QED BY <1>6, <2>1, <2>2, <2>4 DEF TypeOK, Becomes, Handlers, UserStatus, restore
<1> QED BY <1>1, <1>2, <1>3, <1>4, <1>5, <1>6

\* A request that goes on, and neither exchanges nor revokes a session: only
\* those that were about to write a password write one.
LEMMA ContinueKeeps ==
  ASSUME AccountsAssumption, TypeOK, AccountsInv, NEW r \in Requests
  PROVE  \/ writeUser(r) \/ ensureProfile(r) \/ \E referred \in BOOLEAN : recordSignup(r, referred)
         \/ activate(r) \/ activateOnVerify(r) \/ refresh(r) \/ writePassword(r) \/ auditStatusChange(r)
         => TypeOK' /\ AccountsInv'
<1> USE DEF userRow, writing, At
<1>0. /\ exec[r].pw <= password /\ RequestOK(r)
      /\ password + Cardinality(Writing) <= MaxPasswords
      /\ exec[r] \in Handlers
  BY DEF AccountsInv, RequestOK, TypeOK, Handlers
<1>a. Idle \in Handlers
  BY DEF Idle, Handler, Handlers, AccountsAssumption
<1>1. ASSUME writeUser(r) PROVE TypeOK' /\ AccountsInv'
  <2> DEFINE h == IF exec[r].seen = None /\ status # None THEN Idle ELSE [exec[r] EXCEPT !.at = "profile"]
  <2>1. h \in Handlers /\ UNCHANGED <<sessions, lock>>
    BY <1>0, <1>a, <1>1 DEF writeUser, Steps, Handlers
  <2>2. exec' = [exec EXCEPT ![r] = h]
    BY <1>0, <1>1 DEF writeUser, TypeOK, Goto, Return
  <2>3. Becomes(r, h)
    BY <2>1, <2>2, Moves
  <2>4. password' \in Nat /\ password <= password' /\ password' + Cardinality(Writing') <= MaxPasswords
    BY <1>0, <1>1, <2>3, WritingMoves DEF TypeOK, writeUser, Idle, Handler, AccountsAssumption
  <2>5. AccountsInv' /\ password' \in 0..MaxPasswords
    BY <1>0, <1>1, <2>1, <2>3, <2>4, Quiet DEF TypeOK, Handler, RequestOK, Idle, writeUser
  <2> QED BY <1>0, <1>1, <2>1, <2>3, <2>4, <2>5 DEF TypeOK, Becomes, Handlers, UserStatus, RequestOK, writeUser
<1>2. ASSUME ensureProfile(r) PROVE TypeOK' /\ AccountsInv'
  <2> DEFINE h == IF exec[r].seen = None THEN [exec[r] EXCEPT !.at = "signup"] ELSE Idle
  <2>1. h \in Handlers /\ UNCHANGED <<sessions, lock>>
    BY <1>0, <1>a, <1>2 DEF ensureProfile, Steps, Handlers
  <2>2. exec' = [exec EXCEPT ![r] = h]
    BY <1>0, <1>2 DEF ensureProfile, TypeOK, Goto, Return
  <2>3. Becomes(r, h)
    BY <2>1, <2>2, Moves
  <2>4. password' \in Nat /\ password <= password' /\ password' + Cardinality(Writing') <= MaxPasswords
    BY <1>0, <1>2, <2>3, WritingMoves DEF TypeOK, ensureProfile, Idle, Handler, AccountsAssumption
  <2>5. AccountsInv' /\ password' \in 0..MaxPasswords
    BY <1>0, <1>2, <2>1, <2>3, <2>4, Quiet DEF TypeOK, Handler, RequestOK, Idle, ensureProfile
  <2> QED BY <1>0, <1>2, <2>1, <2>3, <2>4, <2>5 DEF TypeOK, Becomes, Handlers, UserStatus, RequestOK, ensureProfile
<1>3. ASSUME \E referred \in BOOLEAN : recordSignup(r, referred) PROVE TypeOK' /\ AccountsInv'
  <2> DEFINE h == Idle
  <2>1. h \in Handlers /\ UNCHANGED <<sessions, lock>>
    BY <1>0, <1>a, <1>3 DEF recordSignup, Steps, Handlers
  <2>2. exec' = [exec EXCEPT ![r] = h]
    BY <1>0, <1>3 DEF recordSignup, TypeOK, Goto, Return
  <2>3. Becomes(r, h)
    BY <2>1, <2>2, Moves
  <2>4. password' \in Nat /\ password <= password' /\ password' + Cardinality(Writing') <= MaxPasswords
    BY <1>0, <1>3, <2>3, WritingMoves DEF TypeOK, recordSignup, Idle, Handler, AccountsAssumption
  <2>5. AccountsInv' /\ password' \in 0..MaxPasswords
    BY <1>0, <1>3, <2>1, <2>3, <2>4, Quiet DEF TypeOK, Handler, RequestOK, Idle, recordSignup
  <2> QED BY <1>0, <1>3, <2>1, <2>3, <2>4, <2>5 DEF TypeOK, Becomes, Handlers, UserStatus, RequestOK, recordSignup
<1>4. ASSUME activate(r) PROVE TypeOK' /\ AccountsInv'
  <2> DEFINE h == [exec[r] EXCEPT !.at = "referral"]
  <2>1. h \in Handlers /\ UNCHANGED <<sessions, lock>>
    BY <1>0, <1>a, <1>4 DEF activate, Steps, Handlers
  <2>2. exec' = [exec EXCEPT ![r] = h]
    BY <1>0, <1>4 DEF activate, TypeOK, Goto, Return
  <2>3. Becomes(r, h)
    BY <2>1, <2>2, Moves
  <2>4. password' \in Nat /\ password <= password' /\ password' + Cardinality(Writing') <= MaxPasswords
    BY <1>0, <1>4, <2>3, WritingMoves DEF TypeOK, activate, Idle, Handler, AccountsAssumption
  <2>5. AccountsInv' /\ password' \in 0..MaxPasswords
    BY <1>0, <1>4, <2>1, <2>3, <2>4, Quiet DEF TypeOK, Handler, RequestOK, Idle, activate
  <2> QED BY <1>0, <1>4, <2>1, <2>3, <2>4, <2>5 DEF TypeOK, Becomes, Handlers, UserStatus, RequestOK, activate
<1>5. ASSUME activateOnVerify(r) PROVE TypeOK' /\ AccountsInv'
  <2> DEFINE h == [exec[r] EXCEPT !.at = "issue"]
  <2>1. h \in Handlers /\ UNCHANGED <<sessions, lock>>
    BY <1>0, <1>a, <1>5 DEF activateOnVerify, Steps, Handlers
  <2>2. exec' = [exec EXCEPT ![r] = h]
    BY <1>0, <1>5 DEF activateOnVerify, TypeOK, Goto, Return
  <2>3. Becomes(r, h)
    BY <2>1, <2>2, Moves
  <2>4. password' \in Nat /\ password <= password' /\ password' + Cardinality(Writing') <= MaxPasswords
    BY <1>0, <1>5, <2>3, WritingMoves DEF TypeOK, activateOnVerify, Idle, Handler, AccountsAssumption
  <2>5. AccountsInv' /\ password' \in 0..MaxPasswords
    BY <1>0, <1>5, <2>1, <2>3, <2>4, Quiet DEF TypeOK, Handler, RequestOK, Idle, activateOnVerify
  <2> QED BY <1>0, <1>5, <2>1, <2>3, <2>4, <2>5 DEF TypeOK, Becomes, Handlers, UserStatus, RequestOK, activateOnVerify
<1>6. ASSUME refresh(r) PROVE TypeOK' /\ AccountsInv'
  <2> DEFINE h == IF status \in Blocked THEN Idle ELSE [exec[r] EXCEPT !.at = "issue"]
  <2>1. h \in Handlers /\ UNCHANGED <<sessions, lock>>
    BY <1>0, <1>a, <1>6 DEF Blocked, refresh, Steps, Handlers
  <2>2. exec' = [exec EXCEPT ![r] = h]
    BY <1>0, <1>6 DEF refresh, TypeOK, Goto, Return
  <2>3. Becomes(r, h)
    BY <2>1, <2>2, Moves
  <2>4. password' \in Nat /\ password <= password' /\ password' + Cardinality(Writing') <= MaxPasswords
    BY <1>0, <1>6, <2>3, WritingMoves DEF TypeOK, refresh, Idle, Handler, AccountsAssumption
  <2>5. AccountsInv' /\ password' \in 0..MaxPasswords
    BY <1>0, <1>6, <2>1, <2>3, <2>4, Quiet DEF TypeOK, Handler, RequestOK, Idle, refresh
  <2> QED BY <1>0, <1>6, <2>1, <2>3, <2>4, <2>5 DEF TypeOK, Becomes, Handlers, UserStatus, RequestOK, refresh
<1>7. ASSUME writePassword(r) PROVE TypeOK' /\ AccountsInv'
  <2> DEFINE h == Handler("revokeAll", None, None, password + 1)
  <2>1. h \in Handlers /\ UNCHANGED <<sessions, lock>>
    <3>1. Cardinality(Writing) \in Nat /\ Cardinality(Writing) >= 1
      BY <1>7, WritingCounted DEF writePassword
    <3> QED BY <1>0, <1>7, <3>1 DEF writePassword, Steps, Handlers, Handler, TypeOK, AccountsAssumption, AccountsInv
  <2>2. exec' = [exec EXCEPT ![r] = h]
    BY <1>0, <1>7 DEF writePassword, TypeOK, Goto, Return, Handler
  <2>3. Becomes(r, h)
    BY <2>1, <2>2, Moves
  <2>4. password' \in Nat /\ password <= password' /\ password' + Cardinality(Writing') <= MaxPasswords
    BY <1>0, <1>7, <2>3, WritingMoves DEF TypeOK, writePassword, Idle, Handler, AccountsAssumption
  <2>5. AccountsInv' /\ password' \in 0..MaxPasswords
    BY <1>0, <1>7, <2>1, <2>3, <2>4, Quiet DEF TypeOK, Handler, RequestOK, Idle, writePassword
  <2> QED BY <1>0, <1>7, <2>1, <2>3, <2>4, <2>5 DEF TypeOK, Becomes, Handlers, UserStatus, RequestOK, writePassword
<1>8. ASSUME auditStatusChange(r) PROVE TypeOK' /\ AccountsInv'
  <2> DEFINE h == Idle
  <2>1. h \in Handlers /\ UNCHANGED <<sessions, lock>>
    BY <1>0, <1>a, <1>8 DEF auditStatusChange, Steps, Handlers
  <2>2. exec' = [exec EXCEPT ![r] = h]
    BY <1>0, <1>8 DEF auditStatusChange, TypeOK, Goto, Return
  <2>3. Becomes(r, h)
    BY <2>1, <2>2, Moves
  <2>4. password' \in Nat /\ password <= password' /\ password' + Cardinality(Writing') <= MaxPasswords
    BY <1>0, <1>8, <2>3, WritingMoves DEF TypeOK, auditStatusChange, Idle, Handler, AccountsAssumption
  <2>5. AccountsInv' /\ password' \in 0..MaxPasswords
    BY <1>0, <1>8, <2>1, <2>3, <2>4, Quiet DEF TypeOK, Handler, RequestOK, Idle, auditStatusChange
  <2> QED BY <1>0, <1>8, <2>1, <2>3, <2>4, <2>5 DEF TypeOK, Becomes, Handlers, UserStatus, RequestOK, auditStatusChange
<1> QED BY <1>1, <1>2, <1>3, <1>4, <1>5, <1>6, <1>7, <1>8

-----------------------------------------------------------------------------
(* Steps on the session rows and their locks.                              *)

\* Such a step writes no password; the others keep their locks.
LEMMA OthersKeep ==
  ASSUME AccountsAssumption, TypeOK, AccountsInv, NEW r \in Requests, NEW h \in Handlers,
         Becomes(r, h), password' = password, h.pw <= password,
         h.at \notin {"register", "reset", "profile"},
         h.at = "revoke" => h.arg \in Sessions /\ lock'[h.arg] = r,
         \A q \in Requests : q # r /\ exec[q].at = "revoke" => lock'[exec[q].arg] = q
  PROVE  /\ \A q \in Requests : RequestOK(q)'
         /\ (password + Cardinality(Writing) <= MaxPasswords)'
<1>1. ASSUME NEW q \in Requests PROVE RequestOK(q)'
  <2>1. CASE q = r
    BY <2>1 DEF Becomes, RequestOK
  <2>2. CASE q # r
    BY <2>2 DEF Becomes, RequestOK, AccountsInv
  <2> QED BY <2>1, <2>2
<1>2. Cardinality(Writing') <= Cardinality(Writing) /\ Cardinality(Writing) \in Nat /\ Cardinality(Writing') \in Nat
  BY WritingMoves DEF writing
<1> QED BY <1>1, <1>2 DEF AccountsInv, TypeOK, AccountsAssumption

\* What the rows of the sessions table are.
Rows == [live: BOOLEAN, access: BOOLEAN, password: 0..MaxPasswords, used: Nat]

\* A request that issues tokens: the row was dead, and its lock free.
LEMMA IssueKeeps ==
  ASSUME AccountsAssumption, TypeOK, AccountsInv, NEW r \in Requests, NEW s \in Sessions, issue(r, s)
  PROVE  TypeOK' /\ AccountsInv'
<1>1. Idle \in Handlers /\ exec' = [exec EXCEPT ![r] = Idle] /\ UNCHANGED <<password, lock>> /\ exec[r].at = "issue"
  BY DEF issue, Return, At, userRow, Idle, Handler, Handlers, AccountsAssumption
<1>2. Becomes(r, Idle)
  BY <1>1, Moves
<1>3. exec[r].pw \in 0..MaxPasswords /\ exec[r].pw <= password
  BY DEF AccountsInv, RequestOK, TypeOK
<1>4. /\ sessions' \in [Sessions -> Rows]
      /\ sessions'[s] = [live |-> TRUE, access |-> TRUE, password |-> exec[r].pw, used |-> 0]
      /\ \A t \in Sessions : t # s => sessions'[t] = sessions[t]
      /\ lock[s] = None
  BY <1>3 DEF issue, TypeOK, Rows
<1>5. (\A q \in Requests : RequestOK(q)') /\ (password + Cardinality(Writing) <= MaxPasswords)'
  BY <1>1, <1>2, OthersKeep DEF Idle, Handler, TypeOK, AccountsInv, RequestOK
<1>6. ASSUME NEW t \in Sessions PROVE SessionOK(t)'
  <2>1. CASE t = s
    BY <2>1, <1>1, <1>3, <1>4 DEF SessionOK
  <2>2. CASE t # s
    <3>1. SessionOK(t) /\ lock[t] \in Requests \cup {None} /\ lock[t] # r
      BY <1>1 DEF AccountsInv, SessionOK, TypeOK, AccountsAssumption
    <3> QED BY <2>2, <3>1, <1>1, <1>2, <1>4 DEF SessionOK, Becomes
  <2> QED BY <2>1, <2>2
<1>7. TypeOK'
  BY <1>1, <1>2, <1>4 DEF TypeOK, Becomes, Handlers, Rows, issue, userRow
<1> QED BY <1>5, <1>6, <1>7 DEF AccountsInv

\* A refresh locks the row it found live, whose lock was free.
LEMMA ConsumeKeeps ==
  ASSUME AccountsAssumption, TypeOK, AccountsInv, NEW r \in Requests, NEW s \in Sessions, consumeSession(r, s)
  PROVE  TypeOK' /\ AccountsInv'
<1> DEFINE h == Handler("revoke", None, s, sessions[s].password)
<1>1. /\ h \in Handlers /\ exec' = [exec EXCEPT ![r] = h] /\ exec[r].at = "idle"
      /\ UNCHANGED <<password, sessions>>
      /\ h.at = "revoke" /\ h.arg = s /\ h.pw = sessions[s].password
  BY DEF consumeSession, Start, userRow, Idle, Handler, Handlers, Steps, AccountsAssumption, TypeOK
<1>2. Becomes(r, h)
  BY <1>1, Moves
<1>3. /\ lock' \in [Sessions -> Requests \cup {None}] /\ lock'[s] = r
      /\ \A t \in Sessions : t # s => lock'[t] = lock[t]
      /\ lock[s] = None /\ sessions[s].live /\ sessions[s].password <= password
  BY DEF consumeSession, TypeOK, AccountsInv, SessionOK
<1> HIDE DEF h
<1>4. (\A q \in Requests : RequestOK(q)') /\ (password + Cardinality(Writing) <= MaxPasswords)'
  <2>1. \A q \in Requests : q # r /\ exec[q].at = "revoke" => lock'[exec[q].arg] = q
    BY <1>3 DEF AccountsInv, RequestOK, AccountsAssumption
  <2> QED BY <1>1, <1>2, <1>3, <2>1, OthersKeep
<1>5. ASSUME NEW t \in Sessions PROVE SessionOK(t)'
  <2>0. SessionOK(t) /\ lock[t] \in Requests \cup {None} /\ lock[t] # r
    BY <1>1 DEF AccountsInv, SessionOK, TypeOK, AccountsAssumption
  <2>1. CASE t = s
    BY <2>0, <2>1, <1>1, <1>2, <1>3 DEF SessionOK, Becomes
  <2>2. CASE t # s
    BY <2>0, <2>2, <1>1, <1>2, <1>3 DEF SessionOK, Becomes
  <2> QED BY <2>1, <2>2
<1>6. TypeOK'
  BY <1>1, <1>2, <1>3 DEF TypeOK, Becomes, Handlers, consumeSession, userRow
<1> QED BY <1>4, <1>5, <1>6 DEF AccountsInv

\* ... revokes it, the first exchange of the row, and frees the lock.
LEMMA RevokeKeeps ==
  ASSUME AccountsAssumption, TypeOK, AccountsInv, NEW r \in Requests, revokeConsumed(r)
  PROVE  TypeOK' /\ AccountsInv'
<1> DEFINE h == Handler("refresh", None, None, exec[r].pw)
           s == exec[r].arg
<1>1. /\ h \in Handlers /\ exec' = [exec EXCEPT ![r] = h] /\ exec[r].at = "revoke"
      /\ password' = password
      /\ h.at = "refresh" /\ h.pw = exec[r].pw /\ h.pw <= password
  BY DEF revokeConsumed, At, userRow, Handler, Handlers, Steps, AccountsAssumption, TypeOK, AccountsInv, RequestOK
<1>2. Becomes(r, h)
  BY <1>1, Moves
<1>3. s \in Sessions /\ lock[s] = r /\ sessions[s].live /\ sessions[s].used = 0
  BY <1>1 DEF AccountsInv, RequestOK, SessionOK, AccountsAssumption
<1>4. /\ sessions' \in [Sessions -> Rows]
      /\ sessions'[s].used = 1 /\ ~sessions'[s].live /\ sessions'[s].password = sessions[s].password
      /\ \A t \in Sessions : t # s => sessions'[t] = sessions[t]
  BY <1>3 DEF revokeConsumed, TypeOK, Rows
<1>5. /\ lock' \in [Sessions -> Requests \cup {None}] /\ lock'[s] = None
      /\ \A t \in Sessions : t # s => lock'[t] = lock[t]
  BY <1>3 DEF revokeConsumed, TypeOK
<1>6. \A q \in Requests : q # r /\ exec[q].at = "revoke" => lock[exec[q].arg] = q /\ exec[q].arg \in Sessions
  BY DEF AccountsInv, RequestOK
<1> HIDE DEF h, s
<1>7. (\A q \in Requests : RequestOK(q)') /\ (password + Cardinality(Writing) <= MaxPasswords)'
  <2>1. \A q \in Requests : q # r /\ exec[q].at = "revoke" => lock'[exec[q].arg] = q
    BY <1>3, <1>5, <1>6
  <2> QED BY <1>1, <1>2, <2>1, OthersKeep
<1>8. ASSUME NEW t \in Sessions PROVE SessionOK(t)'
  <2>0. SessionOK(t) /\ lock[t] \in Requests \cup {None}
    BY DEF AccountsInv, TypeOK
  <2>1. CASE t = s
    BY <2>0, <2>1, <1>1, <1>4, <1>5 DEF SessionOK
  <2>2. CASE t # s
    <3>1. lock[t] # r
      BY <2>0, <2>2, <1>1 DEF SessionOK, s, AccountsAssumption
    <3> QED BY <2>0, <2>2, <3>1, <1>1, <1>2, <1>4, <1>5 DEF SessionOK, Becomes
  <2> QED BY <2>1, <2>2
<1>9. TypeOK'
  BY <1>1, <1>2, <1>4, <1>5 DEF TypeOK, Becomes, Handlers, Rows, revokeConsumed, userRow
<1> QED BY <1>7, <1>8, <1>9 DEF AccountsInv

\* A logout, and an access token that runs out: no request moves.
LEMMA RowKeeps ==
  ASSUME AccountsAssumption, TypeOK, AccountsInv, NEW s \in Sessions, logout(s) \/ AccessTokenExpires(s)
  PROVE  TypeOK' /\ AccountsInv'
<1>1. UNCHANGED <<status, role, password, profiles, resetTo, referral, verified, lock, audits, exec, failures>>
  BY DEF logout, AccessTokenExpires, userRow
<1>2. /\ sessions' \in [Sessions -> Rows]
      /\ sessions'[s].used = sessions[s].used /\ sessions'[s].password = sessions[s].password
      /\ sessions'[s].live => sessions[s].live
      /\ lock[s] = None \/ sessions'[s].live = sessions[s].live
      /\ \A t \in Sessions : t # s => sessions'[t] = sessions[t]
  <2>1. sessions[s] \in Rows /\ sessions \in [Sessions -> Rows]
    BY DEF TypeOK, Rows
  <2>2. CASE logout(s)
    BY <2>1, <2>2 DEF logout, Rows
  <2>3. CASE AccessTokenExpires(s)
    BY <2>1, <2>3 DEF AccessTokenExpires, Rows
  <2> QED BY <2>2, <2>3
<1>3. ASSUME NEW q \in Requests PROVE RequestOK(q)'
  BY <1>1 DEF AccountsInv, RequestOK
<1>4. ASSUME NEW t \in Sessions PROVE SessionOK(t)'
  BY <1>1, <1>2 DEF AccountsInv, SessionOK
<1>5. Writing' = Writing
  BY <1>1 DEF Writing
<1> QED BY <1>1, <1>2, <1>3, <1>4, <1>5 DEF AccountsInv, TypeOK, Rows

\* resetPassword revokes every row; no refresh holds one then.
LEMMA RevokeAllKeeps ==
  ASSUME AccountsAssumption, TypeOK, AccountsInv, NEW r \in Requests, revokeAllForUser(r)
  PROVE  TypeOK' /\ AccountsInv'
<1>1. /\ Idle \in Handlers /\ exec' = [exec EXCEPT ![r] = Idle] /\ exec[r].at = "revokeAll"
      /\ UNCHANGED <<password, lock>> /\ Idle.at = "idle" /\ Idle.pw = 0
  BY DEF revokeAllForUser, Return, At, userRow, Idle, Handler, Handlers, AccountsAssumption
<1>2. Becomes(r, Idle)
  BY <1>1, Moves
<1>3. /\ sessions' \in [Sessions -> Rows]
      /\ \A t \in Sessions : /\ lock[t] = None /\ ~sessions'[t].live /\ sessions'[t].used = sessions[t].used
                             /\ sessions'[t].password = sessions[t].password
  <2>1. sessions \in [Sessions -> Rows]
    BY DEF TypeOK, Rows
  <2>2. /\ sessions' = [t \in Sessions |-> [sessions[t] EXCEPT !.live = FALSE]]
        /\ \A t \in Sessions : lock[t] = None
    BY DEF revokeAllForUser
  <2>3. ASSUME NEW t \in Sessions
        PROVE  /\ [sessions[t] EXCEPT !.live = FALSE] \in Rows
               /\ sessions'[t] = [sessions[t] EXCEPT !.live = FALSE]
               /\ sessions'[t].live = FALSE /\ sessions'[t].used = sessions[t].used
               /\ sessions'[t].password = sessions[t].password
    BY <2>1, <2>2 DEF Rows
  <2> QED BY <2>2, <2>3
<1>4. (\A q \in Requests : RequestOK(q)') /\ (password + Cardinality(Writing) <= MaxPasswords)'
  <2>1. \A q \in Requests : q # r /\ exec[q].at = "revoke" => lock'[exec[q].arg] = q
    BY <1>1 DEF AccountsInv, RequestOK
  <2> QED BY <1>1, <1>2, <2>1, OthersKeep DEF TypeOK
<1>5. ASSUME NEW t \in Sessions PROVE SessionOK(t)'
  BY <1>1, <1>3 DEF AccountsInv, SessionOK
<1>6. resetTo' \in 0..password'
  <2>1. exec[r].pw \in 0..password /\ resetTo \in 0..password
    BY DEF AccountsInv, RequestOK, TypeOK
  <2> QED BY <1>1, <2>1 DEF revokeAllForUser
<1> QED BY <1>1, <1>2, <1>3, <1>4, <1>5, <1>6 DEF AccountsInv, TypeOK, Becomes, Handlers, Rows, revokeAllForUser, userRow

\* A request that dies gives back its lock, and no other's.
LEMMA FailKeeps ==
  ASSUME AccountsAssumption, TypeOK, AccountsInv, NEW r \in Requests, RequestFails(r)
  PROVE  TypeOK' /\ AccountsInv'
<1>1. /\ Idle \in Handlers /\ exec' = [exec EXCEPT ![r] = Idle]
      /\ UNCHANGED <<password, sessions>> /\ Idle.at = "idle" /\ Idle.pw = 0
  BY DEF RequestFails, Return, userRow, Idle, Handler, Handlers, AccountsAssumption
<1>2. Becomes(r, Idle)
  BY <1>1, Moves
<1>3. /\ lock' \in [Sessions -> Requests \cup {None}]
      /\ \A t \in Sessions : lock'[t] = IF lock[t] = r THEN None ELSE lock[t]
  BY DEF RequestFails, TypeOK
<1>4. (\A q \in Requests : RequestOK(q)') /\ (password + Cardinality(Writing) <= MaxPasswords)'
  <2>1. \A q \in Requests : q # r /\ exec[q].at = "revoke" => lock'[exec[q].arg] = q
    BY <1>3 DEF AccountsInv, RequestOK
  <2> QED BY <1>1, <1>2, <2>1, OthersKeep DEF TypeOK
<1>5. ASSUME NEW t \in Sessions PROVE SessionOK(t)'
  <2>1. SessionOK(t) /\ lock[t] \in Requests \cup {None}
    BY DEF AccountsInv, TypeOK
  <2> QED BY <2>1, <1>1, <1>2, <1>3 DEF SessionOK, Becomes
<1>6. failures' \in 0..MaxFailures
  BY DEF RequestFails, TypeOK, AccountsAssumption
<1> QED BY <1>1, <1>2, <1>3, <1>4, <1>5, <1>6 DEF AccountsInv, TypeOK, Becomes, Handlers, RequestFails, userRow

-----------------------------------------------------------------------------
(* The theorems.                                                           *)

\* Every step keeps the types and the invariant.
LEMMA StepKeeps ==
  ASSUME AccountsAssumption, TypeOK, AccountsInv, Next PROVE TypeOK' /\ AccountsInv'
<1>1. ASSUME NEW r \in Requests, Continue(r) PROVE TypeOK' /\ AccountsInv'
  BY <1>1, ContinueKeeps, IssueKeeps, RevokeKeeps, RevokeAllKeeps DEF Continue
<1>2. ASSUME NEW r \in Requests,
             \/ RequestFails(r) \/ \E signupRole \in signupRoles : register(r, signupRole)
             \/ verifyOtp(r) \/ login(r) \/ resetPassword(r) \/ suspend(r) \/ restore(r)
             \/ \E s \in Sessions : consumeSession(r, s)
      PROVE  TypeOK' /\ AccountsInv'
  BY <1>2, BeginKeeps, ConsumeKeeps, FailKeeps
<1>3. ASSUME NEW s \in Sessions, logout(s) \/ AccessTokenExpires(s) PROVE TypeOK' /\ AccountsInv'
  BY <1>3, RowKeeps
<1> QED BY <1>1, <1>2, <1>3 DEF Next

\* A step that changes nothing keeps them, too.
LEMMA StutterKeeps ==
  ASSUME TypeOK, AccountsInv, UNCHANGED vars PROVE TypeOK' /\ AccountsInv'
<1> USE DEF vars, userRow
<1>1. TypeOK'
  BY DEF TypeOK
<1>2. Writing' = Writing
  BY DEF Writing
<1>3. \A q \in Requests : RequestOK(q)'
  BY DEF AccountsInv, RequestOK
<1>4. \A t \in Sessions : SessionOK(t)'
  BY DEF AccountsInv, SessionOK
<1> QED BY <1>1, <1>2, <1>3, <1>4 DEF AccountsInv

\* Every variable keeps its type, and a live session was never exchanged, the
\* one who holds its lock being the refresh about to revoke it (TokenService).
THEOREM AccountTypes == ASSUME AccountsAssumption PROVE Spec => [](TypeOK /\ AccountsInv)
<1>1. Init => TypeOK /\ AccountsInv
  BY InitOK
<1>2. TypeOK /\ AccountsInv /\ [Next]_vars => (TypeOK /\ AccountsInv)'
  BY StepKeeps, StutterKeeps
<1> QED BY <1>1, <1>2, PTL DEF Spec

\* However many refreshes, logouts and resets overlap and fail midway, a refresh
\* token is exchanged at most once (consumeSession).
THEOREM SingleUseHolds == ASSUME AccountsAssumption PROVE Spec => []SingleUse
<1>1. AccountsInv => SingleUse
  BY DEF AccountsInv, SessionOK, SingleUse
<1> QED BY <1>1, AccountTypes, PTL
=============================================================================
