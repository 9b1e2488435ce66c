------------------------------ MODULE Accounts ------------------------------
(***************************************************************************)
(* One account: AuthService and TokenService (modules/auth), the referral  *)
(* it was opened with, and the administrator's suspend and restore.  The   *)
(* operations of two accounts touch no common row, so one account is       *)
(* enough; the one-time codes and the rate limits are modules of their     *)
(* own, and a code that was accepted is taken here as given.               *)
(*                                                                         *)
(* Passwords are numbered: a session and an access token carry the number  *)
(* of the password that was current when their holder proved who he is.    *)
(***************************************************************************)
EXTENDS Naturals, FiniteSets

CONSTANTS
  Requests,      \* API requests that may be in flight at the same time
  Sessions,      \* slots for rows of the sessions table
  MaxPasswords,  \* bound on the passwords an account has in its life
  MaxFailures,   \* bound on requests that die or throw midway
  None

UserStatus == {"PENDING", "ACTIVE", "SUSPENDED", "BANNED"}
Blocked == {"SUSPENDED", "BANNED"}
signupRoles == {"CUSTOMER", "MASTER"}

VARIABLES
  status,     \* users.status, None before the row is created
  role,       \* users.role
  profiles,   \* the roles the user has a profile row for
  password,   \* the number of the current password, 0: none yet
  resetTo,    \* the newest password whose resetPassword has run to its end
  referral,   \* referrals.status of this user as a referee
  verified,   \* has a one-time code of this phone been accepted?
  sessions,   \* rows of the sessions table, with the access token issued along
  lock,       \* the refresh transaction holding the session's row FOR UPDATE
  audits,     \* the kinds of entries this user has in the audit log
  exec, failures

userRow == <<status, role, password>>
vars == <<status, role, profiles, password, resetTo, referral, verified,
          sessions, lock, audits, exec, failures>>

NoSession == [live |-> FALSE, access |-> FALSE, password |-> 0, used |-> 0]

Handler(at, seen, arg, pw) == [at |-> at, seen |-> seen, arg |-> arg, pw |-> pw]
Idle == Handler("idle", None, None, 0)
Steps == {"register", "profile", "signup", "activate", "referral", "issue",
          "revoke", "refresh", "reset", "revokeAll", "auditSuspend", "auditRestore"}

TypeOK ==
  /\ status \in UserStatus \cup {None}
  /\ role \in signupRoles \cup {None}
  /\ profiles \subseteq signupRoles
  /\ password \in 0..MaxPasswords /\ resetTo \in 0..password
  /\ referral \in {"PENDING", "ACTIVE", None}
  /\ verified \in BOOLEAN
  /\ sessions \in [Sessions -> [live: BOOLEAN, access: BOOLEAN,
                                password: 0..MaxPasswords, used: Nat]]
  /\ lock \in [Sessions -> Requests \cup {None}]
  /\ audits \subseteq {"USER_SUSPEND", "USER_RESTORE"}
  /\ exec \in [Requests -> [at: Steps \cup {"idle"}, seen: UserStatus \cup {None},
                            arg: signupRoles \cup Sessions \cup {None},
                            pw: 0..MaxPasswords]]
  /\ failures \in 0..MaxFailures

Init ==
  /\ status = None /\ role = None /\ profiles = {}
  /\ password = 0 /\ resetTo = 0 /\ referral = None /\ verified = FALSE
  /\ sessions = [s \in Sessions |-> NoSession]
  /\ lock = [s \in Sessions |-> None]
  /\ audits = {}
  /\ exec = [r \in Requests |-> Idle]
  /\ failures = 0

At(r, step) == exec[r].at = step
Start(r, h) == exec[r] = Idle /\ exec' = [exec EXCEPT ![r] = h]
Goto(r, step) == exec' = [exec EXCEPT ![r].at = step]
Return(r) == exec' = [exec EXCEPT ![r] = Idle]

\* The bound on passwords: one is left for every request about to write one.
PasswordLeft ==
  password + Cardinality({r \in Requests : exec[r].at \in {"register", "reset"}})
    < MaxPasswords

----------------------------------------------------------------------------
\* register: the phone is free, or its account is not verified yet.  The hash
\* of the new password is computed before anything is written.
register(r, signupRole) ==
  /\ status \in {None, "PENDING"} /\ PasswordLeft
  /\ Start(r, Handler("register", status, signupRole, 0))
  /\ UNCHANGED <<userRow, profiles, resetTo, referral, verified, sessions, lock,
                 audits, failures>>

\* The row is updated whatever its status has become, or created, which fails
\* when another registration of the phone was faster.
writeUser(r) ==
  LET e == exec[r] IN
  /\ At(r, "register")
  /\ IF e.seen = None /\ status # None
     THEN UNCHANGED userRow /\ Return(r)
     ELSE /\ status' = IF e.seen = None THEN "PENDING" ELSE status
          /\ role' = e.arg
          /\ password' = password + 1
          /\ Goto(r, "profile")
  /\ UNCHANGED <<profiles, resetTo, referral, verified, sessions, lock, audits, failures>>

ensureProfile(r) ==
  /\ At(r, "profile")
  /\ profiles' = profiles \cup {exec[r].arg}
  /\ IF exec[r].seen = None THEN Goto(r, "signup") ELSE Return(r)
  /\ UNCHANGED <<userRow, resetTo, referral, verified, sessions, lock, audits, failures>>

recordSignup(r, referred) ==
  /\ At(r, "signup")
  /\ referral' = IF referred /\ referral = None THEN "PENDING" ELSE referral
  /\ Return(r)
  /\ UNCHANGED <<userRow, profiles, resetTo, verified, sessions, lock, audits, failures>>

\* verifyOtp, once the code is accepted: read the user, ...
verifyOtp(r) ==
  /\ status \notin Blocked \cup {None}
  /\ verified' = TRUE
  /\ Start(r, Handler(IF status = "PENDING" THEN "activate" ELSE "issue",
                      status, None, password))
  /\ UNCHANGED <<userRow, profiles, resetTo, referral, sessions, lock, audits, failures>>

\* ... make him ACTIVE, whatever he has become meanwhile, ...
activate(r) ==
  /\ At(r, "activate")
  /\ status' = "ACTIVE"
  /\ Goto(r, "referral")
  /\ UNCHANGED <<role, password, profiles, resetTo, referral, verified, sessions,
                 lock, audits, failures>>

activateOnVerify(r) ==
  /\ At(r, "referral")
  /\ referral' = IF referral = "PENDING" THEN "ACTIVE" ELSE referral
  /\ Goto(r, "issue")
  /\ UNCHANGED <<userRow, profiles, resetTo, verified, sessions, lock, audits, failures>>

\* login with the right password: an unverified user is sent to verification,
\* a blocked one refused.
login(r) ==
  /\ status \notin Blocked \cup {None, "PENDING"}
  /\ Start(r, Handler("issue", status, None, password))
  /\ UNCHANGED <<userRow, profiles, resetTo, referral, verified, sessions, lock,
                 audits, failures>>

\* TokenService.issue: a new session and an access token, for what the request
\* saw of the user.
issue(r, s) ==
  /\ At(r, "issue") /\ ~sessions[s].live /\ ~sessions[s].access /\ lock[s] = None
  /\ sessions' = [sessions EXCEPT ![s] =
       [live |-> TRUE, access |-> TRUE, password |-> exec[r].pw, used |-> 0]]
  /\ Return(r)
  /\ UNCHANGED <<userRow, profiles, resetTo, referral, verified, lock, audits, failures>>

\* Mutant: the row is read without SELECT ... FOR UPDATE.
consumeSessionUnlocked(r, s) ==
  /\ sessions[s].live
  /\ Start(r, Handler("revoke", None, s, sessions[s].password))
  /\ UNCHANGED <<userRow, profiles, resetTo, referral, verified, sessions, lock,
                 audits, failures>>

\* refresh: consumeSession locks the session's row, finds it live, ...
consumeSession(r, s) ==
  /\ sessions[s].live /\ lock[s] = None
  /\ Start(r, Handler("revoke", None, s, sessions[s].password))
  /\ lock' = [lock EXCEPT ![s] = r]
  /\ UNCHANGED <<userRow, profiles, resetTo, referral, verified, sessions, audits, failures>>

\* ... revokes it and commits.
revokeConsumed(r) ==
  LET s == exec[r].arg IN
  /\ At(r, "revoke")
  /\ sessions' = [sessions EXCEPT ![s].live = FALSE, ![s].used = @ + 1]
  /\ lock' = [lock EXCEPT ![s] = None]
  /\ exec' = [exec EXCEPT ![r] = Handler("refresh", None, None, exec[r].pw)]
  /\ UNCHANGED <<userRow, profiles, resetTo, referral, verified, audits, failures>>

\* Mutant: a blocked user's session is exchanged all the same.
refreshBlocked(r) ==
  /\ At(r, "refresh") /\ Goto(r, "issue")
  /\ UNCHANGED <<userRow, profiles, resetTo, referral, verified, sessions, lock,
                 audits, failures>>

\* It then reads the user and issues new tokens unless he is blocked.
refresh(r) ==
  /\ At(r, "refresh")
  /\ IF status \in Blocked THEN Return(r) ELSE Goto(r, "issue")
  /\ UNCHANGED <<userRow, profiles, resetTo, referral, verified, sessions, lock,
                 audits, failures>>

\* logout (revokeByToken) waits for a refresh that holds the row.
logout(s) ==
  /\ sessions[s].live /\ lock[s] = None
  /\ sessions' = [sessions EXCEPT ![s].live = FALSE]
  /\ UNCHANGED <<userRow, profiles, resetTo, referral, verified, lock, audits,
                 exec, failures>>

\* JWT_ACCESS_TTL has passed: JwtAuthGuard no longer takes the access token,
\* whose claims it never compares with the database.
AccessTokenExpires(s) ==
  /\ sessions[s].access
  /\ sessions' = [sessions EXCEPT ![s].access = FALSE]
  /\ UNCHANGED <<userRow, profiles, resetTo, referral, verified, lock, audits,
                 exec, failures>>

\* resetPassword, once the code is accepted: write the new password, ...
resetPassword(r) ==
  /\ status # None /\ PasswordLeft
  /\ Start(r, Handler("reset", None, None, 0))
  /\ verified' = TRUE
  /\ UNCHANGED <<userRow, profiles, resetTo, referral, sessions, lock, audits, failures>>

writePassword(r) ==
  /\ At(r, "reset")
  /\ password' = password + 1
  /\ exec' = [exec EXCEPT ![r] = Handler("revokeAll", None, None, password + 1)]
  /\ UNCHANGED <<status, role, profiles, resetTo, referral, verified, sessions,
                 lock, audits, failures>>

\* ... and revoke every session.
revokeAllForUser(r) ==
  /\ At(r, "revokeAll") /\ \A s \in Sessions : lock[s] = None
  /\ sessions' = [s \in Sessions |-> [sessions[s] EXCEPT !.live = FALSE]]
  /\ resetTo' = IF exec[r].pw > resetTo THEN exec[r].pw ELSE resetTo
  /\ Return(r)
  /\ UNCHANGED <<userRow, profiles, referral, verified, lock, audits, failures>>

\* The administrator suspends the user.  His sessions are left alone.
suspend(r) ==
  /\ status # None
  /\ status' = "SUSPENDED"
  /\ Start(r, Handler("auditSuspend", None, None, 0))
  /\ UNCHANGED <<role, password, profiles, resetTo, referral, verified, sessions,
                 lock, audits, failures>>

\* ... or restores him: a suspended user becomes ACTIVE, whatever he was before.
restore(r) ==
  /\ status # None
  /\ status' = IF status = "SUSPENDED" THEN "ACTIVE" ELSE status
  /\ Start(r, Handler("auditRestore", None, None, 0))
  /\ UNCHANGED <<role, password, profiles, resetTo, referral, verified, sessions,
                 lock, audits, failures>>

auditStatusChange(r) ==
  /\ exec[r].at \in {"auditSuspend", "auditRestore"}
  /\ audits' = audits \cup
       {IF At(r, "auditSuspend") THEN "USER_SUSPEND" ELSE "USER_RESTORE"}
  /\ Return(r)
  /\ UNCHANGED <<userRow, profiles, resetTo, referral, verified, sessions, lock, failures>>

RequestFails(r) ==
  /\ exec[r] # Idle /\ failures < MaxFailures
  /\ failures' = failures + 1
  /\ lock' = [s \in Sessions |-> IF lock[s] = r THEN None ELSE lock[s]]
  /\ Return(r)
  /\ UNCHANGED <<userRow, profiles, resetTo, referral, verified, sessions, audits>>

Continue(r) ==
  \/ writeUser(r) \/ ensureProfile(r)
  \/ \E referred \in BOOLEAN : recordSignup(r, referred)
  \/ activate(r) \/ activateOnVerify(r) \/ revokeConsumed(r) \/ refresh(r)
  \/ \E s \in Sessions : issue(r, s)
  \/ writePassword(r) \/ revokeAllForUser(r) \/ auditStatusChange(r)

Next ==
  \/ \E r \in Requests :
       \/ Continue(r) \/ RequestFails(r)
       \/ \E signupRole \in signupRoles : register(r, signupRole)
       \/ verifyOtp(r) \/ login(r) \/ resetPassword(r) \/ suspend(r) \/ restore(r)
       \/ \E s \in Sessions : consumeSession(r, s)
  \/ \E s \in Sessions : logout(s) \/ AccessTokenExpires(s)

\* Requests whose await has completed go on, and access tokens run out.
Spec ==
  /\ Init /\ [][Next]_vars
  /\ \A r \in Requests : WF_vars(Continue(r))
  /\ \A s \in Sessions : WF_vars(AccessTokenExpires(s))
----------------------------------------------------------------------------
\* A refresh token is single-use: however many refreshes, logouts and resets of
\* it overlap, a session row is exchanged for at most one other
\* (consumeSession).
SingleUse == \A s \in Sessions : sessions[s].used <= 1

\* A suspension that stays takes effect everywhere: after the access tokens
\* already out have run for their time, the user holds none that the guard
\* would take, though no session was revoked (refresh, JwtAuthGuard).
SuspensionTakesEffect ==
  <>[](status = "SUSPENDED") => <>[](\A s \in Sessions : ~sessions[s].access)

\* When nothing fails, a suspension is in the audit log (suspend).
SuspensionAudited == status = "SUSPENDED" ~> "USER_SUSPEND" \in audits

\* Once a password reset has run to its end, no session proved by an earlier
\* password is live ("force re-login everywhere").
ResetEndsSessions ==
  \A s \in Sessions : sessions[s].live => sessions[s].password >= resetTo

\* The password of a verified account changes by resetPassword only: register
\* refreshes credentials "of an unverified account".
ActiveCredentialsKept ==
  [][status = "ACTIVE" /\ password' # password =>
       \E r \in Requests : At(r, "reset") /\ exec'[r].at = "revokeAll"]_vars

\* A suspended user stays suspended until an administrator restores him.
SuspensionHolds ==
  [][status = "SUSPENDED" /\ status' # "SUSPENDED" =>
       \E r \in Requests : exec[r] = Idle /\ exec'[r].at = "auditRestore"]_vars

\* An account becomes ACTIVE because its phone was verified ("PENDING -> ACTIVE
\* (OTP verified)").
OnlyVerifiedActive == status = "ACTIVE" => verified
----------------------------------------------------------------------------
\* What the constants are: finitely many requests, and no value of one sort
\* that is a value of another (None is null, and no id is the name of a role).
AccountsAssumption ==
  /\ IsFiniteSet(Requests) /\ MaxPasswords \in Nat /\ MaxFailures \in Nat
  /\ None \notin Requests /\ None \notin UserStatus

\* The requests about to write a password.
Writing == {r \in Requests : exec[r].at \in {"register", "reset"}}

\* A request knows the role it registers with, and a password that was set; one
\* that has consumed a session holds its lock until the session is revoked.
RequestOK(r) ==
  LET e == exec[r] IN
  /\ e.at \in {"register", "profile"} => e.arg \in signupRoles
  /\ e.at = "register" => e.seen \in {None, "PENDING"}
  /\ e.pw <= password
  /\ e.at = "revoke" => e.arg \in Sessions /\ lock[e.arg] = r

\* A row that is live was never exchanged, and the holder of its lock is a
\* refresh that found it live.
SessionOK(s) ==
  /\ sessions[s].used <= 1
  /\ sessions[s].live => sessions[s].used = 0
  /\ sessions[s].password <= password
  /\ lock[s] # None =>
       exec[lock[s]].at = "revoke" /\ exec[lock[s]].arg = s /\ sessions[s].live

\* The inductive invariant behind SingleUse and the types.
AccountsInv ==
  /\ \A r \in Requests : RequestOK(r)
  /\ \A s \in Sessions : SessionOK(s)
  /\ password + Cardinality(Writing) <= MaxPasswords
=============================================================================
