----------------------------- MODULE WebSession -----------------------------
(***************************************************************************)
(* Signing in and out in the web client: the access token and user a tab   *)
(* keeps in memory (lib/session.ts, lib/api.ts), the refresh cookie all    *)
(* tabs share, the silent restore on load (components/session-bootstrap),  *)
(* the redirects of use-require-auth and the index page, and the login,    *)
(* register, verify, forgot and profile pages, against the session rows    *)
(* the auth controller keeps.                                              *)
(*                                                                         *)
(* A call reads the cookie when it is sent and its answer sets the cookie  *)
(* when it arrives.  A call fails when its request or its answer is lost;  *)
(* reloading a tab drops its calls and their answers.  What the server did *)
(* for them stays done, and what it has not done yet it may still do.      *)
(***************************************************************************)
EXTENDS Naturals, FiniteSets

CONSTANTS
  Tabs, Users,
  MaxTokens,   \* bound on the refresh tokens issued
  MaxLoads,    \* bound on page loads
  None

Private == {"home", "profile", "master"}
Public == {"index", "login", "register", "verify", "forgot"}
Pages == Private \cup Public

VARIABLES
  row,       \* token -> sessions row: its user and what became of it
  issued,    \* tokens issued so far
  pending,   \* users whose phone is not verified (users.status = PENDING)
  cookie,    \* the refresh cookie's token, 0: none
  tab,       \* what each tab shows and keeps in memory
  boot,      \* each tab's silent refresh
  form,      \* each tab's form submission
  stray,     \* calls that no page waits for any more and the server may still serve
  loads

vars == <<row, issued, pending, cookie, tab, boot, form, stray, loads>>

Tokens == 1..MaxTokens
NoRow == [user |-> None, state |-> "none"]
\* had and clean are history: the load found a live session in the cookie; it
\* left no call on the way, and its own has not failed.
Closed == [page |-> "closed", ready |-> FALSE, user |-> None, had |-> FALSE, clean |-> FALSE]
NoCall == [kind |-> None, at |-> "idle", token |-> 0, user |-> None]
Call(kind, token, user) == [kind |-> kind, at |-> "sent", token |-> token, user |-> user]
Kinds == {"refresh", "login", "register", "verify", "reset", "logout"}
CallStates == [kind: Kinds \cup {None}, at: {"idle", "sent", "ok", "challenge", "refused"},
               token: 0..MaxTokens, user: Users \cup {None}]

Live(k) == k # 0 /\ row[k].state = "live"

\* Every variable keeps its type; a user is in memory only on a page that is
\* open, and a cookie always names a token that was issued.
TypeOK ==
  /\ row \in [Tokens -> [user: Users \cup {None},
                         state: {"none", "live", "rotated", "logout", "reset"}]]
  /\ issued \in 0..MaxTokens /\ pending \subseteq Users /\ cookie \in 0..issued
  /\ tab \in [Tabs -> [page: Pages \cup {"closed"}, ready: BOOLEAN,
                       user: Users \cup {None}, had: BOOLEAN, clean: BOOLEAN]]
  /\ \A t \in Tabs : tab[t].user # None => tab[t].page # "closed"
  /\ boot \in [Tabs -> CallStates] /\ form \in [Tabs -> CallStates] /\ stray \subseteq CallStates
  /\ loads \in 0..MaxLoads

\* One user's session is on record, its token in the cookie; the others have
\* yet to verify their phones.
Init ==
  \E u \in Users :
    /\ row = [k \in Tokens |-> IF k = 1 THEN [user |-> u, state |-> "live"] ELSE NoRow]
    /\ issued = 1 /\ cookie = 1 /\ pending = Users \ {u}
    /\ tab = [t \in Tabs |-> Closed]
    /\ boot = [t \in Tabs |-> NoCall] /\ form = [t \in Tabs |-> NoCall]
    /\ stray = {} /\ loads = 0

-----------------------------------------------------------------------------
(* Loading a page and restoring the session.                               *)

\* Calls the server has not served when the page stops waiting for them.  (Of
\* two that are equal, the second changes nothing the first has not.)
Abandon(cs) == stray' = stray \cup {c \in cs : c.at = "sent"}

\* A load, or a reload: memory is empty, SessionBootstrap posts /auth/refresh.
load(t, p) ==
  /\ loads < MaxLoads /\ loads' = loads + 1
  /\ Abandon({boot[t], form[t]})
  /\ tab' = [tab EXCEPT ![t] = [page |-> p, ready |-> FALSE, user |-> None,
                                had |-> Live(cookie), clean |-> stray' = {}]]
  /\ boot' = [boot EXCEPT ![t] = Call("refresh", cookie, None)]
  /\ form' = [form EXCEPT ![t] = NoCall]
  /\ UNCHANGED <<row, issued, pending, cookie>>

\* The token that is handed out without its row.
IssueUnsaved(r, u) == issued < MaxTokens /\ issued' = issued /\ row' = r

\* TokenService.issue: a new row; the bound stands for an unlimited supply.
Issue(r, u) ==
  /\ issued < MaxTokens /\ issued' = issued + 1
  /\ row' = [r EXCEPT ![issued + 1] = [user |-> u, state |-> "live"]]

\* POST /auth/refresh consumes the token and issues another, if it is live.
Rotate(k) ==
  IF Live(k) THEN Issue([row EXCEPT ![k].state = "rotated"], row[k].user) ELSE UNCHANGED <<row, issued>>

refresh(t) ==
  LET k == boot[t].token IN
  /\ boot[t].at = "sent" /\ Rotate(k)
  /\ boot' = [boot EXCEPT ![t] = IF Live(k) THEN [@ EXCEPT !.at = "ok", !.token = issued + 1, !.user = row[k].user]
                                           ELSE [@ EXCEPT !.at = "refused"]]
  /\ UNCHANGED <<pending, cookie, tab, form, stray, loads>>

\* The refresh fails on the way there or back: api.ts does not repeat a POST.
refreshLost(t) ==
  /\ boot[t].at \in {"sent", "ok"}
  /\ boot' = [boot EXCEPT ![t].at = "refused"]
  /\ tab' = [tab EXCEPT ![t].clean = FALSE]
  /\ Abandon({boot[t]})
  /\ UNCHANGED <<row, issued, pending, cookie, form, loads>>

\* The controller that does not set the cookie.
bootstrapWithoutCookie(t) ==
  /\ boot[t].at \in {"ok", "refused"}
  /\ tab' = [tab EXCEPT ![t].ready = TRUE,
                        ![t].user = IF boot[t].at = "ok" THEN boot[t].user ELSE @]
  /\ boot' = [boot EXCEPT ![t] = NoCall]
  /\ UNCHANGED <<row, issued, pending, cookie, form, stray, loads>>

\* The bootstrap that declares the session ready while its call is under way.
bootstrapUnawaited(t) ==
  /\ boot[t].at \in {"sent", "ok", "refused"}
  /\ tab' = [tab EXCEPT ![t].ready = TRUE,
                        ![t].user = IF boot[t].at = "ok" THEN boot[t].user ELSE @]
  /\ cookie' = IF boot[t].at = "ok" THEN boot[t].token ELSE cookie
  /\ boot' = IF boot[t].at = "sent" THEN boot ELSE [boot EXCEPT ![t] = NoCall]
  /\ UNCHANGED <<row, issued, pending, form, stray, loads>>

\* SessionBootstrap's then, catch and finally.
bootstrap(t) ==
  /\ boot[t].at \in {"ok", "refused"}
  /\ tab' = [tab EXCEPT ![t].ready = TRUE,
                        ![t].user = IF boot[t].at = "ok" THEN boot[t].user ELSE @]
  /\ cookie' = IF boot[t].at = "ok" THEN boot[t].token ELSE cookie
  /\ boot' = [boot EXCEPT ![t] = NoCall]
  /\ UNCHANGED <<row, issued, pending, form, stray, loads>>

Goto(t, p) == tab' = [tab EXCEPT ![t].page = p]

\* useRequireAuth: to the login page once it is known that nobody is signed in.
useRequireAuth(t) ==
  /\ tab[t].page \in Private /\ tab[t].ready /\ tab[t].user = None
  /\ Goto(t, "login")
  /\ UNCHANGED <<row, issued, pending, cookie, boot, form, stray, loads>>

\* The index page sends a signed-in user home.
indexPage(t) ==
  /\ tab[t].page = "index" /\ tab[t].ready /\ tab[t].user # None
  /\ Goto(t, "home")
  /\ UNCHANGED <<row, issued, pending, cookie, boot, form, stray, loads>>

\* Links between pages: they load nothing and restore nothing.
navigate(t, p) ==
  /\ tab[t].page # "closed" /\ form[t] = NoCall
  /\ \/ tab[t].page \in Public \ {"index"} /\ p \in Public \ {"index", "verify"}
     \/ tab[t].page \in Private /\ tab[t].user # None /\ p \in Private
     \/ tab[t].page = "index" /\ tab[t].ready /\ tab[t].user = None /\ p \in {"login", "register"}
  /\ p # tab[t].page /\ Goto(t, p)
  /\ UNCHANGED <<row, issued, pending, cookie, boot, form, stray, loads>>

-----------------------------------------------------------------------------
(* The forms.  Every submit button is disabled while its call is loading.  *)

Submit(t, page, kind, token, u) ==
  /\ tab[t].page = page /\ form[t] = NoCall
  /\ form' = [form EXCEPT ![t] = Call(kind, token, u)]
  /\ UNCHANGED <<row, issued, pending, cookie, tab, boot, stray, loads>>

Answer(t, at, token) == form' = [form EXCEPT ![t] = [@ EXCEPT !.at = at, !.token = token]]

\* LoginPage.onSubmit, RegisterInner.onSubmit, VerifyInner.verify,
\* ForgotPasswordPage.resetPassword, ProfilePage.logout
login(t, u) == Submit(t, "login", "login", 0, u)
register(t, u) == u \in pending /\ Submit(t, "register", "register", 0, u)
verify(t, u) == u \in pending /\ Submit(t, "verify", "verify", 0, u)
resetPassword(t, u) == u \notin pending /\ Submit(t, "forgot", "reset", 0, u)
logout(t) == tab[t].user # None /\ Submit(t, "profile", "logout", cookie, tab[t].user)

\* The server's side of call c, or its refusal of a wrong password or code.
Serve(c, at, token) ==
  \/ /\ c.kind \in {"login", "verify"} /\ (c.kind = "login" => c.user \notin pending)
     /\ issued < MaxTokens - MaxLoads  \* leaves a token for every load's refresh
     /\ Issue(row, c.user) /\ pending' = pending \ {c.user}
     /\ at = "ok" /\ token = issued + 1
  \/ /\ c.kind = "login" /\ c.user \in pending
     /\ at = "challenge" /\ token = 0 /\ UNCHANGED <<row, issued, pending>>
  \/ /\ c.kind = "register"
     /\ at = "ok" /\ token = 0 /\ UNCHANGED <<row, issued, pending>>
  \/ /\ c.kind = "reset" /\ at = "ok" /\ token = 0
     /\ row' = [k \in Tokens |-> IF row[k].user = c.user /\ Live(k)
                                   THEN [row[k] EXCEPT !.state = "reset"] ELSE row[k]]
     /\ UNCHANGED <<issued, pending>>
  \/ /\ c.kind = "logout" /\ at = "ok" /\ token = 0
     /\ row' = IF Live(c.token) THEN [row EXCEPT ![c.token].state = "logout"] ELSE row
     /\ UNCHANGED <<issued, pending>>
  \/ /\ c.kind # "logout"
     /\ at = "refused" /\ token = 0 /\ UNCHANGED <<row, issued, pending>>

Outcomes == {"ok", "challenge", "refused"}

serve(t) ==
  /\ form[t].at = "sent"
  /\ \E at \in Outcomes, k \in 0..MaxTokens : Serve(form[t], at, k) /\ Answer(t, at, k)
  /\ UNCHANGED <<cookie, tab, boot, stray, loads>>

\* The server serves a call that nobody waits for.
serveStray(c) ==
  /\ stray' = stray \ {c}
  /\ IF c.kind = "refresh" THEN Rotate(c.token) /\ UNCHANGED pending
     ELSE \E at \in Outcomes, k \in 0..MaxTokens : Serve(c, at, k)
  /\ UNCHANGED <<cookie, tab, boot, form, loads>>

\* setSession and the redirects.  A refused form stays on its page with an error.
answered(t) ==
  LET c == form[t]
      signedIn == c.at = "ok" /\ c.kind \in {"login", "verify"}
  IN /\ c.at \in {"ok", "challenge", "refused"}
     /\ tab' = [tab EXCEPT ![t] =
          CASE signedIn -> [@ EXCEPT !.user = c.user, !.page = IF c.kind = "login" THEN "home" ELSE "master"]
            [] c.at = "challenge" \/ (c.at = "ok" /\ c.kind = "register") -> [@ EXCEPT !.page = "verify"]
            [] c.at = "ok" /\ c.kind = "reset" -> [@ EXCEPT !.page = "login"]
            [] c.kind = "logout" -> [@ EXCEPT !.user = None, !.page = "login"]
            [] OTHER -> @]
     /\ cookie' = CASE signedIn -> c.token [] c.kind = "logout" -> 0 [] OTHER -> cookie
     /\ form' = [form EXCEPT ![t] = NoCall]
     /\ UNCHANGED <<row, issued, pending, boot, stray, loads>>

\* A form's call fails on the way there or back: the page shows an error, but a
\* logout's finally clears the memory all the same.
formLost(t) ==
  /\ form[t].at \in {"sent", "ok", "challenge"}
  /\ IF form[t].kind = "logout"
       THEN /\ tab' = [tab EXCEPT ![t].user = None, ![t].page = "login"]
            /\ form' = [form EXCEPT ![t] = NoCall]
       ELSE form' = [form EXCEPT ![t].at = "refused"] /\ UNCHANGED tab
  /\ Abandon({form[t]})
  /\ UNCHANGED <<row, issued, pending, cookie, boot, loads>>

-----------------------------------------------------------------------------
Restore(t) == refresh(t) \/ refreshLost(t) \/ bootstrap(t)
Redirect(t) == useRequireAuth(t) \/ indexPage(t)
Process(t) == serve(t) \/ answered(t) \/ formLost(t)

Next ==
  \/ \E c \in stray : serveStray(c)
  \/ \E t \in Tabs :
       \/ Restore(t) \/ Redirect(t) \/ Process(t) \/ logout(t)
       \/ \E p \in Pages : load(t, p) \/ navigate(t, p)
       \/ \E u \in Users : login(t, u) \/ register(t, u) \/ verify(t, u) \/ resetPassword(t, u)

Spec == Init /\ [][Next]_vars

-----------------------------------------------------------------------------
Quiet == \A t \in Tabs : boot[t] = NoCall /\ form[t] = NoCall

\* When nothing is in flight, the user in memory is the one whose live token
\* the cookie holds, so that the next load restores the same session; only a
\* password reset, which signs every device out, breaks the pair.  Rotation,
\* login during the bootstrap and logout all replace memory and cookie together.
CookieMatchesUser ==
  Quiet => \A t \in Tabs : tab[t].user # None =>
             cookie # 0 /\ row[cookie].user = tab[t].user /\ row[cookie].state \in {"live", "reset"}

\* Between the load of a private page and the redirect, the cookie is sent, used
\* up by the rotation and replaced: nobody whose cookie named a live session at
\* the load is turned away to the login form, unless an earlier page's call was
\* still on its way then, or the refresh itself was lost.
NobodyTurnedAway ==
  [][loads' = loads => \A t \in Tabs :
       tab[t].page \in Private /\ tab'[t].page = "login" /\ form[t].kind # "logout"
         => ~(tab[t].had /\ tab[t].clean)]_vars

\* session-bootstrap.tsx: a load that finds a live session in the cookie
\* restores it, even one that comes while an earlier page's refresh is under way.
RestoresSession ==
  \A t \in Tabs : tab[t].had /\ tab[t].ready /\ cookie # 0 /\ row[cookie].state # "reset" /\ form[t] = NoCall
                    /\ tab[t].page \in Private => tab[t].user # None

-----------------------------------------------------------------------------
(* What the theorems assume of the constants, and the inductive invariant. *)

\* One tab: a tab does not see that another has signed out or in.
SessionAssumption ==
  /\ MaxTokens \in Nat \ {0} /\ MaxLoads \in Nat
  /\ None \notin Users \cup Kinds
  /\ \A t, u \in Tabs : t = u

FormPages == {"login", "register", "verify", "forgot"}
SignedIn(c) == c.at = "ok" /\ c.kind \in {"login", "verify"}

\* Token k is u's and has neither been used nor signed out.
Holds(k, u) == k \in 1..issued /\ row[k].user = u /\ row[k].state \in {"live", "reset"}

\* Memory and cookie agree, unless a logout is under way.
PairOK(t) == tab[t].user # None /\ form[t].kind # "logout" => Holds(cookie, tab[t].user)

\* A refresh under way uses up, or brings, a token that nothing else relies on.
BootOK(t) ==
  LET b == boot[t] IN
  /\ b.token \in 0..issued
  /\ b.at # "idle" => tab[t].page # "closed" /\ b.kind = "refresh"
  /\ b.at = "sent" /\ tab[t].user # None => b.token # cookie
  /\ b.at = "ok" => b.user \in Users /\ Holds(b.token, b.user) /\ b.token # cookie
  /\ b.at \in {"sent", "ok"} /\ SignedIn(form[t]) => b.token # form[t].token
  /\ b.at = "ok" /\ form[t].kind = "logout" => b.token # form[t].token

\* A form is submitted from its own page and brings a token of its user.
FormOK(t) ==
  LET c == form[t] IN
  /\ c.token \in 0..issued
  /\ c.at = "idle" => c = NoCall
  /\ c.at # "idle" => /\ tab[t].page # "closed" /\ c.user \in Users
                      /\ c.kind # "logout" => tab[t].page \in FormPages
  /\ c.kind = "logout" => c.at \in {"sent", "ok"}
  /\ c.at = "sent" /\ c.kind # "logout" => c.token = 0
  /\ SignedIn(c) => Holds(c.token, c.user)

\* Nothing relies on a token that a stray call may still use up.
StrayOK(t) ==
  \A c \in stray :
    /\ c.token \in 0..issued /\ (c.kind # "refresh" => c.user \in Users)
    /\ tab[t].user # None /\ form[t].kind # "logout" => c.token # cookie
    /\ boot[t].at = "ok" => c.token # boot[t].token
    /\ SignedIn(form[t]) => c.token # form[t].token

\* The restore of a session that was live when its page was loaded is under way
\* or has brought its token.
RestoreOK(t) ==
  /\ tab[t].ready => boot[t].at = "idle"
  /\ tab[t].page \in Private /\ tab[t].user = None /\ tab[t].had /\ tab[t].clean =>
       /\ stray = {} /\ form[t].at = "idle"
       /\ \/ boot[t].at = "sent" /\ Live(boot[t].token)
          \/ boot[t].at = "ok"

SessionInv ==
  /\ \A k \in Tokens : row[k].state # "none" => row[k].user \in Users
  /\ \A t \in Tabs : PairOK(t) /\ BootOK(t) /\ FormOK(t) /\ StrayOK(t) /\ RestoreOK(t)
=============================================================================
