---------------------------- MODULE ConsoleClient ----------------------------
(***************************************************************************)
(* The session of the browser console (app/static/app.js): login, logout,  *)
(* and calls of the API that refresh the access token when it has expired. *)
(* The script is single-threaded; other handlers run while one awaits its  *)
(* answer, and the answers of different calls come in any order.           *)
(*                                                                         *)
(* A token is the number of the session it belongs to, 0 stands for null.  *)
(* The lists and the alert socket of the page are left out.                *)
(***************************************************************************)
EXTENDS Naturals

CONSTANTS
    Calls,          \* the handlers that may be awaiting an answer
    MaxLogins       \* bound on the number of sessions

VARIABLES
    access,         \* state.access
    refresh,        \* state.refresh
    call,           \* call -> [stage, token]: what it awaits, the token in its body
    revoked,        \* the sessions that the server has revoked
    logins,         \* number of sessions so far
    signedOut       \* history: a logout is over and no login since

vars == <<access, refresh, call, revoked, logins, signedOut>>

NoCall == [stage |-> "idle", token |-> 0]

Init ==
    /\ access = 0 /\ refresh = 0
    /\ call = [c \in Calls |-> NoCall]
    /\ revoked = {}
    /\ logins = 0
    /\ signedOut = FALSE

Await(c, stage, token) == call' = [call EXCEPT ![c] = [stage |-> stage, token |-> token]]

Return(c) == call' = [call EXCEPT ![c] = NoCall]

At(c, stage) == call[c].stage = stage

-----------------------------------------------------------------------------
(* handleLogin() *)

Login(c) ==
    /\ At(c, "idle")
    /\ Await(c, "login", 0)
    /\ UNCHANGED <<access, refresh, revoked, logins, signedOut>>

\* applyLoginResponse(): the tokens are stored; its two reloads go on as one call.
LoginAnswers(c) ==
    /\ At(c, "login")
    /\ logins < MaxLogins /\ logins' = logins + 1
    /\ access' = logins' /\ refresh' = logins'
    /\ signedOut' = FALSE
    /\ Await(c, "fetch", 0)
    /\ UNCHANGED revoked

-----------------------------------------------------------------------------
(* apiFetch() and tryRefresh() *)

\* The panels are locked while there is no access token.
Fetch(c) ==
    /\ At(c, "idle")
    /\ access # 0
    /\ Await(c, "fetch", 0)
    /\ UNCHANGED <<access, refresh, revoked, logins, signedOut>>

\* 401: the access token is refreshed, if the page still has a refresh token.
Unauthorized(c) ==
    /\ At(c, "fetch")
    /\ refresh # 0
    /\ Await(c, "refresh", refresh)
    /\ UNCHANGED <<access, refresh, revoked, logins, signedOut>>

\* The server grants it before it revokes the session.
RefreshServed(c) ==
    /\ At(c, "refresh")
    /\ call[c].token \notin revoked
    /\ Await(c, "granted", call[c].token)
    /\ UNCHANGED <<access, refresh, revoked, logins, signedOut>>

\* The new token is stored, whatever the page's session has become, and the first
\* call is sent again, this time without a retry.
RefreshAnswers(c) ==
    /\ At(c, "granted")
    /\ access' = call[c].token
    /\ Await(c, "retry", 0)
    /\ UNCHANGED <<refresh, revoked, logins, signedOut>>

\* A call is over: with its answer, or with an error that a toast shows.
CallReturns(c) ==
    /\ call[c].stage \in {"login", "fetch", "refresh", "granted", "retry"}
    /\ Return(c)
    /\ UNCHANGED <<access, refresh, revoked, logins, signedOut>>

-----------------------------------------------------------------------------
(* handleLogout() *)

\* The button is disabled while there is no access token.
Logout(c) ==
    /\ At(c, "idle")
    /\ access # 0
    /\ Await(c, "logout", refresh)
    /\ UNCHANGED <<access, refresh, revoked, logins, signedOut>>

LogoutServed(c) ==
    /\ At(c, "logout")
    /\ revoked' = revoked \cup {call[c].token}
    /\ Await(c, "revoked", call[c].token)
    /\ UNCHANGED <<access, refresh, logins, signedOut>>

\* The answer comes, or an error is ignored: the local state is cleared.
LogoutReturns(c) ==
    /\ call[c].stage \in {"logout", "revoked"}
    /\ access' = 0 /\ refresh' = 0
    /\ signedOut' = TRUE
    /\ Return(c)
    /\ UNCHANGED <<revoked, logins>>

Next == \E c \in Calls :
    \/ Login(c) \/ LoginAnswers(c)
    \/ Fetch(c) \/ Unauthorized(c) \/ RefreshServed(c) \/ RefreshAnswers(c) \/ CallReturns(c)
    \/ Logout(c) \/ LogoutServed(c) \/ LogoutReturns(c)

Spec == Init /\ [][Next]_vars

-----------------------------------------------------------------------------
(* A claim of the repository that the code does not keep.                  *)

\* "best-effort — clear local state regardless" (app.js:309): after a logout the
\* page holds no token until the next login.
LogoutClearsSession == signedOut => access = 0 /\ refresh = 0
=============================================================================
