------------------------------ MODULE TokenAuth ------------------------------
(***************************************************************************)
(* The sessions of one user: login, refresh and logout of                  *)
(* app/routers/auth.py, with the Redis blacklist (app/auth/blacklist.py),  *)
(* the JWT codec (app/auth/jwt_handler.py) and the refresh_tokens table.   *)
(*                                                                         *)
(* Time is counted in ticks, TicksPerSecond of them to a second, because   *)
(* the parts of the system disagree below a second: a JWT carries its exp  *)
(* in whole seconds and is accepted while the current second is not past   *)
(* it, a Redis TTL is a whole number of seconds from the moment it is set, *)
(* and the table keeps the expiry in full.                                 *)
(*                                                                         *)
(* A handler is split at its awaits on Redis and the database: what it     *)
(* reads or writes there takes effect while it waits, and the clock goes   *)
(* on until its coroutine resumes and uses the answer.                     *)
(***************************************************************************)
EXTENDS Naturals, Sequences

CONSTANTS
    Requests,           \* the concurrent requests
    TicksPerSecond,
    AccessLife,         \* access_token_expire_minutes, in ticks
    RefreshLife,        \* refresh_token_expire_days, in ticks
    MaxTokens,          \* bound on the number of tokens issued
    MaxTime,            \* bound on the clock
    MaxWait,            \* bound on the ticks a request waits for an answer it depends on
    MaxLosses           \* bound on the number of times Redis loses its keys

ASSUME TokenAssumption ==
    /\ TicksPerSecond \in Nat \ {0}
    /\ {AccessLife, RefreshLife, MaxTokens, MaxTime, MaxWait, MaxLosses} \subseteq Nat

VARIABLES
    now,                \* the clock
    tokens,             \* all tokens issued; a token is its index
    revoked,            \* the refresh tokens whose row has revoked = true
    blacklist,          \* token -> the tick its key expires; no key, no entry
    request,            \* request -> [stage, token, late, since]
    minted,             \* history: late-ness of the refreshes that minted
    loggedOut,          \* history: access tokens a logout has dealt with
    revokedAt,          \* history: refresh token -> when it was first revoked
    losses              \* number of times Redis lost its keys

vars == <<now, tokens, revoked, blacklist, request, minted, loggedOut, revokedAt, losses>>
history == <<minted, loggedOut, revokedAt>>

Ids == 1..Len(tokens)
Second(tick) == tick \div TicksPerSecond

\* since is the tick of the last await that a later step still depends on.
Idle == [stage |-> "idle", token |-> 0, late |-> FALSE, since |-> 0]

RequestStates == [stage : {"idle", "refresh", "minting", "logout", "revoke"},
                  token : Nat, late : BOOLEAN, since : 0..MaxTime]

TokenRecords == [type : {"access", "refresh"}, exp : Nat, expires : Nat, session : Nat,
                 waited : Nat]

Life(t) == IF tokens[t].type = "access" THEN AccessLife ELSE RefreshLife

TypeOK ==
    /\ now \in 0..MaxTime
    /\ tokens \in Seq(TokenRecords)
    /\ revoked \subseteq Ids
    /\ DOMAIN blacklist \subseteq Ids
    /\ \A t \in DOMAIN blacklist : blacklist[t] \in 1 .. now + Life(t)
    /\ request \in [Requests -> RequestStates]
    /\ minted \subseteq BOOLEAN
    /\ loggedOut \subseteq Ids
    /\ revokedAt \in [revoked -> 0..MaxTime]
    /\ losses \in 0..MaxLosses

Init ==
    /\ now = 0
    /\ tokens = <<>>
    /\ revoked = {}
    /\ blacklist = [t \in {} |-> 0]
    /\ request = [q \in Requests |-> Idle]
    /\ minted = {}
    /\ loggedOut = {}
    /\ revokedAt = [t \in {} |-> 0]
    /\ losses = 0

-----------------------------------------------------------------------------
(* The codec and the blacklist.                                            *)

\* _create_token(): the expiry in full, and the exp claim, which drops the
\* fraction of a second.  session is the refresh token it was issued under, and
\* waited the age of the row's answer that it was issued on.
Token(type, life, session, waited) ==
    [type |-> type, exp |-> Second(now + life), expires |-> now + life, session |-> session,
     waited |-> waited]

\* decode_token(): the signature is good, and exp is not before this second.
Decodes(t) == Second(now) <= tokens[t].exp

\* Variant: the fraction of a second is rounded up.
SecondsLeftRoundedUp(t, then) ==
    LET end == tokens[t].exp * TicksPerSecond
    IN IF end > then THEN Second(end - then + TicksPerSecond - 1) ELSE 0

\* int((exp - now).total_seconds()), as of tick then
SecondsLeft(t, then) ==
    LET end == tokens[t].exp * TicksPerSecond
    IN IF end > then THEN Second(end - then) ELSE 0

IsBlacklisted(t) == t \in DOMAIN blacklist /\ now < blacklist[t]

\* Variant: a blacklist that rounds the last second away.
BlacklistTooShort(t, then) ==
    IF SecondsLeft(t, then) > 1
    THEN blacklist' = [u \in DOMAIN blacklist \cup {t} |->
                        IF u = t THEN now + (SecondsLeft(t, then) - 1) * TicksPerSecond
                                 ELSE blacklist[u]]
    ELSE UNCHANGED blacklist

\* blacklist_token(): the TTL is computed at tick then and counts from the SETEX,
\* which Redis executes now; there is none if no whole second was left.
Blacklist(t, then) ==
    IF SecondsLeft(t, then) > 0
    THEN blacklist' = [u \in DOMAIN blacklist \cup {t} |->
                        IF u = t THEN now + SecondsLeft(t, then) * TicksPerSecond
                                 ELSE blacklist[u]]
    ELSE UNCHANGED blacklist

\* get_current_user(): what a protected route lets through.
AcceptsAccess(t) == tokens[t].type = "access" /\ Decodes(t) /\ ~IsBlacklisted(t)

-----------------------------------------------------------------------------
(* POST /auth/login: the pair is issued when the commit returns.           *)

Login ==
    LET r == Len(tokens) + 2
    IN /\ Len(tokens) + 2 <= MaxTokens
       /\ tokens' = tokens \o <<Token("access", AccessLife, r, 0),
                                Token("refresh", RefreshLife, r, 0)>>
       /\ UNCHANGED <<now, revoked, blacklist, request, history, losses>>

-----------------------------------------------------------------------------
(* POST /auth/refresh                                                      *)

\* The token decodes as a refresh token and is_blacklisted() says no.
RefreshBegin(q, t) ==
    /\ request[q].stage = "idle"
    /\ tokens[t].type = "refresh"
    /\ Decodes(t)
    /\ ~IsBlacklisted(t)
    /\ request' = [request EXCEPT ![q] = [stage |-> "refresh", token |-> t,
                                         late |-> t \in revoked, since |-> 0]]
    /\ UNCHANGED <<now, tokens, revoked, blacklist, history, losses>>

\* Variant: the row is read for its expiry only.
RowIgnored(t) == FALSE

RowRevoked(t) == t \in revoked

\* Postgres executes the SELECT.  The answer is on its way to the coroutine; with
\* a revoked row it will be a 401 and nothing else.
RefreshRead(q) ==
    LET t == request[q].token
    IN /\ request[q].stage = "refresh"
       /\ request' = [request EXCEPT ![q] = IF RowRevoked(t) THEN Idle
                                            ELSE [@ EXCEPT !.stage = "minting", !.since = now]]
       /\ UNCHANGED <<now, tokens, revoked, blacklist, history, losses>>

\* The coroutine resumes with a row that was not revoked when it was read: a new
\* access token, or 401 if the row has expired by now.
RefreshEnd(q) ==
    LET t == request[q].token
        inTime == now <= tokens[t].expires
    IN /\ request[q].stage = "minting"
       /\ inTime => Len(tokens) < MaxTokens
       /\ IF inTime
          THEN /\ tokens' = Append(tokens, Token("access", AccessLife, t, now - request[q].since))
               /\ minted' = minted \cup {request[q].late}
          ELSE UNCHANGED <<tokens, minted>>
       /\ request' = [request EXCEPT ![q] = Idle]
       /\ UNCHANGED <<now, revoked, blacklist, loggedOut, revokedAt, losses>>

-----------------------------------------------------------------------------
(* POST /auth/logout with an access token a and a refresh token t.         *)

\* The access token, which the request has decoded at tick then, is blacklisted;
\* the request goes on if the token of its body decodes and is a refresh token.
LogoutAccess(q, a, t, then) ==
    /\ request[q].stage = "idle"
    /\ tokens[a].type = "access"
    /\ tokens[a].expires <= then + AccessLife     \* it had been issued
    /\ now <= then + MaxWait
    /\ IF Second(then) <= tokens[a].exp THEN Blacklist(a, then) ELSE UNCHANGED blacklist
    /\ loggedOut' = loggedOut \cup {a}
    /\ request' = IF Decodes(t) /\ tokens[t].type = "refresh"
                  THEN [request EXCEPT ![q] = [stage |-> "logout", token |-> t,
                                               late |-> FALSE, since |-> now]]
                  ELSE request
    /\ UNCHANGED <<now, tokens, revoked, minted, revokedAt, losses>>

\* No access token was sent: only the refresh token is dealt with.
LogoutAnonymous(q, t) ==
    /\ request[q].stage = "idle"
    /\ tokens[t].type = "refresh"
    /\ Decodes(t)
    /\ request' = [request EXCEPT ![q] = [stage |-> "logout", token |-> t,
                                         late |-> FALSE, since |-> now]]
    /\ UNCHANGED <<now, tokens, revoked, blacklist, history, losses>>

\* The TTL was computed between the last await and now.
LogoutRefresh(q) ==
    /\ request[q].stage = "logout"
    /\ \E then \in request[q].since .. now : Blacklist(request[q].token, then)
    /\ request' = [request EXCEPT ![q].stage = "revoke", ![q].since = 0]
    /\ UNCHANGED <<now, tokens, revoked, history, losses>>

\* The row is read, marked and committed.
LogoutRevoke(q) ==
    LET t == request[q].token
    IN /\ request[q].stage = "revoke"
       /\ revoked' = revoked \cup {t}
       /\ revokedAt' = [u \in revoked \cup {t} |-> IF u \in revoked THEN revokedAt[u] ELSE now]
       /\ request' = [request EXCEPT ![q] = Idle]
       /\ UNCHANGED <<now, tokens, blacklist, minted, loggedOut, losses>>

\* Redis or the database raises in the middle of a request: 500, and what was
\* done stays done.
RequestRaises(q) ==
    /\ request[q].stage # "idle"
    /\ request' = [request EXCEPT ![q] = Idle]
    /\ UNCHANGED <<now, tokens, revoked, blacklist, history, losses>>

-----------------------------------------------------------------------------

Tick ==
    /\ now < MaxTime
    /\ \A q \in Requests :
         request[q].stage \in {"minting", "logout"} => now < request[q].since + MaxWait
    /\ now' = now + 1
    /\ UNCHANGED <<tokens, revoked, blacklist, request, history, losses>>

\* Redis restarts from a snapshot taken before the entries were written.
LoseKeys ==
    /\ losses < MaxLosses
    /\ losses' = losses + 1
    /\ blacklist' = [t \in {} |-> 0]
    /\ UNCHANGED <<now, tokens, revoked, request, history>>

Next ==
    \/ Login
    \/ \E q \in Requests :
         \/ \E t \in Ids : RefreshBegin(q, t) \/ LogoutAnonymous(q, t)
         \/ \E a, t \in Ids, then \in 0..now : LogoutAccess(q, a, t, then)
         \/ RefreshRead(q) \/ RefreshEnd(q) \/ LogoutRefresh(q) \/ LogoutRevoke(q) \/ RequestRaises(q)
    \/ Tick
    \/ LoseKeys

Spec == Init /\ [][Next]_vars

-----------------------------------------------------------------------------
(* Safety.                                                                 *)

\* "the blacklist entry disappears on its own exactly when the token would have
\* expired anyway" (blacklist.py:4-6) is not quite so: the TTL is rounded down, and
\* the codec accepts a token to the end of the second its exp names.  What holds
\* while Redis keeps its keys: a logged-out access token is accepted again in its
\* last two seconds at most.
LogoutHolds == \A a \in loggedOut :
    losses = 0 /\ AcceptsAccess(a) => (tokens[a].exp + 1) * TicksPerSecond < now + 2 * TicksPerSecond

\* "this table is the source of truth" (refresh_token.py:13-14): a refresh that
\* began after the logout had committed mints nothing, even when Redis has lost
\* the blacklist or the entry has run out.
NoMintAfterLogout == TRUE \notin minted

\* A logout bounds the session although its other access tokens are not
\* blacklisted and a refresh may overlap it: nothing of the session is accepted
\* once an access lifetime (and the second of grace of the codec) has passed since
\* the row was revoked.  A refresh whose SELECT came before the revocation may
\* mint after it, and then what it waited for its answer comes on top.
SessionEnds == \A a \in Ids :
    /\ AcceptsAccess(a)
    /\ tokens[a].session \in revoked
    => now < revokedAt[tokens[a].session] + AccessLife + tokens[a].waited + TicksPerSecond

=============================================================================
