--------------------------- MODULE TokenAuthProofs ---------------------------
(***************************************************************************)
(* Sessions, for any number of requests, tokens and Redis losses, any      *)
(* lifetimes and any number of ticks to a second.                          *)
(***************************************************************************)
EXTENDS TokenAuth, TLAPS

\* The tick at which the exp claim of t says it ends.
End(t) == tokens[t].exp * TicksPerSecond

-----------------------------------------------------------------------------
(* The strengthening.                                                      *)

\* A request in flight is about a refresh token; one that found the row revoked
\* when it began will find it so when it reads it, and what it read unrevoked was
\* read before the row was revoked.
SoundRequest(k) == k.stage # "idle" =>
    /\ k.token \in Ids
    /\ tokens[k.token].type = "refresh"
    /\ k.since <= now
    /\ k.stage = "refresh" /\ k.late => k.token \in revoked
    /\ k.stage = "minting" =>
         /\ ~k.late
         /\ k.token \in revoked => k.since <= revokedAt[k.token]
    /\ k.stage = "logout" => End(k.token) <= k.since + RefreshLife

RequestsSound == \A q \in Requests : SoundRequest(request[q])

\* The exp claim never promises more than the lifetime asked for.
Lifetimes == \A t \in Ids : End(t) <= tokens[t].expires /\ tokens[t].expires <= now + Life(t)

\* While Redis keeps its keys, the entry of a logged-out access token lasts until
\* the last second before its exp.
HeldBack == losses = 0 => \A a \in loggedOut :
    \/ a \in DOMAIN blacklist /\ End(a) < blacklist[a] + TicksPerSecond
    \/ End(a) < now + TicksPerSecond

\* No access token outlives the revocation of its session by more than one access
\* lifetime and the wait of the refresh that minted it.
AccessBounded == \A a \in Ids : tokens[a].type = "access" /\ tokens[a].session \in revoked =>
    End(a) <= revokedAt[tokens[a].session] + AccessLife + tokens[a].waited

SessionInv == RequestsSound /\ Lifetimes /\ HeldBack /\ AccessBounded /\ NoMintAfterLogout

-----------------------------------------------------------------------------
(* Seconds and ticks.                                                      *)

LEMMA ConstantTypes ==
    /\ TicksPerSecond \in Nat /\ AccessLife \in Nat /\ RefreshLife \in Nat
    /\ MaxTime \in Nat /\ 0 \in 0..MaxTime
BY TokenAssumption

\* Whole seconds: what Second drops is less than a second.
LEMMA SecondBounds ==
    ASSUME NEW x \in Nat
    PROVE  /\ Second(x) \in Nat
           /\ Second(x) * TicksPerSecond <= x
           /\ x < Second(x) * TicksPerSecond + TicksPerSecond
BY TokenAssumption DEF Second

LEMMA TicksMonotone ==
    ASSUME NEW a \in Nat, NEW b \in Nat, a <= b
    PROVE  a * TicksPerSecond \in Nat /\ a * TicksPerSecond <= b * TicksPerSecond
BY TokenAssumption

\* What a new token is: its exp claim drops the fraction of a second.
LEMMA TokenType ==
    ASSUME NEW type \in {"access", "refresh"}, NEW life \in Nat, NEW session \in Nat,
           NEW waited \in Nat, now \in Nat
    PROVE  LET t == Token(type, life, session, waited)
           IN /\ t \in TokenRecords
              /\ t.type = type /\ t.session = session /\ t.waited = waited
              /\ t.exp * TicksPerSecond <= t.expires /\ t.expires = now + life
<1>1. now + life \in Nat
  OBVIOUS
<1> QED BY <1>1, SecondBounds DEF Token, TokenRecords

LEMMA AccessTokenType ==
    ASSUME now \in Nat, NEW session \in Nat, NEW waited \in Nat
    PROVE  LET t == Token("access", AccessLife, session, waited)
           IN /\ t \in TokenRecords
              /\ t.type = "access" /\ t.session = session /\ t.waited = waited
              /\ t.exp * TicksPerSecond <= t.expires /\ t.expires = now + AccessLife
BY ConstantTypes, TokenType

LEMMA RefreshTokenType ==
    ASSUME now \in Nat, NEW session \in Nat
    PROVE  LET t == Token("refresh", RefreshLife, session, 0)
           IN /\ t \in TokenRecords
              /\ t.type = "refresh" /\ t.session = session
              /\ t.exp * TicksPerSecond <= t.expires /\ t.expires = now + RefreshLife
BY ConstantTypes, TokenType

\* What the types say, token by token.
LEMMA TokenTypes ==
    ASSUME TypeOK
    PROVE  /\ now \in Nat /\ losses \in Nat /\ Len(tokens) \in Nat
           /\ \A t \in Ids : /\ tokens[t] \in TokenRecords
                             /\ tokens[t].exp \in Nat /\ tokens[t].session \in Nat
                             /\ tokens[t].expires \in Nat /\ tokens[t].waited \in Nat
                             /\ End(t) \in Nat /\ Life(t) \in Nat
           /\ \A t \in revoked : t \in Ids /\ revokedAt[t] \in Nat
           /\ \A t \in DOMAIN blacklist : t \in Ids /\ blacklist[t] \in 1 .. now + Life(t)
           /\ loggedOut \subseteq Ids
<1>1. \A t \in Ids : tokens[t] \in TokenRecords
  BY DEF TypeOK, Ids
<1>2. \A t \in Ids : /\ tokens[t].exp \in Nat /\ tokens[t].session \in Nat
                    /\ tokens[t].expires \in Nat /\ tokens[t].waited \in Nat
  BY <1>1 DEF TokenRecords
<1>3. now \in Nat /\ losses \in Nat /\ Len(tokens) \in Nat
  BY TokenAssumption DEF TypeOK
<1>4. \A t \in revoked : t \in Ids /\ revokedAt[t] \in Nat
  BY TokenAssumption DEF TypeOK
<1>5. \A t \in Ids : Life(t) \in Nat
  BY TokenAssumption DEF Life
<1>6. \A t \in Ids : End(t) \in Nat
  BY <1>2, TokenAssumption DEF End
<1>7. loggedOut \subseteq Ids /\ \A t \in DOMAIN blacklist : t \in Ids /\ blacklist[t] \in 1 .. now + Life(t)
  BY DEF TypeOK
<1> QED BY <1>1, <1>2, <1>3, <1>4, <1>5, <1>6, <1>7

\* What SETEX does to the blacklist: the entry of t lasts no longer than a new token
\* would, and to the last second before the exp of t at least; with no whole
\* second left there is none.
LEMMA BlacklistEffect ==
    ASSUME TypeOK, NEW t \in Ids, NEW then \in 0..now, End(t) <= then + Life(t),
           Blacklist(t, then)
    PROVE  /\ DOMAIN blacklist' \subseteq Ids
           /\ \A u \in DOMAIN blacklist' : blacklist'[u] \in 1 .. now + Life(u)
           /\ \A u \in DOMAIN blacklist \ {t} : u \in DOMAIN blacklist' /\ blacklist'[u] = blacklist[u]
           /\ \/ t \in DOMAIN blacklist' /\ End(t) < blacklist'[t] + TicksPerSecond
              \/ End(t) < now + TicksPerSecond
<1> DEFINE left == End(t) - then
           ttl == SecondsLeft(t, then)
<1>1. /\ now \in Nat /\ then \in Nat /\ then <= now
      /\ End(t) \in Nat /\ Life(t) \in Nat
      /\ DOMAIN blacklist \subseteq Ids
      /\ \A u \in DOMAIN blacklist : blacklist[u] \in 1 .. now + Life(u)
  BY TokenTypes
<1>2. CASE End(t) > then
  <2>1. ttl = Second(left) /\ left \in Nat
    BY <1>1, <1>2 DEF SecondsLeft, End
  <2>2. ttl \in Nat /\ ttl * TicksPerSecond <= left /\ left < ttl * TicksPerSecond + TicksPerSecond
    BY <2>1, SecondBounds
  <2> HIDE DEF ttl
  <2>3. ttl * TicksPerSecond \in Nat
    BY <2>2, TicksMonotone
  <2>4. CASE ttl > 0
    <3> DEFINE until == now + ttl * TicksPerSecond
    <3>1. blacklist' = [u \in DOMAIN blacklist \cup {t} |-> IF u = t THEN until ELSE blacklist[u]]
      BY <2>4 DEF Blacklist, ttl
    <3>2. TicksPerSecond <= ttl * TicksPerSecond
      <4>1. 1 * TicksPerSecond <= ttl * TicksPerSecond
        BY <2>2, <2>4, TicksMonotone
      <4> QED BY <4>1, TokenAssumption
    <3>3. until \in 1 .. now + Life(t) /\ End(t) < until + TicksPerSecond
      BY <1>1, <2>2, <2>3, <3>2, TokenAssumption
    <3> HIDE DEF until
    <3> QED BY <1>1, <3>1, <3>3
  <2>5. CASE ttl = 0
    <3>1. blacklist' = blacklist
      BY <2>5 DEF Blacklist, ttl
    <3>2. End(t) < now + TicksPerSecond
      BY <1>1, <2>2, <2>5, TokenAssumption
    <3> QED BY <1>1, <3>1, <3>2
  <2> QED BY <2>2, <2>4, <2>5
<1>3. CASE ~(End(t) > then)
  <2>1. SecondsLeft(t, then) = 0
    BY <1>3 DEF SecondsLeft, End
  <2>2. blacklist' = blacklist
    BY <2>1 DEF Blacklist
  <2>3. End(t) < now + TicksPerSecond
    BY <1>1, <1>3, TokenAssumption
  <2> QED BY <1>1, <2>2, <2>3
<1> QED BY <1>2, <1>3

\* Tokens are only ever added.
LEMMA MoreTokens ==
    ASSUME TypeOK, NEW new \in Seq(TokenRecords),
           tokens' = tokens \o new
    PROVE  /\ tokens' \in Seq(TokenRecords)
           /\ Ids \subseteq Ids'
           /\ \A t \in Ids : tokens'[t] = tokens[t] /\ End(t)' = End(t) /\ Life(t)' = Life(t)
           /\ \A t \in Ids' \ Ids : \E i \in DOMAIN new : tokens'[t] = new[i]
<1>1. tokens \in Seq(TokenRecords)
  BY DEF TypeOK
<1>2. /\ tokens' \in Seq(TokenRecords)
      /\ Len(tokens') = Len(tokens) + Len(new)
      /\ \A i \in 1 .. Len(tokens') :
           tokens'[i] = IF i <= Len(tokens) THEN tokens[i] ELSE new[i - Len(tokens)]
      /\ Len(tokens) \in Nat /\ Len(new) \in Nat
      /\ DOMAIN new = 1 .. Len(new)
  BY <1>1
<1>3. \A t \in Ids : tokens'[t] = tokens[t]
  BY <1>2 DEF Ids
<1>4. ASSUME NEW t \in Ids' \ Ids PROVE \E i \in DOMAIN new : tokens'[t] = new[i]
  <2>1. t - Len(tokens) \in DOMAIN new /\ tokens'[t] = new[t - Len(tokens)]
    BY <1>2 DEF Ids
  <2> QED BY <2>1
<1> QED BY <1>2, <1>3, <1>4 DEF Ids, End, Life

-----------------------------------------------------------------------------
(* Types.                                                                  *)

\* Steps that leave the tokens and the clock alone, and blacklist by SETEX at most.
LEMMA BlacklistTypes ==
    ASSUME TypeOK, NEW t \in Ids, NEW then \in 0..now, End(t) <= then + Life(t),
           Blacklist(t, then) \/ UNCHANGED blacklist, UNCHANGED <<now, tokens>>
    PROVE  /\ DOMAIN blacklist' \subseteq Ids'
           /\ \A u \in DOMAIN blacklist' : blacklist'[u] \in 1 .. now' + Life(u)'
<1>1. CASE Blacklist(t, then)
  <2>1. /\ DOMAIN blacklist' \subseteq Ids
        /\ \A u \in DOMAIN blacklist' : blacklist'[u] \in 1 .. now + Life(u)
    BY <1>1, BlacklistEffect
  <2> QED BY <2>1 DEF Ids, Life
<1>2. CASE UNCHANGED blacklist
  BY <1>2 DEF TypeOK, Ids, Life
<1> QED BY <1>1, <1>2

\* One request moves to another state.
LEMMA RequestTypes ==
    ASSUME request \in [Requests -> RequestStates], NEW q \in Requests, NEW s \in RequestStates,
           request' = [request EXCEPT ![q] = s]
    PROVE  request' \in [Requests -> RequestStates]
OBVIOUS

LEMMA TypeStep == TypeOK /\ RequestsSound /\ Lifetimes /\ [Next]_vars => TypeOK'
<1> SUFFICES ASSUME TypeOK, RequestsSound, Lifetimes, [Next]_vars PROVE TypeOK'
  OBVIOUS
<1>0. /\ now \in 0..MaxTime /\ losses \in 0..MaxLosses
      /\ tokens \in Seq(TokenRecords) /\ revoked \subseteq Ids /\ loggedOut \subseteq Ids
      /\ DOMAIN blacklist \subseteq Ids
      /\ \A t \in DOMAIN blacklist : blacklist[t] \in 1 .. now + Life(t)
      /\ request \in [Requests -> RequestStates]
      /\ revokedAt \in [revoked -> 0..MaxTime]
      /\ minted \subseteq BOOLEAN
      /\ Ids \subseteq Nat
  BY DEF TypeOK, Ids
<1>I. Idle \in RequestStates /\ 0 \in 0..MaxTime
  BY TokenAssumption DEF Idle, RequestStates
<1> USE TokenAssumption DEF history
<1>U. ASSUME UNCHANGED <<now, tokens, blacklist>>
      PROVE  /\ tokens' \in Seq(TokenRecords) /\ Ids' = Ids
             /\ DOMAIN blacklist' \subseteq Ids'
             /\ \A t \in DOMAIN blacklist' : blacklist'[t] \in 1 .. now' + Life(t)'
  BY <1>0, <1>U DEF Ids, Life
<1>1. CASE UNCHANGED vars
  BY <1>0, <1>1, <1>U DEF TypeOK, vars
<1>2. CASE Login
  <2> DEFINE A == Token("access", AccessLife, Len(tokens) + 2, 0)
             R == Token("refresh", RefreshLife, Len(tokens) + 2, 0)
             new == <<A, R>>
  <2>1. new \in Seq(TokenRecords) /\ tokens' = tokens \o new
    <3>1. Len(tokens) + 2 \in Nat /\ now \in Nat
      BY <1>0
    <3>2. A \in TokenRecords
      BY <3>1, AccessTokenType
    <3>3. R \in TokenRecords
      BY <3>1, RefreshTokenType
    <3>4. tokens' = tokens \o <<A, R>>
      BY <1>2 DEF Login
    <3> HIDE DEF A, R
    <3> QED BY <3>2, <3>3, <3>4
  <2> HIDE DEF new
  <2>2. /\ Ids \subseteq Ids' /\ tokens' \in Seq(TokenRecords)
        /\ \A t \in Ids : tokens'[t] = tokens[t] /\ Life(t)' = Life(t)
    BY <2>1, MoreTokens
  <2> QED BY <1>0, <1>2, <2>2 DEF Login, TypeOK
<1>3. ASSUME NEW q \in Requests, NEW t \in Ids, RefreshBegin(q, t) PROVE TypeOK'
  <2>1. [stage |-> "refresh", token |-> t, late |-> t \in revoked, since |-> 0] \in RequestStates
    BY <1>0, <1>I DEF RequestStates
  <2>2. request' \in [Requests -> RequestStates]
    BY <1>0, <1>3, <2>1, RequestTypes DEF RefreshBegin
  <2> QED BY <1>0, <1>3, <1>U, <2>2 DEF RefreshBegin, TypeOK
<1>4. ASSUME NEW q \in Requests, NEW t \in Ids, LogoutAnonymous(q, t) PROVE TypeOK'
  <2>1. [stage |-> "logout", token |-> t, late |-> FALSE, since |-> now] \in RequestStates
    BY <1>0 DEF RequestStates
  <2>2. request' \in [Requests -> RequestStates]
    BY <1>0, <1>4, <2>1, RequestTypes DEF LogoutAnonymous
  <2> QED BY <1>0, <1>4, <1>U, <2>2 DEF LogoutAnonymous, TypeOK
<1>5. ASSUME NEW q \in Requests, NEW a \in Ids, NEW t \in Ids, NEW then \in 0..now,
             LogoutAccess(q, a, t, then)
      PROVE  TypeOK'
  <2>1. [stage |-> "logout", token |-> t, late |-> FALSE, since |-> now] \in RequestStates
    BY <1>0 DEF RequestStates
  <2>2. request' \in [Requests -> RequestStates]
    BY <1>0, <1>5, <2>1, RequestTypes DEF LogoutAccess
  <2>3. End(a) <= then + Life(a)
    <3>1. /\ End(a) <= tokens[a].expires /\ tokens[a].expires <= then + AccessLife
          /\ Life(a) = AccessLife
      BY <1>5 DEF Lifetimes, LogoutAccess, Life
    <3>2. End(a) \in Nat /\ tokens[a].expires \in Nat /\ then \in Nat
      BY <1>0, TokenTypes
    <3> QED BY <3>1, <3>2
  <2>4. /\ DOMAIN blacklist' \subseteq Ids'
        /\ \A u \in DOMAIN blacklist' : blacklist'[u] \in 1 .. now' + Life(u)'
    BY <1>5, <2>3, BlacklistTypes DEF LogoutAccess
  <2> QED BY <1>0, <1>5, <2>2, <2>4 DEF LogoutAccess, TypeOK, Ids
<1>6. ASSUME NEW q \in Requests, RefreshRead(q) PROVE TypeOK'
  <2>1. [request[q] EXCEPT !.stage = "minting", !.since = now] \in RequestStates
    BY <1>0 DEF RequestStates
  <2>2. request' \in [Requests -> RequestStates]
    BY <1>0, <1>6, <1>I, <2>1, RequestTypes DEF RefreshRead
  <2> QED BY <1>0, <1>6, <1>U, <2>2 DEF RefreshRead, TypeOK
<1>7. ASSUME NEW q \in Requests, RefreshEnd(q) PROVE TypeOK'
  <2>1. request' \in [Requests -> RequestStates]
    BY <1>0, <1>7, <1>I, RequestTypes DEF RefreshEnd
  <2>2. /\ Ids \subseteq Ids' /\ tokens' \in Seq(TokenRecords)
        /\ \A t \in Ids : tokens'[t] = tokens[t] /\ Life(t)' = Life(t)
    <3>1. CASE UNCHANGED tokens
      BY <1>0, <3>1 DEF Ids, Life
    <3>2. CASE tokens' = Append(tokens, Token("access", AccessLife, request[q].token,
                                              now - request[q].since))
      <4> DEFINE waited == now - request[q].since
                 new == <<Token("access", AccessLife, request[q].token, waited)>>
      <4>0. /\ request[q].token \in Nat /\ request[q].since \in 0..MaxTime
            /\ request[q].since <= now
        BY <1>0, <1>7 DEF RequestStates, RequestsSound, SoundRequest, RefreshEnd
      <4>1. waited \in Nat
        BY <1>0, <4>0
      <4>3. tokens' = tokens \o new
        BY <1>0, <3>2
      <4> HIDE DEF waited
      <4>2. new \in Seq(TokenRecords)
        <5>1. Token("access", AccessLife, request[q].token, waited) \in TokenRecords
          BY <1>0, <4>0, <4>1, AccessTokenType
        <5> QED BY <5>1
      <4> HIDE DEF new
      <4> QED BY <4>2, <4>3, MoreTokens
    <3> QED BY <1>7, <3>1, <3>2 DEF RefreshEnd
  <2>3. minted' \subseteq BOOLEAN
    BY <1>0, <1>7 DEF RefreshEnd, RequestStates
  <2> QED BY <1>0, <1>7, <2>1, <2>2, <2>3 DEF RefreshEnd, TypeOK
<1>8. ASSUME NEW q \in Requests, LogoutRefresh(q) PROVE TypeOK'
  <2>1. PICK then \in request[q].since .. now : Blacklist(request[q].token, then)
    BY <1>8 DEF LogoutRefresh
  <2>2. /\ request[q].token \in Ids /\ tokens[request[q].token].type = "refresh"
        /\ request[q].since <= now
        /\ End(request[q].token) <= request[q].since + RefreshLife
    BY <1>8 DEF LogoutRefresh, RequestsSound, SoundRequest
  <2>3. request[q].since \in Nat /\ then \in 0..now /\ request[q].since <= then
    BY <1>0, <2>1 DEF RequestStates
  <2>4. End(request[q].token) <= then + Life(request[q].token)
    <3>1. Life(request[q].token) = RefreshLife
      BY <2>2 DEF Life
    <3>2. End(request[q].token) \in Nat /\ then \in Nat
      BY <2>2, <2>3, TokenTypes
    <3> QED BY <2>2, <2>3, <3>1, <3>2, ConstantTypes
  <2>5. request' \in [Requests -> RequestStates]
    BY <1>8, <1>0, <1>I DEF LogoutRefresh, RequestStates
  <2>6. /\ DOMAIN blacklist' \subseteq Ids'
        /\ \A u \in DOMAIN blacklist' : blacklist'[u] \in 1 .. now' + Life(u)'
    BY <1>8, <2>1, <2>2, <2>3, <2>4, BlacklistTypes DEF LogoutRefresh
  <2> QED BY <1>0, <1>8, <2>5, <2>6 DEF LogoutRefresh, TypeOK, Ids
<1>9. ASSUME NEW q \in Requests, LogoutRevoke(q) PROVE TypeOK'
  <2>1. request[q].token \in Ids
    BY <1>9 DEF LogoutRevoke, RequestsSound, SoundRequest
  <2>2. request' \in [Requests -> RequestStates]
    BY <1>0, <1>9, <1>I, RequestTypes DEF LogoutRevoke
  <2>3. revokedAt' \in [revoked' -> 0..MaxTime]
    BY <1>0, <1>9 DEF LogoutRevoke
  <2> QED BY <1>0, <1>9, <1>U, <2>1, <2>2, <2>3 DEF LogoutRevoke, TypeOK
<1>10. ASSUME NEW q \in Requests, RequestRaises(q) PROVE TypeOK'
  <2>1. request' \in [Requests -> RequestStates]
    BY <1>0, <1>10, <1>I, RequestTypes DEF RequestRaises
  <2> QED BY <1>0, <1>10, <1>U, <2>1 DEF RequestRaises, TypeOK
<1>11. CASE Tick
  <2>1. Ids' = Ids /\ \A t \in Ids : Life(t)' = Life(t) /\ Life(t) \in Nat
    BY <1>11, TokenTypes DEF Tick, Ids, Life
  <2>2. now' \in 0..MaxTime
    BY <1>0, <1>11 DEF Tick
  <2>3. \A t \in DOMAIN blacklist' : blacklist'[t] \in 1 .. now' + Life(t)'
    BY <1>0, <1>11, <2>1 DEF Tick
  <2> QED BY <1>0, <1>11, <2>1, <2>2, <2>3 DEF Tick, TypeOK
<1>12. CASE LoseKeys
  BY <1>0, <1>12 DEF LoseKeys, TypeOK, Ids
<1> QED
  BY <1>1, <1>2, <1>3, <1>4, <1>5, <1>6, <1>7, <1>8, <1>9, <1>10, <1>11, <1>12 DEF Next

-----------------------------------------------------------------------------
(* The strengthening is kept.                                              *)

\* A token as it is issued: its exp claim ends within its lifetime from now; and if
\* the row of the refresh token it is issued under has been revoked in the
\* meantime, not later than a lifetime and the wait after that.
WellMade(k) ==
    /\ k.exp * TicksPerSecond <= k.expires
    /\ k.expires = now + (IF k.type = "access" THEN AccessLife ELSE RefreshLife)
    /\ k.type = "access" /\ k.session \in revoked =>
         k.exp * TicksPerSecond <= revokedAt[k.session] + AccessLife + k.waited

\* What any step does to the tokens: the old ones stay as they are, and a new one
\* is well made.
LEMMA TokensGrow ==
    ASSUME TypeOK, RequestsSound, [Next]_vars
    PROVE  /\ Ids \subseteq Ids'
           /\ \A t \in Ids : tokens'[t] = tokens[t] /\ End(t)' = End(t) /\ Life(t)' = Life(t)
           /\ \A t \in Ids' \ Ids : WellMade(tokens'[t]) /\ UNCHANGED <<now, revoked, revokedAt>>
<1> DEFINE Grown == /\ Ids \subseteq Ids'
                    /\ \A t \in Ids : tokens'[t] = tokens[t] /\ End(t)' = End(t) /\ Life(t)' = Life(t)
                    /\ \A t \in Ids' \ Ids : WellMade(tokens'[t])
<1>0. /\ now \in Nat /\ tokens \in Seq(TokenRecords) /\ revoked \subseteq Ids /\ Len(tokens) \in Nat
      /\ AccessLife \in Nat /\ RefreshLife \in Nat /\ TicksPerSecond \in Nat /\ 0 \in 0..MaxTime
  BY TokenTypes, ConstantTypes DEF TypeOK
<1>1. ASSUME UNCHANGED tokens PROVE Grown /\ Ids' = Ids
  BY <1>1 DEF Ids, End, Life
<1>2. ASSUME NEW new \in Seq(TokenRecords), tokens' = tokens \o new,
             \A i \in DOMAIN new : WellMade(new[i])
      PROVE  Grown
  BY <1>2, MoreTokens
<1>3. ASSUME Login PROVE Grown /\ UNCHANGED <<now, revoked, revokedAt>>
  <2> DEFINE r == Len(tokens) + 2
             A == Token("access", AccessLife, r, 0)
             R == Token("refresh", RefreshLife, r, 0)
             new == <<A, R>>
  <2>1. r \in Nat /\ r \notin revoked
    BY <1>0 DEF Ids
  <2>2. tokens' = tokens \o new /\ UNCHANGED <<now, revoked, revokedAt>>
    BY <1>3 DEF Login, history
  <2> HIDE DEF r
  <2>3. A \in TokenRecords /\ A.type = "access" /\ A.session = r
        /\ A.exp * TicksPerSecond <= A.expires /\ A.expires = now + AccessLife
    BY <1>0, <2>1, AccessTokenType
  <2>4. R \in TokenRecords /\ R.type = "refresh"
        /\ R.exp * TicksPerSecond <= R.expires /\ R.expires = now + RefreshLife
    BY <1>0, <2>1, RefreshTokenType
  <2> HIDE DEF A, R
  <2>5. WellMade(A) /\ WellMade(R)
    BY <2>1, <2>3, <2>4 DEF WellMade
  <2>6. new \in Seq(TokenRecords) /\ \A i \in DOMAIN new : WellMade(new[i])
    BY <2>3, <2>4, <2>5
  <2> HIDE DEF new
  <2> QED BY <1>2, <2>2, <2>6
<1>4. ASSUME NEW q \in Requests, RefreshEnd(q), ~ UNCHANGED tokens
      PROVE  Grown /\ UNCHANGED <<now, revoked, revokedAt>>
  <2> DEFINE r == request[q].token
             since == request[q].since
             waited == now - since
             A == Token("access", AccessLife, r, waited)
             new == <<A>>
  <2>1. /\ r \in Ids /\ since \in 0..MaxTime /\ since <= now
        /\ r \in revoked => since <= revokedAt[r]
    BY <1>4 DEF RefreshEnd, RequestsSound, SoundRequest, TypeOK, RequestStates
  <2>2. tokens' = tokens \o new /\ UNCHANGED <<now, revoked, revokedAt>>
    <3>1. tokens' = Append(tokens, A) /\ UNCHANGED <<now, revoked, revokedAt>>
      BY <1>4 DEF RefreshEnd
    <3> HIDE DEF A
    <3> QED BY <1>0, <3>1
  <2>3. waited \in Nat /\ r \in Nat
    <3>1. now \in 0..MaxTime /\ MaxTime \in Nat
      BY ConstantTypes DEF TypeOK
    <3> HIDE DEF since, r
    <3> QED BY <1>0, <2>1, <3>1 DEF Ids
  <2> HIDE DEF r, since, waited
  <2>4. A \in TokenRecords /\ A.type = "access" /\ A.session = r /\ A.waited = waited
        /\ A.exp * TicksPerSecond <= A.expires /\ A.expires = now + AccessLife
        /\ A.exp \in Nat
    <3>1. A \in TokenRecords /\ A.type = "access" /\ A.session = r /\ A.waited = waited
          /\ A.exp * TicksPerSecond <= A.expires /\ A.expires = now + AccessLife
      BY <1>0, <2>3, AccessTokenType
    <3> HIDE DEF A
    <3> QED BY <3>1 DEF TokenRecords
  <2> HIDE DEF A
  <2>5. A.exp * TicksPerSecond \in Nat
    BY <2>4, TicksMonotone
  <2>6. r \in revoked => revokedAt[r] \in Nat
    BY TokenTypes
  <2>7. WellMade(A)
    BY <1>0, <2>1, <2>4, <2>5, <2>6 DEF WellMade, waited
  <2>8. new \in Seq(TokenRecords) /\ \A i \in DOMAIN new : WellMade(new[i])
    BY <2>4, <2>7
  <2> HIDE DEF new
  <2> QED BY <1>2, <2>2, <2>8
<1>5. Grown /\ (Ids' # Ids => UNCHANGED <<now, revoked, revokedAt>>)
  <2> HIDE DEF Grown
  <2>1. CASE UNCHANGED tokens
    BY <1>1, <2>1
  <2>2. CASE ~ UNCHANGED tokens
    <3>1. CASE Login
      BY <1>3, <3>1
    <3>2. ASSUME NEW q \in Requests, RefreshEnd(q)
          PROVE  Grown /\ UNCHANGED <<now, revoked, revokedAt>>
      BY <1>4, <2>2, <3>2
    <3> QED
      BY <2>2, <3>1, <3>2
      DEF Next, RefreshBegin, LogoutAnonymous, LogoutAccess, RefreshRead, LogoutRefresh,
          LogoutRevoke, RequestRaises, Tick, LoseKeys, vars
  <2> QED BY <2>1, <2>2
<1> QED BY <1>5

\* A revoked row stays revoked, as of the same tick.
LEMMA RevokedForGood ==
    ASSUME TypeOK, [Next]_vars
    PROVE  /\ revoked \subseteq revoked'
           /\ \A t \in revoked : revokedAt'[t] = revokedAt[t]
           /\ \A t \in revoked' \ revoked : revokedAt'[t] = now /\ UNCHANGED <<now, tokens>>
           /\ now' \in {now, now + 1}
<1>1. ASSUME NEW q \in Requests, LogoutRevoke(q)
      PROVE  /\ revoked \subseteq revoked'
             /\ \A t \in revoked : revokedAt'[t] = revokedAt[t]
             /\ \A t \in revoked' \ revoked : revokedAt'[t] = now /\ UNCHANGED <<now, tokens>>
             /\ now' = now
  BY <1>1 DEF LogoutRevoke
<1> QED
  BY <1>1
  DEF Next, Login, RefreshBegin, RefreshRead, RefreshEnd, LogoutAnonymous, LogoutAccess,
      LogoutRefresh, RequestRaises, Tick, LoseKeys, vars, history

LEMMA LifetimesStep == TypeOK /\ RequestsSound /\ Lifetimes /\ [Next]_vars => Lifetimes'
<1> SUFFICES ASSUME TypeOK, RequestsSound, Lifetimes, [Next]_vars, NEW t \in Ids'
             PROVE  End(t)' <= tokens'[t].expires /\ tokens'[t].expires <= now' + Life(t)'
  BY DEF Lifetimes
<1>1. CASE t \in Ids
  <2>1. /\ tokens'[t] = tokens[t] /\ End(t)' = End(t) /\ Life(t)' = Life(t)
        /\ End(t) <= tokens[t].expires /\ tokens[t].expires <= now + Life(t)
    BY <1>1, TokensGrow DEF Lifetimes
  <2>2. now \in Nat /\ now' \in {now, now + 1} /\ tokens[t].expires \in Nat /\ Life(t) \in Nat
    BY <1>1, TokenTypes, RevokedForGood
  <2> QED BY <2>1, <2>2
<1>2. CASE t \notin Ids
  <2>1. WellMade(tokens'[t]) /\ now' = now
    BY <1>2, TokensGrow
  <2>2. now \in Nat /\ AccessLife \in Nat /\ RefreshLife \in Nat
    BY TokenTypes, TokenAssumption
  <2> QED BY <2>1, <2>2 DEF WellMade, End, Life
<1> QED BY <1>1, <1>2

LEMMA RequestsSoundStep ==
    TypeOK /\ RequestsSound /\ Lifetimes /\ [Next]_vars => RequestsSound'
<1> SUFFICES ASSUME TypeOK, RequestsSound, Lifetimes, [Next]_vars, NEW q \in Requests
             PROVE  SoundRequest(request[q])'
  BY DEF RequestsSound
<1>1. /\ Ids \subseteq Ids' /\ revoked \subseteq revoked'
      /\ \A t \in Ids : tokens'[t] = tokens[t] /\ End(t)' = End(t)
      /\ \A t \in revoked : revokedAt'[t] = revokedAt[t]
      /\ \A t \in revoked' \ revoked : revokedAt'[t] = now
      /\ now \in Nat /\ now' \in Nat /\ now <= now'
  BY TokensGrow, RevokedForGood, TokenTypes
<1>2. request \in [Requests -> RequestStates] /\ request[q] \in RequestStates
  BY DEF TypeOK
<1>3. request[q].since \in Nat
  BY <1>2 DEF RequestStates
<1>4. SoundRequest(request[q])
  BY DEF RequestsSound
<1>5. ASSUME request'[q] = request[q] PROVE SoundRequest(request[q])'
  BY <1>1, <1>3, <1>4, <1>5 DEF SoundRequest
<1>6. ASSUME request'[q].stage = "idle" PROVE SoundRequest(request[q])'
  BY <1>6 DEF SoundRequest
<1>7. ASSUME NEW t \in Ids, RefreshBegin(q, t) PROVE SoundRequest(request[q])'
  <2> DEFINE late == t \in revoked
  <2>1. request'[q] = [stage |-> "refresh", token |-> t, late |-> late, since |-> 0]
    BY <1>2, <1>7 DEF RefreshBegin
  <2>2. tokens[t].type = "refresh" /\ (late => t \in revoked')
    BY <1>1, <1>7 DEF RefreshBegin
  <2> HIDE DEF late
  <2>3. /\ request'[q].stage = "refresh" /\ request'[q].token = t
        /\ request'[q].late = late /\ request'[q].since = 0
    BY <2>1
  <2> QED BY <1>1, <2>2, <2>3 DEF SoundRequest
<1>8. ASSUME NEW t \in Ids, tokens[t].type = "refresh", UNCHANGED now,
             request'[q] = [stage |-> "logout", token |-> t, late |-> FALSE, since |-> now]
      PROVE  SoundRequest(request[q])'
  <2>1. End(t) <= tokens[t].expires /\ tokens[t].expires <= now + RefreshLife
    BY <1>8 DEF Lifetimes, Life
  <2>2. End(t) \in Nat /\ tokens[t].expires \in Nat /\ RefreshLife \in Nat
    BY TokenTypes, ConstantTypes
  <2> QED BY <1>1, <1>8, <2>1, <2>2 DEF SoundRequest
<1>9. ASSUME NEW t \in Ids, LogoutAnonymous(q, t) PROVE SoundRequest(request[q])'
  BY <1>2, <1>8, <1>9 DEF LogoutAnonymous
<1>10. ASSUME NEW a \in Ids, NEW t \in Ids, NEW then \in 0..now, LogoutAccess(q, a, t, then)
       PROVE  SoundRequest(request[q])'
  BY <1>2, <1>5, <1>8, <1>10 DEF LogoutAccess
<1>11. ASSUME RefreshRead(q) PROVE SoundRequest(request[q])'
  <2> DEFINE t == request[q].token
  <2>1. CASE RowRevoked(t)
    BY <1>2, <1>6, <1>11, <2>1 DEF RefreshRead, Idle
  <2>2. CASE ~RowRevoked(t)
    <3>1. request'[q] = [request[q] EXCEPT !.stage = "minting", !.since = now]
      BY <1>2, <1>11, <2>2 DEF RefreshRead
    <3>2. /\ request'[q].stage = "minting" /\ request'[q].token = t
          /\ request'[q].late = request[q].late /\ request'[q].since = now
      BY <1>2, <3>1 DEF RequestStates
    <3>3. /\ request[q].stage = "refresh" /\ t \notin revoked
          /\ UNCHANGED <<now, tokens, revoked, revokedAt>>
      BY <1>11, <2>2 DEF RefreshRead, RowRevoked, history
    <3> QED BY <1>1, <1>4, <3>2, <3>3 DEF SoundRequest
  <2> QED BY <2>1, <2>2
<1>12. ASSUME LogoutRefresh(q) PROVE SoundRequest(request[q])'
  <2>1. request'[q].token = request[q].token /\ request'[q].stage = "revoke"
        /\ request[q].stage # "idle" /\ request'[q].since = 0
    BY <1>2, <1>12 DEF LogoutRefresh, RequestStates
  <2> QED BY <1>1, <1>4, <2>1 DEF SoundRequest
<1>13. ASSUME RefreshEnd(q) \/ LogoutRevoke(q) \/ RequestRaises(q)
       PROVE  SoundRequest(request[q])'
  BY <1>2, <1>6, <1>13 DEF RefreshEnd, LogoutRevoke, RequestRaises, Idle
<1>14. ASSUME NEW p \in Requests \ {q}, NEW a \in Ids, NEW t \in Ids, NEW then \in 0..now,
              RefreshBegin(p, t) \/ LogoutAnonymous(p, t) \/ LogoutAccess(p, a, t, then)
       PROVE  request'[q] = request[q]
  BY <1>2, <1>14 DEF RefreshBegin, LogoutAnonymous, LogoutAccess
<1>15. ASSUME NEW p \in Requests \ {q},
              \/ RefreshRead(p) \/ RefreshEnd(p) \/ LogoutRefresh(p) \/ LogoutRevoke(p)
              \/ RequestRaises(p)
       PROVE  request'[q] = request[q]
  BY <1>2, <1>15 DEF RefreshRead, RefreshEnd, LogoutRefresh, LogoutRevoke, RequestRaises
<1>16. CASE Login \/ Tick \/ LoseKeys \/ UNCHANGED vars
  BY <1>5, <1>16 DEF Login, Tick, LoseKeys, vars
<1> QED
  <2>1. ASSUME NEW p \in Requests, NEW t \in Ids, RefreshBegin(p, t) \/ LogoutAnonymous(p, t)
        PROVE  SoundRequest(request[q])'
    <3>1. 0 \in 0..now
      BY <1>1
    <3> QED BY <1>5, <1>7, <1>9, <1>14, <2>1, <3>1
  <2>2. ASSUME NEW p \in Requests, NEW a \in Ids, NEW t \in Ids, NEW then \in 0..now,
               LogoutAccess(p, a, t, then)
        PROVE  SoundRequest(request[q])'
    BY <1>5, <1>10, <1>14, <2>2
  <2>3. ASSUME NEW p \in Requests,
               \/ RefreshRead(p) \/ RefreshEnd(p) \/ LogoutRefresh(p) \/ LogoutRevoke(p)
               \/ RequestRaises(p)
        PROVE  SoundRequest(request[q])'
    BY <1>5, <1>11, <1>12, <1>13, <1>15, <2>3
  <2> QED BY <1>16, <2>1, <2>2, <2>3 DEF Next

\* A refresh mints on a row that was not revoked when it was read; had it been when
\* the refresh began, it would have been then.
LEMMA NoMintStep == RequestsSound /\ NoMintAfterLogout /\ [Next]_vars => NoMintAfterLogout'
<1> SUFFICES ASSUME RequestsSound, NoMintAfterLogout, [Next]_vars PROVE NoMintAfterLogout'
  OBVIOUS
<1>1. ASSUME NEW q \in Requests, RefreshEnd(q), minted' # minted
      PROVE  minted' = minted \cup {request[q].late} /\ request[q].late # TRUE
  <2>1. ~ request[q].late
    BY <1>1 DEF RequestsSound, SoundRequest, RefreshEnd
  <2> QED BY <1>1, <2>1 DEF RefreshEnd
<1>2. CASE UNCHANGED minted
  BY <1>2 DEF NoMintAfterLogout
<1> QED
  BY <1>1, <1>2
  DEF NoMintAfterLogout, Next, Login, RefreshBegin, RefreshRead, LogoutAnonymous, LogoutAccess,
      LogoutRefresh, LogoutRevoke, RequestRaises, Tick, LoseKeys, vars, history

LEMMA HeldBackStep == TypeOK /\ RequestsSound /\ Lifetimes /\ HeldBack /\ [Next]_vars => HeldBack'
<1> DEFINE Held(a) == \/ a \in DOMAIN blacklist /\ End(a) < blacklist[a] + TicksPerSecond
                      \/ End(a) < now + TicksPerSecond
<1> SUFFICES ASSUME TypeOK, RequestsSound, Lifetimes, HeldBack, [Next]_vars, losses' = 0,
                    NEW a \in loggedOut'
             PROVE  Held(a)'
  BY DEF HeldBack
<1>0. /\ now \in Nat /\ losses \in Nat
      /\ \A t \in Ids : End(t) \in Nat /\ Life(t) \in Nat /\ tokens[t].expires \in Nat
      /\ loggedOut \subseteq Ids
      /\ TicksPerSecond \in Nat
  BY TokenTypes, ConstantTypes
<1>1. \A t \in Ids : End(t)' = End(t)
  BY TokensGrow
<1>2. losses = 0 /\ ~LoseKeys
  <2>1. ~LoseKeys
    BY <1>0 DEF LoseKeys
  <2> QED
    BY <2>1
    DEF Next, Login, RefreshBegin, RefreshRead, RefreshEnd, LogoutAnonymous, LogoutAccess,
        LogoutRefresh, LogoutRevoke, RequestRaises, Tick, vars
<1>3. \A b \in loggedOut : Held(b)
  BY <1>2 DEF HeldBack
<1>4. CASE UNCHANGED <<blacklist, loggedOut>>
  <2>1. now' \in {now, now + 1} /\ a \in Ids
    BY <1>0, <1>4, RevokedForGood
  <2> QED BY <1>0, <1>1, <1>3, <1>4, <2>1
<1>5. ASSUME NEW t \in Ids, NEW then \in 0..now, End(t) <= then + Life(t), Blacklist(t, then),
             UNCHANGED now, a \in loggedOut \cup {t}
      PROVE  Held(a)'
  <2>1. /\ \A u \in DOMAIN blacklist \ {t} : u \in DOMAIN blacklist' /\ blacklist'[u] = blacklist[u]
        /\ \/ t \in DOMAIN blacklist' /\ End(t) < blacklist'[t] + TicksPerSecond
           \/ End(t) < now + TicksPerSecond
    BY <1>5, BlacklistEffect
  <2>2. CASE a = t
    BY <1>1, <1>5, <2>1, <2>2
  <2>3. CASE a # t
    BY <1>0, <1>1, <1>3, <1>5, <2>1, <2>3
  <2> QED BY <2>2, <2>3
<1>6. ASSUME NEW q \in Requests, NEW b \in Ids, NEW t \in Ids, NEW then \in 0..now,
             LogoutAccess(q, b, t, then)
      PROVE  Held(a)'
  <2>1. a \in loggedOut \cup {b} /\ UNCHANGED now
    BY <1>6 DEF LogoutAccess
  <2>2. CASE Second(then) <= tokens[b].exp
    <3>1. /\ End(b) <= tokens[b].expires /\ tokens[b].expires <= then + AccessLife
          /\ Life(b) = AccessLife
      BY <1>6 DEF Lifetimes, LogoutAccess, Life
    <3>2. End(b) <= then + Life(b)
      BY <1>0, <3>1
    <3> QED BY <1>5, <1>6, <2>1, <2>2, <3>2 DEF LogoutAccess
  <2>3. CASE ~(Second(then) <= tokens[b].exp)
    <3>1. UNCHANGED blacklist
      BY <1>6, <2>3 DEF LogoutAccess
    <3>2. tokens[b].exp \in Nat /\ then \in Nat /\ then <= now /\ Second(then) \in Nat
      <4>1. tokens[b].exp \in Nat /\ then \in Nat /\ then <= now
        BY <1>0, TokenTypes
      <4> QED BY <4>1, SecondBounds
    <3>3. End(b) <= Second(then) * TicksPerSecond
      BY <2>3, <3>2, TicksMonotone DEF End
    <3>4. Second(then) * TicksPerSecond <= then /\ Second(then) * TicksPerSecond \in Nat
      BY <3>2, SecondBounds, TicksMonotone
    <3>5. End(b) < now + TicksPerSecond
      BY <1>0, <3>2, <3>3, <3>4, TokenAssumption
    <3> QED BY <1>0, <1>1, <1>3, <2>1, <3>1, <3>5
  <2> QED BY <2>2, <2>3
<1>7. ASSUME NEW q \in Requests, LogoutRefresh(q) PROVE Held(a)'
  <2> DEFINE t == request[q].token
  <2>1. PICK then \in request[q].since .. now : Blacklist(t, then)
    BY <1>7 DEF LogoutRefresh
  <2>2. t \in Ids /\ End(t) <= request[q].since + RefreshLife /\ Life(t) = RefreshLife
    BY <1>7 DEF LogoutRefresh, RequestsSound, SoundRequest, Life
  <2>3. request[q].since \in Nat
    BY DEF TypeOK, RequestStates
  <2>4. then \in 0..now /\ End(t) <= then + Life(t)
    BY <1>0, <2>1, <2>2, <2>3
  <2> QED BY <1>5, <1>7, <2>1, <2>2, <2>4 DEF LogoutRefresh, history
<1> HIDE DEF Held
<1> QED
  BY <1>2, <1>4, <1>6, <1>7
  DEF Next, Login, RefreshBegin, RefreshRead, RefreshEnd, LogoutAnonymous, LogoutRevoke,
      RequestRaises, Tick, vars, history

LEMMA AccessBoundedStep ==
    TypeOK /\ RequestsSound /\ Lifetimes /\ AccessBounded /\ [Next]_vars => AccessBounded'
<1> SUFFICES ASSUME TypeOK, RequestsSound, Lifetimes, AccessBounded, [Next]_vars,
                    NEW a \in Ids', tokens'[a].type = "access", tokens'[a].session \in revoked'
             PROVE  End(a)' <= revokedAt'[tokens'[a].session] + AccessLife + tokens'[a].waited
  BY DEF AccessBounded
<1>1. CASE a \in Ids
  <2>1. tokens'[a] = tokens[a] /\ End(a)' = End(a)
    BY <1>1, TokensGrow
  <2>2. CASE tokens[a].session \in revoked
    BY <1>1, <2>1, <2>2, RevokedForGood DEF AccessBounded
  <2>3. CASE tokens[a].session \notin revoked
    <3>1. revokedAt'[tokens[a].session] = now
      BY <2>1, <2>3, RevokedForGood
    <3>2. End(a) <= tokens[a].expires /\ tokens[a].expires <= now + AccessLife
      BY <1>1, <2>1 DEF Lifetimes, Life
    <3>3. /\ End(a) \in Nat /\ tokens[a].expires \in Nat /\ tokens[a].waited \in Nat
          /\ now \in Nat /\ AccessLife \in Nat
      BY <1>1, TokenTypes, ConstantTypes
    <3> QED BY <2>1, <3>1, <3>2, <3>3
  <2> QED BY <2>2, <2>3
<1>2. CASE a \notin Ids
  BY <1>2, TokensGrow DEF WellMade, End
<1> QED BY <1>1, <1>2

-----------------------------------------------------------------------------
(* The theorems.                                                           *)

\* The strengthening holds in every reachable state.
LEMMA SessionInvariant == Spec => [](TypeOK /\ SessionInv)
<1>1. Init => TypeOK
  BY ConstantTypes, TokenAssumption DEF Init, TypeOK, RequestStates, Ids, Idle
<1>2. Init => SessionInv
  BY DEF Init, SessionInv, RequestsSound, SoundRequest, Lifetimes, HeldBack, AccessBounded,
         NoMintAfterLogout, Ids, Idle
<1>3. TypeOK /\ SessionInv /\ [Next]_vars => (TypeOK /\ SessionInv)'
  BY TypeStep, RequestsSoundStep, LifetimesStep, HeldBackStep, AccessBoundedStep, NoMintStep
  DEF SessionInv
<1> QED BY <1>1, <1>2, <1>3, PTL DEF Spec

\* The tokens, the blacklist and the requests are always well-formed; no blacklist
\* entry lasts longer than the life of a token issued now (SETEX in blacklist.py:22-24).
THEOREM TokenTypeCorrect == Spec => []TypeOK
BY SessionInvariant, PTL

\* A refresh that began after the logout had committed never mints
\* (auth.py:86-92), whatever Redis has lost.
THEOREM RevocationIsFinal == Spec => []NoMintAfterLogout
<1>1. SessionInv => NoMintAfterLogout
  BY DEF SessionInv
<1> QED BY <1>1, SessionInvariant, PTL

\* While Redis keeps its keys, a logged-out access token is accepted in its last two
\* seconds at most: the whole seconds of the TTL (blacklist.py:22-24) lose less than
\* one, and the codec accepts the token for one more than its exp claim says.
THEOREM LogoutIsHeld == Spec => []LogoutHolds
<1>1. ASSUME TypeOK, SessionInv PROVE LogoutHolds
  <2>1. SUFFICES ASSUME NEW a \in loggedOut, losses = 0, AcceptsAccess(a)
                 PROVE  (tokens[a].exp + 1) * TicksPerSecond < now + 2 * TicksPerSecond
    BY DEF LogoutHolds
  <2>2. /\ now \in Nat /\ a \in Ids /\ End(a) \in Nat /\ tokens[a].exp \in Nat
        /\ TicksPerSecond \in Nat
    BY <1>1, <2>1, TokenTypes, ConstantTypes
  <2>3. ~(a \in DOMAIN blacklist /\ now < blacklist[a])
    BY <2>1 DEF AcceptsAccess, IsBlacklisted
  <2>4. End(a) < now + TicksPerSecond
    <3>1. a \in DOMAIN blacklist => blacklist[a] \in Nat
      BY <1>1, TokenTypes
    <3>2. \/ a \in DOMAIN blacklist /\ End(a) < blacklist[a] + TicksPerSecond
          \/ End(a) < now + TicksPerSecond
      BY <1>1, <2>1 DEF SessionInv, HeldBack
    <3> QED BY <2>2, <2>3, <3>1, <3>2
  <2>5. (tokens[a].exp + 1) * TicksPerSecond = End(a) + TicksPerSecond
    BY <2>2 DEF End
  <2> QED BY <2>2, <2>4, <2>5
<1> QED BY <1>1, SessionInvariant, PTL

\* One access lifetime and a second after the row was revoked (auth.py:121), no access
\* token of the session is accepted, but for what the refresh that minted it had to
\* wait for the answer about its row (auth.py:86-91).
THEOREM SessionsEnd == Spec => []SessionEnds
<1>1. ASSUME TypeOK, SessionInv PROVE SessionEnds
  <2>1. SUFFICES ASSUME NEW a \in Ids, AcceptsAccess(a), tokens[a].session \in revoked
                 PROVE  now < revokedAt[tokens[a].session] + AccessLife + tokens[a].waited
                                + TicksPerSecond
    BY DEF SessionEnds
  <2>2. /\ now \in Nat /\ tokens[a].exp \in Nat /\ tokens[a].waited \in Nat /\ End(a) \in Nat
        /\ revokedAt[tokens[a].session] \in Nat
        /\ TicksPerSecond \in Nat /\ AccessLife \in Nat
    BY <1>1, <2>1, TokenTypes, ConstantTypes
  <2>3. End(a) <= revokedAt[tokens[a].session] + AccessLife + tokens[a].waited
    BY <1>1, <2>1 DEF SessionInv, AccessBounded, AcceptsAccess
  <2>4. /\ Second(now) \in Nat /\ Second(now) <= tokens[a].exp
        /\ now < Second(now) * TicksPerSecond + TicksPerSecond
    BY <2>1, <2>2, SecondBounds DEF AcceptsAccess, Decodes
  <2>5. Second(now) * TicksPerSecond \in Nat /\ Second(now) * TicksPerSecond <= End(a)
    BY <2>2, <2>4, TicksMonotone DEF End
  <2> QED BY <2>2, <2>3, <2>4, <2>5
<1> QED BY <1>1, SessionInvariant, PTL
=============================================================================
