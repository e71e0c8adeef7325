-------------------------- MODULE ConnectionProofs --------------------------
(***************************************************************************)
(* The connection to an organisation and the setup that leads to it.       *)
(*                                                                         *)
(* The connection: the refresh promise is a mutex, sessions keep their own *)
(* cookies and a logout always clears, for any browsers, requests and      *)
(* logins.                                                                 *)
(*                                                                         *)
(* The setup: for any organisations and roles, and whatever order answers, *)
(* reloads and sign-ins come in, it is gone through in its order, and a    *)
(* server that works for one organisation has its mapping or none.         *)
(***************************************************************************)
EXTENDS TokenManager, AppSetup, TLAPS

-------------------------------------------------------------------------------
(* The connection. *)

\* A free slot names some browser.
LEMMA IdleBrowser == Idle \in Browsers
  BY TokenAssumption DEF TokenAssumption, Idle

\* The initial states satisfy the invariant.
LEMMA InitInv == Init => IInv
<1> SUFFICES ASSUME Init PROVE IInv
  OBVIOUS
<1>1. TypeOK
  BY TokenAssumption, IdleBrowser DEF TokenAssumption, Init, TypeOK, Kinds, Cookies, Places, SetCookies, Keep
<1>2. OneRefresh /\ PathInv /\ ValidTokenIsUsed /\ LogoutClears /\ FreeInv
  BY TokenAssumption DEF Init, OneRefresh, PathInv, FreeInv, ValidTokenIsUsed, LogoutClears, NoToken
<1>3. OwnCookie /\ OwnInv
  BY DEF Init, OwnCookie, OwnInv, Owned, IsConnection, Keep
<1> QED BY <1>1, <1>2, <1>3 DEF IInv

-------------------------------------------------------------------------------
(* Facts about cookies. *)

\* A response carries a cookie even when it sets none.
LEMMA ResponseCookie ==
  ASSUME NEW x \in SetCookies
  PROVE  x.to \in Cookies
<1>1. NoCookie \in Cookies
  BY DEF Cookies
<1>2. CASE x \in [set : {TRUE}, to : Cookies]
  BY <1>2
<1>3. CASE x = [set |-> FALSE, to |-> NoCookie]
  BY <1>1, <1>3
<1> QED BY <1>2, <1>3 DEF SetCookies

\* What a handler reads as its cookie is a cookie of its browser.
LEMMA StoredOwned ==
  ASSUME IInv, NEW r \in Requests
  PROVE  Stored(r) \in Cookies /\ Owned(Stored(r), browser[r])
<1>1. /\ response[r].to \in Cookies /\ carried[r] \in Cookies
      /\ Owned(carried[r], browser[r]) /\ Owned(response[r].to, browser[r])
  BY ResponseCookie DEF IInv, TypeOK, OwnInv
<1> QED BY <1>1 DEF Stored

\* A refreshed connection is still one, of the same owner and login.
LEMMA FreshConnection ==
  ASSUME NEW k \in Cookies, IsConnection(k)
  PROVE  /\ [k EXCEPT !.expired = FALSE] \in Cookies
         /\ [k EXCEPT !.expired = FALSE].owner = k.owner
         /\ [k EXCEPT !.expired = FALSE].login = k.login
  BY DEF Cookies, IsConnection, Connections

\* A new login takes nothing away.
LEMMA LoginGrows ==
  ASSUME NEW k \in Cookies, IsConnection(k), NEW m \in Nat, NEW n \in Nat,
         k.login <= m, m <= n
  PROVE  k.login <= n
<1>1. k.login \in Nat
  BY TokenAssumption DEF IsConnection, Cookies, Connections
<1> QED BY <1>1

-------------------------------------------------------------------------------
(* The browser's steps. *)

LEMMA SendInv ==
  ASSUME IInv, NEW r \in Requests, NEW b \in Browsers, NEW k \in Kinds, Send(r, b, k)
  PROVE  IInv'
<1> USE TokenAssumption
<1>1. TypeOK'
  <2>1. logins' \in [Browsers -> 0 .. MaxLogins]
    BY DEF Send, IInv, TypeOK
  <2>2. pc' \in [Requests -> Places]
    BY DEF Send, Goto, IInv, TypeOK, Places
  <2> QED BY <2>1, <2>2 DEF Send, IInv, TypeOK
<1>2. OneRefresh'
  BY DEF Send, Goto, IInv, TypeOK, OneRefresh
<1>3. \A c \in Browsers : logins[c] <= logins'[c]
  BY DEF Send, IInv, TypeOK
<1>4. OwnCookie'
  BY <1>3 DEF Send, IInv, TypeOK, OwnCookie, IsConnection, Cookies, Connections
<1>5. OwnInv'
  <2> SUFFICES ASSUME NEW q \in Requests
               PROVE  (Owned(carried[q], browser[q]) /\ Owned(response[q].to, browser[q]))'
    BY DEF OwnInv
  <2>1. browser[q] \in Browsers /\ browser'[q] \in Browsers
    BY DEF Send, IInv, TypeOK
  <2>2. carried[q] \in Cookies /\ response[q].to \in Cookies
    BY ResponseCookie DEF IInv, TypeOK
  <2>3. CASE q = r
    <3>1. carried'[q] = cookie[b] /\ browser'[q] = b
      BY <2>3 DEF Send, IInv, TypeOK
    <3>2. response'[q] = Keep
      BY <2>3 DEF Send, IInv, TypeOK, FreeInv
    <3>3. Owned(cookie[b], b)'
      BY <1>4, <3>1 DEF Owned, OwnCookie, Send
    <3> QED BY <3>1, <3>2, <3>3 DEF Owned, IsConnection, Keep, Send
  <2>4. CASE q # r
    <3>1. /\ carried'[q] = carried[q] /\ response'[q] = response[q]
          /\ browser'[q] = browser[q]
      BY <2>4 DEF Send, IInv, TypeOK
    <3>2. Owned(carried[q], browser[q]) /\ Owned(response[q].to, browser[q])
      BY DEF IInv, OwnInv
    <3>3. logins[browser[q]] \in Nat /\ logins'[browser[q]] \in Nat
      BY <1>1, <2>1 DEF IInv, TypeOK
    <3>4. IsConnection(carried[q]) => carried[q].login <= logins'[browser[q]]
      BY <1>3, <2>1, <2>2, <3>2, <3>3, LoginGrows DEF Owned
    <3>5. IsConnection(response[q].to) => response[q].to.login <= logins'[browser[q]]
      BY <1>3, <2>1, <2>2, <3>2, <3>3, LoginGrows DEF Owned
    <3> QED BY <3>1, <3>2, <3>4, <3>5 DEF Owned, IsConnection
  <2> QED BY <2>3, <2>4
<1>6. PathInv'
  <2> SUFFICES ASSUME NEW q \in Requests PROVE
        /\ (pass[q] = 2 => kind[q] = "api")'
        /\ (pc[q] = "using" => kind[q] = "api")'
        /\ (pc[q] \in {"revoking", "clearing"} => kind[q] = "disconnect")'
        /\ (pc[q] = "exchanging" => kind[q] = "login" /\ logins[browser[q]] # 0)'
        /\ (pc[q] \in {"check", "refreshing", "joined"} /\ pass[q] = 1 => response[q] = Keep)'
        /\ (pc[q] \in {"refreshing", "joined"} => IsConnection(Stored(q)) /\ Stored(q).expired)'
    BY DEF PathInv
  <2>1. CASE q = r
    <3>1. pass'[r] = 1 /\ response'[r] = Keep /\ kind'[r] = k /\ browser'[r] = b
      BY DEF Send, IInv, TypeOK, FreeInv
    <3>2. CASE k = "login"
      <4>1. pc'[r] = "exchanging" /\ logins'[b] = logins[b] + 1 /\ logins[b] \in Nat
        BY <3>2 DEF Send, Goto, IInv, TypeOK
      <4> QED BY <2>1, <3>1, <3>2, <4>1
    <3>3. CASE k # "login"
      <4>1. pc'[r] = "check"
        BY <3>3 DEF Send, Goto, IInv, TypeOK
      <4> QED BY <2>1, <3>1, <4>1
    <3> QED BY <3>2, <3>3
  <2>2. CASE q # r
    <3>1. /\ pass'[q] = pass[q] /\ kind'[q] = kind[q] /\ pc'[q] = pc[q]
          /\ response'[q] = response[q] /\ carried'[q] = carried[q]
          /\ browser'[q] = browser[q] /\ browser[q] \in Browsers
      BY <2>2 DEF Send, Goto, IInv, TypeOK
    <3>2. logins[browser[q]] # 0 => logins'[browser[q]] # 0
      <4>1. logins[browser[q]] \in Nat /\ logins'[browser[q]] \in Nat
        BY <1>1, <3>1 DEF IInv, TypeOK
      <4> QED BY <1>3, <3>1, <4>1
    <3> QED BY <3>1, <3>2 DEF IInv, PathInv, Stored
  <2> QED BY <2>1, <2>2
<1>7. ValidTokenIsUsed' /\ LogoutClears' /\ FreeInv'
  BY DEF Send, Goto, IInv, TypeOK, ValidTokenIsUsed, LogoutClears, FreeInv, NoToken
<1> QED BY <1>1, <1>2, <1>4, <1>5, <1>6, <1>7 DEF IInv

LEMMA ArriveInv ==
  ASSUME IInv, NEW r \in Requests, Arrive(r) \/ LoseResponse(r)
  PROVE  IInv'
<1> USE TokenAssumption DEF Release, Goto
<1>1. /\ pc[r] = "respond"
      /\ UNCHANGED <<logins, flight>>
  BY DEF Arrive, LoseResponse
<1>2. cookie' \in [Browsers -> Cookies] /\ OwnCookie'
  <2>1. CASE Arrive(r)
    <3>1. browser[r] \in Browsers /\ response[r].to \in Cookies
      BY ResponseCookie DEF IInv, TypeOK
    <3>2. Owned(response[r].to, browser[r])
      BY DEF IInv, OwnInv
    <3>3. cookie' = [cookie EXCEPT ![browser[r]] =
                       IF response[r].set THEN response[r].to ELSE @]
      BY <2>1 DEF Arrive
    <3> QED BY <1>1, <3>1, <3>2, <3>3 DEF IInv, TypeOK, OwnCookie, Owned, IsConnection
  <2>2. CASE LoseResponse(r)
    BY <1>1, <2>2 DEF LoseResponse, IInv, TypeOK, OwnCookie, IsConnection
  <2> QED BY <2>1, <2>2
<1>3. /\ kind' = [kind EXCEPT ![r] = "api"]
      /\ browser' = [browser EXCEPT ![r] = Idle]
      /\ carried' = [carried EXCEPT ![r] = NoCookie]
      /\ pc' = [pc EXCEPT ![r] = "free"]
      /\ pass' = [pass EXCEPT ![r] = 1]
      /\ response' = [response EXCEPT ![r] = Keep]
      /\ token' = [token EXCEPT ![r] = NoToken]
  BY DEF Arrive, LoseResponse
<1>4. TypeOK'
  <2>1. "api" \in Kinds /\ NoCookie \in Cookies /\ Keep \in SetCookies /\ "free" \in Places
    BY DEF Kinds, Cookies, SetCookies, Keep, Places
  <2>2. TypeOK
    BY DEF IInv
  <2>3. /\ kind' \in [Requests -> Kinds] /\ pc' \in [Requests -> Places]
        /\ browser' \in [Requests -> Browsers]
        /\ pass' \in [Requests -> 1 .. 2]
    BY <1>3, <2>1, <2>2, IdleBrowser DEF TypeOK
  <2>4. /\ carried' \in [Requests -> Cookies] /\ response' \in [Requests -> SetCookies]
        /\ token' \in [Requests -> {NoToken, EnvToken} \union [from : {"oauth"}, owner : Browsers]]
    BY <1>3, <2>1, <2>2 DEF TypeOK
  <2> QED BY <1>1, <1>2, <2>2, <2>3, <2>4 DEF TypeOK
<1>5. OneRefresh' /\ FreeInv' /\ ValidTokenIsUsed' /\ LogoutClears'
  BY <1>1, <1>3
     DEF IInv, TypeOK, OneRefresh, FreeInv, ValidTokenIsUsed, LogoutClears, NoToken
<1>6. OwnInv'
  BY <1>1, <1>3 DEF IInv, TypeOK, OwnInv, Owned, IsConnection, Keep
<1>7. PathInv'
  BY <1>1, <1>3 DEF IInv, TypeOK, PathInv, Stored
<1> QED BY <1>2, <1>4, <1>5, <1>6, <1>7 DEF IInv

\* A cookie that expires, or cannot be read any more, in the browser.
LEMMA CookieInv ==
  ASSUME IInv, NEW b \in Browsers, Expire(b) \/ CorruptCookie(b)
  PROVE  IInv'
<1>1. UNCHANGED <<logins, request, pc, pass, response, token, flight>>
  BY DEF Expire, CorruptCookie
<1>2. /\ cookie[b] \in Cookies /\ IsConnection(cookie[b])
      /\ cookie[b].owner = b /\ cookie[b].login <= logins[b]
  BY DEF Expire, CorruptCookie, IInv, TypeOK, OwnCookie
<1>3. PICK k \in Cookies : /\ cookie' = [cookie EXCEPT ![b] = k]
                           /\ IsConnection(k) => k.owner = b /\ k.login <= logins[b]
  <2>1. CASE Expire(b)
    <3>1. /\ [cookie[b] EXCEPT !.expired = TRUE] \in Cookies
          /\ [cookie[b] EXCEPT !.expired = TRUE].owner = cookie[b].owner
          /\ [cookie[b] EXCEPT !.expired = TRUE].login = cookie[b].login
      BY <1>2 DEF Cookies, IsConnection, Connections
    <3>2. cookie' = [cookie EXCEPT ![b] = [cookie[b] EXCEPT !.expired = TRUE]]
      BY <2>1 DEF Expire
    <3> QED BY <1>2, <3>1, <3>2
  <2>2. CASE CorruptCookie(b)
    BY <2>2 DEF CorruptCookie, Cookies, IsConnection
  <2> QED BY <2>1, <2>2
<1>4. TypeOK' /\ OwnCookie'
  BY <1>1, <1>3 DEF IInv, TypeOK, OwnCookie, IsConnection, request
<1>5. OneRefresh' /\ FreeInv' /\ ValidTokenIsUsed' /\ LogoutClears'
  BY <1>1 DEF IInv, OneRefresh, FreeInv, ValidTokenIsUsed, LogoutClears, request
<1>6. OwnInv' /\ PathInv'
  BY <1>1 DEF IInv, OwnInv, Owned, PathInv, Stored, request
<1> QED BY <1>4, <1>5, <1>6 DEF IInv

-------------------------------------------------------------------------------
(* The handler's steps. *)

\* A step of one handler that sets no cookie, changes no session and neither
\* starts nor ends a refresh.
LEMMA LocalInv ==
  ASSUME IInv, TypeOK', NEW r \in Requests, NEW p \in Places,
         pc[r] \notin {"free", "refreshing"}, p \notin {"free", "refreshing", "exchanging"},
         pc' = [pc EXCEPT ![r] = p],
         \A q \in Requests : q # r =>
           pass'[q] = pass[q] /\ response'[q] = response[q] /\ token'[q] = token[q],
         UNCHANGED <<cookie, logins, request, flight>>,
         Owned(response'[r].to, browser[r]),
         token'[r].from = "oauth" /\ token'[r].owner # browser[r] => carried[r].expired,
         p = "respond" /\ kind[r] \in {"logout", "disconnect"} => response'[r] = SetTo(NoCookie),
         p = "joined" => flight # "none" /\ IsConnection(Stored(r)') /\ Stored(r)'.expired,
         pass'[r] = 2 => kind[r] = "api",
         p = "using" => kind[r] = "api",
         p \in {"revoking", "clearing"} => kind[r] = "disconnect",
         p \in {"check", "joined"} /\ pass'[r] = 1 => response'[r] = Keep
  PROVE  IInv'
<1>1. OneRefresh'
  BY DEF IInv, TypeOK, OneRefresh
<1>2. FreeInv'
  BY DEF IInv, TypeOK, FreeInv
<1>3. OwnCookie'
  BY DEF IInv, OwnCookie
<1>4. OwnInv'
  BY DEF IInv, OwnInv, Owned, request
<1>5. PathInv'
  BY DEF IInv, TypeOK, PathInv, Stored, request
<1>6. ValidTokenIsUsed' /\ LogoutClears'
  BY DEF IInv, TypeOK, ValidTokenIsUsed, LogoutClears, request
<1> QED BY <1>1, <1>2, <1>3, <1>4, <1>5, <1>6 DEF IInv

\* Facts about a request that hold in every state of the invariant.
LEMMA RequestFacts ==
  ASSUME IInv, NEW r \in Requests
  PROVE  /\ Owned(response[r].to, browser[r])
         /\ token[r].from = "oauth" /\ token[r].owner # browser[r] => carried[r].expired
         /\ pass[r] = 2 => kind[r] = "api"
         /\ kind[r] \in Kinds /\ pass[r] \in 1 .. 2
         /\ browser[r] \in Browsers
  BY DEF IInv, TypeOK, OwnInv, ValidTokenIsUsed, PathInv

\* Steps that only move the handler on.
LEMMA MoveInv ==
  ASSUME IInv, NEW r \in Requests,
         JoinRefresh(r) \/ Dispatch(r) \/ HandlerReturns(r) \/ HandlerThrows(r)
         \/ Disconnect(r) \/ Revoke(r)
  PROVE  IInv'
<1> USE RequestFacts DEF Goto
<1>1. CASE JoinRefresh(r)
  <2>1. TypeOK'
    BY <1>1 DEF JoinRefresh, IInv, TypeOK, Places, request
  <2>2. Stored(r)' = Stored(r) /\ (pass[r] = 1 => response[r] = Keep)
    BY <1>1 DEF JoinRefresh, Stored, IInv, PathInv, request
  <2> QED BY <1>1, <2>1, <2>2, LocalInv DEF JoinRefresh, Places, request
<1>2. CASE Dispatch(r)
  <2>1. TypeOK'
    BY <1>2 DEF Dispatch, IInv, TypeOK, Places, request
  <2> QED BY <1>2, <2>1, LocalInv DEF Dispatch, Places, request
<1>3. CASE HandlerReturns(r)
  <2>1. TypeOK'
    BY <1>3 DEF HandlerReturns, IInv, TypeOK, Places, request
  <2>2. kind[r] = "api"
    BY <1>3 DEF HandlerReturns, IInv, PathInv
  <2> QED BY <1>3, <2>1, <2>2, LocalInv DEF HandlerReturns, Places, request
<1>4. CASE HandlerThrows(r)
  <2>1. TypeOK'
    BY <1>4 DEF HandlerThrows, IInv, TypeOK, Places, request
  <2>2. kind[r] = "api" /\ pass'[r] = 2
    BY <1>4 DEF HandlerThrows, IInv, TypeOK, PathInv
  <2>3. \A q \in Requests : q # r =>
          pass'[q] = pass[q] /\ response'[q] = response[q] /\ token'[q] = token[q]
    BY <1>4 DEF HandlerThrows, IInv, TypeOK
  <2>4. pc[r] = "using" /\ pc' = [pc EXCEPT ![r] = "check"] /\ pass'[r] # 1
    BY <1>4, <2>2 DEF HandlerThrows
  <2>5. UNCHANGED <<cookie, logins, request, flight>> /\ UNCHANGED <<response, token>>
    BY <1>4 DEF HandlerThrows, request
  <2>6. response'[r] = response[r] /\ token'[r] = token[r]
    BY <2>5
  <2> QED BY <2>1, <2>2, <2>3, <2>4, <2>5, <2>6, LocalInv DEF Places
<1>5. CASE Disconnect(r)
  <2>1. TypeOK'
    BY <1>5 DEF Disconnect, IInv, TypeOK, Places, request
  <2>2. PICK p \in {"revoking", "clearing"} : pc' = [pc EXCEPT ![r] = p]
    BY <1>5 DEF Disconnect
  <2> QED BY <1>5, <2>1, <2>2, LocalInv DEF Disconnect, Places, request
<1>6. CASE Revoke(r)
  <2>1. TypeOK'
    BY <1>6 DEF Revoke, IInv, TypeOK, Places, request
  <2>2. kind[r] = "disconnect"
    BY <1>6 DEF Revoke, IInv, PathInv
  <2> QED BY <1>6, <2>1, <2>2, LocalInv DEF Revoke, Places, request
<1> QED BY <1>1, <1>2, <1>3, <1>4, <1>5, <1>6

\* A response leaves the cookie alone, or deletes it, for everybody.
LEMMA HarmlessResponse ==
  /\ Keep \in SetCookies /\ SetTo(NoCookie) \in SetCookies
  /\ Keep.to = NoCookie /\ SetTo(NoCookie).to = NoCookie
  /\ ~IsConnection(NoCookie)
  BY DEF Keep, SetTo, SetCookies, Cookies, IsConnection

\* Steps that end getAccessToken, or fall back to the environment.
LEMMA TokenInv ==
  ASSUME IInv, NEW r \in Requests,
         UseStored(r) \/ FallBack(r) \/ GetEnvToken(r) \/ NoEnvToken(r)
  PROVE  IInv'
<1> USE RequestFacts DEF Goto
<1>1. CASE FallBack(r)
  <2>1. response'[r] \in {response[r], SetTo(NoCookie)}
    BY <1>1 DEF FallBack, IInv, TypeOK
  <2>2. response' \in [Requests -> SetCookies]
    BY <1>1, HarmlessResponse DEF FallBack, IInv, TypeOK
  <2>3. TypeOK'
    BY <1>1, <2>2 DEF FallBack, IInv, TypeOK, Places, request
  <2>4. Owned(response'[r].to, browser[r])
    BY <2>1, HarmlessResponse DEF Owned
  <2>5. \A q \in Requests : q # r => response'[q] = response[q]
    BY <1>1 DEF FallBack, IInv, TypeOK
  <2> QED BY <1>1, <2>3, <2>4, <2>5, LocalInv DEF FallBack, Places, request
<1>2. CASE NoEnvToken(r) /\ kind[r] = "api" /\ pass[r] = 1
  <2>1. /\ pc[r] = "env" /\ pc' = [pc EXCEPT ![r] = "check"]
        /\ pass' = [pass EXCEPT ![r] = 2]
        /\ UNCHANGED <<cookie, logins, request, flight>> /\ UNCHANGED <<response, token>>
    BY <1>2 DEF NoEnvToken, request
  <2>2. TypeOK'
    BY <1>2 DEF NoEnvToken, IInv, TypeOK, Places, request
  <2>3. pass'[r] = 2 /\ \A q \in Requests : q # r => pass'[q] = pass[q]
    BY <2>1 DEF IInv, TypeOK
  <2>4. response'[r] = response[r] /\ token'[r] = token[r]
    BY <2>1
  <2>5. \A q \in Requests : q # r => response'[q] = response[q] /\ token'[q] = token[q]
    BY <2>1
  <2>6. kind[r] = "api" /\ pass'[r] # 1
    BY <1>2, <2>3
  <2>7. /\ Owned(response'[r].to, browser[r])
        /\ token'[r].from = "oauth" /\ token'[r].owner # browser[r] => carried[r].expired
    BY <2>4
  <2> QED BY <2>1, <2>2, <2>3, <2>5, <2>6, <2>7, LocalInv DEF Places
<1>3. CASE UseStored(r) \/ GetEnvToken(r) \/ (NoEnvToken(r) /\ ~(kind[r] = "api" /\ pass[r] = 1))
  <2>1. PICK t \in {TokenOf(Stored(r)), EnvToken, NoToken} :
          /\ Return(r, t, "got")
          /\ t = TokenOf(Stored(r)) => IsConnection(Stored(r))
    BY <1>3 DEF UseStored, GetEnvToken, NoEnvToken, TokenOf, EnvToken, NoToken
  <2>2. /\ pc[r] \in {"check", "env"}
        /\ UNCHANGED <<cookie, logins, request, pass, response, flight>>
    BY <1>3 DEF UseStored, GetEnvToken, NoEnvToken, request
  <2>3. Stored(r) \in Cookies /\ Owned(Stored(r), browser[r])
    BY StoredOwned
  <2>4. /\ t \in {NoToken, EnvToken} \union [from : {"oauth"}, owner : Browsers]
        /\ t.from = "oauth" => t.owner = browser[r]
    BY <2>1, <2>3 DEF Owned, TokenOf, NoToken, EnvToken
  <2>5. PICK p \in {"got", "respond"} : /\ pc' = [pc EXCEPT ![r] = p]
                                        /\ p = "respond" => pass[r] = 2
    <3>1. pc \in [Requests -> Places] /\ pass[r] \in {1, 2}
      BY DEF IInv, TypeOK
    <3>2. CASE pass[r] = 1
      BY <2>1, <3>2 DEF Return
    <3>3. CASE pass[r] = 2
      BY <2>1, <3>3 DEF Return
    <3> QED BY <3>1, <3>2, <3>3
  <2>6. /\ token' \in [Requests -> {NoToken, EnvToken} \union [from : {"oauth"}, owner : Browsers]]
        /\ token'[r] \in {t, token[r]}
        /\ \A q \in Requests : q # r => token'[q] = token[q]
    BY <2>1, <2>4 DEF Return, IInv, TypeOK
  <2>7. TypeOK'
    BY <2>2, <2>5, <2>6 DEF IInv, TypeOK, Places, request
  <2>8. token'[r].from = "oauth" /\ token'[r].owner # browser[r] => carried[r].expired
    BY <2>4, <2>6
  <2>9. pass'[r] = pass[r] /\ response'[r] = response[r]
    BY <2>2
  <2> QED BY <2>2, <2>5, <2>6, <2>7, <2>8, <2>9, LocalInv DEF Places
<1> QED BY <1>1, <1>2, <1>3

\* Steps that set the cookie of a session's end or beginning.
LEMMA SessionInv ==
  ASSUME IInv, NEW r \in Requests, Clear(r) \/ Exchange(r)
  PROVE  IInv'
<1> USE RequestFacts DEF Goto
<1>1. CASE Clear(r)
  <2>1. response' \in [Requests -> SetCookies] /\ response'[r] = SetTo(NoCookie)
    BY <1>1, HarmlessResponse DEF Clear, IInv, TypeOK
  <2>2. TypeOK'
    BY <1>1, <2>1 DEF Clear, IInv, TypeOK, Places, request
  <2>3. Owned(response'[r].to, browser[r])
    BY <2>1, HarmlessResponse DEF Owned
  <2>4. \A q \in Requests : q # r => response'[q] = response[q]
    BY <1>1 DEF Clear, IInv, TypeOK
  <2> QED BY <1>1, <2>1, <2>2, <2>3, <2>4, LocalInv DEF Clear, Places, request
<1>2. CASE Exchange(r)
  <2> DEFINE new == [owner |-> browser[r], login |-> logins[browser[r]], expired |-> FALSE]
  <2>1. PICK x \in {SetTo(new), response[r]} : response' = [response EXCEPT ![r] = x]
    BY <1>2 DEF Exchange, NewConnection, IInv, TypeOK
  <2>2. /\ kind[r] = "login" /\ logins[browser[r]] \in 1 .. MaxLogins
        /\ pc[r] = "exchanging" /\ pc' = [pc EXCEPT ![r] = "respond"]
        /\ UNCHANGED <<cookie, logins, request, pass, token, flight>>
    BY <1>2, TokenAssumption DEF Exchange, IInv, TypeOK, PathInv, request
  <2>3. new \in Cookies /\ SetTo(new).to = new /\ SetTo(new) \in SetCookies
    BY <2>2 DEF Cookies, Connections, SetTo, SetCookies
  <2>4. Owned(new, browser[r])
    BY <2>2 DEF Owned
  <2> HIDE DEF new
  <2>5. /\ response' \in [Requests -> SetCookies] /\ response'[r] = x
        /\ \A q \in Requests : q # r => response'[q] = response[q]
    BY <2>1, <2>3 DEF IInv, TypeOK
  <2>6. TypeOK'
    BY <2>2, <2>5 DEF IInv, TypeOK, Places, request
  <2>7. Owned(response'[r].to, browser[r])
    BY <2>1, <2>3, <2>4, <2>5
  <2> QED BY <2>2, <2>5, <2>6, <2>7, LocalInv DEF Places, request
<1> QED BY <1>1, <1>2

-------------------------------------------------------------------------------
(* The shared refresh. *)

LEMMA StartRefreshInv ==
  ASSUME IInv, NEW r \in Requests, StartRefresh(r)
  PROVE  IInv'
<1> USE TokenAssumption DEF Goto
<1>1. TypeOK'
  BY DEF StartRefresh, IInv, TypeOK, Places, request
<1>2. /\ flight = "none" /\ flight' = r /\ pc[r] = "check"
      /\ pc' = [pc EXCEPT ![r] = "refreshing"]
      /\ IsConnection(Stored(r)) /\ Stored(r).expired
      /\ UNCHANGED <<cookie, logins, request, pass, response, token>>
  BY DEF StartRefresh, request
<1>3. OneRefresh'
  BY <1>2 DEF IInv, TypeOK, OneRefresh
<1>4. FreeInv' /\ OwnCookie' /\ OwnInv'
  BY <1>2 DEF IInv, TypeOK, FreeInv, OwnCookie, OwnInv, Owned, request
<1>5. PathInv'
  BY <1>2 DEF IInv, TypeOK, PathInv, Stored, request
<1>6. ValidTokenIsUsed' /\ LogoutClears'
  BY <1>2 DEF IInv, TypeOK, ValidTokenIsUsed, LogoutClears, request
<1> QED BY <1>1, <1>3, <1>4, <1>5, <1>6 DEF IInv

LEMMA EndRefreshInv ==
  ASSUME IInv, NEW r \in Requests, Refreshed(r) \/ RefreshFailed(r)
  PROVE  IInv'
<1> USE TokenAssumption
<1>1. /\ pc[r] = "refreshing" /\ flight = r /\ flight' = "none"
      /\ IsConnection(Stored(r))
      /\ UNCHANGED <<cookie, logins, request, pass>>
  BY DEF Refreshed, RefreshFailed, IInv, OneRefresh, PathInv, request
<1>2. \A q \in Waiting(r) :
        /\ q \in Requests
        /\ pass[q] = 2 => kind[q] = "api"
        /\ pass[q] = 1 => carried[q].expired
  BY <1>1 DEF Waiting, IInv, PathInv, Stored, Keep
<1>3. \A q \in Waiting(r) :
        /\ pc'[q] \in {"got", "respond", "env"}
        /\ pc'[q] = "respond" => pass[q] = 2
  <2> SUFFICES ASSUME NEW q \in Waiting(r)
               PROVE  /\ pc'[q] \in {"got", "respond", "env"}
                      /\ pc'[q] = "respond" => pass[q] = 2
    OBVIOUS
  <2>1. q \in Requests /\ pass[q] \in {1, 2}
    BY <1>2 DEF IInv, TypeOK
  <2>2. CASE Refreshed(r)
    BY <2>1, <2>2 DEF Refreshed
  <2>3. CASE RefreshFailed(r)
    BY <2>1, <2>3 DEF RefreshFailed
  <2> QED BY <2>2, <2>3
<1>4. \A q \in Requests \ Waiting(r) :
        /\ pc'[q] = pc[q] /\ q # r
        /\ pc[q] \notin {"refreshing", "joined"}
  BY <1>1 DEF Refreshed, RefreshFailed, Waiting, IInv, OneRefresh
<1>5. pc' \in [Requests -> Places]
  BY DEF Refreshed, RefreshFailed, IInv, TypeOK, Places
<1>6. /\ response' \in [Requests -> SetCookies]
      /\ \A q \in Requests : q # r => response'[q] = response[q]
      /\ Owned(response'[r].to, browser[r])
  <2>1. CASE Refreshed(r)
    <3> DEFINE fresh == [Stored(r) EXCEPT !.expired = FALSE]
    <3>1. /\ fresh \in Cookies
          /\ fresh.owner = Stored(r).owner /\ fresh.login = Stored(r).login
      BY <1>1, StoredOwned, FreshConnection
    <3>2. Owned(fresh, browser[r])
      BY <1>1, <3>1, StoredOwned DEF Owned
    <3>3. response' = [response EXCEPT ![r] = SetTo(fresh)]
      BY <2>1 DEF Refreshed
    <3> HIDE DEF fresh
    <3>4. SetTo(fresh) \in SetCookies /\ SetTo(fresh).to = fresh
      BY <3>1 DEF SetTo, SetCookies
    <3> QED BY <3>2, <3>3, <3>4 DEF IInv, TypeOK
  <2>2. CASE RefreshFailed(r)
    BY <2>2 DEF RefreshFailed, IInv, TypeOK, OwnInv
  <2> QED BY <2>1, <2>2
<1>7. /\ token' \in [Requests -> {NoToken, EnvToken} \union [from : {"oauth"}, owner : Browsers]]
      /\ \A q \in Requests : token'[q] # token[q] => q \in Waiting(r) /\ pass[q] = 1
  <2>1. CASE Refreshed(r)
    <3> DEFINE fresh == [Stored(r) EXCEPT !.expired = FALSE]
    <3>1. fresh.owner \in Browsers
      BY <1>1, StoredOwned, FreshConnection DEF Owned, IInv, TypeOK
    <3>2. token' = [q \in Requests |->
            IF q \in Waiting(r) /\ pass[q] = 1 THEN TokenOf(fresh) ELSE token[q]]
      BY <2>1 DEF Refreshed
    <3> HIDE DEF fresh
    <3>3. TokenOf(fresh) \in [from : {"oauth"}, owner : Browsers]
      BY <3>1 DEF TokenOf
    <3> QED BY <3>2, <3>3 DEF IInv, TypeOK
  <2>2. CASE RefreshFailed(r)
    BY <2>2 DEF RefreshFailed, IInv, TypeOK
  <2> QED BY <2>1, <2>2
<1>8. TypeOK'
  BY <1>1, <1>5, <1>6, <1>7 DEF IInv, TypeOK, request
<1>9. OneRefresh'
  BY <1>1, <1>3, <1>4 DEF OneRefresh
<1>10. FreeInv'
  BY <1>1, <1>3, <1>4, <1>6, <1>7 DEF IInv, FreeInv
<1>11. OwnCookie' /\ OwnInv'
  BY <1>1, <1>6 DEF IInv, OwnCookie, OwnInv, Owned, request
<1>12. PathInv'
  <2> SUFFICES ASSUME NEW q \in Requests PROVE
        /\ (pass[q] = 2 => kind[q] = "api")'
        /\ (pc[q] = "using" => kind[q] = "api")'
        /\ (pc[q] \in {"revoking", "clearing"} => kind[q] = "disconnect")'
        /\ (pc[q] = "exchanging" => kind[q] = "login" /\ logins[browser[q]] # 0)'
        /\ (pc[q] \in {"check", "refreshing", "joined"} /\ pass[q] = 1 => response[q] = Keep)'
        /\ (pc[q] \in {"refreshing", "joined"} => IsConnection(Stored(q)) /\ Stored(q).expired)'
    BY DEF PathInv
  <2>1. CASE q \in Waiting(r)
    BY <1>1, <1>2, <1>3, <2>1 DEF request
  <2>2. CASE q \notin Waiting(r)
    BY <1>1, <1>4, <1>6, <2>2 DEF IInv, PathInv, request
  <2> QED BY <2>1, <2>2
<1>13. ValidTokenIsUsed'
  BY <1>1, <1>2, <1>7 DEF IInv, ValidTokenIsUsed, request
<1>14. LogoutClears'
  <2> SUFFICES ASSUME NEW q \in Requests, pc'[q] = "respond", kind'[q] \in {"logout", "disconnect"}
               PROVE  response'[q] = SetTo(NoCookie)
    BY DEF LogoutClears
  <2>1. q \notin Waiting(r)
    BY <1>1, <1>2, <1>3 DEF request
  <2> QED BY <1>1, <1>4, <1>6, <2>1 DEF IInv, LogoutClears, request
<1> QED BY <1>8, <1>9, <1>10, <1>11, <1>12, <1>13, <1>14 DEF IInv

-------------------------------------------------------------------------------

LEMMA NextInv == IInv /\ [Next]_vars => IInv'
<1> SUFFICES ASSUME IInv, [Next]_vars PROVE IInv'
  OBVIOUS
<1>1. ASSUME NEW r \in Requests, Browse(r) PROVE IInv'
  BY <1>1, SendInv, ArriveInv DEF Browse
<1>2. ASSUME NEW r \in Requests, GetToken(r) PROVE IInv'
  BY <1>2, TokenInv, MoveInv, StartRefreshInv, EndRefreshInv DEF GetToken
<1>3. ASSUME NEW r \in Requests, Route(r) PROVE IInv'
  BY <1>3, MoveInv, SessionInv DEF Route
<1>4. ASSUME NEW b \in Browsers, Expire(b) \/ CorruptCookie(b) PROVE IInv'
  BY <1>4, CookieInv
<1>5. CASE UNCHANGED vars
  BY <1>5 DEF vars, request, IInv, TypeOK, OneRefresh, FreeInv, OwnCookie, OwnInv, Owned,
     PathInv, Stored, ValidTokenIsUsed, LogoutClears
<1> QED BY <1>1, <1>2, <1>3, <1>4, <1>5 DEF Next

\* Every reachable state of lib/sf-connection.ts and its routes satisfies the
\* strengthened invariant.
THEOREM Invariant == Spec => []IInv
BY InitInv, NextInv, PTL DEF Spec

\* The module-global refreshPromise is a mutex: one refresh at a time, and no
\* request waits for a promise that is not there.
THEOREM OneRefreshHolds == Spec => []OneRefresh
<1>1. IInv => OneRefresh
  BY DEF IInv
<1> QED BY <1>1, Invariant, PTL

\* Sharing one refresh among all sessions never puts one browser's connection
\* into another's cookie.
THEOREM OwnCookieHolds == Spec => []OwnCookie
<1>1. IInv => OwnCookie
  BY DEF IInv
<1> QED BY <1>1, Invariant, PTL

\* A request gets another browser's token only if its own had expired.
THEOREM ValidTokenIsUsedHolds == Spec => []ValidTokenIsUsed
<1>1. IInv => ValidTokenIsUsed
  BY DEF IInv
<1> QED BY <1>1, Invariant, PTL

\* A logout or disconnect always answers with a cleared cookie.
THEOREM LogoutClearsHolds == Spec => []LogoutClears
<1>1. IInv => LogoutClears
  BY DEF IInv
<1> QED BY <1>1, Invariant, PTL

-------------------------------------------------------------------------------
(* The setup. *)

LEMMA SetupInitInv == SetupInit => SetupIInv
BY SetupAssumption DEF SetupAssumption, SetupInit, SetupIInv, SetupTypeOK, Tab, Device, Server, Fresh,
   Steps, Stages, Checks, RoleInv, MemoryInv

-------------------------------------------------------------------------------
(* The actions that change the page to t, then to what its effects make of it. *)

\* What t has to be like.
Fit(t) ==
  /\ t \in Tab
  /\ (t.step \in {"name", "crm", "connect"} \/ t.asked \intersect {"crm", "exit"} # {}) =>
       t.role # None
  /\ t.step = "ready" /\ tab.step # "ready" =>
       t.demo \/ tab.intro \/ tab.stage \in {"done", "error"}
  /\ t.step = "discovering" /\ tab.step = "connect" => t.role = tab.role

\* The effects keep what t says of the role, and go only from the CRM's page to the
\* application, in the demonstration.
LEMMA EffectsOf ==
  ASSUME SetupIInv, NEW t \in Tab, NEW s, s = Effects(t, tab)
  PROVE  /\ s \in Tab
         /\ s.role = t.role /\ s.asked = t.asked /\ (t.demo => s.demo)
         /\ s.step = t.step \/ (s.step = "ready" /\ t.step = "crm" /\ s.demo)
<1> DEFINE d == t.demo \/ (t.connected = "no" /\ tab.connected # "no")
           u == [t EXCEPT !.demo = d]
           step == IF SkipCrm(u) THEN "ready" ELSE u.step
           stage == IF step # "discovering" THEN "none"
                    ELSE IF tab.step # "discovering" THEN "looking" ELSE u.stage
<1>1. u \in Tab /\ u.role = t.role /\ u.asked = t.asked /\ u.step = t.step /\ u.demo = d
  BY DEF Tab
<1>2. step \in Steps /\ (step = u.step \/ (step = "ready" /\ u.step = "crm" /\ u.demo))
  BY <1>1 DEF SkipCrm, Tab, Steps
<1>3. stage \in Stages
  BY <1>1 DEF Tab, Stages
<1>4. s = [u EXCEPT !.step = step, !.stage = stage]
  BY DEF Effects
<1> HIDE DEF d, u, step, stage
<1>5. s \in Tab /\ s.role = u.role /\ s.asked = u.asked /\ s.demo = u.demo /\ s.step = step
  BY <1>1, <1>2, <1>3, <1>4 DEF Tab
<1>6. t.demo => d
  BY DEF d
<1> QED BY <1>1, <1>2, <1>5, <1>6

LEMMA BecomesInv ==
  ASSUME SetupIInv, NEW t, Fit(t), Becomes(t), UNCHANGED server
  PROVE  SetupIInv' /\ ReadyIsEarned /\ RoleSurvives
<1>1. /\ tab' \in Tab
      /\ tab'.role = t.role /\ tab'.asked = t.asked /\ (t.demo => tab'.demo)
      /\ tab'.step = t.step \/ (tab'.step = "ready" /\ t.step = "crm" /\ tab'.demo)
  BY EffectsOf DEF Becomes, Fit
<1>2. /\ device' \in Device /\ device'.mapping = device.mapping
      /\ tab'.step = "connect" /\ tab'.role # None => device'.role = tab'.role
  <2>1. tab' \in Tab /\ device \in Device
    BY <1>1 DEF SetupIInv, SetupTypeOK
  <2>2. SavedRole(tab') \in Roles \union {None}
    BY <2>1 DEF SavedRole, Tab, Device
  <2>3. device' = [device EXCEPT !.role = SavedRole(tab'),
                                 !.demo = IF tab'.demo # tab.demo THEN tab'.demo ELSE @]
    BY DEF Becomes
  <2>4. (IF tab'.demo # tab.demo THEN tab'.demo ELSE device.demo) \in BOOLEAN
    BY <2>1 DEF Tab, Device
  <2>5. device' \in Device /\ device'.mapping = device.mapping /\ device'.role = SavedRole(tab')
    BY <2>1, <2>2, <2>3, <2>4 DEF Device
  <2> QED BY <2>5 DEF SavedRole
<1>3. SetupIInv'
  <2>1. RoleInv'
    BY <1>1, <1>2 DEF RoleInv, Fit
  <2> QED BY <1>1, <1>2, <2>1 DEF SetupIInv, SetupTypeOK, MemoryInv
<1>4. ReadyIsEarned /\ RoleSurvives
  BY <1>1 DEF ReadyIsEarned, RoleSurvives, Fit
<1> QED BY <1>3, <1>4

\* Each page's action makes a page that fits.
LEMMA PagesFit ==
  ASSUME SetupIInv,
         \/ MountAnswer \/ CrmAnswer \/ ExitAnswer \/ LookAnswer \/ ScanRefused
         \/ ChooseRole \/ StartDemo \/ IntroEnds \/ NameChosen \/ Back \/ SelectCrm
         \/ LeaveConnect \/ FinishDiscovery \/ OpenHousehold \/ OpenSettings \/ GoHome
         \/ ToggleDemo
  PROVE  UNCHANGED server /\ \E t : Fit(t) /\ Becomes(t)
<1> USE DEF SetupIInv, SetupTypeOK, Tab, RoleInv, Fit, Steps, Stages, Checks
<1>1. CASE MountAnswer
  <2>1. PICK yes \in BOOLEAN :
          Becomes([tab EXCEPT !.asked = @ \ {"mount"}, !.connected = IF yes THEN "yes" ELSE "no"])
    BY <1>1 DEF MountAnswer
  <2> DEFINE t == [tab EXCEPT !.asked = @ \ {"mount"}, !.connected = IF yes THEN "yes" ELSE "no"]
  <2>2. Fit(t)
    OBVIOUS
  <2> HIDE DEF t, Fit
  <2> QED BY <1>1, <2>1, <2>2 DEF MountAnswer, t
<1>2. CASE CrmAnswer
  <2> DEFINE u == [tab EXCEPT !.asked = @ \ {"crm"}]
             found == [u EXCEPT !.connected = "yes", !.step = "discovering"]
             none == [u EXCEPT !.step = "connect"]
  <2>1. "crm" \in tab.asked /\ (Becomes(found) \/ Becomes(none)) /\ UNCHANGED server
    BY <1>2 DEF CrmAnswer
  <2>2. Fit(found) /\ Fit(none)
    BY <2>1
  <2> HIDE DEF found, none, Fit
  <2> QED BY <2>1, <2>2
<1>3. CASE ExitAnswer
  <2> DEFINE u == [tab EXCEPT !.asked = @ \ {"exit"}]
             found == [u EXCEPT !.connected = "yes", !.step = "discovering"]
             none == [u EXCEPT !.connected = "no", !.step = "crm"]
  <2>1. "exit" \in tab.asked /\ (Becomes(found) \/ Becomes(none)) /\ UNCHANGED server
    BY <1>3 DEF ExitAnswer
  <2>2. Fit(found) /\ Fit(none)
    BY <2>1
  <2> HIDE DEF found, none, Fit
  <2> QED BY <2>1, <2>2
<1>4. CASE LookAnswer
  <2>1. PICK found \in BOOLEAN :
          Becomes([tab EXCEPT !.stage = IF found THEN "done" ELSE "scanning"])
    BY <1>4 DEF LookAnswer
  <2> DEFINE t == [tab EXCEPT !.stage = IF found THEN "done" ELSE "scanning"]
  <2>2. Fit(t)
    OBVIOUS
  <2> HIDE DEF t, Fit
  <2> QED BY <1>4, <2>1, <2>2 DEF LookAnswer, t
<1>5. CASE ScanRefused
  <2>1. Becomes([tab EXCEPT !.stage = "error"])
    BY <1>5 DEF ScanRefused
  <2> DEFINE t == [tab EXCEPT !.stage = "error"]
  <2>2. Fit(t)
    OBVIOUS
  <2> HIDE DEF t, Fit
  <2> QED BY <1>5, <2>1, <2>2 DEF ScanRefused, t
<1>6. CASE ChooseRole
  <2>1. PICK r \in Roles :
          Becomes([tab EXCEPT !.role = r, !.step = "name"])
    BY <1>6 DEF ChooseRole
  <2> DEFINE t == [tab EXCEPT !.role = r, !.step = "name"]
  <2>2. Fit(t)
    BY SetupAssumption DEF SetupAssumption
  <2> HIDE DEF t, Fit
  <2> QED BY <1>6, <2>1, <2>2 DEF ChooseRole, t
<1>7. CASE StartDemo
  <2>1. Becomes([tab EXCEPT !.demo = TRUE, !.role = DemoRole, !.intro = TRUE])
    BY <1>7 DEF StartDemo
  <2> DEFINE t == [tab EXCEPT !.demo = TRUE, !.role = DemoRole, !.intro = TRUE]
  <2>2. Fit(t)
    BY SetupAssumption DEF SetupAssumption
  <2> HIDE DEF t, Fit
  <2> QED BY <1>7, <2>1, <2>2 DEF StartDemo, t
<1>8. CASE IntroEnds
  <2>1. Becomes([tab EXCEPT !.intro = FALSE, !.step = "ready"]) /\ tab.intro
    BY <1>8 DEF IntroEnds
  <2> DEFINE t == [tab EXCEPT !.intro = FALSE, !.step = "ready"]
  <2>2. Fit(t)
    BY <2>1
  <2> HIDE DEF t, Fit
  <2> QED BY <1>8, <2>1, <2>2 DEF IntroEnds, t
<1>9. CASE NameChosen
  <2>1. Becomes([tab EXCEPT !.step = "crm"]) /\ tab.step = "name"
    BY <1>9 DEF NameChosen, On
  <2> DEFINE t == [tab EXCEPT !.step = "crm"]
  <2>2. Fit(t)
    BY <2>1
  <2> HIDE DEF t, Fit
  <2> QED BY <1>9, <2>1, <2>2 DEF NameChosen, t
<1>10. CASE Back
  <2>1. Becomes([tab EXCEPT !.step = IF @ = "name" THEN "role" ELSE "name"]) /\ tab.step \in {"name", "crm"}
    BY <1>10 DEF Back
  <2> DEFINE t == [tab EXCEPT !.step = IF @ = "name" THEN "role" ELSE "name"]
  <2>2. Fit(t)
    BY <2>1
  <2> HIDE DEF t, Fit
  <2> QED BY <1>10, <2>1, <2>2 DEF Back, t
<1>11. CASE LeaveConnect
  <2>1. Becomes([tab EXCEPT !.asked = @ \union {"exit"}]) /\ tab.step = "connect"
    BY <1>11 DEF LeaveConnect, On
  <2> DEFINE t == [tab EXCEPT !.asked = @ \union {"exit"}]
  <2>2. Fit(t)
    BY <2>1
  <2> HIDE DEF t, Fit
  <2> QED BY <1>11, <2>1, <2>2 DEF LeaveConnect, t
<1>12. CASE FinishDiscovery
  <2>1. Becomes([tab EXCEPT !.step = "ready"]) /\ tab.stage \in {"done", "error"}
    BY <1>12 DEF FinishDiscovery
  <2> DEFINE t == [tab EXCEPT !.step = "ready"]
  <2>2. Fit(t)
    BY <2>1
  <2> HIDE DEF t, Fit
  <2> QED BY <1>12, <2>1, <2>2 DEF FinishDiscovery, t
<1>13. CASE OpenHousehold
  <2>1. PICK h \in {"client", "demo"} :
          Becomes([tab EXCEPT !.screen = h])
    BY <1>13 DEF OpenHousehold
  <2> DEFINE t == [tab EXCEPT !.screen = h]
  <2>2. Fit(t)
    OBVIOUS
  <2> HIDE DEF t, Fit
  <2> QED BY <1>13, <2>1, <2>2 DEF OpenHousehold, t
<1>14. CASE OpenSettings
  <2>1. Becomes([tab EXCEPT !.screen = "settings"])
    BY <1>14 DEF OpenSettings
  <2> DEFINE t == [tab EXCEPT !.screen = "settings"]
  <2>2. Fit(t)
    OBVIOUS
  <2> HIDE DEF t, Fit
  <2> QED BY <1>14, <2>1, <2>2 DEF OpenSettings, t
<1>15. CASE GoHome
  <2>1. Becomes([tab EXCEPT !.screen = "home"])
    BY <1>15 DEF GoHome
  <2> DEFINE t == [tab EXCEPT !.screen = "home"]
  <2>2. Fit(t)
    OBVIOUS
  <2> HIDE DEF t, Fit
  <2> QED BY <1>15, <2>1, <2>2 DEF GoHome, t
<1>16. CASE ToggleDemo
  <2>1. Becomes([tab EXCEPT !.demo = ~@])
    BY <1>16 DEF ToggleDemo
  <2> DEFINE t == [tab EXCEPT !.demo = ~@]
  <2>2. Fit(t)
    OBVIOUS
  <2> HIDE DEF t, Fit
  <2> QED BY <1>16, <2>1, <2>2 DEF ToggleDemo, t
<1>17. CASE SelectCrm
  <2> DEFINE demo == [tab EXCEPT !.step = "ready"]
             scan == [tab EXCEPT !.step = "discovering"]
             ask == [tab EXCEPT !.asked = @ \union {"crm"}]
  <2>1. /\ tab.step = "crm" /\ UNCHANGED server
        /\ (tab.demo /\ Becomes(demo)) \/ Becomes(scan) \/ Becomes(ask)
    BY <1>17 DEF SelectCrm, On
  <2>2. (tab.demo => Fit(demo)) /\ Fit(scan) /\ Fit(ask)
    BY <2>1
  <2> HIDE DEF demo, scan, ask, Fit
  <2> QED BY <2>1, <2>2
<1> QED BY <1>1, <1>2, <1>3, <1>4, <1>5, <1>6, <1>7, <1>8, <1>9, <1>10, <1>11, <1>12, <1>13, <1>14, <1>15, <1>16, <1>17

-------------------------------------------------------------------------------
(* The other actions. *)

\* A page loaded anew has the role it was left with, or none.
LEMMA LoadInv ==
  ASSUME SetupIInv, Reload \/ SignIn
  PROVE  SetupIInv' /\ ReadyIsEarned /\ RoleSurvives
<1> USE DEF SetupIInv, SetupTypeOK, Tab, Device, RoleInv, MemoryInv, ReadyIsEarned, RoleSurvives,
            Fresh, Steps, Stages, Checks
<1>1. CASE Reload
  BY <1>1 DEF Reload
<1>2. CASE SignIn
  <2> DEFINE f == Fresh(device)
  <2>0. f \in Tab /\ f.asked = {"mount"} /\ device.role \in Roles \union {None}
    OBVIOUS
  <2> HIDE DEF f
  <2>1. /\ tab' \in Tab /\ tab'.step = "discovering" /\ tab'.role = device.role
        /\ tab'.asked = {"mount"} /\ UNCHANGED server
    <3>1. /\ tab' = [f EXCEPT !.step = "discovering", !.role = device.role,
                             !.connected = "yes", !.stage = "looking"]
          /\ UNCHANGED server
      BY <1>2 DEF SignIn, f
    <3> QED BY <2>0, <3>1
  <2>2. device' \in Device /\ device'.mapping = device.mapping
    BY <1>2 DEF SignIn
  <2> QED BY <2>1, <2>2
<1> QED BY <1>1, <1>2

\* The idle timeout shows the first page, or stays in the demonstration.
LEMMA IdleInv ==
  ASSUME SetupIInv, IdleTooLong
  PROVE  SetupIInv' /\ ReadyIsEarned /\ RoleSurvives
<1> DEFINE t == [tab EXCEPT !.connected = "no", !.step = "role"]
<1>1. t \in Tab /\ t.step = "role" /\ t.role = tab.role /\ t.asked = tab.asked
  BY DEF SetupIInv, SetupTypeOK, Tab, Steps
<1>2. tab' = Effects(t, tab) /\ UNCHANGED server /\ tab.step = "ready"
  BY DEF IdleTooLong, IdleEnabled, On
<1>3. tab' \in Tab /\ tab'.role = tab.role /\ tab'.asked = tab.asked /\ tab'.step = "role"
  BY <1>1, <1>2, EffectsOf
<1>4. device' \in Device /\ device'.mapping = device.mapping
  <2>1. PICK cleared \in BOOLEAN :
          device' = [device EXCEPT !.org = IF cleared THEN None ELSE @,
                                   !.demo = IF tab'.demo # tab.demo THEN tab'.demo ELSE @]
    BY <1>2 DEF IdleTooLong
  <2> QED BY <1>3, <2>1 DEF SetupIInv, SetupTypeOK, Tab, Device
<1> HIDE DEF t
<1> QED BY <1>2, <1>3, <1>4 DEF SetupIInv, SetupTypeOK, RoleInv, MemoryInv, ReadyIsEarned, RoleSurvives

\* What the server remembers is what it was asked with.
LEMMA ServerInv ==
  ASSUME SetupIInv,
         \/ DisconnectOrg \/ RunDiscovery
         \/ Request \/ OtherRequests \/ OtherScans \/ Restart
  PROVE  SetupIInv' /\ ReadyIsEarned /\ RoleSurvives
<1> USE SetupAssumption DEF SetupAssumption, SetupIInv, SetupTypeOK, Device, Server, RoleInv, MemoryInv,
        ReadyIsEarned, RoleSurvives
<1>1. tab' = tab
  BY DEF DisconnectOrg, RunDiscovery, Request, OtherRequests, OtherScans, Restart
<1>2. Connected \in Orgs \union {None}
  BY DEF Connected
<1>3. CASE DisconnectOrg
  BY <1>1, <1>3 DEF DisconnectOrg
<1>4. CASE RunDiscovery
  BY <1>1, <1>2, <1>4 DEF RunDiscovery, Admitted, Persisted
<1>5. CASE Request
  BY <1>1, <1>2, <1>5 DEF Request, Loaded
<1>6. CASE OtherRequests
  <2>1. PICK mapping \in {None, OtherOrg} :
          server' = [server EXCEPT !.memory = Loaded(@, mapping), !.served = @ \union {OtherOrg}]
    BY <1>6 DEF OtherRequests
  <2>2. /\ server' \in Server /\ device' = device
        /\ server'.memory \in {None, device.mapping} \union server'.served
    BY <1>6, <2>1 DEF OtherRequests, Loaded
  <2> QED BY <1>1, <2>2
<1>7. CASE OtherScans
  BY <1>1, <1>7 DEF OtherScans
<1>8. CASE Restart
  BY <1>1, <1>8 DEF Restart
<1> QED BY <1>3, <1>4, <1>5, <1>6, <1>7, <1>8

LEMMA SetupNextInv ==
  ASSUME SetupIInv, [SetupNext]_setupVars
  PROVE  SetupIInv' /\ [ReadyIsEarned /\ RoleSurvives]_setupVars
<1>1. CASE UNCHANGED setupVars
  <2>1. SetupIInv'
    BY <1>1 DEF setupVars, SetupIInv, SetupTypeOK, RoleInv, MemoryInv
  <2> QED BY <1>1, <2>1
<1>2. CASE SetupNext
  BY <1>2, PagesFit, BecomesInv, LoadInv, IdleInv, ServerInv DEF SetupNext, Answers, User
<1> QED BY <1>1, <1>2

-------------------------------------------------------------------------------
(* The theorems. *)

\* The role and mapping invariant holds in every state of the setup.
THEOREM SetupInvariant == SetupSpec => []SetupIInv
BY SetupInitInv, SetupNextInv, PTL DEF SetupSpec

\* The mapping a process builds queries from (mappingCache, org-query.ts:43) is that of
\* the organisation it works for, when that is the only one, over restarts and sign-ins.
THEOREM AloneIsOwnHolds == SetupSpec => []AloneIsOwn
<1>1. SetupIInv => AloneIsOwn
  BY DEF SetupIInv, MemoryInv, AloneIsOwn
<1> QED BY <1>1, SetupInvariant, PTL

\* The application opens from a discovery that has ended or in the demonstration, and
\* with the role chosen at the start (page.tsx:140-250).
THEOREM SetupInOrderHolds == SetupSpec => SetupInOrder
BY SetupInitInv, SetupNextInv, PTL DEF SetupSpec, SetupInOrder

===============================================================================
