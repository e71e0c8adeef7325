---------------------------- MODULE TokenManager ----------------------------
(***************************************************************************)
(* lib/sf-connection.ts and the routes that use it: the Salesforce         *)
(* connection lives in an encrypted cookie of each browser, a request sees *)
(* the cookie it was sent with and changes it only through its response,   *)
(* and an expired access token is refreshed behind one promise that all    *)
(* requests of the server process share.                                   *)
(*                                                                         *)
(* A request is an API call (api/salesforce), a connection/route.ts POST   *)
(* ("logout", after 15 idle minutes), its DELETE ("disconnect") or the     *)
(* OAuth callback ("login").  Messages between browser and server are      *)
(* delayed, overtake each other and, for responses, get lost.              *)
(***************************************************************************)
EXTENDS Naturals

CONSTANTS
  Browsers,
  Requests,       \* request slots; a slot is free again after its response
  MaxLogins,      \* bound on the logins of one browser
  EnvConfigured   \* whether .env.local has client credentials

ASSUME TokenAssumption ==
  /\ MaxLogins \in Nat
  /\ EnvConfigured \in BOOLEAN
  /\ Browsers # {}
  /\ "none" \notin Requests

Kinds == {"api", "logout", "disconnect", "login"}

\* A stored connection: whose it is, from which login, its token's expiry.
Connections == [owner : Browsers, login : 1 .. MaxLogins, expired : BOOLEAN]

NoCookie == [owner |-> "none", login |-> 0, expired |-> FALSE]
Corrupt == [owner |-> "corrupt", login |-> 0, expired |-> FALSE]

Cookies == Connections \union {NoCookie, Corrupt}

\* A response leaves the cookie alone or sets it (NoCookie deletes it).
SetCookies == {[set |-> FALSE, to |-> NoCookie]} \union [set : {TRUE}, to : Cookies]
Keep == [set |-> FALSE, to |-> NoCookie]
SetTo(k) == [set |-> TRUE, to |-> k]

\* An access token: a browser's own, the application's, or none.
NoToken == [from |-> "nowhere", owner |-> "none"]
EnvToken == [from |-> "env", owner |-> "none"]
TokenOf(k) == [from |-> "oauth", owner |-> k.owner]

VARIABLES
  cookie,    \* per browser: min_sf_connection
  logins,    \* per browser: logins so far
  kind, browser, carried,  \* per request: what it is, from whom, with which cookie
  pc,        \* per request: where its handler is
  pass,      \* per request: which of the route's getAccessToken calls it is in
  response,  \* per request: the Set-Cookie so far
  token,     \* per request: what getAccessToken returned
  flight     \* refreshPromise: the request that started it, or "none"

\* What the record of a free slot says; any browser will do.
Idle == CHOOSE b \in Browsers : TRUE

request == <<kind, browser, carried>>
vars == <<cookie, logins, request, pc, pass, response, token, flight>>

Places == {"free", "check", "refreshing", "joined", "env", "got", "using",
           "revoking", "clearing", "exchanging", "respond"}

TypeOK ==
  /\ cookie \in [Browsers -> Cookies]
  /\ logins \in [Browsers -> 0 .. MaxLogins]
  /\ kind \in [Requests -> Kinds]
  /\ browser \in [Requests -> Browsers]
  /\ carried \in [Requests -> Cookies]
  /\ pc \in [Requests -> Places]
  /\ pass \in [Requests -> 1 .. 2]
  /\ response \in [Requests -> SetCookies]
  /\ token \in [Requests -> {NoToken, EnvToken} \union [from : {"oauth"}, owner : Browsers]]
  /\ flight \in Requests \union {"none"}

Init ==
  /\ cookie = [b \in Browsers |-> NoCookie]
  /\ logins = [b \in Browsers |-> 0]
  /\ kind = [r \in Requests |-> "api"]
  /\ browser = [r \in Requests |-> Idle]
  /\ carried = [r \in Requests |-> NoCookie]
  /\ pc = [r \in Requests |-> "free"]
  /\ pass = [r \in Requests |-> 1]
  /\ response = [r \in Requests |-> Keep]
  /\ token = [r \in Requests |-> NoToken]
  /\ flight = "none"

-------------------------------------------------------------------------------
(* The browser. *)

IsConnection(k) == k \notin {NoCookie, Corrupt}

Goto(r, p) == pc' = [pc EXCEPT ![r] = p]

\* A browser sends a request of kind k with the cookie it has.
Send(r, b, k) ==
  /\ pc[r] = "free"
  /\ kind' = [kind EXCEPT ![r] = k]
  /\ browser' = [browser EXCEPT ![r] = b]
  /\ carried' = [carried EXCEPT ![r] = cookie[b]]
  /\ IF k = "login"
       THEN /\ logins[b] < MaxLogins
            /\ logins' = [logins EXCEPT ![b] = @ + 1]
            /\ Goto(r, "exchanging")
       ELSE Goto(r, "check") /\ UNCHANGED logins
  /\ UNCHANGED <<cookie, pass, response, token, flight>>

\* The request is over, and its slot can be used again.
Release(r) ==
  /\ Goto(r, "free")
  /\ kind' = [kind EXCEPT ![r] = "api"]
  /\ browser' = [browser EXCEPT ![r] = Idle]
  /\ carried' = [carried EXCEPT ![r] = NoCookie]
  /\ pass' = [pass EXCEPT ![r] = 1]
  /\ response' = [response EXCEPT ![r] = Keep]
  /\ token' = [token EXCEPT ![r] = NoToken]

\* The browser applies the response.
Arrive(r) ==
  /\ pc[r] = "respond"
  /\ cookie' = [cookie EXCEPT ![browser[r]] = IF response[r].set THEN response[r].to ELSE @]
  /\ Release(r)
  /\ UNCHANGED <<logins, flight>>

LoseResponse(r) ==
  /\ pc[r] = "respond"
  /\ Release(r)
  /\ UNCHANGED <<cookie, logins, flight>>

\* About two hours after the token was issued.
Expire(b) ==
  /\ IsConnection(cookie[b]) /\ ~cookie[b].expired
  /\ cookie' = [cookie EXCEPT ![b].expired = TRUE]
  /\ UNCHANGED <<logins, request, pc, pass, response, token, flight>>

\* SF_COOKIE_SECRET was changed: the cookie cannot be decrypted any more.
CorruptCookie(b) ==
  /\ IsConnection(cookie[b])
  /\ cookie' = [cookie EXCEPT ![b] = Corrupt]
  /\ UNCHANGED <<logins, request, pc, pass, response, token, flight>>

-------------------------------------------------------------------------------
(* getAccessToken. *)

\* What cookies() shows the handler: the request's cookie, or what it has set.
Stored(r) == IF response[r].set THEN response[r].to ELSE carried[r]

\* getAccessToken is done: the route goes on, or the audit of its failure ends.
Return(r, t, p) ==
  /\ token' = [token EXCEPT ![r] = IF pass[r] = 1 THEN t ELSE @]
  /\ Goto(r, IF pass[r] = 1 THEN p ELSE "respond")

\* The stored token has not expired.
UseStored(r) ==
  /\ pc[r] = "check"
  /\ IsConnection(Stored(r)) /\ ~Stored(r).expired
  /\ Return(r, TokenOf(Stored(r)), "got")
  /\ UNCHANGED <<cookie, logins, request, pass, response, flight>>

\* No connection is stored; one that cannot be read is deleted.
FallBack(r) ==
  /\ pc[r] = "check"
  /\ ~IsConnection(Stored(r))
  /\ response' = [response EXCEPT ![r] = IF Stored(r) = Corrupt THEN SetTo(NoCookie) ELSE @]
  /\ Goto(r, "env")
  /\ UNCHANGED <<cookie, logins, request, pass, token, flight>>

StartRefresh(r) ==
  /\ pc[r] = "check"
  /\ IsConnection(Stored(r)) /\ Stored(r).expired
  /\ flight = "none"
  /\ flight' = r
  /\ Goto(r, "refreshing")
  /\ UNCHANGED <<cookie, logins, request, pass, response, token>>

\* Mutant: any request waits for a refresh in flight.
MutJoinRefresh(r) ==
  /\ pc[r] = "check"
  /\ IsConnection(Stored(r))
  /\ flight # "none"
  /\ Goto(r, "joined")
  /\ UNCHANGED <<cookie, logins, request, pass, response, token, flight>>

JoinRefresh(r) ==
  /\ pc[r] = "check"
  /\ IsConnection(Stored(r)) /\ Stored(r).expired
  /\ flight # "none"
  /\ Goto(r, "joined")
  /\ UNCHANGED <<cookie, logins, request, pass, response, token, flight>>

\* The requests that await the promise r has started.
Waiting(r) == {q \in Requests : q = r \/ pc[q] = "joined"}

\* Mutant: everybody who waited stores the new connection.
MutRefreshed(r) ==
  LET fresh == [Stored(r) EXCEPT !.expired = FALSE] IN
  /\ pc[r] = "refreshing"
  /\ flight' = "none"
  /\ response' = [q \in Requests |-> IF q \in Waiting(r) THEN SetTo(fresh) ELSE response[q]]
  /\ token' = [q \in Requests |->
       IF q \in Waiting(r) /\ pass[q] = 1 THEN TokenOf(fresh) ELSE token[q]]
  /\ pc' = [q \in Requests |->
       IF q \in Waiting(r) THEN (IF pass[q] = 1 THEN "got" ELSE "respond") ELSE pc[q]]
  /\ UNCHANGED <<cookie, logins, request, pass>>

\* Salesforce has issued a new token: it goes into the cookie of the request
\* that started the refresh, and to everybody who waits for the promise.
Refreshed(r) ==
  LET fresh == [Stored(r) EXCEPT !.expired = FALSE] IN
  /\ pc[r] = "refreshing"
  /\ flight' = "none"
  /\ response' = [response EXCEPT ![r] = SetTo(fresh)]
  /\ token' = [q \in Requests |->
       IF q \in Waiting(r) /\ pass[q] = 1 THEN TokenOf(fresh) ELSE token[q]]
  /\ pc' = [q \in Requests |->
       IF q \in Waiting(r) THEN (IF pass[q] = 1 THEN "got" ELSE "respond") ELSE pc[q]]
  /\ UNCHANGED <<cookie, logins, request, pass>>

\* Mutant: only the request that started the refresh hears of its failure.
MutRefreshFailedAlone(r) ==
  /\ pc[r] = "refreshing"
  /\ flight' = "none"
  /\ Goto(r, "env")
  /\ UNCHANGED <<cookie, logins, request, pass, response, token>>

\* The refresh fails for all who wait; each falls through to the environment.
RefreshFailed(r) ==
  /\ pc[r] = "refreshing"
  /\ flight' = "none"
  /\ pc' = [q \in Requests |-> IF q \in Waiting(r) THEN "env" ELSE pc[q]]
  /\ UNCHANGED <<cookie, logins, request, pass, response, token>>

\* The client_credentials grant.
GetEnvToken(r) ==
  /\ pc[r] = "env"
  /\ EnvConfigured
  /\ Return(r, EnvToken, "got")
  /\ UNCHANGED <<cookie, logins, request, pass, response, flight>>

\* getAccessToken throws: an API request is answered after a second try for the
\* audit; a logout goes on without a token.
NoEnvToken(r) ==
  /\ pc[r] = "env"
  /\ IF kind[r] = "api" /\ pass[r] = 1
       THEN Goto(r, "check") /\ pass' = [pass EXCEPT ![r] = 2] /\ UNCHANGED token
       ELSE Return(r, NoToken, "got") /\ UNCHANGED pass
  /\ UNCHANGED <<cookie, logins, request, response, flight>>

-------------------------------------------------------------------------------
(* The routes. *)

\* The handler is called; a warning that client credentials are used is only logged.
Dispatch(r) ==
  /\ pc[r] = "got" /\ kind[r] = "api"
  /\ Goto(r, "using")
  /\ UNCHANGED <<cookie, logins, request, pass, response, token, flight>>

HandlerReturns(r) ==
  /\ pc[r] = "using"
  /\ Goto(r, "respond")
  /\ UNCHANGED <<cookie, logins, request, pass, response, token, flight>>

\* The catch block asks for the token again, for the audit.
HandlerThrows(r) ==
  /\ pc[r] = "using"
  /\ pass' = [pass EXCEPT ![r] = 2]
  /\ Goto(r, "check")
  /\ UNCHANGED <<cookie, logins, request, response, token, flight>>

\* revokeAndClearConnection: Salesforce is told only if something is stored.
Disconnect(r) ==
  /\ pc[r] = "got" /\ kind[r] = "disconnect"
  /\ Goto(r, IF IsConnection(Stored(r)) THEN "revoking" ELSE "clearing")
  /\ UNCHANGED <<cookie, logins, request, pass, response, token, flight>>

\* Done or failed, the cookie is cleared anyway.
Revoke(r) ==
  /\ pc[r] = "revoking"
  /\ Goto(r, "clearing")
  /\ UNCHANGED <<cookie, logins, request, pass, response, token, flight>>

Clear(r) ==
  /\ pc[r] = "clearing" \/ (pc[r] = "got" /\ kind[r] = "logout")
  /\ response' = [response EXCEPT ![r] = SetTo(NoCookie)]
  /\ Goto(r, "respond")
  /\ UNCHANGED <<cookie, logins, request, pass, token, flight>>

\* The connection that the code of a login is exchanged for.
NewConnection(b) == [owner |-> b, login |-> logins[b], expired |-> FALSE]

\* The callback stores the new connection; or it was refused, came without a
\* code or without the domain cookie, or failed, and goes home without one.
Exchange(r) ==
  /\ pc[r] = "exchanging"
  /\ \/ response' = [response EXCEPT ![r] =
          SetTo(NewConnection(browser[r]))]
     \/ UNCHANGED response
  /\ Goto(r, "respond")
  /\ UNCHANGED <<cookie, logins, request, pass, token, flight>>

-------------------------------------------------------------------------------

Browse(r) ==
  \/ \E b \in Browsers, k \in Kinds : Send(r, b, k)
  \/ Arrive(r) \/ LoseResponse(r)

GetToken(r) ==
  \/ UseStored(r) \/ FallBack(r)
  \/ StartRefresh(r) \/ JoinRefresh(r) \/ Refreshed(r) \/ RefreshFailed(r)
  \/ GetEnvToken(r) \/ NoEnvToken(r)

Route(r) ==
  \/ Dispatch(r) \/ HandlerReturns(r) \/ HandlerThrows(r)
  \/ Disconnect(r) \/ Revoke(r) \/ Clear(r) \/ Exchange(r)

Next ==
  \/ \E r \in Requests : Browse(r) \/ GetToken(r) \/ Route(r)
  \/ \E b \in Browsers : Expire(b) \/ CorruptCookie(b)

Spec == Init /\ [][Next]_vars

-------------------------------------------------------------------------------
(* Properties. *)

\* At most one refresh is in flight, the promise is set exactly while it is,
\* and nobody waits for a promise that is not there.
OneRefresh ==
  /\ \A r \in Requests : pc[r] = "refreshing" <=> flight = r
  /\ flight = "none" => \A r \in Requests : pc[r] # "joined"

\* A browser only ever holds a connection from one of its own logins, although
\* its requests may have shared the refresh of another's.
OwnCookie ==
  \A b \in Browsers : IsConnection(cookie[b]) =>
    cookie[b].owner = b /\ cookie[b].login <= logins[b]

\* A request whose own token was still good is never served with another
\* connection's, whatever refreshes are in flight.
ValidTokenIsUsed ==
  \A r \in Requests :
    token[r].from = "oauth" /\ token[r].owner # browser[r] => carried[r].expired

\* The response of a logout or disconnect clears the cookie, even when the
\* request itself had just refreshed and stored the connection.
LogoutClears ==
  \A r \in Requests : pc[r] = "respond" /\ kind[r] \in {"logout", "disconnect"} =>
    response[r] = SetTo(NoCookie)

\* "so re-authenticating is fast but the browser session is dead": a browser
\* whose connection has been cleared gets one again only by logging in.
DeadStaysDead ==
  [][\A b \in Browsers : cookie[b] = NoCookie /\ IsConnection(cookie'[b]) =>
       \E r \in Requests : Arrive(r) /\ browser[r] = b /\ kind[r] = "login"]_vars

-------------------------------------------------------------------------------
(* The strengthening that makes the safety invariants inductive. *)

\* A cookie that can be browser b's.
Owned(k, b) == IsConnection(k) => k.owner = b /\ k.login <= logins[b]

\* Cookies under way belong to the browser they come from or go to.
OwnInv ==
  \A r \in Requests :
    Owned(carried[r], browser[r]) /\ Owned(response[r].to, browser[r])

\* Where a request can be, given its kind and pass.
PathInv ==
  \A r \in Requests :
    /\ pass[r] = 2 => kind[r] = "api"
    /\ pc[r] = "using" => kind[r] = "api"
    /\ pc[r] \in {"revoking", "clearing"} => kind[r] = "disconnect"
    /\ pc[r] = "exchanging" => kind[r] = "login" /\ logins[browser[r]] # 0
    /\ pc[r] \in {"check", "refreshing", "joined"} /\ pass[r] = 1 => response[r] = Keep
    /\ pc[r] \in {"refreshing", "joined"} => IsConnection(Stored(r)) /\ Stored(r).expired

\* A free slot is as Release leaves it.
FreeInv ==
  \A r \in Requests : pc[r] = "free" =>
    pass[r] = 1 /\ response[r] = Keep /\ token[r] = NoToken

IInv ==
  /\ TypeOK /\ OneRefresh /\ FreeInv
  /\ OwnCookie /\ OwnInv
  /\ PathInv /\ ValidTokenIsUsed /\ LogoutClears
===============================================================================
