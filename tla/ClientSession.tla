--------------------------- MODULE ClientSession ---------------------------
(***************************************************************************)
(* One signed-in device seen from its client: which token the guards take  *)
(* from a request, what an answer leaves in the browser's cookies or with  *)
(* the app, and how that agrees with the session the server keeps.  A      *)
(* client has several requests under way (two tabs, a retry), its answers  *)
(* arrive in any order or not at all, and cookies and tokens expire.       *)
(*                                                                         *)
(* The server's side of the session is AuthSession's, here for one row of  *)
(* `auth`.  A pair of tokens is its number.  Tokens of other issuers, and  *)
(* claims not valid yet, which this server never signs, are left out.      *)
(***************************************************************************)
EXTENDS Naturals, Sequences

CONSTANTS
  Requests,     \* slots for requests under way
  Carriers,     \* ways to send tokens: "cookie", "header", "both"
  RefreshAge,   \* guard.jwt.refreshMaxAge
  AccessAge,    \* guard.jwt.accessMaxAge
  MaxPairs,     \* bound: pairs signed
  MaxTime       \* bound: the clock

ASSUME ClientAssumption ==
  /\ Carriers \subseteq {"cookie", "header", "both"}
  /\ RefreshAge \in Nat \ {0} /\ AccessAge \in Nat \ {0}
  /\ MaxPairs \in Nat /\ MaxTime \in Nat

VARIABLES
  now,
  carrier,   \* how this client sends its tokens
  pairs,     \* pairs signed: [access, refresh], when each expires
  stored,    \* auth.refreshToken: {} (null) or {number}
  jar,       \* the browser's cookies: {} or {[pair, until]} each
  app,       \* the pair kept from the body of an answer: {} or {number}
  req,       \* the requests under way
  closed,    \* history: when the session was closed, 0 while it is open
  trouble    \* history: the last change was answered to one of several requests, or its answer was lost

vars == <<now, carrier, pairs, stored, jar, app, req, closed, trouble>>
client == <<carrier, jar, app, trouble>>
server == <<pairs, stored, closed>>

Idle == [pc |-> "idle"]
NoCookies == [access |-> {}, refresh |-> {}]
Kinds == {"sign-in", "refresh", "sign-out", "read"}
Codes == {"ACCESS_TOKEN_REQUIRE", "ACCESS_TOKEN_EXPIRED", "REFRESH_TOKEN_REQUIRE",
          "REFRESH_TOKEN_EXPIRED", "REFRESH_TOKEN_REVOKED", "TypeError"}
Answers == Codes \cup {"OK", "pair", "signed out"}
Option(S) == {{}} \cup {{x} : x \in S}

\* Requests whose answer changes what the client holds.
Changing == {r \in Requests : req[r].pc # "idle" /\ req[r].kind # "read"}

TypeOK ==
  /\ now \in 0..MaxTime /\ closed \in 0..MaxTime
  /\ carrier \in Carriers
  /\ pairs \in Seq([access : Nat, refresh : Nat]) /\ Len(pairs) <= MaxPairs
  /\ stored \in Option(DOMAIN pairs) /\ app \in Option(DOMAIN pairs)
  /\ \A which \in {"access", "refresh"} :
       jar[which] \in Option([pair : DOMAIN pairs, until : 0..MaxTime + RefreshAge + AccessAge])
  /\ \A r \in Requests :
       \/ req[r] = Idle
       \/ /\ req[r].kind \in Kinds
          /\ req[r].pc \in {"guard", "verify", "sign", "store", "revoke", "answered"}
          /\ req[r].pc = "answered" => req[r].answer \in Answers
  /\ trouble \in BOOLEAN

Init ==
  /\ now = 0
  /\ carrier \in Carriers
  /\ pairs = <<>> /\ stored = {} /\ closed = 0
  /\ jar = NoCookies /\ app = {}
  /\ req = [r \in Requests |-> Idle]
  /\ trouble = FALSE

---------------------------------------------------------------------------
(* The client *)

TokenOf(kind) == IF kind = "refresh" THEN "refresh" ELSE "access"

\* A request takes what the client holds along.  A sign-in needs no token; its
\* way through the provider is OauthState.
Send(r, kind) ==
  /\ req[r] = Idle
  /\ req' = [s \in Requests |->
       IF s = r
       THEN IF kind = "sign-in"
            THEN [pc |-> "sign", kind |-> kind, life |-> RefreshAge, alone |-> Changing = {}]
            ELSE [pc |-> "guard", kind |-> kind, alone |-> Changing = {},
                  cookie |-> {c.pair : c \in jar[TokenOf(kind)]}, header |-> app]
       ELSE IF s \in Changing /\ kind # "read"
       THEN [req[s] EXCEPT !.alone = FALSE]
       ELSE req[s]]
  /\ UNCHANGED <<now, client, server>>

---------------------------------------------------------------------------
(* The guards *)

\* jwtFromRequest: the cookie before the header.
Presented(r) == IF req[r].cookie # {} THEN req[r].cookie ELSE req[r].header

Go(r, step) == req' = [req EXCEPT ![r] = step]
Answer(r, answer) ==
  Go(r, [pc |-> "answered", kind |-> req[r].kind, alone |-> req[r].alone, answer |-> answer])

\* ignoreExpiration: false
Alive(n, which) == now < pairs[n][which]

\* handleRequest of the guard, then the AppException behind HttpExceptionFilter.
Refused(r) ==
  \/ /\ Presented(r) = {}
     /\ Answer(r, IF req[r].kind = "refresh" THEN "REFRESH_TOKEN_REQUIRE" ELSE "ACCESS_TOKEN_REQUIRE")
  \/ /\ \E n \in Presented(r) : ~Alive(n, TokenOf(req[r].kind))
     /\ Answer(r, IF req[r].kind = "refresh" THEN "REFRESH_TOKEN_EXPIRED" ELSE "ACCESS_TOKEN_EXPIRED")

\* The guards let the request through to its controller: no route has @Roles,
\* so RoleGuard passes it on.  Reads of one's own tasks or profile look at
\* nothing else.  refreshToken computes what is left of the token presented
\* and takes the token from the header, for want of a cookie 'refresh-jwt'.
Passed(r) ==
  \E n \in Presented(r) :
    /\ Alive(n, TokenOf(req[r].kind))
    /\ CASE req[r].kind = "read" -> Answer(r, "OK")
         [] req[r].kind = "sign-out" ->
              Go(r, [pc |-> "revoke", kind |-> "sign-out", alone |-> req[r].alone])
         [] req[r].kind = "refresh" ->
              IF req[r].header = {} THEN Answer(r, "TypeError")
              ELSE Go(r, [pc |-> "verify", kind |-> "refresh", alone |-> req[r].alone,
                          token |-> req[r].header, life |-> pairs[n].refresh - now])

Guard(r) ==
  /\ req[r].pc = "guard"
  /\ Refused(r) \/ Passed(r)
  /\ UNCHANGED <<now, client, server>>

---------------------------------------------------------------------------
(* The handlers *)

\* Variant: the stored hash is not compared.
Verify_AnyToken(r) ==
  /\ req[r].pc = "verify"
  /\ Go(r, [pc |-> "sign", kind |-> "refresh", alone |-> req[r].alone, life |-> req[r].life])
  /\ UNCHANGED <<now, client, server>>

\* refreshToken: the session is read and its hash compared.
Verify(r) ==
  /\ req[r].pc = "verify"
  /\ IF stored = req[r].token
     THEN Go(r, [pc |-> "sign", kind |-> "refresh", alone |-> req[r].alone, life |-> req[r].life])
     ELSE Answer(r, "REFRESH_TOKEN_REVOKED")
  /\ UNCHANGED <<now, client, server>>

\* Variant: the remaining life is given to both tokens.
Signed_OneAge(life) == [access |-> now + life, refresh |-> now + life]
Signed(life) == [access |-> now + AccessAge, refresh |-> now + life]

Sign(r) ==
  /\ req[r].pc = "sign"
  /\ Len(pairs) < MaxPairs
  /\ pairs' = Append(pairs, Signed(req[r].life))
  /\ Go(r, [pc |-> "store", kind |-> req[r].kind, alone |-> req[r].alone,
            life |-> req[r].life, pair |-> {Len(pairs) + 1}])
  /\ UNCHANGED <<now, client, stored, closed>>

SetCookies(r) ==
  Go(r, [pc |-> "answered", kind |-> req[r].kind, alone |-> req[r].alone,
         life |-> req[r].life, pair |-> req[r].pair, answer |-> "pair"])

\* Variant: refreshToken does not update the session.
Store_SignInOnly(r) ==
  /\ req[r].pc = "store"
  /\ stored' = IF req[r].kind = "sign-in" THEN req[r].pair ELSE stored
  /\ closed' = 0
  /\ SetCookies(r)
  /\ UNCHANGED <<now, client, pairs>>

\* Variant: the new token is accepted beside the old one.
Store_Push(r) ==
  /\ req[r].pc = "store"
  /\ stored' = stored \cup req[r].pair
  /\ closed' = 0
  /\ SetCookies(r)
  /\ UNCHANGED <<now, client, pairs>>

\* One update of the row, then the answer with both cookies.
Store(r) ==
  /\ req[r].pc = "store"
  /\ stored' = req[r].pair
  /\ closed' = 0
  /\ SetCookies(r)
  /\ UNCHANGED <<now, client, pairs>>

\* signOut, for an active user
Revoke(r) ==
  /\ req[r].pc = "revoke"
  /\ stored' = {}
  /\ closed' = now
  /\ Answer(r, "signed out")
  /\ UNCHANGED <<now, client, pairs>>

---------------------------------------------------------------------------
(* Answers *)

\* Variant: the two ages are swapped.
SetCookie_Swapped(pair, maxAgeRefresh, maxAgeAccess) ==
  [access |-> {[pair |-> n, until |-> now + maxAgeRefresh] : n \in pair},
   refresh |-> {[pair |-> n, until |-> now + maxAgeAccess] : n \in pair}]

\* setCookie: Max-Age counts from the arrival; without a pair both are removed.
SetCookie(pair, maxAgeRefresh, maxAgeAccess) ==
  [access |-> {[pair |-> n, until |-> now + maxAgeAccess] : n \in pair},
   refresh |-> {[pair |-> n, until |-> now + maxAgeRefresh] : n \in pair}]

\* The answer to a request that has written the session.
Final(r) == req[r].pc = "answered" /\ req[r].answer \in {"pair", "signed out"}

\* A pair replaces what the client holds, a sign-out removes it, and so it
\* does in a browser and in an app; errors change nothing.
Deliver(r) ==
  /\ req[r].pc = "answered"
  /\ CASE req[r].answer = "pair" ->
            /\ jar' = IF carrier = "header" THEN jar
                      ELSE SetCookie(req[r].pair, req[r].life, AccessAge)
            /\ app' = IF carrier = "cookie" THEN app ELSE req[r].pair
       [] req[r].answer = "signed out" -> jar' = SetCookie({}, 0, 0) /\ app' = {}
       [] OTHER -> UNCHANGED <<jar, app>>
  /\ trouble' = IF Final(r) THEN ~req[r].alone ELSE trouble
  /\ req' = [req EXCEPT ![r] = Idle]
  /\ UNCHANGED <<now, carrier, server>>

\* The connection or the process goes.  Before the session is written this
\* costs nothing; after it the client does not know.
Lose(r) ==
  /\ req[r].pc # "idle"
  /\ trouble' = (trouble \/ Final(r))
  /\ req' = [req EXCEPT ![r] = Idle]
  /\ UNCHANGED <<now, carrier, jar, app, server>>

\* Browsers drop cookies whose time is over.
Tick ==
  /\ now < MaxTime
  /\ now' = now + 1
  /\ jar' = [which \in DOMAIN jar |-> {c \in jar[which] : now' < c.until}]
  /\ UNCHANGED <<carrier, app, req, server, trouble>>

Next ==
  \/ \E r \in Requests :
       \/ \E kind \in Kinds : Send(r, kind)
       \/ Guard(r) \/ Verify(r) \/ Sign(r) \/ Store(r) \/ Revoke(r)
       \/ Deliver(r) \/ Lose(r)
  \/ Tick

Spec == Init /\ [][Next]_vars

---------------------------------------------------------------------------
(* Properties *)

\* A client that changes its session by one request at a time, and has had the
\* answer to each since it signed in, holds the very pair the server stored,
\* nothing once it has signed out: it is never locked out and keeps no tokens
\* of a session that is closed.  Browsers may have dropped a cookie.
ClientAndServerAgree ==
  ~trouble /\ Changing = {} =>
    /\ carrier # "cookie" => app = stored
    /\ \A which \in DOMAIN jar : {c.pair : c \in jar[which]} \subseteq stored

\* A browser never drops a token that is still good: the ages of the cookies,
\* set by the controller, fit those of the tokens, set by the service earlier.
CookiesOutliveTheirTokens ==
  \A which \in DOMAIN jar : \A c \in jar[which] : c.until >= pairs[c.pair][which]

\* An access token cannot be revoked, but it serves no request later than
\* its age after the session was closed, whichever pair it is of.
AccessEndsWithItsAge ==
  [][\A r \in Requests :
       req[r].pc = "guard" /\ req'[r].pc = "answered" /\ req'[r].answer = "OK" =>
         stored # {} \/ now < closed + AccessAge]_vars

\* The server's side, as AuthSession's abstract specification sees it.
Serving(r, kind) == req[r].pc \in {"sign", "store"} /\ req[r].kind = kind
Table == INSTANCE SessionTable WITH
  Slots <- Requests,
  stored <- [s \in {"device"} |-> stored],
  entering <- {r \in Requests : Serving(r, "sign-in")},
  refreshing <- {r \in Requests : Serving(r, "refresh")} \X {"device"}

\* Whatever the client sends, loses and repeats, its session changes as
\* AuthSession's do: this server is that one.
TableIsImplemented == Table!Spec
=============================================================================
