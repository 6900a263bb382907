---------------------------- MODULE AuthSession ----------------------------
(***************************************************************************)
(* Accounts and device sessions: AuthService.oauth2, refreshToken and      *)
(* signOut behind GuardController.  A request is several awaits long: what *)
(* it read from the table `auth` or `users` is a local copy while other    *)
(* requests run.  A session is a row (user, device) of `auth` holding the  *)
(* hash of one refresh token, or null once signed out.                     *)
(*                                                                         *)
(* A token pair is a record; its number stands for the signed string, so a *)
(* stored hash verifies exactly one number.  Time counts seconds.          *)
(***************************************************************************)
EXTENDS Integers, FiniteSets

CONSTANTS
  Emails, Providers, Devices,
  Requests,     \* slots for requests being served
  RefreshAge,   \* guard.jwt.refreshMaxAge
  AccessAge,    \* guard.jwt.accessMaxAge
  MaxTokens,    \* bound: token pairs signed
  MaxTime       \* bound: the clock

ASSUME AgeAssumption ==
  /\ RefreshAge \in Nat \ {0} /\ AccessAge \in Nat \ {0}
  /\ MaxTokens \in Nat /\ MaxTime \in Nat

VARIABLES
  now,
  users,    \* the table users: [id, email, provider, active]
  auth,     \* the table auth: (user, device) to {} (null) or {pair number}
  pairs,    \* every pair signed
  held,     \* numbers of the pairs sent to a client
  req,      \* what each slot is doing
  stale,    \* history: slots that have read a user's status which changed since
  out,      \* history: sessions signed out, with no sign-in since
  retired   \* history: pair numbers a session has let go

tables == <<users, auth>>
ghosts == <<stale, out, retired>>
vars == <<now, tables, pairs, held, req, ghosts>>

Numbers == 1..MaxTokens
Sessions == Numbers \X Devices
Users == [id : Numbers, email : Emails, provider : Providers, active : BOOLEAN]
Pairs == [n : Numbers, sub : Numbers, device : Devices, parent : 0..MaxTokens,
          provider : Providers, asked : Nat, iat : Nat, exp : Nat]
Idle == [pc |-> "idle"]

SessionOf(p) == <<p.sub, p.device>>

TypeOK ==
  /\ now \in 0..MaxTime
  /\ users \subseteq Users
  /\ DOMAIN auth \subseteq Sessions
  /\ \A s \in DOMAIN auth :
       auth[s] \subseteq {p.n : p \in {q \in pairs : SessionOf(q) = s}} /\ Cardinality(auth[s]) <= 1
  /\ pairs \subseteq Pairs /\ held \subseteq Numbers
  /\ \A r \in Requests :
       req[r].pc \in {"idle", "sign", "store", "revoke", "oauth"}
  /\ stale \subseteq Requests /\ out \subseteq Sessions /\ retired \subseteq Numbers

Init ==
  /\ now = 0
  /\ users = {} /\ auth = << >>
  /\ pairs = {} /\ held = {}
  /\ req = [r \in Requests |-> Idle]
  /\ stale = {} /\ out = {} /\ retired = {}

---------------------------------------------------------------------------

HeldPairs == {p \in pairs : p.n \in held}

\* Variant: signed without jwtid, equal payloads give equal strings.
NewNumber_NoJwtid(sub, device, iat, exp) ==
  LET same == {p \in pairs : p.sub = sub /\ p.device = device /\ p.iat = iat /\ p.exp = exp}
  IN IF same = {} THEN Cardinality(pairs) + 1 ELSE (CHOOSE p \in same : TRUE).n

\* jwtid: randomUUID() makes every signed string a new one.
NewNumber(sub, device, iat, exp) == Cardinality(pairs) + 1

\* Variant: the status of the user is not looked at.
DeviceExistsAndActive_AnyStatus(s) == s \in DOMAIN auth

\* isDeviceExistAndActive
DeviceExistsAndActive(s) ==
  s \in DOMAIN auth /\ \E u \in users : u.id = s[1] /\ u.active

\* Requests that have read the status of user u and will sign a pair.
ReadersOf(u) == {r \in Requests : \/ req[r].pc = "sign" /\ req[r].session[1] = u.id
                                  \/ req[r].pc = "oauth" /\ u \in req[r].user}

\* History: slot r reads afresh, has signed or is done.
Fresh(r) == stale' = stale \ {r}

\* What the session s stores, nothing if it has no row, and the row written.
Stored(s) == IF s \in DOMAIN auth THEN auth[s] ELSE {}
Upsert(s, value) == [t \in DOMAIN auth \cup {s} |-> IF t = s THEN value ELSE auth[t]]

\* Variant: the new token is accepted beside the old one.
WriteAuth_Push(s, value) ==
  /\ auth' = Upsert(s, value \cup Stored(s))
  /\ UNCHANGED retired

WriteAuth(s, value) ==
  /\ auth' = Upsert(s, value)
  /\ retired' = retired \cup Stored(s)

\* The pair is answered; if the answer is lost, the client just never uses it.
Answer(n) == held' = held \cup {n}
Done(r) == req' = [req EXCEPT ![r] = Idle]

---------------------------------------------------------------------------
(* POST refresh-token *)

\* Variant: a session without a stored token is not refused.
Accepts_Null(p) == auth[SessionOf(p)] = {} \/ auth[SessionOf(p)] = {p.n}

\* `!auth.refreshToken || scryptVerify(token, auth.refreshToken) === false`
Accepts(p) == auth[SessionOf(p)] = {p.n}

\* JwtRefreshStrategy: cookie or header, the signature, the expiry.
RefreshAlive(p) == now < p.exp

\* The guard passed, the controller takes what is left of the token's life and
\* reads the session.  It looks for the token under the cookie 'refresh-jwt',
\* which nothing sets, and else in the header: a request with the cookie
\* 'refresh_token' alone dies of a TypeError before it has read anything.
RefreshRead(r, p) ==
  /\ req[r] = Idle /\ RefreshAlive(p)
  /\ DeviceExistsAndActive(SessionOf(p)) /\ Accepts(p)
  /\ req' = [req EXCEPT ![r] =
       [pc |-> "sign", session |-> SessionOf(p), token |-> p.n,
        maxAge |-> p.exp - now, asked |-> now]]
  /\ Fresh(r)
  /\ UNCHANGED <<now, tables, pairs, held, out, retired>>

\* Variant: maxAge is not handed to signed, a full life is given.
Expiry_Full(maxAge) == now + RefreshAge
Expiry(maxAge) == now + maxAge

\* signed: iat and exp count from the moment of signing.
RefreshSign(r) ==
  /\ req[r].pc = "sign"
  /\ LET old == CHOOSE p \in pairs : p.n = req[r].token
         exp == Expiry(req[r].maxAge)
         n   == NewNumber(old.sub, old.device, now, exp) IN
     /\ n \in Numbers
     /\ pairs' = pairs \cup
          {[n |-> n, sub |-> old.sub, device |-> old.device, parent |-> old.n,
            provider |-> old.provider, asked |-> req[r].asked, iat |-> now, exp |-> exp]}
     /\ req' = [req EXCEPT ![r] =
          [pc |-> "store", session |-> req[r].session, new |-> n]]
  /\ Fresh(r)
  /\ UNCHANGED <<now, tables, held, out, retired>>

RefreshStore(r) ==
  /\ req[r].pc = "store"
  /\ WriteAuth(req[r].session, {req[r].new})
  /\ Answer(req[r].new)
  /\ Done(r)
  /\ Fresh(r)
  /\ UNCHANGED <<now, users, pairs, out>>

---------------------------------------------------------------------------
(* POST sign-out *)

\* JwtAccessStrategy: nothing but the access token itself is looked at.
AccessAlive(p) == now < p.iat + AccessAge

SignOutRead(r, p) ==
  /\ req[r] = Idle /\ AccessAlive(p)
  /\ DeviceExistsAndActive(SessionOf(p))
  /\ req' = [req EXCEPT ![r] = [pc |-> "revoke", session |-> SessionOf(p)]]
  /\ Fresh(r)
  /\ UNCHANGED <<now, tables, pairs, held, out, retired>>

SignOutStore(r) ==
  /\ req[r].pc = "revoke"
  /\ WriteAuth(req[r].session, {})
  /\ Done(r)
  /\ Fresh(r)
  /\ out' = out \cup {req[r].session}
  /\ UNCHANGED <<now, users, pairs, held>>

---------------------------------------------------------------------------
(* GET google-redirect, github-redirect: AuthService.oauth2 *)

OauthRead(r, email, provider, device) ==
  /\ req[r] = Idle
  /\ req' = [req EXCEPT ![r] =
       [pc |-> "oauth", email |-> email, provider |-> provider, device |-> device,
        user |-> {u \in users : u.email = email}, iat |-> now]]
  /\ Fresh(r)
  /\ UNCHANGED <<now, tables, pairs, held, out, retired>>

\* A new pair for the session, signed after the read, stored and returned.
SignIn(r, n, sub) ==
  LET s == <<sub, req[r].device>> IN
  /\ pairs' = pairs \cup
       {[n |-> n, sub |-> sub, device |-> req[r].device, parent |-> 0,
         provider |-> req[r].provider, asked |-> req[r].iat, iat |-> req[r].iat,
          exp |-> req[r].iat + RefreshAge]}
  /\ WriteAuth(s, {n})
  /\ Answer(n)
  /\ Done(r)
  /\ Fresh(r)
  /\ out' = out \ {s}

\* A user was found: provider and status as they were read decide; upsert.
OauthKnown(r) ==
  /\ req[r].pc = "oauth"
  /\ \E u \in req[r].user :
       LET n == NewNumber(u.id, req[r].device, req[r].iat, req[r].iat + RefreshAge) IN
       /\ u.provider = req[r].provider /\ u.active
       /\ n \in Numbers
       /\ SignIn(r, n, u.id)
  /\ UNCHANGED <<now, users>>

\* Variant: the user is created or connected by email.
OauthNew_Upsert(r) ==
  /\ req[r].pc = "oauth" /\ req[r].user = {}
  /\ LET n == NewNumber(0, req[r].device, req[r].iat, req[r].iat + RefreshAge)
         same == {u \in users : u.email = req[r].email} IN
     /\ n \in Numbers
     /\ IF same = {}
        THEN /\ users' = users \cup {[id |-> n, email |-> req[r].email,
                                      provider |-> req[r].provider, active |-> FALSE]}
             /\ SignIn(r, n, n)
        ELSE /\ users' = users
             /\ SignIn(r, n, (CHOOSE u \in same : TRUE).id)
  /\ UNCHANGED now

\* No user was found: create, which the unique email refuses if another
\* request was first; status has its default, INACTIVE.
OauthNew(r) ==
  /\ req[r].pc = "oauth" /\ req[r].user = {}
  /\ \A u \in users : u.email # req[r].email
  /\ LET n == NewNumber(0, req[r].device, req[r].iat, req[r].iat + RefreshAge) IN
     /\ n \in Numbers
     /\ users' = users \cup {[id |-> n, email |-> req[r].email,
                              provider |-> req[r].provider, active |-> FALSE]}
     /\ SignIn(r, n, n)
  /\ UNCHANGED now

\* EMAIL_EXIST, USER_HAS_BEEN_DEACTIVATE, or P2002 from the unique email.
OauthRefused(r) ==
  /\ req[r].pc = "oauth"
  /\ \/ \E u \in req[r].user : u.provider # req[r].provider \/ ~u.active
     \/ req[r].user = {} /\ \E u \in users : u.email = req[r].email
  /\ Done(r)
  /\ Fresh(r)
  /\ UNCHANGED <<now, tables, pairs, held, out, retired>>

---------------------------------------------------------------------------
(* Around the requests *)

\* The client or the process goes away between two awaits.
Abort(r) ==
  /\ req[r] # Idle
  /\ Done(r)
  /\ Fresh(r)
  /\ UNCHANGED <<now, tables, pairs, held, out, retired>>

\* Nothing in the repository changes a status: an operator does.
SetActive(u) ==
  /\ users' = (users \ {u}) \cup {[u EXCEPT !.active = ~@]}
  /\ stale' = stale \cup ReadersOf(u)
  /\ UNCHANGED <<now, auth, pairs, held, req, out, retired>>

Tick ==
  /\ now < MaxTime
  /\ now' = now + 1
  /\ UNCHANGED <<tables, pairs, held, req, ghosts>>

Next ==
  \/ \E r \in Requests :
       \/ \E p \in HeldPairs : RefreshRead(r, p)
       \/ RefreshSign(r) \/ RefreshStore(r)
       \/ \E p \in HeldPairs : SignOutRead(r, p)
       \/ SignOutStore(r)
       \/ \E e \in Emails, v \in Providers, d \in Devices : OauthRead(r, e, v, d)
       \/ OauthKnown(r) \/ OauthNew(r) \/ OauthRefused(r)
       \/ Abort(r)
  \/ \E u \in users : SetActive(u)
  \/ Tick

Spec == Init /\ [][Next]_vars

---------------------------------------------------------------------------
(* Properties *)

\* However sign-ups of one address race, it has one account, and no pair is
\* ever signed for an account by way of another provider than its own.
OneAccountPerEmail ==
  /\ \A u, v \in users : u.email = v.email => u = v
  /\ \A p \in pairs : \A u \in users : u.id = p.sub => u.provider = p.provider

\* A pair a session has let go, by rotation, sign-in or sign-out, is never
\* accepted again.
RetiredPairsStayRetired ==
  \A s \in DOMAIN auth : auth[s] \cap retired = {}

\* Rotation does not shorten a session, and prolongs it by no more than the
\* request itself took between reading the clock and signing.
ExpiryOnlyDrifts ==
  \A p, q \in pairs : q.parent = p.n => q.exp - p.exp = q.iat - q.asked

\* The table as its abstract specification sees it.
Table == INSTANCE SessionTable WITH
  Slots <- Requests,
  stored <- auth,
  entering <- {r \in Requests : req[r].pc = "oauth"},
  refreshing <- {<<r, req[r].session>> : r \in {q \in Requests : req[q].pc \in {"sign", "store"}}}

\* A session is written by the sign-ins, sign-outs and accepted refreshes of
\* that very session, once by each: one that was signed out comes back by a
\* new sign-in, or by a refresh that was accepted before.
TableIsImplemented == Table!Spec

\* A deactivated user is given a pair only by a request that read the status
\* before the deactivation.  (A sign-up is not refused: its user is created
\* INACTIVE and the pair handed out, so the user is not one of before.)
OnlyAStaleReadServesInactive ==
  [][\A p \in pairs' \ pairs : \A u \in users : u.id = p.sub /\ ~u.active =>
       \E r \in stale : \/ req[r].pc = "sign" /\ req[r].session = SessionOf(p)
                        \/ req[r].pc = "oauth" /\ req[r].user # {}]_vars

---------------------------------------------------------------------------
(* What documents and comments say and the code does not do. *)

\* auth.service.spec.ts:105 "data token has been revoked", guard README:126
\* "revoke if user sign-out": a session signed out stays so until a sign-in.
SignOutRevokes == \A s \in out : auth[s] = {}
=============================================================================
