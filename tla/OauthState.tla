----------------------------- MODULE OauthState -----------------------------
(***************************************************************************)
(* The `state` of an OAuth prompt: the decorator GuardOauth2Session around *)
(* authenticate of both strategies, and the test of req.state in the       *)
(* redirect handlers.  A prompt stores a fresh state in the cache, under a *)
(* key made of the provider and the caller's address, for TTL seconds; the *)
(* callback reads the key, then deletes it, each an await, so callbacks    *)
(* and prompts of one key, several people behind one address, interleave.  *)
(*                                                                         *)
(* The cache is the LRU of the process, which dies with it, or Redis on    *)
(* one connection.  Commands take effect in the order they are sent, so    *)
(* the un-awaited cache.set of a prompt precedes every later command; but  *)
(* it may fail after the client was redirected, and either cache may drop  *)
(* an entry that is still good.                                            *)
(***************************************************************************)
EXTENDS Naturals, FiniteSets

CONSTANTS
  Keys,       \* `OAUTH_${provider}_${ip}`
  Requests,   \* slots for callbacks being served
  TTL,        \* TTL.ONE_MINUTE
  MaxStates,  \* bound: states drawn by randomUUID
  MaxTime     \* bound: the clock

ASSUME OauthAssumption == TTL \in Nat \ {0} /\ MaxStates \in Nat /\ MaxTime \in Nat

VARIABLES
  now,
  shared,   \* ioredis.enable: the cache is Redis, not the LRU
  cache,    \* key to {} or {[state, exp]}
  drawn,    \* states drawn
  prompts,  \* [state, key, at] of the prompts whose client was redirected
  req,      \* what each callback is doing
  used,     \* history: states whose key was written or deleted since their prompt
  lost      \* history: states the cache did not keep

cacheVars == <<shared, cache, used, lost>>
vars == <<now, cacheVars, drawn, prompts, req>>

States == 1..MaxStates
Idle == [pc |-> "idle"]

TypeOK ==
  /\ now \in 0..MaxTime /\ drawn \in 0..MaxStates /\ shared \in BOOLEAN
  /\ \A k \in Keys : /\ cache[k] \subseteq [state : States, exp : Nat]
                     /\ Cardinality(cache[k]) <= 1
  /\ prompts \subseteq [state : States, key : Keys, at : 0..MaxTime]
  /\ req \in [Requests -> {Idle} \cup
       [pc : {"delete", "exchange", "redirect"}, state : States, key : Keys, ok : BOOLEAN]]
  /\ used \subseteq States /\ lost \subseteq States

Init ==
  /\ now = 0 /\ drawn = 0 /\ shared \in BOOLEAN
  /\ cache = [k \in Keys |-> {}]
  /\ prompts = {} /\ used = {} /\ lost = {}
  /\ req = [r \in Requests |-> Idle]

---------------------------------------------------------------------------

\* States of the prompts of key k.
Of(k) == {p.state : p \in {q \in prompts : q.key = k}}

\* Variant: the seconds of TTL go to a cache that counts milliseconds.
Lifetime_Millis == 0
Lifetime == TTL

Fresh == [state |-> drawn + 1, exp |-> now + Lifetime]

\* Variant: the state is part of the key.
Store_PerState(k) ==
  /\ cache' = [cache EXCEPT ![k] = @ \cup {Fresh}]
  /\ used' = used \cup Of(k)
  /\ UNCHANGED <<shared, lost>>

\* cache.set: the entry of an earlier prompt is replaced.
Store(k) ==
  /\ cache' = [cache EXCEPT ![k] = {Fresh}]
  /\ used' = used \cup Of(k)
  /\ UNCHANGED <<shared, lost>>

\* cache.set rejects: nobody waits for it, the client is sent to the provider
\* all the same.  (The rejection, unhandled, then ends the process: Restart.)
StoreFails ==
  /\ shared
  /\ lost' = lost \cup {drawn + 1}
  /\ UNCHANGED <<shared, cache, used>>

\* A fresh state is drawn, and stored if all goes well.
SetState(k) ==
  /\ drawn < MaxStates
  /\ drawn' = drawn + 1
  /\ Store(k) \/ StoreFails

\* GET google, github: the client is redirected to the provider.
Prompt(k) ==
  /\ SetState(k)
  /\ prompts' = prompts \cup {[state |-> drawn + 1, key |-> k, at |-> now]}
  /\ UNCHANGED <<now, req>>

\* A callback without `code`, the client having declined, takes the branch of
\* a prompt: a state no client was given is stored, and passport fails.
Declined(k) ==
  /\ SetState(k)
  /\ UNCHANGED <<now, prompts, req>>

Matches(k, s) == \E e \in cache[k] : now < e.exp /\ e.state = s

\* A callback with `state` and `code`: await cache.get.  It comes from the
\* address of its prompt, or (key k) from another one.
CallbackGet(r, p, k) ==
  /\ req[r] = Idle
  /\ req' = [req EXCEPT ![r] =
       [pc |-> "delete", state |-> p.state, key |-> k, ok |-> Matches(k, p.state)]]
  /\ UNCHANGED <<now, cacheVars, drawn, prompts>>

\* Variant: the entry is left to expire.
Delete_Nothing(k) == cache' = cache

\* await cache.del: of whatever the key holds by now.
Delete(k) == cache' = [cache EXCEPT ![k] = {}]

CallbackDelete(r) ==
  /\ req[r].pc = "delete"
  /\ Delete(req[r].key)
  /\ req' = [req EXCEPT ![r].pc = "exchange"]
  /\ used' = used \cup Of(req[r].key)
  /\ UNCHANGED <<now, shared, lost, drawn, prompts>>

\* GoogleStrategy: the code is exchanged and validate hands the profile on.  A
\* client may have come by a second code with the state of its prompt.
Exchange(r) ==
  /\ req[r].pc = "exchange"
  /\ req' = [req EXCEPT ![r].pc = "redirect"]
  /\ UNCHANGED <<now, cacheVars, drawn, prompts>>

\* GithubStrategy: the code was used before, or the profile is missing or without
\* an email.
ExchangeFails(r) ==
  /\ req[r].pc = "exchange"
  /\ req' = [req EXCEPT ![r] = Idle]
  /\ UNCHANGED <<now, cacheVars, drawn, prompts>>

\* googleRedirect, githubRedirect: on to the service.
Redirect(r) ==
  /\ req[r].pc = "redirect" /\ req[r].ok
  /\ req' = [req EXCEPT ![r] = Idle]
  /\ UNCHANGED <<now, cacheVars, drawn, prompts>>

\* if (!req.state): OAUTH2_STATE_INVALID
StateInvalid(r) ==
  /\ req[r].pc = "redirect" /\ ~req[r].ok
  /\ req' = [req EXCEPT ![r] = Idle]
  /\ UNCHANGED <<now, cacheVars, drawn, prompts>>

\* The client goes away, or the cache answers with an error.
Abort(r) ==
  /\ req[r] # Idle
  /\ req' = [req EXCEPT ![r] = Idle]
  /\ UNCHANGED <<now, cacheVars, drawn, prompts>>

\* The cache drops an entry: the LRU when it holds its maximum, Redis as it is
\* set up or when it restarts.
Evict(k) ==
  /\ cache[k] # {}
  /\ cache' = [cache EXCEPT ![k] = {}]
  /\ lost' = lost \cup {e.state : e \in cache[k]}
  /\ UNCHANGED <<now, shared, used, drawn, prompts, req>>

\* The process ends and starts again: the callbacks under way are lost, and the
\* cache unless it is Redis.
Restart ==
  /\ req' = [r \in Requests |-> Idle]
  /\ IF shared
     THEN UNCHANGED <<cache, lost>>
     ELSE /\ cache' = [k \in Keys |-> {}]
          /\ lost' = lost \cup {e.state : e \in UNION {cache[k] : k \in Keys}}
  /\ UNCHANGED <<now, shared, used, drawn, prompts>>

Tick ==
  /\ now < MaxTime
  /\ now' = now + 1
  /\ UNCHANGED <<cacheVars, drawn, prompts, req>>

Next ==
  \/ \E k \in Keys : Prompt(k) \/ Declined(k) \/ Evict(k)
  \/ \E r \in Requests :
       \/ \E p \in prompts, k \in Keys : CallbackGet(r, p, k)
       \/ CallbackDelete(r) \/ Exchange(r) \/ ExchangeFails(r)
       \/ Redirect(r) \/ StateInvalid(r) \/ Abort(r)
  \/ Restart \/ Tick

Spec == Init /\ [][Next]_vars

---------------------------------------------------------------------------
(* Properties *)

Reads(r) == req[r] = Idle /\ req'[r] # Idle

\* A callback finds its state only while nobody has prompted, declined or
\* come back under its key since the prompt, in time, and from its address:
\* what is once deleted or lost is not found again, though two callbacks that
\* both read before either deletes are both let through.
OnlyTheLastPromptMatches ==
  [][\A r \in Requests : Reads(r) /\ req'[r].ok =>
       \E p \in prompts : /\ p.state = req'[r].state /\ p.key = req'[r].key
                          /\ p.state \notin used \cup lost /\ now < p.at + TTL]_vars

\* A callback in time and from its prompt's address is turned away only
\* because another request used the key in between, or because the cache did
\* not keep the state: it was never stored, evicted, or gone with the process.
RefusedOnlyIfUsedOrLost ==
  [][\A r \in Requests : Reads(r) /\ ~req'[r].ok =>
       \A p \in prompts : p.state = req'[r].state /\ p.key = req'[r].key =>
         p.state \in used \cup lost \/ now >= p.at + TTL]_vars
=============================================================================
