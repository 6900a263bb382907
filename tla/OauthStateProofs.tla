-------------------------- MODULE OauthStateProofs --------------------------
(***************************************************************************)
(* Theorems about OauthState, for any keys, any number of callbacks at     *)
(* once and any lifetime of a state.                                       *)
(***************************************************************************)
EXTENDS OauthState, FiniteSetTheorems, TLAPS

---------------------------------------------------------------------------
(* The inductive invariant *)

\* No two prompts were given one state.
PromptsOK ==
  /\ \A p \in prompts : p.state <= drawn
  /\ \A p, q \in prompts : p.state = q.state => p = q
  /\ \A s \in used \cup lost : s <= drawn

\* What a key holds belongs to the last prompt of that key, untouched since.
CacheOK ==
  /\ DOMAIN cache = Keys
  /\ \A k \in Keys : \A e \in cache[k] :
       /\ e.state <= drawn
       /\ \A p \in prompts : p.state = e.state =>
            p.key = k /\ e.exp = p.at + TTL /\ p.state \notin used \cup lost

\* While nobody has touched its key and the cache keeps it, the state of a
\* prompt is there.
KeptOK ==
  \A p \in prompts : p.state \notin used \cup lost =>
    \E e \in cache[p.key] : e.state = p.state /\ e.exp = p.at + TTL

IInv == TypeOK /\ PromptsOK /\ CacheOK /\ KeptOK

---------------------------------------------------------------------------

LEMMA InitOK == Init => IInv
<1> SUFFICES ASSUME Init PROVE IInv
  OBVIOUS
<1>1. \A k \in Keys : cache[k] = {} /\ Cardinality(cache[k]) = 0
  BY FS_EmptySet DEF Init
<1>2. TypeOK
  BY <1>1, OauthAssumption DEF Init, TypeOK
<1> QED BY <1>1, <1>2 DEF Init, IInv, PromptsOK, CacheOK, KeptOK

\* Steps that leave the cache and the prompts alone.
LEMMA SlotStep ==
  ASSUME IInv, UNCHANGED <<cacheVars, drawn, prompts>>, now' \in 0..MaxTime,
         req' = req \/ \E r \in Requests :
           \E x \in {Idle} \cup [pc : {"delete", "exchange", "redirect"},
                                state : States, key : Keys, ok : BOOLEAN] :
             req' = [req EXCEPT ![r] = x]
  PROVE  IInv'
<1>1. TypeOK'
  BY DEF IInv, TypeOK, cacheVars
<1>2. PromptsOK' /\ CacheOK' /\ KeptOK'
  BY DEF IInv, PromptsOK, CacheOK, KeptOK, cacheVars
<1> QED BY <1>1, <1>2 DEF IInv

\* A key is written with a fresh state, which a prompt of that key was given or
\* nobody was.
LEMMA StoreStep ==
  ASSUME IInv, NEW k \in Keys, drawn < MaxStates, drawn' = drawn + 1, Store(k),
         UNCHANGED <<now, req>>,
         prompts' = prompts \/
           prompts' = prompts \cup {[state |-> drawn + 1, key |-> k, at |-> now]}
  PROVE  IInv'
<1> PICK new : new = [state |-> drawn + 1, exp |-> now + TTL]
  OBVIOUS
<1>1. /\ drawn < MaxStates /\ drawn' = drawn + 1
      /\ cache' = [cache EXCEPT ![k] = {new}] /\ used' = used \cup Of(k)
      /\ UNCHANGED <<shared, lost>>
  BY DEF Store, Fresh, Lifetime
<1>2. drawn \in Nat /\ now \in Nat /\ now \in 0..MaxTime /\ drawn + 1 \in States /\ TTL \in Nat
  BY <1>1, OauthAssumption DEF IInv, TypeOK, States
<1>3. \A j \in Keys : cache'[j] = IF j = k THEN {new} ELSE cache[j]
  BY <1>1 DEF IInv, CacheOK
<1>4. /\ prompts \subseteq prompts' /\ \A p \in prompts : p.state <= drawn /\ p.state \in Nat
      /\ \A p \in prompts' \ prompts : p.state = drawn + 1 /\ p.key = k /\ p.at = now
      /\ \A p, q \in prompts' \ prompts : p = q
  BY DEF IInv, TypeOK, PromptsOK, States
<1>5. \A s \in used' \cup lost' : s \in States /\ s <= drawn
  <2>1. \A s \in used \cup lost : s \in States /\ s <= drawn
    BY DEF IInv, TypeOK, PromptsOK
  <2>2. \A s \in Of(k) : s \in States /\ s <= drawn
    BY DEF Of, IInv, TypeOK, PromptsOK
  <2> QED BY <1>1, <2>1, <2>2
<1>6. TypeOK'
  <2>1. \A j \in Keys : cache'[j] \subseteq [state : States, exp : Nat] /\ Cardinality(cache'[j]) <= 1
    <3>1. {new} \subseteq [state : States, exp : Nat] /\ Cardinality({new}) = 1
      <4>1. now + TTL \in Nat /\ drawn + 1 \in States
        BY <1>2
      <4>2. new \in [state : States, exp : Nat]
        BY <4>1
      <4> QED BY <4>2, FS_Singleton
    <3> QED BY <1>3, <3>1 DEF IInv, TypeOK
  <2>2. prompts' \subseteq [state : States, key : Keys, at : 0..MaxTime]
    BY <1>2 DEF IInv, TypeOK
  <2>3. drawn' \in 0..MaxStates
    BY <1>1, <1>2, OauthAssumption
  <2>4. used' \subseteq States /\ lost' \subseteq States
    BY <1>5
  <2> QED BY <1>1, <1>2, <2>1, <2>2, <2>3, <2>4 DEF IInv, TypeOK
<1>7. PromptsOK'
  <2>1. \A p \in prompts' : p.state <= drawn + 1
    BY <1>2, <1>4
  <2>2. \A p, q \in prompts' : p.state = q.state => p = q
    <3> SUFFICES ASSUME NEW p \in prompts', NEW q \in prompts', p.state = q.state PROVE p = q
      OBVIOUS
    <3>1. p \in prompts <=> q \in prompts
      BY <1>2, <1>4
    <3> QED BY <1>4, <3>1 DEF IInv, PromptsOK
  <2>3. \A s \in used' \cup lost' : s <= drawn + 1
    BY <1>2, <1>5 DEF States
  <2> QED BY <1>1, <2>1, <2>2, <2>3 DEF PromptsOK
<1>8. \A p \in prompts : p.key # k => p.state \notin Of(k)
  BY DEF Of, IInv, PromptsOK
<1>9. CacheOK'
  <2> SUFFICES ASSUME NEW j \in Keys, NEW e \in cache'[j]
               PROVE  /\ e.state <= drawn'
                      /\ \A p \in prompts' : p.state = e.state =>
                           p.key = j /\ e.exp = p.at + TTL /\ p.state \notin used' \cup lost'
    BY <1>1 DEF CacheOK, IInv
  <2>1. CASE j = k
    <3>1. e = new /\ e.state = drawn + 1 /\ e.exp = now + TTL
      BY <1>3, <2>1
    <3>2. drawn + 1 \notin used' \cup lost'
      BY <1>2, <1>5
    <3> QED BY <1>1, <1>2, <1>4, <2>1, <3>1, <3>2
  <2>2. CASE j # k
    <3>1. e \in cache[j] /\ e.state <= drawn /\ e.state \in Nat
      BY <1>3, <2>2 DEF IInv, TypeOK, CacheOK, States
    <3>2. \A p \in prompts' : p.state = e.state => p \in prompts
      BY <1>2, <1>4, <3>1
    <3> QED BY <1>1, <1>2, <1>8, <2>2, <3>1, <3>2 DEF IInv, CacheOK
  <2> QED BY <2>1, <2>2
<1>10. KeptOK'
  <2> SUFFICES ASSUME NEW p \in prompts', p.state \notin used' \cup lost'
               PROVE  \E e \in cache'[p.key] : e.state = p.state /\ e.exp = p.at + TTL
    BY DEF KeptOK
  <2>1. CASE p \in prompts
    <3>1. p.key # k
      BY <1>1, <2>1 DEF Of
    <3>2. p.key \in Keys
      BY <2>1 DEF IInv, TypeOK
    <3> QED BY <1>1, <1>3, <2>1, <3>1, <3>2 DEF IInv, KeptOK
  <2>2. CASE p \notin prompts
    BY <1>3, <1>4, <2>2
  <2> QED BY <2>1, <2>2
<1> QED BY <1>6, <1>7, <1>9, <1>10 DEF IInv

\* Nothing is written: a prompt may hold the state, and it counts as lost.
LEMMA StoreFailsStep ==
  ASSUME IInv, NEW k \in Keys, drawn < MaxStates, drawn' = drawn + 1, StoreFails,
         UNCHANGED <<now, req>>,
         prompts' = prompts \/
           prompts' = prompts \cup {[state |-> drawn + 1, key |-> k, at |-> now]}
  PROVE  IInv'
<1>1. UNCHANGED <<shared, cache, used>> /\ lost' = lost \cup {drawn + 1}
  BY DEF StoreFails
<1>2. drawn \in Nat /\ now \in 0..MaxTime /\ drawn + 1 \in States /\ drawn + 1 \in 0..MaxStates
  BY OauthAssumption DEF IInv, TypeOK, States
<1>3. /\ \A p \in prompts : p.state <= drawn /\ p.state \in Nat
      /\ \A p \in prompts' \ prompts : p.state = drawn + 1
      /\ \A p, q \in prompts' \ prompts : p = q
  BY DEF IInv, TypeOK, PromptsOK, States
<1>4. \A s \in used \cup lost : s \in Nat /\ s <= drawn
  BY DEF IInv, TypeOK, PromptsOK, States
<1>5. TypeOK'
  <2>1. prompts' \subseteq [state : States, key : Keys, at : 0..MaxTime]
    BY <1>2 DEF IInv, TypeOK
  <2> QED BY <1>1, <1>2, <2>1 DEF IInv, TypeOK
<1>6. PromptsOK'
  <2>1. \A p \in prompts' : p.state <= drawn + 1
    BY <1>2, <1>3
  <2>2. \A p, q \in prompts' : p.state = q.state => p = q
    <3> SUFFICES ASSUME NEW p \in prompts', NEW q \in prompts', p.state = q.state PROVE p = q
      OBVIOUS
    <3>1. p \in prompts <=> q \in prompts
      BY <1>2, <1>3
    <3> QED BY <1>3, <3>1 DEF IInv, PromptsOK
  <2>3. \A s \in used' \cup lost' : s <= drawn + 1
    BY <1>1, <1>2, <1>4
  <2> QED BY <2>1, <2>2, <2>3 DEF PromptsOK
<1>7. CacheOK'
  <2> SUFFICES ASSUME NEW j \in Keys, NEW e \in cache[j]
               PROVE  /\ e.state <= drawn + 1
                      /\ \A p \in prompts' : p.state = e.state =>
                           p.key = j /\ e.exp = p.at + TTL /\ p.state \notin used' \cup lost'
    BY <1>1 DEF CacheOK, IInv
  <2>1. e.state <= drawn /\ e.state \in Nat
    BY DEF IInv, TypeOK, CacheOK, States
  <2>2. \A p \in prompts' : p.state = e.state => p \in prompts
    BY <1>2, <1>3, <2>1
  <2> QED BY <1>1, <1>2, <2>1, <2>2 DEF IInv, CacheOK
<1>8. KeptOK'
  BY <1>1, <1>3 DEF IInv, KeptOK
<1> QED BY <1>5, <1>6, <1>7, <1>8 DEF IInv

\* A key is emptied, whatever it held.
LEMMA DeleteStep ==
  ASSUME IInv, NEW r \in Requests, CallbackDelete(r)
  PROVE  IInv'
<1> PICK k : k = req[r].key
  OBVIOUS
<1>1. /\ cache' = [cache EXCEPT ![k] = {}] /\ used' = used \cup Of(k)
      /\ UNCHANGED <<now, shared, lost, drawn, prompts>> /\ req[r] # Idle
      /\ req' = [req EXCEPT ![r].pc = "exchange"]
  BY DEF CallbackDelete, Delete, Idle
<1>2. req[r] \in [pc : {"delete", "exchange", "redirect"}, state : States, key : Keys, ok : BOOLEAN]
  BY <1>1 DEF IInv, TypeOK
<1>3. k \in Keys
  BY <1>2
<1>4. \A j \in Keys : cache'[j] = IF j = k THEN {} ELSE cache[j]
  BY <1>1 DEF IInv, CacheOK
<1>5. TypeOK'
  <2>1. \A j \in Keys : cache'[j] \subseteq [state : States, exp : Nat] /\ Cardinality(cache'[j]) <= 1
    <3>1. Cardinality({}) = 0
      BY FS_EmptySet
    <3> QED BY <1>4, <3>1 DEF IInv, TypeOK
  <2>2. Of(k) \subseteq States
    BY DEF Of, IInv, TypeOK
  <2>3. req' \in [Requests -> {Idle} \cup
          [pc : {"delete", "exchange", "redirect"}, state : States, key : Keys, ok : BOOLEAN]]
    BY <1>1, <1>2 DEF IInv, TypeOK
  <2> QED BY <1>1, <2>1, <2>2, <2>3 DEF IInv, TypeOK
<1>6. PromptsOK'
  BY <1>1 DEF IInv, PromptsOK, Of
<1>7. \A p \in prompts : p.key # k => p.state \notin Of(k)
  BY DEF Of, IInv, PromptsOK
<1>8. CacheOK'
  BY <1>1, <1>4, <1>7 DEF IInv, CacheOK
<1>9. KeptOK'
  <2> SUFFICES ASSUME NEW p \in prompts, p.state \notin used' \cup lost'
               PROVE  \E e \in cache'[p.key] : e.state = p.state /\ e.exp = p.at + TTL
    BY <1>1 DEF KeptOK
  <2>1. p.key # k /\ p.key \in Keys
    BY <1>1 DEF Of, IInv, TypeOK
  <2> QED BY <1>1, <1>4, <2>1 DEF IInv, KeptOK
<1> QED BY <1>5, <1>6, <1>8, <1>9 DEF IInv

\* Some keys lose what they hold, and the states count as lost.
LEMMA LossStep ==
  ASSUME IInv, NEW K \in SUBSET Keys,
         DOMAIN cache' = Keys,
         \A k \in Keys : cache'[k] = IF k \in K THEN {} ELSE cache[k],
         lost' = lost \cup {e.state : e \in UNION {cache[k] : k \in K}},
         UNCHANGED <<now, shared, used, drawn, prompts>>,
         req' \in [Requests -> {Idle} \cup
           [pc : {"delete", "exchange", "redirect"}, state : States, key : Keys, ok : BOOLEAN]]
  PROVE  IInv'
<1>1. /\ \A k \in K : cache'[k] = {}
      /\ \A k \in Keys \ K : cache'[k] = cache[k]
  OBVIOUS
<1>2. \A s \in lost' : s \in lost \/ \E k \in K : \E e \in cache[k] : s = e.state
  OBVIOUS
<1>3. TypeOK'
  <2>1. \A k \in Keys : cache'[k] \subseteq [state : States, exp : Nat] /\ Cardinality(cache'[k]) <= 1
    <3>1. Cardinality({}) = 0
      BY FS_EmptySet
    <3>2. ASSUME NEW k \in Keys, k \in K
          PROVE  cache'[k] \subseteq [state : States, exp : Nat] /\ Cardinality(cache'[k]) <= 1
      <4>1. cache'[k] = {}
        BY <1>1, <3>2
      <4> QED BY <3>1, <4>1
    <3>3. ASSUME NEW k \in Keys, k \notin K
          PROVE  cache'[k] \subseteq [state : States, exp : Nat] /\ Cardinality(cache'[k]) <= 1
      <4>1. cache'[k] = cache[k]
        BY <1>1, <3>3
      <4> QED BY <4>1 DEF IInv, TypeOK
    <3> QED BY <3>2, <3>3
  <2>2. lost' \subseteq States
    BY <1>2 DEF IInv, TypeOK
  <2> QED BY <2>1, <2>2 DEF IInv, TypeOK
<1>4. PromptsOK'
  BY <1>2 DEF IInv, PromptsOK, CacheOK
<1>5. CacheOK'
  <2> SUFFICES ASSUME NEW k \in Keys, NEW e \in cache'[k]
               PROVE  /\ e.state <= drawn
                      /\ \A p \in prompts : p.state = e.state =>
                           p.key = k /\ e.exp = p.at + TTL /\ p.state \notin used \cup lost'
    BY DEF CacheOK
  <2>1. k \notin K /\ e \in cache[k]
    BY <1>1
  <2>2. \A p \in prompts : p.state = e.state => p.key = k
    BY <2>1 DEF IInv, CacheOK
  <2>3. \A p \in prompts : p.state = e.state =>
          ~ \E j \in K : \E d \in cache[j] : p.state = d.state
    BY <2>1, <2>2 DEF IInv, CacheOK
  <2> QED BY <1>2, <2>1, <2>2, <2>3 DEF IInv, CacheOK
<1>6. KeptOK'
  <2> SUFFICES ASSUME NEW p \in prompts, p.state \notin used \cup lost'
               PROVE  \E e \in cache'[p.key] : e.state = p.state /\ e.exp = p.at + TTL
    BY DEF KeptOK
  <2>1. p.key \in Keys
    BY DEF IInv, TypeOK
  <2>2. PICK e \in cache[p.key] : e.state = p.state /\ e.exp = p.at + TTL
    BY DEF IInv, KeptOK
  <2>3. p.key \notin K
    BY <2>2
  <2> QED BY <1>1, <2>1, <2>2, <2>3
<1> QED BY <1>3, <1>4, <1>5, <1>6 DEF IInv

\* An entry is dropped.
LEMMA EvictStep ==
  ASSUME IInv, NEW k \in Keys, Evict(k)
  PROVE  IInv'
<1>1. DOMAIN cache' = Keys /\ \A j \in Keys : cache'[j] = IF j \in {k} THEN {} ELSE cache[j]
  BY DEF Evict, IInv, CacheOK
<1>2. UNION {cache[j] : j \in {k}} = cache[k]
  OBVIOUS
<1>3. lost' = lost \cup {e.state : e \in UNION {cache[j] : j \in {k}}}
  BY <1>2 DEF Evict
<1>4. {k} \in SUBSET Keys
  OBVIOUS
<1> QED BY <1>1, <1>3, <1>4, LossStep DEF Evict, IInv, TypeOK

\* The process ends: with Redis no key loses anything, with the LRU every key.
LEMMA RestartStep ==
  ASSUME IInv, Restart
  PROVE  IInv'
<1>1. req' \in [Requests -> {Idle} \cup
           [pc : {"delete", "exchange", "redirect"}, state : States, key : Keys, ok : BOOLEAN]]
  BY DEF Restart
<1>2. UNCHANGED <<now, shared, used, drawn, prompts>>
  BY DEF Restart
<1>3. CASE shared
  <2>1. DOMAIN cache' = Keys /\ \A k \in Keys : cache'[k] = IF k \in {} THEN {} ELSE cache[k]
    BY <1>3 DEF Restart, IInv, CacheOK
  <2>2. UNION {cache[k] : k \in {}} = {}
    OBVIOUS
  <2>3. lost' = lost \cup {e.state : e \in UNION {cache[k] : k \in {}}}
    BY <1>3, <2>2 DEF Restart
  <2>4. {} \in SUBSET Keys
    OBVIOUS
  <2> QED BY <1>1, <1>2, <2>1, <2>3, <2>4, LossStep
<1>4. CASE ~shared
  <2>1. DOMAIN cache' = Keys /\ \A k \in Keys : cache'[k] = IF k \in Keys THEN {} ELSE cache[k]
    BY <1>4 DEF Restart
  <2>2. lost' = lost \cup {e.state : e \in UNION {cache[k] : k \in Keys}}
    BY <1>4 DEF Restart
  <2>3. Keys \in SUBSET Keys
    OBVIOUS
  <2> QED BY <1>1, <1>2, <2>1, <2>2, <2>3, LossStep
<1> QED BY <1>3, <1>4

LEMMA Inductive == IInv /\ [Next]_vars => IInv'
<1> SUFFICES ASSUME IInv, [Next]_vars PROVE IInv'
  OBVIOUS
<1> DEFINE Slots == {Idle} \cup [pc : {"delete", "exchange", "redirect"},
                                state : States, key : Keys, ok : BOOLEAN]
<1>1. now \in 0..MaxTime /\ prompts \subseteq [state : States, key : Keys, at : 0..MaxTime]
      /\ req \in [Requests -> Slots]
  BY DEF IInv, TypeOK
<1>2. CASE UNCHANGED vars
  BY <1>1, <1>2, SlotStep DEF vars
<1>3. ASSUME NEW k \in Keys, Prompt(k) \/ Declined(k) PROVE IInv'
  BY <1>3, StoreStep, StoreFailsStep DEF Prompt, Declined, SetState
<1>4. ASSUME NEW r \in Requests, NEW p \in prompts, NEW k \in Keys, CallbackGet(r, p, k) PROVE IInv'
  <2>1. [pc |-> "delete", state |-> p.state, key |-> k, ok |-> Matches(k, p.state)] \in Slots
    BY <1>1 DEF Matches
  <2> QED BY <1>1, <1>4, <2>1, SlotStep DEF CallbackGet
<1>5. ASSUME NEW r \in Requests, CallbackDelete(r) PROVE IInv'
  BY <1>5, DeleteStep
<1>6. ASSUME NEW r \in Requests, Exchange(r) PROVE IInv'
  <2>1. [req[r] EXCEPT !.pc = "redirect"] \in Slots
    BY <1>1, <1>6 DEF Exchange, Idle
  <2>2. req' = [req EXCEPT ![r] = [req[r] EXCEPT !.pc = "redirect"]]
    BY <1>1, <1>6 DEF Exchange
  <2> QED BY <1>1, <1>6, <2>1, <2>2, SlotStep DEF Exchange
<1>7. ASSUME NEW r \in Requests, ExchangeFails(r) \/ Redirect(r) \/ StateInvalid(r) \/ Abort(r)
      PROVE  IInv'
  BY <1>1, <1>7, SlotStep DEF ExchangeFails, Redirect, StateInvalid, Abort
<1>8. CASE Tick
  <2>1. now' \in 0..MaxTime
    BY <1>1, <1>8, OauthAssumption DEF Tick
  <2> QED BY <1>8, <2>1, SlotStep DEF Tick
<1>9. ASSUME NEW k \in Keys, Evict(k) PROVE IInv'
  BY <1>9, EvictStep
<1>10. CASE Restart
  BY <1>10, RestartStep
<1> QED BY <1>2, <1>3, <1>4, <1>5, <1>6, <1>7, <1>8, <1>9, <1>10 DEF Next

LEMMA Invariant == Spec => []IInv
BY InitOK, Inductive, PTL DEF Spec

---------------------------------------------------------------------------
(* The theorems *)

\* A key holds one state at most, and every value keeps its type
\* (GuardOauth2Session and the cache).
THEOREM TypeInvariant == Spec => []TypeOK
<1>1. IInv => TypeOK
  BY DEF IInv
<1> QED BY <1>1, Invariant, PTL

\* Only the callback begins to read.
LEMMA ReadsAreGets ==
  ASSUME IInv, [Next]_vars, NEW r \in Requests, Reads(r)
  PROVE  \E p \in prompts, k \in Keys : CallbackGet(r, p, k)
<1>1. req \in [Requests -> {Idle} \cup [pc : {"delete", "exchange", "redirect"},
                                       state : States, key : Keys, ok : BOOLEAN]]
  BY DEF IInv, TypeOK
<1>2. req' # req
  BY DEF Reads
<1>3. PICK q \in Requests :
        \/ \E p \in prompts, k \in Keys : CallbackGet(q, p, k)
        \/ CallbackDelete(q) \/ Exchange(q) \/ ExchangeFails(q)
        \/ Redirect(q) \/ StateInvalid(q) \/ Abort(q)
  <2>1. ~Restart
    BY DEF Reads, Restart
  <2> QED BY <1>2, <2>1 DEF Next, vars, Prompt, Declined, Evict, Tick
<1>4. q = r
  BY <1>1, <1>3 DEF Reads, CallbackGet, CallbackDelete, Exchange, ExchangeFails, Redirect,
                    StateInvalid, Abort
<1> QED
  BY <1>1, <1>3, <1>4 DEF Reads, Idle, CallbackDelete, Exchange, ExchangeFails, Redirect,
                          StateInvalid, Abort

\* Who is let through: the callback of the last prompt of its key, whose
\* state the cache kept, and in time (GuardOauth2Session).
THEOREM LetThrough == Spec => OnlyTheLastPromptMatches
<1> DEFINE Step == \A r \in Requests : Reads(r) /\ req'[r].ok =>
              \E p \in prompts : /\ p.state = req'[r].state /\ p.key = req'[r].key
                                 /\ p.state \notin used \cup lost /\ now < p.at + TTL
<1>1. ASSUME IInv, [Next]_vars PROVE Step
  <2> SUFFICES ASSUME NEW r \in Requests, Reads(r), req'[r].ok
               PROVE  \E p \in prompts : /\ p.state = req'[r].state /\ p.key = req'[r].key
                                         /\ p.state \notin used \cup lost /\ now < p.at + TTL
    OBVIOUS
  <2>1. PICK p \in prompts, k \in Keys : CallbackGet(r, p, k)
    BY <1>1, ReadsAreGets
  <2>2. req'[r] = [pc |-> "delete", state |-> p.state, key |-> k, ok |-> Matches(k, p.state)]
    BY <1>1, <2>1 DEF CallbackGet, IInv, TypeOK
  <2>3. PICK e \in cache[k] : now < e.exp /\ e.state = p.state
    BY <2>2 DEF Matches
  <2> QED BY <1>1, <2>2, <2>3 DEF IInv, CacheOK
<1>2. Spec => [][Step]_vars
  BY <1>1, Invariant, PTL DEF Spec
<1> QED BY <1>2 DEF OnlyTheLastPromptMatches

\* Who is refused: no callback that comes in time, from the address of its
\* prompt, with nobody in between and its state kept by the cache
\* (GuardOauth2Session, CacheModule).
THEOREM Refused == Spec => RefusedOnlyIfUsedOrLost
<1> DEFINE Step == \A r \in Requests : Reads(r) /\ ~req'[r].ok =>
              \A p \in prompts : p.state = req'[r].state /\ p.key = req'[r].key =>
                p.state \in used \cup lost \/ now >= p.at + TTL
<1>1. ASSUME IInv, [Next]_vars PROVE Step
  <2> SUFFICES ASSUME NEW r \in Requests, Reads(r), ~req'[r].ok, NEW q \in prompts,
                      q.state = req'[r].state, q.key = req'[r].key,
                      q.state \notin used \cup lost
               PROVE  now >= q.at + TTL
    OBVIOUS
  <2>1. PICK p \in prompts, k \in Keys : CallbackGet(r, p, k)
    BY <1>1, ReadsAreGets
  <2>2. req'[r] = [pc |-> "delete", state |-> p.state, key |-> k, ok |-> Matches(k, p.state)]
    BY <1>1, <2>1 DEF CallbackGet, IInv, TypeOK
  <2>3. PICK e \in cache[k] : e.state = q.state /\ e.exp = q.at + TTL
    BY <1>1, <2>2 DEF IInv, KeptOK
  <2>4. ~(now < e.exp)
    BY <2>2, <2>3 DEF Matches
  <2>5. now \in Nat /\ q.at \in Nat
    BY <1>1, OauthAssumption DEF IInv, TypeOK
  <2> QED BY <2>3, <2>4, <2>5, OauthAssumption
<1>2. Spec => [][Step]_vars
  BY <1>1, Invariant, PTL DEF Spec
<1> QED BY <1>2 DEF RefusedOnlyIfUsedOrLost
=============================================================================
