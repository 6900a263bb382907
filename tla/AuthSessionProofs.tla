------------------------- MODULE AuthSessionProofs -------------------------
(***************************************************************************)
(* Theorems about AuthSession, for any addresses, providers, devices, any  *)
(* number of requests at once and any ages of the tokens, and that it      *)
(* implements SessionTable: every step of a request is a step of the table *)
(* it promises, or leaves that table alone.                                *)
(***************************************************************************)
EXTENDS AuthSession, FiniteSetTheorems, TLAPS

---------------------------------------------------------------------------
(* The inductive invariant *)

Known(n) == \E p \in pairs : p.n = n

\* Pairs are numbered in the order of their signing.
PairsOK ==
  /\ IsFiniteSet(pairs) /\ pairs \subseteq Pairs
  /\ \A p \in pairs : p.n <= Cardinality(pairs)
  /\ \A p, q \in pairs : p.n = q.n => p = q
  /\ \A p \in pairs : Known(p.sub) /\ (p.parent = 0 \/ Known(p.parent))

\* An account has the number of the first pair signed for it.
AccountsOK ==
  /\ users \subseteq Users
  /\ \A u \in users : Known(u.id)
  /\ \A u, v \in users : u.id = v.id => u = v

\* A session stores the number of a pair of its own.
TableOK ==
  /\ DOMAIN auth \subseteq Sessions
  /\ \A s \in DOMAIN auth :
       auth[s] = {} \/ \E p \in pairs : SessionOf(p) = s /\ auth[s] = {p.n}
  /\ \A n \in retired : Known(n)
  /\ held \subseteq Numbers /\ out \subseteq Sessions /\ stale \subseteq Requests
  /\ now \in 0..MaxTime

\* What a request keeps between two awaits.
Signing(x) ==
  /\ x.session \in DOMAIN auth
  /\ \E p \in pairs :
       /\ p.n = x.token /\ SessionOf(p) = x.session
       /\ x.maxAge \in Nat /\ x.asked \in Nat /\ x.maxAge = p.exp - x.asked

\* A pair that was signed and not yet stored is nowhere else.
Storing(x) ==
  /\ x.session \in DOMAIN auth
  /\ \E p \in pairs : p.n = x.new /\ SessionOf(p) = x.session
  /\ x.new \notin retired
  /\ \A s \in DOMAIN auth : x.new \notin auth[s]

\* A user that was read keeps its address and provider.
Entering(x) ==
  /\ x.email \in Emails /\ x.provider \in Providers /\ x.device \in Devices /\ x.iat \in Nat
  /\ x.user \subseteq Users
  /\ \A u \in x.user : \E v \in users : v.id = u.id /\ v.provider = u.provider

Slot(x) ==
  /\ x.pc \in {"idle", "sign", "store", "revoke", "oauth"}
  /\ x.pc = "sign" => Signing(x)
  /\ x.pc = "store" => Storing(x)
  /\ x.pc = "revoke" => x.session \in DOMAIN auth
  /\ x.pc = "oauth" => Entering(x)

RequestsOK ==
  /\ DOMAIN req = Requests
  /\ \A r \in Requests : Slot(req[r])
  /\ \A r, q \in Requests :
       req[r].pc = "store" /\ req[q].pc = "store" /\ req[r].new = req[q].new => r = q

\* Unless a status has changed since, what a request has read of it still holds.
FreshOK ==
  \A r \in Requests \ stale :
    /\ req[r].pc = "sign" => \A u \in users : u.id = req[r].session[1] => u.active
    /\ req[r].pc = "oauth" => req[r].user \subseteq users

IInv ==
  /\ PairsOK /\ AccountsOK /\ TableOK /\ RequestsOK /\ FreshOK
  /\ OneAccountPerEmail /\ RetiredPairsStayRetired /\ ExpiryOnlyDrifts

---------------------------------------------------------------------------
(* Pairs *)

LEMMA NumbersAreNat == Numbers \subseteq Nat \ {0}
BY AgeAssumption DEF Numbers

\* The next number is that of no pair, and a pair signed under it is known.
LEMMA NewPair ==
  ASSUME PairsOK, NEW x \in Pairs, x.n = Cardinality(pairs) + 1,
         pairs' = pairs \cup {x}, x.sub = x.n \/ Known(x.sub), x.parent = 0 \/ Known(x.parent)
  PROVE  /\ PairsOK'
         /\ \A n : Known(n) => n # x.n /\ Known(n)'
         /\ Known(x.n)'
<1>1. Cardinality(pairs) \in Nat /\ IsFiniteSet(pairs) /\ pairs \subseteq Pairs
  BY FS_CardinalityType DEF PairsOK
<1>2. \A p \in pairs : p.n \in Nat /\ p.n <= Cardinality(pairs) /\ p.n # x.n
  <2> SUFFICES ASSUME NEW p \in pairs
               PROVE  p.n \in Nat /\ p.n <= Cardinality(pairs) /\ p.n # x.n
    OBVIOUS
  <2>1. p.n \in Nat
    BY <1>1, NumbersAreNat DEF Pairs
  <2>2. p.n <= Cardinality(pairs)
    BY DEF PairsOK
  <2> QED BY <1>1, <2>1, <2>2
<1>3. x \notin pairs
  BY <1>2
<1>4. IsFiniteSet(pairs') /\ Cardinality(pairs') = Cardinality(pairs) + 1
  BY <1>1, <1>3, FS_AddElement
<1>5. \A n : Known(n) => n # x.n /\ Known(n)'
  BY <1>2 DEF Known
<1>6. Known(x.n)'
  BY DEF Known
<1>7. \A p \in pairs' : p.n <= Cardinality(pairs')
  BY <1>1, <1>2, <1>4
<1>8. \A p, q \in pairs' : p.n = q.n => p = q
  BY <1>2 DEF PairsOK
<1>9. \A p \in pairs' : Known(p.sub)' /\ (p.parent = 0 \/ Known(p.parent)')
  BY <1>5, <1>6 DEF PairsOK
<1>10. pairs' \subseteq Pairs
  BY <1>1
<1> QED BY <1>4, <1>5, <1>6, <1>7, <1>8, <1>9, <1>10 DEF PairsOK

\* Nothing a session stores, has let go, or a request holds, is unknown.
LEMMA OldNumbers ==
  ASSUME PairsOK, AccountsOK, TableOK, RequestsOK, NEW n, ~Known(n)
  PROVE  /\ n \notin retired
         /\ \A s \in DOMAIN auth : n \notin auth[s]
         /\ \A r \in Requests : req[r].pc = "store" => req[r].new # n
         /\ \A r \in Requests : req[r].pc = "sign" => req[r].session[1] # n
         /\ \A u \in users : u.id # n
         /\ \A p \in pairs : p.n # n /\ p.sub # n /\ (n # 0 => p.parent # n)
<1>1. \A s \in DOMAIN auth : n \notin auth[s]
  BY DEF TableOK, Known
<1>2. \A r \in Requests : req[r].pc = "store" => req[r].new # n
  BY DEF RequestsOK, Slot, Storing, Known
<1>3. \A r \in Requests : req[r].pc = "sign" => req[r].session[1] # n
  BY DEF RequestsOK, Slot, Signing, SessionOf, PairsOK
<1>4. \A p \in pairs : p.n # n /\ p.sub # n /\ (n # 0 => p.parent # n)
  BY DEF PairsOK, Known
<1> QED BY <1>1, <1>2, <1>3, <1>4 DEF AccountsOK, TableOK

---------------------------------------------------------------------------
(* Steps of one request that leave the tables alone *)

FreshSlot(x) ==
  /\ x.pc = "sign" => \A u \in users : u.id = x.session[1] => u.active
  /\ x.pc = "oauth" => x.user \subseteq users

LEMMA RequestOnly ==
  ASSUME IInv, NEW r \in Requests, NEW x, Slot(x), FreshSlot(x), x.pc # "store",
         req' = [req EXCEPT ![r] = x], stale' = stale \ {r},
         UNCHANGED <<now, tables, pairs, held, out, retired>>
  PROVE  IInv'
<1> USE DEF tables
<1>1. PairsOK' /\ AccountsOK' /\ OneAccountPerEmail' /\ RetiredPairsStayRetired' /\ ExpiryOnlyDrifts'
  BY DEF IInv, PairsOK, Known, AccountsOK, OneAccountPerEmail, RetiredPairsStayRetired,
         ExpiryOnlyDrifts
<1>2. TableOK'
  BY DEF IInv, TableOK, Known
<1>3. DOMAIN req' = Requests /\ \A q \in Requests : req'[q] = IF q = r THEN x ELSE req[q]
  BY DEF IInv, RequestsOK
<1>4. RequestsOK'
  <2>1. \A q \in Requests : Slot(req'[q])
    BY <1>3 DEF IInv, RequestsOK
  <2>2. \A q \in Requests : Slot(req[q])'
    BY <2>1 DEF Slot, Signing, Storing, Entering
  <2>3. \A p, q \in Requests :
          req'[p].pc = "store" /\ req'[q].pc = "store" /\ req'[p].new = req'[q].new => p = q
    BY <1>3 DEF IInv, RequestsOK
  <2> QED BY <1>3, <2>2, <2>3 DEF RequestsOK
<1>5. FreshOK'
  <2> SUFFICES ASSUME NEW q \in Requests, q \notin stale'
               PROVE  /\ req'[q].pc = "sign" =>
                            \A u \in users' : u.id = req'[q].session[1] => u.active
                      /\ req'[q].pc = "oauth" => req'[q].user \subseteq users'
    BY DEF FreshOK
  <2>1. CASE q = r
    BY <1>3, <2>1 DEF FreshSlot
  <2>2. CASE q # r
    BY <1>3, <2>2 DEF IInv, FreshOK
  <2> QED BY <2>1, <2>2
<1> QED BY <1>1, <1>2, <1>4, <1>5 DEF IInv

\* The accepted refresh: the session is open and its user is active.
LEMMA RefreshReadStep ==
  ASSUME IInv, NEW r \in Requests, NEW p \in HeldPairs, RefreshRead(r, p)
  PROVE  IInv'
<1> DEFINE x == [pc |-> "sign", session |-> SessionOf(p), token |-> p.n,
                 maxAge |-> p.exp - now, asked |-> now]
<1>1. p \in pairs /\ p.exp \in Nat /\ now \in Nat /\ now < p.exp
  BY AgeAssumption DEF IInv, PairsOK, TableOK, HeldPairs, Pairs, RefreshRead, RefreshAlive
<1>2. Signing(x)
  BY <1>1 DEF RefreshRead, DeviceExistsAndActive, Signing
<1>3. Slot(x)
  BY <1>2 DEF Slot
<1>4. FreshSlot(x)
  BY DEF FreshSlot, RefreshRead, DeviceExistsAndActive, IInv, AccountsOK
<1>5. req' = [req EXCEPT ![r] = x] /\ stale' = stale \ {r}
      /\ UNCHANGED <<now, tables, pairs, held, out, retired>>
  BY DEF RefreshRead, Fresh
<1>6. x.pc # "store"
  OBVIOUS
<1> QED BY <1>3, <1>4, <1>5, <1>6, RequestOnly

LEMMA SignOutReadStep ==
  ASSUME IInv, NEW r \in Requests, NEW p \in HeldPairs, SignOutRead(r, p)
  PROVE  IInv'
<1> DEFINE x == [pc |-> "revoke", session |-> SessionOf(p)]
<1>1. Slot(x) /\ FreshSlot(x) /\ x.pc # "store"
  BY DEF Slot, FreshSlot, SignOutRead, DeviceExistsAndActive
<1>2. req' = [req EXCEPT ![r] = x] /\ stale' = stale \ {r}
      /\ UNCHANGED <<now, tables, pairs, held, out, retired>>
  BY DEF SignOutRead, Fresh
<1> QED BY <1>1, <1>2, RequestOnly

LEMMA OauthReadStep ==
  ASSUME IInv, NEW r \in Requests, NEW e \in Emails, NEW v \in Providers, NEW d \in Devices,
         OauthRead(r, e, v, d)
  PROVE  IInv'
<1> DEFINE x == [pc |-> "oauth", email |-> e, provider |-> v, device |-> d,
                 user |-> {u \in users : u.email = e}, iat |-> now]
<1>1. Entering(x)
  BY AgeAssumption DEF Entering, IInv, AccountsOK, TableOK
<1>2. Slot(x) /\ FreshSlot(x) /\ x.pc # "store"
  BY <1>1 DEF Slot, FreshSlot
<1>3. req' = [req EXCEPT ![r] = x] /\ stale' = stale \ {r}
      /\ UNCHANGED <<now, tables, pairs, held, out, retired>>
  BY DEF OauthRead, Fresh
<1> QED BY <1>2, <1>3, RequestOnly

\* Refused or gone.
LEMMA LeaveStep ==
  ASSUME IInv, NEW r \in Requests, OauthRefused(r) \/ Abort(r)
  PROVE  IInv'
<1>1. Slot(Idle) /\ FreshSlot(Idle) /\ Idle.pc # "store"
  BY DEF Slot, FreshSlot, Idle
<1>2. req' = [req EXCEPT ![r] = Idle] /\ stale' = stale \ {r}
      /\ UNCHANGED <<now, tables, pairs, held, out, retired>>
  BY DEF OauthRefused, Abort, Done, Fresh
<1> QED BY <1>1, <1>2, RequestOnly

---------------------------------------------------------------------------
(* Steps that sign or store *)

LEMMA InitOK == Init => IInv
<1> SUFFICES ASSUME Init PROVE IInv
  OBVIOUS
<1> USE DEF Init
<1>1. DOMAIN auth = {}
  OBVIOUS
<1>2. PairsOK
  BY FS_EmptySet DEF PairsOK
<1>3. TableOK
  BY <1>1, AgeAssumption DEF TableOK
<1>4. RequestsOK
  BY DEF RequestsOK, Slot, Idle
<1>5. FreshOK
  BY DEF FreshOK, Idle
<1> QED BY <1>1, <1>2, <1>3, <1>4, <1>5
    DEF IInv, AccountsOK, OneAccountPerEmail, RetiredPairsStayRetired, ExpiryOnlyDrifts

\* What a request keeps stays true of it while pairs, accounts and sessions are
\* only added to and the pair it is about to store is neither stored nor let go.
LEMMA SlotKept ==
  ASSUME NEW x, Slot(x), pairs \subseteq pairs', DOMAIN auth \subseteq DOMAIN auth',
         \A u \in users : \E v \in users' : v.id = u.id /\ v.provider = u.provider,
         x.pc = "store" => x.new \notin retired' /\ \A s \in DOMAIN auth' : x.new \notin auth'[s]
  PROVE  Slot(x)'
<1>1. x.pc = "sign" => Signing(x)'
  BY DEF Slot, Signing, SessionOf
<1>2. x.pc = "store" => Storing(x)'
  BY DEF Slot, Storing, SessionOf
<1>3. x.pc = "oauth" => Entering(x)'
  <2> SUFFICES ASSUME x.pc = "oauth" PROVE Entering(x)'
    OBVIOUS
  <2>1. Entering(x)
    BY DEF Slot
  <2>2. \A u \in x.user : \E v \in users' : v.id = u.id /\ v.provider = u.provider
    <3> SUFFICES ASSUME NEW u \in x.user
                 PROVE  \E v \in users' : v.id = u.id /\ v.provider = u.provider
      OBVIOUS
    <3>1. PICK w \in users : w.id = u.id /\ w.provider = u.provider
      BY <2>1 DEF Entering
    <3> QED BY <3>1
  <2> QED BY <2>1, <2>2 DEF Entering
<1> QED BY <1>1, <1>2, <1>3 DEF Slot

\* The pair written to a session is its own and was nowhere before; what the
\* session stored is let go, and no other session or request has it.
LEMMA WriteKeeps ==
  ASSUME IInv, PairsOK', pairs \subseteq pairs', NEW s \in Sessions, NEW value,
         WriteAuth(s, value),
         value = {} \/ \E p \in pairs' : SessionOf(p) = s /\ value = {p.n},
         \A n \in value : n \notin retired /\ \A t \in DOMAIN auth : n \notin auth[t],
         held' \subseteq Numbers, out' \subseteq Sessions, stale' \subseteq Requests,
         now' \in 0..MaxTime
  PROVE  /\ TableOK' /\ RetiredPairsStayRetired'
         /\ DOMAIN auth' = DOMAIN auth \cup {s}
         /\ \A n : /\ n \notin retired /\ n \notin value
                   /\ \A t \in DOMAIN auth : n \notin auth[t]
                   => n \notin retired' /\ \A t \in DOMAIN auth' : n \notin auth'[t]
<1>1. /\ DOMAIN auth' = DOMAIN auth \cup {s}
      /\ auth'[s] = value
      /\ \A t \in DOMAIN auth : t # s => auth'[t] = auth[t]
      /\ retired' = retired \cup Stored(s)
  BY DEF WriteAuth, Upsert
<1>2. \A t \in DOMAIN auth : t # s => auth[t] \cap Stored(s) = {}
  BY DEF Stored, IInv, TableOK, PairsOK
<1>3. \A n \in Stored(s) : Known(n)
  BY DEF Stored, IInv, TableOK, Known
<1>4. \A n : Known(n) => Known(n)'
  BY DEF Known
<1>5. TableOK'
  <2>1. \A t \in DOMAIN auth' : auth'[t] = {} \/ \E p \in pairs' : SessionOf(p) = t /\ auth'[t] = {p.n}
    BY <1>1 DEF IInv, TableOK
  <2>2. DOMAIN auth' \subseteq Sessions
    BY <1>1 DEF IInv, TableOK
  <2>3. \A n \in retired' : Known(n)'
    BY <1>1, <1>3, <1>4 DEF IInv, TableOK
  <2>4. \A t \in DOMAIN auth' :
          auth'[t] = {} \/ \E p \in pairs' : SessionOf(p)' = t /\ auth'[t] = {p.n}
    BY <2>1 DEF SessionOf
  <2> QED BY <2>2, <2>3, <2>4, Zenon DEF TableOK, SessionOf
<1>6. RetiredPairsStayRetired'
  <2> SUFFICES ASSUME NEW t \in DOMAIN auth' PROVE auth'[t] \cap retired' = {}
    BY DEF RetiredPairsStayRetired
  <2>1. CASE t = s
    <3>1. value \cap Stored(s) = {}
      BY DEF Stored
    <3> QED BY <1>1, <2>1, <3>1
  <2>2. CASE t # s
    BY <1>1, <1>2, <2>2 DEF IInv, RetiredPairsStayRetired
  <2> QED BY <2>1, <2>2
<1>7. \A n : /\ n \notin retired /\ n \notin value
             /\ \A t \in DOMAIN auth : n \notin auth[t]
             => n \notin retired' /\ \A t \in DOMAIN auth' : n \notin auth'[t]
  BY <1>1 DEF Stored
<1> QED BY <1>1, <1>5, <1>6, <1>7


\* The slots after a step of slot r: the others keep what they had.
LEMMA SlotsKept ==
  ASSUME RequestsOK, NEW r \in Requests, NEW x, req' = [req EXCEPT ![r] = x],
         \A y : y = x \/ (\E q \in Requests \ {r} : y = req[q]) => Slot(y)',
         x.pc = "store" =>
           \A q \in Requests \ {r} : req[q].pc = "store" => req[q].new # x.new
  PROVE  RequestsOK'
<1>1. DOMAIN req' = Requests /\ \A q \in Requests : req'[q] = IF q = r THEN x ELSE req[q]
  BY DEF RequestsOK
<1>2. ASSUME NEW q \in Requests PROVE Slot(req[q])'
  BY <1>1
<1>3. \A p, q \in Requests :
        req'[p].pc = "store" /\ req'[q].pc = "store" /\ req'[p].new = req'[q].new => p = q
  BY <1>1 DEF RequestsOK
<1> QED BY <1>1, <1>2, <1>3 DEF RequestsOK

\* Storing what was signed.
LEMMA StoreStep ==
  ASSUME IInv, NEW r \in Requests, req[r].pc \in {"store", "revoke"}, NEW value,
         value = {} \/ (req[r].pc = "store" /\ value = {req[r].new}),
         WriteAuth(req[r].session, value), Done(r), Fresh(r),
         held' \subseteq Numbers, out' \subseteq Sessions,
         UNCHANGED <<now, users, pairs>>
  PROVE  IInv'
<1> DEFINE s == req[r].session
<1>1. s \in DOMAIN auth /\ s \in Sessions /\ Slot(req[r])
  BY DEF IInv, RequestsOK, Slot, Storing, TableOK
<1>2. PairsOK' /\ AccountsOK' /\ OneAccountPerEmail' /\ ExpiryOnlyDrifts'
  BY DEF IInv, PairsOK, Known, AccountsOK, OneAccountPerEmail, ExpiryOnlyDrifts
<1>3. \A n \in value : n \notin retired /\ \A t \in DOMAIN auth : n \notin auth[t]
  BY <1>1 DEF Slot, Storing
<1>4. value = {} \/ \E p \in pairs' : SessionOf(p) = s /\ value = {p.n}
  BY <1>1 DEF Slot, Storing
<1>5. stale' \subseteq Requests /\ now' \in 0..MaxTime
  BY DEF Fresh, IInv, TableOK
<1>6. /\ TableOK' /\ RetiredPairsStayRetired'
      /\ DOMAIN auth' = DOMAIN auth \cup {s}
      /\ \A n : /\ n \notin retired /\ n \notin value
                /\ \A t \in DOMAIN auth : n \notin auth[t]
                => n \notin retired' /\ \A t \in DOMAIN auth' : n \notin auth'[t]
  <2> HIDE DEF s
  <2>1. WriteAuth(s, value)
    BY DEF s
  <2> QED BY <1>1, <1>2, <1>3, <1>4, <1>5, <2>1, WriteKeeps
<1>7. RequestsOK'
  <2>1. ASSUME NEW y, NEW q \in Requests \ {r}, y = req[q] PROVE Slot(y)'
    <3>1. Slot(y)
      BY <2>1 DEF IInv, RequestsOK
    <3>2. y.pc = "store" => y.new \notin value
      BY <2>1 DEF IInv, RequestsOK
    <3>3. y.pc = "store" => y.new \notin retired' /\ \A t \in DOMAIN auth' : y.new \notin auth'[t]
      BY <1>6, <3>1, <3>2 DEF Slot, Storing
    <3>4. \A u \in users : \E v \in users' : v.id = u.id /\ v.provider = u.provider
      OBVIOUS
    <3> QED BY <1>6, <3>1, <3>3, <3>4, SlotKept
  <2>2. ASSUME NEW y, y = Idle PROVE Slot(y)'
    BY <2>2 DEF Slot, Idle
  <2>3. \A y : y = Idle \/ (\E q \in Requests \ {r} : y = req[q]) => Slot(y)'
    BY <2>1, <2>2
  <2>4. Idle.pc # "store" /\ req' = [req EXCEPT ![r] = Idle]
    BY DEF Idle, Done
  <2> QED BY <2>3, <2>4, SlotsKept DEF IInv
<1>8. FreshOK'
  BY DEF IInv, FreshOK, RequestsOK, Done, Fresh, Idle
<1> QED BY <1>2, <1>6, <1>7, <1>8 DEF IInv

LEMMA RefreshStoreStep ==
  ASSUME IInv, NEW r \in Requests, RefreshStore(r)
  PROVE  IInv'
<1>1. req[r].new \in Numbers
  BY DEF RefreshStore, IInv, RequestsOK, Slot, Storing, PairsOK, Pairs
<1>2. held' \subseteq Numbers /\ out' \subseteq Sessions
  BY <1>1 DEF RefreshStore, Answer, IInv, TableOK
<1> DEFINE value == {req[r].new}
<1>3. /\ WriteAuth(req[r].session, value) /\ Done(r) /\ Fresh(r)
      /\ UNCHANGED <<now, users, pairs>> /\ req[r].pc = "store"
  BY DEF RefreshStore
<1> QED BY <1>2, <1>3, StoreStep

LEMMA SignOutStoreStep ==
  ASSUME IInv, NEW r \in Requests, SignOutStore(r)
  PROVE  IInv'
<1>1. req[r].session \in Sessions
  BY DEF SignOutStore, IInv, RequestsOK, Slot, TableOK
<1>2. held' \subseteq Numbers /\ out' \subseteq Sessions
  BY <1>1 DEF SignOutStore, IInv, TableOK
<1>3. /\ WriteAuth(req[r].session, {}) /\ Done(r) /\ Fresh(r)
      /\ UNCHANGED <<now, users, pairs>> /\ req[r].pc = "revoke"
  BY DEF SignOutStore
<1> QED BY <1>2, <1>3, StoreStep

\* Signing a pair under the next number, for an account that has pairs or for
\* a new one, without touching the accounts there are.
LEMMA RefreshSignStep ==
  ASSUME IInv, NEW r \in Requests, RefreshSign(r)
  PROVE  IInv'
<1> DEFINE y == req[r]
<1> PICK n : n = Cardinality(pairs) + 1
  OBVIOUS
<1>1. PICK old \in pairs : old.n = y.token /\ SessionOf(old) = y.session
                           /\ y.maxAge \in Nat /\ y.asked \in Nat /\ y.maxAge = old.exp - y.asked
  BY DEF RefreshSign, IInv, RequestsOK, Slot, Signing
<1>2. (CHOOSE p \in pairs : p.n = y.token) = old
  BY <1>1 DEF IInv, PairsOK
<1> PICK x : x = [n |-> n, sub |-> old.sub, device |-> old.device, parent |-> old.n,
                  provider |-> old.provider, asked |-> y.asked, iat |-> now,
                  exp |-> now + y.maxAge]
  OBVIOUS
<1> PICK z : z = [pc |-> "store", session |-> y.session, new |-> n]
  OBVIOUS
<1>3. /\ n \in Numbers /\ pairs' = pairs \cup {x} /\ req' = [req EXCEPT ![r] = z]
      /\ stale' = stale \ {r} /\ UNCHANGED <<now, users, auth, held, out, retired>>
  BY <1>2 DEF RefreshSign, NewNumber, Expiry, Fresh, tables
<1>4. now \in Nat /\ old \in Pairs /\ Known(old.sub) /\ Known(old.n) /\ old.n \in Nat
  <2>1. Known(old.sub) /\ old \in Pairs /\ now \in Nat
    BY AgeAssumption DEF IInv, PairsOK, TableOK
  <2>2. old.n \in Nat
    BY <2>1, NumbersAreNat DEF Pairs
  <2>3. Known(old.n)
    BY DEF Known
  <2> QED BY <2>1, <2>2, <2>3
<1>5. x \in Pairs
  <2>1. old.n \in 0..MaxTokens
    BY <1>4, AgeAssumption DEF Pairs, Numbers
  <2> QED BY <1>1, <1>3, <1>4, <2>1 DEF Pairs
<1>6. PairsOK' /\ (\A k : Known(k) => k # n /\ Known(k)') /\ Known(n)'
  <2>1. x.n = Cardinality(pairs) + 1 /\ (x.sub = x.n \/ Known(x.sub)) /\ (x.parent = 0 \/ Known(x.parent))
    BY <1>4
  <2>2. x.n = n
    OBVIOUS
  <2>3. PairsOK /\ pairs' = pairs \cup {x}
    BY <1>3 DEF IInv
  <2> QED BY <1>5, <2>1, <2>2, <2>3, NewPair
<1>7. ~Known(n)
  BY <1>6
<1>8. /\ n \notin retired /\ \A s \in DOMAIN auth : n \notin auth[s]
      /\ \A q \in Requests : req[q].pc = "store" => req[q].new # n
      /\ \A p \in pairs : p.n # n /\ p.sub # n /\ p.parent # n
  <2>1. n # 0
    BY <1>3, NumbersAreNat
  <2> QED BY <1>7, <2>1, OldNumbers DEF IInv
<1>9. AccountsOK' /\ OneAccountPerEmail'
  BY <1>3, <1>6 DEF IInv, AccountsOK, OneAccountPerEmail
<1>10. TableOK' /\ RetiredPairsStayRetired'
  <2>1. \A k \in retired' : Known(k)'
    BY <1>3, <1>6 DEF IInv, TableOK
  <2>2. \A s \in DOMAIN auth' : auth'[s] = {} \/ \E p \in pairs' : SessionOf(p)' = s /\ auth'[s] = {p.n}
    BY <1>3 DEF IInv, TableOK, SessionOf
  <2>3. stale' \subseteq Requests
    BY <1>3 DEF IInv, TableOK
  <2> QED BY <1>3, <2>1, <2>2, <2>3 DEF IInv, TableOK, RetiredPairsStayRetired
<1>11. ExpiryOnlyDrifts'
  <2> SUFFICES ASSUME NEW p \in pairs', NEW q \in pairs', q.parent = p.n
               PROVE  q.exp - p.exp = q.iat - q.asked
    BY DEF ExpiryOnlyDrifts
  <2>1. CASE q = x
    <3>1. p = old
      BY <1>3, <1>8, <2>1 DEF IInv, PairsOK
    <3>2. old.exp \in Nat
      BY <1>4 DEF Pairs
    <3> QED BY <1>1, <1>4, <2>1, <3>1, <3>2
  <2>2. CASE q # x
    BY <1>3, <1>8, <2>2 DEF IInv, ExpiryOnlyDrifts
  <2> QED BY <2>1, <2>2
<1>12. RequestsOK'
  <2>1. ASSUME NEW w, NEW q \in Requests \ {r}, w = req[q] PROVE Slot(w)'
    <3>1. Slot(w)
      BY <2>1 DEF IInv, RequestsOK
    <3>2. w.pc = "store" => w.new \notin retired' /\ \A t \in DOMAIN auth' : w.new \notin auth'[t]
      BY <1>3, <3>1 DEF Slot, Storing
    <3> QED BY <1>3, <3>1, <3>2, SlotKept
  <2>2. ASSUME NEW w, w = z PROVE Slot(w)'
    <3>1. y.session \in DOMAIN auth
      BY DEF RefreshSign, IInv, RequestsOK, Slot, Signing
    <3>2. \E p \in pairs' : p.n = n /\ SessionOf(p) = y.session
      BY <1>1, <1>3 DEF SessionOf
    <3>3. Storing(w)'
      BY <1>3, <1>8, <2>2, <3>1, <3>2 DEF Storing, SessionOf
    <3> QED BY <2>2, <3>3 DEF Slot
  <2>3. \A w : w = z \/ (\E q \in Requests \ {r} : w = req[q]) => Slot(w)'
    BY <2>1, <2>2
  <2>4. \A q \in Requests \ {r} : req[q].pc = "store" => req[q].new # z.new
    BY <1>8
  <2>5. RequestsOK /\ req' = [req EXCEPT ![r] = z]
    BY <1>3 DEF IInv
  <2> QED BY <2>3, <2>4, <2>5, SlotsKept
<1>13. FreshOK'
  BY <1>3 DEF IInv, FreshOK, RequestsOK
<1> QED BY <1>6, <1>9, <1>10, <1>11, <1>12, <1>13 DEF IInv

\* A sign-in: signed and stored in one go, for account sub.
LEMMA SignInStep ==
  ASSUME IInv, NEW r \in Requests, req[r].pc = "oauth",
         NEW n \in Numbers, n = Cardinality(pairs) + 1,
         NEW sub \in Numbers, sub = n \/ Known(sub), SignIn(r, n, sub),
         users \subseteq users', users' \subseteq Users,
         \A u \in users' \ users : u.id = n /\ ~u.active,
         \A u, v \in users' : u.email = v.email \/ u.id = v.id => u = v,
         \A u \in users' : u.id = sub => u.provider = req[r].provider,
         UNCHANGED now
  PROVE  IInv'
<1> DEFINE y == req[r]
<1> PICK x : x = [n |-> n, sub |-> sub, device |-> y.device, parent |-> 0,
                  provider |-> y.provider, asked |-> y.iat, iat |-> y.iat,
                  exp |-> y.iat + RefreshAge]
  OBVIOUS
<1> PICK s : s = <<sub, y.device>>
  OBVIOUS
<1>1. Entering(y) /\ now \in 0..MaxTime
  BY DEF IInv, RequestsOK, Slot, TableOK
<1>2. /\ pairs' = pairs \cup {x} /\ WriteAuth(s, {n}) /\ held' = held \cup {n}
      /\ req' = [req EXCEPT ![r] = Idle] /\ stale' = stale \ {r} /\ out' = out \ {s}
  BY DEF SignIn, Answer, Done, Fresh
<1>3. x \in Pairs /\ s \in Sessions
  BY <1>1, AgeAssumption DEF Entering, Pairs, Sessions
<1>4. PairsOK' /\ (\A k : Known(k) => k # n /\ Known(k)') /\ Known(n)'
  <2>1. x.n = Cardinality(pairs) + 1 /\ (x.sub = x.n \/ Known(x.sub)) /\ (x.parent = 0 \/ Known(x.parent))
    OBVIOUS
  <2>2. x.n = n
    OBVIOUS
  <2>3. PairsOK /\ pairs' = pairs \cup {x}
    BY <1>2 DEF IInv
  <2> QED BY <1>3, <2>1, <2>2, <2>3, NewPair
<1>5. /\ n \notin retired /\ \A t \in DOMAIN auth : n \notin auth[t]
      /\ \A q \in Requests : req[q].pc = "store" => req[q].new # n
      /\ \A q \in Requests : req[q].pc = "sign" => req[q].session[1] # n
      /\ \A p \in pairs : p.n # n /\ p.sub # n /\ p.parent # n
  <2>1. n # 0 /\ ~Known(n)
    BY <1>4, NumbersAreNat
  <2> QED BY <2>1, OldNumbers DEF IInv
<1>6. AccountsOK'
  BY <1>4 DEF IInv, AccountsOK
<1>7. OneAccountPerEmail'
  <2> SUFFICES ASSUME NEW p \in pairs', NEW u \in users', u.id = p.sub
               PROVE  u.provider = p.provider
    BY DEF OneAccountPerEmail
  <2>1. CASE p = x
    BY <2>1
  <2>2. CASE p # x
    <3>1. p \in pairs /\ u \in users
      BY <1>2, <1>5, <2>2
    <3> QED BY <3>1 DEF IInv, OneAccountPerEmail
  <2> QED BY <2>1, <2>2
<1>8. ExpiryOnlyDrifts'
  <2> SUFFICES ASSUME NEW p \in pairs', NEW q \in pairs', q.parent = p.n
               PROVE  q.exp - p.exp = q.iat - q.asked
    BY DEF ExpiryOnlyDrifts
  <2>1. p.n \in Numbers
    BY <1>4 DEF PairsOK, Pairs
  <2>2. q # x
    BY <2>1, NumbersAreNat
  <2> QED BY <1>2, <1>5, <2>2 DEF IInv, ExpiryOnlyDrifts
<1>9. /\ TableOK' /\ RetiredPairsStayRetired'
      /\ DOMAIN auth' = DOMAIN auth \cup {s}
      /\ \A k : /\ k \notin retired /\ k \notin {n}
                /\ \A t \in DOMAIN auth : k \notin auth[t]
                => k \notin retired' /\ \A t \in DOMAIN auth' : k \notin auth'[t]
  <2>1. \E p \in pairs' : SessionOf(p) = s /\ {n} = {p.n}
    BY <1>2 DEF SessionOf
  <2>2. held' \subseteq Numbers /\ out' \subseteq Sessions /\ stale' \subseteq Requests
    BY <1>2 DEF IInv, TableOK
  <2>3. \A k \in {n} : k \notin retired /\ \A t \in DOMAIN auth : k \notin auth[t]
    BY <1>5
  <2>4. now' \in 0..MaxTime /\ pairs \subseteq pairs'
    BY <1>1, <1>2
  <2> QED BY <1>2, <1>3, <1>4, <2>1, <2>2, <2>3, <2>4, WriteKeeps
<1>10. RequestsOK'
  <2>1. ASSUME NEW w, NEW q \in Requests \ {r}, w = req[q] PROVE Slot(w)'
    <3>1. Slot(w) /\ (w.pc = "store" => w.new # n)
      BY <1>5, <2>1 DEF IInv, RequestsOK
    <3>2. w.pc = "store" => w.new \notin retired' /\ \A t \in DOMAIN auth' : w.new \notin auth'[t]
      BY <1>9, <3>1 DEF Slot, Storing
    <3> QED BY <1>2, <1>9, <3>1, <3>2, SlotKept
  <2>2. ASSUME NEW w, w = Idle PROVE Slot(w)'
    BY <2>2 DEF Slot, Idle
  <2>3. \A w : w = Idle \/ (\E q \in Requests \ {r} : w = req[q]) => Slot(w)'
    BY <2>1, <2>2
  <2>4. Idle.pc # "store"
    BY DEF Idle
  <2> QED BY <1>2, <2>3, <2>4, SlotsKept DEF IInv
<1>11. FreshOK'
  <2> SUFFICES ASSUME NEW q \in Requests, q \notin stale'
               PROVE  /\ req'[q].pc = "sign" =>
                            \A u \in users' : u.id = req'[q].session[1] => u.active
                      /\ req'[q].pc = "oauth" => req'[q].user \subseteq users'
    BY DEF FreshOK
  <2>1. CASE q = r
    BY <1>2, <2>1 DEF IInv, RequestsOK, Idle
  <2>2. CASE q # r
    <3>1. req'[q] = req[q] /\ q \notin stale
      BY <1>2, <2>2 DEF IInv, RequestsOK
    <3> QED BY <1>5, <3>1 DEF IInv, FreshOK
  <2> QED BY <2>1, <2>2
<1> QED BY <1>4, <1>6, <1>7, <1>8, <1>9, <1>10, <1>11 DEF IInv

LEMMA OauthKnownStep ==
  ASSUME IInv, NEW r \in Requests, OauthKnown(r)
  PROVE  IInv'
<1> PICK n : n = Cardinality(pairs) + 1
  OBVIOUS
<1>1. PICK u \in req[r].user : u.provider = req[r].provider /\ n \in Numbers /\ SignIn(r, n, u.id)
  BY DEF OauthKnown, NewNumber
<1>2. req[r].pc = "oauth" /\ Entering(req[r]) /\ UNCHANGED <<now, users>>
  BY DEF OauthKnown, IInv, RequestsOK, Slot
<1>3. PICK v \in users : v.id = u.id /\ v.provider = u.provider
  BY <1>2 DEF Entering
<1>4. u.id \in Numbers /\ Known(u.id)
  BY <1>3 DEF IInv, AccountsOK, Users
<1>5. \A a, b \in users' : a.email = b.email \/ a.id = b.id => a = b
  BY <1>2 DEF IInv, AccountsOK, OneAccountPerEmail
<1>6. \A a \in users' : a.id = u.id => a.provider = req[r].provider
  BY <1>1, <1>2, <1>3 DEF IInv, AccountsOK
<1>7. users \subseteq users' /\ users' \subseteq Users /\ \A a \in users' \ users : a.id = n /\ ~a.active
  BY <1>2 DEF IInv, AccountsOK
<1> QED BY <1>1, <1>2, <1>4, <1>5, <1>6, <1>7, SignInStep, ZenonT(30)

LEMMA OauthNewStep ==
  ASSUME IInv, NEW r \in Requests, OauthNew(r)
  PROVE  IInv'
<1> PICK n : n = Cardinality(pairs) + 1
  OBVIOUS
<1> PICK u : u = [id |-> n, email |-> req[r].email, provider |-> req[r].provider, active |-> FALSE]
  OBVIOUS
<1>1. /\ req[r].pc = "oauth" /\ n \in Numbers /\ SignIn(r, n, n) /\ UNCHANGED now
      /\ users' = users \cup {u} /\ \A v \in users : v.email # u.email
  BY DEF OauthNew, NewNumber
<1>2. Entering(req[r])
  BY <1>1 DEF IInv, RequestsOK, Slot
<1>3. \A v \in users : v.id # n
  <2>1. \A v \in users : \E p \in pairs : p.n = v.id /\ p.n \in Nat /\ p.n <= Cardinality(pairs)
    BY NumbersAreNat DEF IInv, AccountsOK, PairsOK, Known, Pairs
  <2>2. Cardinality(pairs) \in Nat
    BY FS_CardinalityType DEF IInv, PairsOK
  <2> QED BY <2>1, <2>2
<1>4. users \subseteq users' /\ users' \subseteq Users /\ \A v \in users' \ users : v.id = n /\ ~v.active
  <2>1. u \in Users /\ ~u.active /\ u.id = n
    BY <1>1, <1>2 DEF Entering, Users
  <2>2. users \subseteq Users
    BY DEF IInv, AccountsOK
  <2> QED BY <1>1, <2>1, <2>2
<1>5. \A a, b \in users' : a.email = b.email \/ a.id = b.id => a = b
  <2>1. \A a, b \in users : a.email = b.email \/ a.id = b.id => a = b
    BY DEF IInv, AccountsOK, OneAccountPerEmail
  <2>2. u.id = n
    OBVIOUS
  <2>3. \A a \in users' : a = u \/ (a \in users /\ a.id # n /\ a.email # u.email)
    BY <1>1, <1>3
  <2> QED BY <2>1, <2>2, <2>3
<1>6. \A a \in users' : a.id = n => a.provider = req[r].provider
  BY <1>1, <1>3
<1> QED BY <1>1, <1>4, <1>5, <1>6, SignInStep

---------------------------------------------------------------------------
(* Steps of the world, and the invariant *)

LEMMA SetActiveStep ==
  ASSUME IInv, NEW u \in users, SetActive(u)
  PROVE  IInv'
<1> PICK w : w = [u EXCEPT !.active = ~@]
  OBVIOUS
<1>1. u \in Users
  BY DEF IInv, AccountsOK
<1>2. w \in Users /\ w.id = u.id /\ w.email = u.email /\ w.provider = u.provider
  BY <1>1 DEF Users
<1>3. /\ users' = (users \ {u}) \cup {w} /\ stale' = stale \cup ReadersOf(u)
      /\ UNCHANGED <<now, auth, pairs, held, req, out, retired>>
  BY DEF SetActive
<1>4. \A a \in users' : \E b \in users :
        /\ b.id = a.id /\ b.email = a.email /\ b.provider = a.provider
        /\ b = a \/ (b = u /\ a = w)
  BY <1>2, <1>3
<1>5. \A a \in users : \E b \in users' : b.id = a.id /\ b.provider = a.provider
  BY <1>2, <1>3
<1>6. PairsOK' /\ ExpiryOnlyDrifts' /\ RetiredPairsStayRetired'
  BY <1>3 DEF IInv, PairsOK, Known, ExpiryOnlyDrifts, RetiredPairsStayRetired
<1>7. AccountsOK'
  <2>1. \A n : Known(n) => Known(n)'
    BY <1>3 DEF Known
  <2>2. \A a \in users' : Known(a.id)'
    BY <1>4, <2>1 DEF IInv, AccountsOK
  <2>3. \A a, b \in users' : a.id = b.id => a = b
    <3> SUFFICES ASSUME NEW a \in users', NEW b \in users', a.id = b.id PROVE a = b
      OBVIOUS
    <3>1. \A x, y \in users : x.id = y.id => x = y
      BY DEF IInv, AccountsOK
    <3>2. \A x \in users' : IF x = w THEN x.id = u.id ELSE x \in users /\ x # u
      BY <1>2, <1>3
    <3> QED BY <3>1, <3>2
  <2>4. users' \subseteq Users
    BY <1>2, <1>3 DEF IInv, AccountsOK
  <2> QED BY <2>2, <2>3, <2>4 DEF AccountsOK
<1>8. OneAccountPerEmail'
  <2>1. \A a, b \in users' : a.email = b.email => a = b
    <3> SUFFICES ASSUME NEW a \in users', NEW b \in users', a.email = b.email PROVE a = b
      OBVIOUS
    <3>1. \A x, y \in users : x.email = y.email => x = y
      BY DEF IInv, OneAccountPerEmail
    <3>2. \A x \in users' : IF x = w THEN x.email = u.email ELSE x \in users /\ x # u
      BY <1>2, <1>3
    <3> QED BY <3>1, <3>2
  <2>2. \A p \in pairs' : \A a \in users' : a.id = p.sub => a.provider = p.provider
    BY <1>3, <1>4 DEF IInv, OneAccountPerEmail
  <2> QED BY <2>1, <2>2 DEF OneAccountPerEmail
<1>9. TableOK'
  BY <1>3 DEF IInv, TableOK, Known, SessionOf, ReadersOf
<1>10. RequestsOK'
  <2>1. ASSUME NEW x, NEW q \in Requests, x = req[q] PROVE Slot(x)'
    <3>1. Slot(x)
      BY <2>1 DEF IInv, RequestsOK
    <3>2. x.pc = "store" => x.new \notin retired' /\ \A s \in DOMAIN auth' : x.new \notin auth'[s]
      BY <1>3, <3>1 DEF Slot, Storing
    <3> QED BY <1>3, <1>5, <3>1, <3>2, SlotKept
  <2>2. \A q \in Requests : Slot(req[q])'
    BY <1>3, <2>1
  <2> QED BY <1>3, <2>2 DEF IInv, RequestsOK
<1>11. FreshOK'
  <2> SUFFICES ASSUME NEW q \in Requests, q \notin stale'
               PROVE  /\ req[q].pc = "sign" =>
                            \A a \in users' : a.id = req[q].session[1] => a.active
                      /\ req[q].pc = "oauth" => req[q].user \subseteq users'
    BY <1>3 DEF FreshOK
  <2>1. q \notin stale /\ q \notin ReadersOf(u)
    BY <1>3
  <2>2. req[q].pc = "sign" => req[q].session[1] # u.id
    BY <2>1 DEF ReadersOf
  <2>3. req[q].pc = "oauth" => u \notin req[q].user
    BY <2>1 DEF ReadersOf
  <2> QED BY <1>2, <1>3, <2>1, <2>2, <2>3 DEF IInv, FreshOK
<1> QED BY <1>6, <1>7, <1>8, <1>9, <1>10, <1>11 DEF IInv

\* Nothing a slot keeps depends on the clock.
LEMMA ClockStep ==
  ASSUME IInv, UNCHANGED <<tables, pairs, held, req, ghosts>>,
         now' = now \/ (now < MaxTime /\ now' = now + 1)
  PROVE  IInv'
<1> USE DEF tables, ghosts
<1>1. now' \in 0..MaxTime
  BY AgeAssumption DEF IInv, TableOK
<1>2. PairsOK' /\ ExpiryOnlyDrifts' /\ RetiredPairsStayRetired' /\ AccountsOK' /\ OneAccountPerEmail'
  BY DEF IInv, PairsOK, Known, ExpiryOnlyDrifts, RetiredPairsStayRetired, AccountsOK,
         OneAccountPerEmail
<1>3. TableOK'
  BY <1>1 DEF IInv, TableOK, Known, SessionOf
<1>4. RequestsOK'
  <2>1. \A q \in Requests : Slot(req[q])'
    BY DEF IInv, RequestsOK, Slot, Signing, Storing, Entering, SessionOf
  <2> QED BY <2>1 DEF IInv, RequestsOK
<1>5. FreshOK'
  BY DEF IInv, FreshOK
<1> QED BY <1>2, <1>3, <1>4, <1>5 DEF IInv

LEMMA Inductive == IInv /\ [Next]_vars => IInv'
<1> SUFFICES ASSUME IInv, [Next]_vars PROVE IInv'
  OBVIOUS
<1>1. CASE UNCHANGED vars
  BY <1>1, ClockStep DEF vars
<1>2. ASSUME NEW r \in Requests, NEW p \in HeldPairs, RefreshRead(r, p) PROVE IInv'
  BY <1>2, RefreshReadStep
<1>3. ASSUME NEW r \in Requests, RefreshSign(r) PROVE IInv'
  BY <1>3, RefreshSignStep
<1>4. ASSUME NEW r \in Requests, RefreshStore(r) PROVE IInv'
  BY <1>4, RefreshStoreStep
<1>5. ASSUME NEW r \in Requests, NEW p \in HeldPairs, SignOutRead(r, p) PROVE IInv'
  BY <1>5, SignOutReadStep
<1>6. ASSUME NEW r \in Requests, SignOutStore(r) PROVE IInv'
  BY <1>6, SignOutStoreStep
<1>7. ASSUME NEW r \in Requests, NEW e \in Emails, NEW v \in Providers, NEW d \in Devices,
             OauthRead(r, e, v, d)
      PROVE  IInv'
  BY <1>7, OauthReadStep
<1>8. ASSUME NEW r \in Requests, OauthKnown(r) PROVE IInv'
  BY <1>8, OauthKnownStep
<1>9. ASSUME NEW r \in Requests, OauthNew(r) PROVE IInv'
  BY <1>9, OauthNewStep
<1>10. ASSUME NEW r \in Requests, OauthRefused(r) \/ Abort(r) PROVE IInv'
  BY <1>10, LeaveStep
<1>11. ASSUME NEW u \in users, SetActive(u) PROVE IInv'
  BY <1>11, SetActiveStep
<1>12. CASE Tick
  BY <1>12, ClockStep DEF Tick
<1> QED
  BY <1>1, <1>2, <1>3, <1>4, <1>5, <1>6, <1>7, <1>8, <1>9, <1>10, <1>11, <1>12 DEF Next

LEMMA Invariant == Spec => []IInv
BY InitOK, Inductive, PTL DEF Spec

---------------------------------------------------------------------------
(* The theorems *)

\* Everything keeps its type, and a session stores one token or none, of a
\* pair signed for that user and device (AuthService, the table auth).
THEOREM TypeInvariant == Spec => []TypeOK
<1>1. IInv => TypeOK
  <2> SUFFICES ASSUME IInv PROVE TypeOK
    OBVIOUS
  <2>1. \A s \in DOMAIN auth :
          /\ auth[s] \subseteq {p.n : p \in {q \in pairs : SessionOf(q) = s}}
          /\ Cardinality(auth[s]) <= 1
    <3> SUFFICES ASSUME NEW s \in DOMAIN auth
                 PROVE  /\ auth[s] \subseteq {p.n : p \in {q \in pairs : SessionOf(q) = s}}
                        /\ Cardinality(auth[s]) <= 1
      OBVIOUS
    <3>1. CASE auth[s] = {}
      BY <3>1, FS_EmptySet
    <3>2. ASSUME NEW p \in pairs, SessionOf(p) = s, auth[s] = {p.n}
          PROVE  /\ auth[s] \subseteq {q.n : q \in {o \in pairs : SessionOf(o) = s}}
                 /\ Cardinality(auth[s]) <= 1
      <4>1. Cardinality({p.n}) = 1
        BY FS_Singleton
      <4> QED BY <3>2, <4>1
    <3> QED BY <3>1, <3>2 DEF IInv, TableOK
  <2>2. \A n \in retired : n \in Numbers
    BY DEF IInv, TableOK, Known, PairsOK, Pairs
  <2>3. \A r \in Requests : req[r].pc \in {"idle", "sign", "store", "revoke", "oauth"}
    BY DEF IInv, RequestsOK, Slot
  <2> QED BY <2>1, <2>2, <2>3 DEF IInv, TableOK, AccountsOK, PairsOK, TypeOK
<1> QED BY <1>1, Invariant, PTL

\* However the sign-ups of one address race, it gets one account, whose
\* sessions all come from its own provider (AuthService.oauth2).
THEOREM OneAccountForever == Spec => []OneAccountPerEmail
<1>1. IInv => OneAccountPerEmail
  BY DEF IInv
<1> QED BY <1>1, Invariant, PTL

\* What rotation, sign-in or sign-out replaced is accepted by no session again
\* (AuthService.refreshToken, signOut).
THEOREM RetiredForever == Spec => []RetiredPairsStayRetired
<1>1. IInv => RetiredPairsStayRetired
  BY DEF IInv
<1> QED BY <1>1, Invariant, PTL

\* A session is prolonged only by the time its refreshes took
\* (AuthService.refreshToken, `signed` with what is left of the age).
THEOREM LifeOnlyDrifts == Spec => []ExpiryOnlyDrifts
<1>1. IInv => ExpiryOnlyDrifts
  BY DEF IInv
<1> QED BY <1>1, Invariant, PTL

\* Who was deactivated gets a pair only from a request that had read the
\* status before (AuthService.oauth2, isDeviceExistAndActive).
THEOREM InactiveOnlyByStaleReads == Spec => OnlyAStaleReadServesInactive
<1> DEFINE Stale(r, p) == \/ req[r].pc = "sign" /\ req[r].session = SessionOf(p)
                          \/ req[r].pc = "oauth" /\ req[r].user # {}
           Step == \A p \in pairs' \ pairs : \A u \in users :
                     u.id = p.sub /\ ~u.active => \E r \in stale : Stale(r, p)
<1>1. ASSUME IInv, [Next]_vars PROVE Step
  <2> SUFFICES ASSUME NEW p \in pairs', p \notin pairs, NEW u \in users, u.id = p.sub, ~u.active
               PROVE  \E r \in stale : Stale(r, p)
    OBVIOUS
  <2>1. ASSUME NEW r \in Requests, RefreshSign(r) PROVE r \in stale /\ Stale(r, p)
    <3>1. PICK old \in pairs : old.n = req[r].token /\ SessionOf(old) = req[r].session
      BY <1>1, <2>1 DEF RefreshSign, IInv, RequestsOK, Slot, Signing
    <3>2. (CHOOSE q \in pairs : q.n = req[r].token) = old
      BY <1>1, <3>1 DEF IInv, PairsOK
    <3>3. p.sub = old.sub /\ p.device = old.device
      BY <2>1, <3>2 DEF RefreshSign
    <3>4. req[r].session = SessionOf(p) /\ req[r].session[1] = u.id /\ req[r].pc = "sign"
      BY <2>1, <3>1, <3>3 DEF SessionOf, RefreshSign
    <3>5. r \in stale
      BY <1>1, <3>4 DEF IInv, FreshOK
    <3> QED BY <3>4, <3>5
  <2>2. ASSUME NEW r \in Requests, OauthKnown(r) PROVE r \in stale /\ Stale(r, p)
    <3>1. PICK v \in req[r].user : v.active /\ p.sub = v.id
      BY <2>2 DEF OauthKnown, SignIn
    <3>2. req[r].pc = "oauth" /\ req[r].user # {}
      BY <2>2 DEF OauthKnown
    <3>3. r \in stale
      BY <1>1, <3>1, <3>2 DEF IInv, FreshOK, AccountsOK
    <3> QED BY <3>2, <3>3
  <2>3. ASSUME NEW r \in Requests, OauthNew(r) PROVE FALSE
    <3>1. p.sub = Cardinality(pairs) + 1
      BY <2>3 DEF OauthNew, SignIn, NewNumber
    <3>2. PICK q \in pairs : q.n = u.id /\ q.n \in Nat /\ q.n <= Cardinality(pairs)
      BY <1>1, NumbersAreNat DEF IInv, AccountsOK, PairsOK, Known, Pairs
    <3>3. Cardinality(pairs) \in Nat
      BY <1>1, FS_CardinalityType DEF IInv, PairsOK
    <3> QED BY <3>1, <3>2, <3>3
  <2>4. \E r \in Requests : RefreshSign(r) \/ OauthKnown(r) \/ OauthNew(r)
    BY <1>1 DEF Next, vars, RefreshRead, RefreshStore, SignOutRead, SignOutStore, OauthRead,
                OauthRefused, Abort, SetActive, Tick
  <2> QED BY <2>1, <2>2, <2>3, <2>4
<1>2. IInv /\ [Next]_vars => [Step]_vars
  BY <1>1
<1>3. Spec => [][Step]_vars
  BY <1>2, Invariant, PTL DEF Spec
<1> QED BY <1>3 DEF OnlyAStaleReadServesInactive


---------------------------------------------------------------------------
(* The slots as the table sees them *)

Entered == {r \in Requests : req[r].pc = "oauth"}
Accepted == {<<r, req[r].session>> : r \in {q \in Requests : req[q].pc \in {"sign", "store"}}}
TableVars == <<auth, Entered, Accepted>>

\* auth is a function, so that writing what is there writes nothing.
AuthIsTable == auth = [s \in DOMAIN auth |-> auth[s]]

LEMMA AuthStaysTable == AuthIsTable /\ [Next]_vars => AuthIsTable'
<1> SUFFICES ASSUME AuthIsTable, [Next]_vars PROVE AuthIsTable'
  OBVIOUS
<1>1. CASE UNCHANGED auth
  BY <1>1 DEF AuthIsTable
<1>2. ASSUME NEW s, NEW value, auth' = Upsert(s, value) PROVE AuthIsTable'
  BY <1>2 DEF Upsert, AuthIsTable
<1>3. ASSUME NEW r \in Requests, RefreshStore(r) \/ SignOutStore(r) \/ OauthKnown(r) \/ OauthNew(r)
      PROVE  AuthIsTable'
  <2>1. \E s, value : auth' = Upsert(s, value)
    BY <1>3 DEF RefreshStore, SignOutStore, OauthKnown, OauthNew, SignIn, WriteAuth
  <2> QED BY <1>2, <2>1
<1> QED
  BY <1>1, <1>3 DEF Next, vars, tables, ghosts, RefreshRead, RefreshSign, SignOutRead, OauthRead,
       OauthRefused, Abort, SetActive, Tick

\* A slot that takes on x.
LEMMA SlotTurns ==
  ASSUME RequestsOK, NEW r \in Requests, NEW x, req' = [req EXCEPT ![r] = x]
  PROVE  /\ Entered' = (Entered \ {r}) \cup (IF x.pc = "oauth" THEN {r} ELSE {})
         /\ Accepted' = {f \in Accepted : f[1] # r}
                          \cup (IF x.pc \in {"sign", "store"} THEN {<<r, x.session>>} ELSE {})
<1>1. \A q \in Requests : req'[q] = IF q = r THEN x ELSE req[q]
  BY DEF RequestsOK
<1>2. Entered' = (Entered \ {r}) \cup (IF x.pc = "oauth" THEN {r} ELSE {})
  BY <1>1 DEF Entered
<1>3. \A f : f \in Accepted' <=> f \in {g \in Accepted : g[1] # r}
                          \cup (IF x.pc \in {"sign", "store"} THEN {<<r, x.session>>} ELSE {})
  BY <1>1 DEF Accepted
<1> QED BY <1>2, <1>3

LEMMA Leaves ==
  ASSUME RequestsOK, NEW r \in Requests, Done(r)
  PROVE  Table!Leave(r)
<1>1. /\ Entered' = (Entered \ {r}) \cup (IF Idle.pc = "oauth" THEN {r} ELSE {})
      /\ Accepted' = {f \in Accepted : f[1] # r}
                       \cup (IF Idle.pc \in {"sign", "store"} THEN {<<r, Idle.session>>} ELSE {})
  BY SlotTurns DEF Done
<1>2. Entered' = Entered \ {r} /\ Accepted' = {f \in Accepted : f[1] # r}
  BY <1>1 DEF Idle
<1> QED BY <1>2 DEF Table!Leave, Entered, Accepted

---------------------------------------------------------------------------
(* Each step *)

\* What is written is new to the session, by the slot let in for it.
LEMMA Writes ==
  ASSUME RequestsOK, NEW r \in Requests, Done(r), NEW s, NEW n, auth' = Upsert(s, {n}),
         r \in Entered \/ <<r, s>> \in Accepted,
         s \in DOMAIN auth => n \notin auth[s]
  PROVE  Table!Write(r)
<1>1. DOMAIN auth' = DOMAIN auth \cup {s} /\ auth'[s] = {n}
  BY DEF Upsert
<1>2. auth' = [t \in DOMAIN auth \cup {s} |-> IF t = s THEN auth'[s] ELSE auth[t]]
  BY <1>1 DEF Upsert
<1>3. Table!Leave(r)
  BY Leaves
<1>4. auth'[s] # {} /\ (s \in DOMAIN auth => auth'[s] # auth[s])
  BY <1>1
<1> QED BY <1>1, <1>2, <1>3, <1>4 DEF Table!Write, Entered, Accepted

LEMMA NotBusy ==
  ASSUME NEW r \in Requests, req[r].pc \notin {"oauth", "sign", "store"}
  PROVE  ~Table!Busy(r)
BY DEF Table!Busy

\* A slot that is given something else to do while it is not busy, or keeps
\* the session it refreshes, leaves the table alone.
LEMMA Steps ==
  ASSUME IInv, AuthIsTable, [Next]_vars
  PROVE  [Table!Next]_(Table!vars)
<1> DEFINE Goal == [Table!Next]_(Table!vars)
<1> USE DEF tables
<1>0. RequestsOK /\ \A r \in Requests : Slot(req[r])
  BY DEF IInv, RequestsOK
<1>1. ASSUME UNCHANGED <<auth, Entered, Accepted>> PROVE Goal
  BY <1>1 DEF Table!vars, Entered, Accepted
<1>2. ASSUME UNCHANGED <<auth, req>> PROVE Goal
  BY <1>2 DEF Table!vars
<1>3. ASSUME NEW r \in Requests, NEW p \in HeldPairs, RefreshRead(r, p) PROVE Goal
  <2>1. UNCHANGED auth /\ req[r] = Idle
    BY <1>3 DEF RefreshRead
  <2> PICK x : x.pc = "sign" /\ x.session = SessionOf(p) /\ req' = [req EXCEPT ![r] = x]
    BY <1>3 DEF RefreshRead
  <2>2. Entered' = Entered \ {r}
        /\ Accepted' = {f \in Accepted : f[1] # r} \cup {<<r, SessionOf(p)>>}
    BY <1>0, <2>1, SlotTurns
  <2>3. ~Table!Busy(r)
    BY <2>1, NotBusy DEF Idle
  <2>4. Entered' = Entered /\ Accepted' = Accepted \cup {<<r, SessionOf(p)>>}
    BY <2>2, <2>3 DEF Table!Busy, Entered, Accepted
  <2>5. SessionOf(p) \in DOMAIN auth /\ auth[SessionOf(p)] # {}
    BY <1>3 DEF RefreshRead, DeviceExistsAndActive, Accepts
  <2>6. Table!Accept(r)
    BY <2>1, <2>3, <2>4, <2>5 DEF Table!Accept, Entered, Accepted
  <2> QED BY <2>6 DEF Table!Next
<1>4. ASSUME NEW r \in Requests, RefreshSign(r) PROVE Goal
  <2>1. PICK x : x.pc = "store" /\ x.session = req[r].session /\ req' = [req EXCEPT ![r] = x]
    BY <1>4 DEF RefreshSign
  <2>2. UNCHANGED auth /\ req[r].pc = "sign"
    BY <1>4 DEF RefreshSign
  <2>3. Entered' = Entered \ {r}
        /\ Accepted' = {f \in Accepted : f[1] # r} \cup {<<r, req[r].session>>}
    BY <1>0, <2>1, SlotTurns, ZenonT(30)
  <2>4. r \notin Entered /\ \A f \in Accepted : f[1] = r => f = <<r, req[r].session>>
    BY <2>2 DEF Entered, Accepted
  <2>5. <<r, req[r].session>> \in Accepted
    BY <2>2 DEF Accepted
  <2>6. Entered' = Entered /\ Accepted' = Accepted
    BY <2>3, <2>4, <2>5
  <2> QED BY <1>1, <2>2, <2>6
<1>5. ASSUME NEW r \in Requests, RefreshStore(r) PROVE Goal
  <2>1. req[r].pc = "store" /\ Done(r) /\ auth' = Upsert(req[r].session, {req[r].new})
    BY <1>5 DEF RefreshStore, WriteAuth
  <2>2. <<r, req[r].session>> \in Accepted
    BY <2>1 DEF Accepted
  <2>3. req[r].session \in DOMAIN auth => req[r].new \notin auth[req[r].session]
    BY <1>0, <2>1 DEF Slot, Storing
  <2>4. Table!Write(r)
    BY <1>0, <2>1, <2>2, <2>3, Writes
  <2> QED BY <2>4 DEF Table!Next
<1>6. ASSUME NEW r \in Requests, NEW p \in HeldPairs, SignOutRead(r, p) PROVE Goal
  <2>1. UNCHANGED auth /\ req[r] = Idle
    BY <1>6 DEF SignOutRead
  <2> PICK x : x.pc = "revoke" /\ req' = [req EXCEPT ![r] = x]
    BY <1>6 DEF SignOutRead
  <2>2. Entered' = Entered \ {r} /\ Accepted' = {f \in Accepted : f[1] # r}
    BY <1>0, <2>1, SlotTurns
  <2>3. ~Table!Busy(r)
    BY <2>1, NotBusy DEF Idle
  <2>4. Entered' = Entered /\ Accepted' = Accepted
    BY <2>2, <2>3 DEF Table!Busy, Entered, Accepted
  <2> QED BY <1>1, <2>1, <2>4
<1>7. ASSUME NEW r \in Requests, SignOutStore(r) PROVE Goal
  <2> DEFINE s == req[r].session
  <2>1. req[r].pc = "revoke" /\ Done(r) /\ auth' = Upsert(s, {}) /\ s \in DOMAIN auth
    BY <1>0, <1>7 DEF SignOutStore, WriteAuth, Slot
  <2>2. Table!Leave(r) /\ ~Table!Busy(r)
    BY <1>0, <2>1, Leaves, NotBusy
  <2>3. Entered' = Entered /\ Accepted' = Accepted
    BY <2>2 DEF Table!Leave, Table!Busy, Entered, Accepted
  <2>4. CASE auth[s] = {}
    <3>1. auth' = auth
      BY <2>1, <2>4 DEF Upsert, AuthIsTable
    <3> QED BY <1>1, <2>3, <3>1
  <2>5. CASE auth[s] # {}
    <3>1. auth' = [auth EXCEPT ![s] = {}]
      BY <2>1 DEF Upsert
    <3>2. Table!SignOut
      BY <2>1, <2>3, <2>5, <3>1 DEF Table!SignOut, Entered, Accepted
    <3> QED BY <3>2 DEF Table!Next
  <2> QED BY <2>4, <2>5
<1>8. ASSUME NEW r \in Requests, NEW e \in Emails, NEW v \in Providers, NEW d \in Devices,
             OauthRead(r, e, v, d)
      PROVE  Goal
  <2>1. UNCHANGED auth /\ req[r] = Idle
    BY <1>8 DEF OauthRead
  <2> PICK x : x.pc = "oauth" /\ req' = [req EXCEPT ![r] = x]
    BY <1>8 DEF OauthRead
  <2>2. Entered' = (Entered \ {r}) \cup {r} /\ Accepted' = {f \in Accepted : f[1] # r}
    BY <1>0, <2>1, SlotTurns
  <2>3. ~Table!Busy(r)
    BY <2>1, NotBusy DEF Idle
  <2>4. Entered' = Entered \cup {r} /\ Accepted' = Accepted
    BY <2>2, <2>3 DEF Table!Busy, Entered, Accepted
  <2>5. Table!BeginSignIn(r)
    BY <2>1, <2>3, <2>4 DEF Table!BeginSignIn, Entered, Accepted
  <2> QED BY <2>5 DEF Table!Next
<1>9. ASSUME NEW r \in Requests, OauthKnown(r) \/ OauthNew(r) PROVE Goal
  <2> PICK n : n = Cardinality(pairs) + 1
    OBVIOUS
  <2>1. PICK s : auth' = Upsert(s, {n})
    BY <1>9 DEF OauthKnown, OauthNew, NewNumber, SignIn, WriteAuth
  <2>2. Done(r) /\ r \in Entered
    BY <1>9 DEF OauthKnown, OauthNew, SignIn, Entered
  <2>3. ~Known(n)
    <3>1. Cardinality(pairs) \in Nat /\ \A p \in pairs : p.n \in Nat /\ p.n <= Cardinality(pairs)
      BY FS_CardinalityType, NumbersAreNat DEF IInv, PairsOK, Pairs
    <3> QED BY <3>1 DEF Known
  <2>4. s \in DOMAIN auth => n \notin auth[s]
    BY <2>3, OldNumbers DEF IInv
  <2>5. Table!Write(r)
    BY <1>0, <2>1, <2>2, <2>4, Writes
  <2> QED BY <2>5 DEF Table!Next
<1>10. ASSUME NEW r \in Requests, OauthRefused(r) \/ Abort(r) PROVE Goal
  <2>1. Done(r) /\ UNCHANGED auth
    BY <1>10 DEF OauthRefused, Abort
  <2>2. Table!Leave(r)
    BY <1>0, <2>1, Leaves
  <2>3. CASE Table!Busy(r)
    BY <2>1, <2>2, <2>3 DEF Table!GiveUp, Table!Next
  <2>4. CASE ~Table!Busy(r)
    <3>1. Entered' = Entered /\ Accepted' = Accepted
      BY <2>2, <2>4 DEF Table!Leave, Table!Busy, Entered, Accepted
    <3> QED BY <1>1, <2>1, <3>1
  <2> QED BY <2>3, <2>4
<1>11. CASE Tick \/ \E u \in users : SetActive(u)
  BY <1>2, <1>11 DEF Tick, SetActive
<1>12. CASE UNCHANGED vars
  BY <1>2, <1>12 DEF vars
<1> QED
  BY <1>3, <1>4, <1>5, <1>6, <1>7, <1>8, <1>9, <1>10, <1>11, <1>12 DEF Next

---------------------------------------------------------------------------
(* The theorem *)

\* Sessions are written by the sign-ins, the sign-outs and the refreshes
\* accepted for them, once by each (AuthService and the table auth).
THEOREM TableIsKept == Spec => TableIsImplemented
<1>1. Init => AuthIsTable /\ Table!Init
  BY DEF Init, AuthIsTable, Table!Init, Idle
<1>2. IInv /\ AuthIsTable /\ [Next]_vars => [Table!Next]_(Table!vars)
  BY Steps
<1> QED BY <1>1, <1>2, AuthStaysTable, Invariant, PTL DEF Spec, TableIsImplemented, Table!Spec
=============================================================================
