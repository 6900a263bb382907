-------------------------- MODULE TaskStoreProofs --------------------------
(***************************************************************************)
(* Theorems about TaskStore, for any users, ids, uploads, page sizes and   *)
(* limits: what a walk through the pages can miss, repeat or be refused.   *)
(***************************************************************************)
EXTENDS TaskStore, ListLemmas, FiniteSetTheorems, SequenceTheorems, TLAPS

---------------------------------------------------------------------------
(* Scans *)

Increasing(f, n) == \A k, l \in 1..n : k < l => f[k] < f[l]

\* A set of positions can be gone through in their order: by their ranks.
LEMMA ScanExists ==
  ASSUME NEW S \in SUBSET Nat, IsFiniteSet(S)
  PROVE  \E at \in [1..Cardinality(S) -> S] : Increasing(at, Cardinality(S))
<1> DEFINE n == Cardinality(S)
           upTo(x) == {y \in S : y <= x}
           rank == [x \in S |-> Cardinality(upTo(x))]
<1>1. n \in Nat
  BY FS_CardinalityType
<1>2. \A x \in S : IsFiniteSet(upTo(x)) /\ rank[x] \in 1..n
  <2> SUFFICES ASSUME NEW x \in S PROVE IsFiniteSet(upTo(x)) /\ rank[x] \in 1..n
    OBVIOUS
  <2>1. upTo(x) \in SUBSET S
    OBVIOUS
  <2>2. IsFiniteSet(upTo(x)) /\ Cardinality(upTo(x)) <= n
    BY <2>1, FS_Subset
  <2>3. Cardinality(upTo(x)) \in Nat /\ Cardinality(upTo(x)) # 0
    <3>1. x \in upTo(x)
      OBVIOUS
    <3> QED BY <2>2, <3>1, FS_EmptySet, FS_CardinalityType
  <2> QED BY <1>1, <2>2, <2>3
<1>3. \A x, y \in S : x < y => rank[x] < rank[y]
  <2> SUFFICES ASSUME NEW x \in S, NEW y \in S, x < y PROVE rank[x] < rank[y]
    OBVIOUS
  <2>0. x \in Nat /\ y \in Nat /\ \A z \in S : z \in Nat
    OBVIOUS
  <2>1. upTo(x) \in SUBSET upTo(y) /\ y \in upTo(y) /\ y \notin upTo(x)
    <3>1. \A z \in S : z <= x => z <= y
      BY <2>0
    <3>2. y <= y /\ ~(y <= x)
      BY <2>0
    <3> QED BY <3>1, <3>2
  <2>2. Cardinality(upTo(x)) <= Cardinality(upTo(y)) /\ Cardinality(upTo(x)) # Cardinality(upTo(y))
    BY <1>2, <2>1, FS_Subset
  <2>3. rank[x] \in Nat /\ rank[y] \in Nat
    BY <1>2
  <2> QED BY <2>2, <2>3
<1>4. rank \in Injection(S, 1..n)
  <2>1. rank \in [S -> 1..n]
    BY <1>2
  <2>2. \A x, y \in S : rank[x] = rank[y] => x = y
    <3> SUFFICES ASSUME NEW x \in S, NEW y \in S, rank[x] = rank[y], x # y PROVE FALSE
      OBVIOUS
    <3>1. (x < y \/ y < x) /\ rank[x] \in Nat /\ rank[y] \in Nat
      BY <1>2
    <3> QED BY <1>3, <3>1
  <2> HIDE DEF rank
  <2> QED BY <2>1, <2>2 DEF Injection, IsInjective
<1>5. rank \in Surjection(S, 1..n)
  <2>1. IsFiniteSet(1..n) /\ Cardinality(1..n) = n
    BY <1>1, FS_Interval
  <2> HIDE DEF rank
  <2> QED BY <1>4, <2>1, FS_Injection
<1> DEFINE at == [k \in 1..n |-> CHOOSE x \in S : rank[x] = k]
<1>6. \A k \in 1..n : at[k] \in S /\ rank[at[k]] = k
  <2>1. \A k \in 1..n : \E x \in S : rank[x] = k
    <3> HIDE DEF rank
    <3> QED BY <1>5 DEF Surjection, Range
  <2> HIDE DEF rank
  <2> QED BY <2>1
<1>7. \A k, l \in 1..n : k < l => at[k] < at[l]
  <2> HIDE DEF rank, at
  <2> SUFFICES ASSUME NEW k \in 1..n, NEW l \in 1..n, k < l PROVE at[k] < at[l]
    OBVIOUS
  <2>1. at[k] \in S /\ at[l] \in S /\ rank[at[k]] = k /\ rank[at[l]] = l
    BY <1>6
  <2>2. ~(at[k] = at[l]) /\ ~(at[l] < at[k])
    <3>1. at[l] < at[k] => l < k
      BY <1>3, <2>1
    <3>2. k \in Nat /\ l \in Nat /\ ~(l < k) /\ k # l
      OBVIOUS
    <3> QED BY <2>1, <3>1, <3>2
  <2>3. at[k] \in Nat /\ at[l] \in Nat
    BY <2>1
  <2> QED BY <2>2, <2>3
<1>8. at \in [1..n -> S]
  <2> HIDE DEF rank
  <2> QED BY <1>6
<1> HIDE DEF at
<1> QED BY <1>7, <1>8 DEF Increasing

LEMMA ScanInOrder ==
  ASSUME NEW S \in SUBSET Nat, IsFiniteSet(S)
  PROVE  /\ Cardinality(S) \in Nat
         /\ InOrder(S) \in [1..Cardinality(S) -> S]
         /\ Increasing(InOrder(S), Cardinality(S))
         /\ \A k, l \in 1..Cardinality(S) : InOrder(S)[k] = InOrder(S)[l] => k = l
         /\ \A x \in S : \E k \in 1..Cardinality(S) : InOrder(S)[k] = x
<1> DEFINE n == Cardinality(S)
           at == InOrder(S)
<1>1. n \in Nat
  BY FS_CardinalityType
<1>2. at \in [1..n -> S] /\ Increasing(at, n)
  BY ScanExists DEF InOrder, Increasing
<1> HIDE DEF at
<1>3. \A k, l \in 1..n : at[k] = at[l] => k = l
  <2> SUFFICES ASSUME NEW k \in 1..n, NEW l \in 1..n, at[k] = at[l], k # l PROVE FALSE
    OBVIOUS
  <2>1. k < l \/ l < k
    BY <1>1
  <2>2. at[k] \in Nat /\ at[k] < at[k]
    BY <1>2, <2>1 DEF Increasing
  <2> QED BY <2>2
<1>4. at \in Injection(1..n, S)
  BY <1>2, <1>3 DEF Injection, IsInjective
<1>5. at \in Surjection(1..n, S)
  <2>1. IsFiniteSet(1..n) /\ Cardinality(1..n) = n
    BY <1>1, FS_Interval
  <2> QED BY <1>4, <2>1, FS_Injection
<1>6. \A x \in S : \E k \in 1..n : at[k] = x
  BY <1>5 DEF Surjection, Range
<1> QED BY <1>1, <1>2, <1>3, <1>6 DEF at

\* An injection into an interval has room in it.
LEMMA RoomFor ==
  ASSUME NEW k \in Nat, NEW l \in Nat, NEW h \in [1..k -> 1..l],
         \A p, q \in 1..k : h[p] = h[q] => p = q
  PROVE  k <= l
<1>1. h \in Injection(1..k, 1..l)
  BY DEF Injection, IsInjective
<1>2. /\ IsFiniteSet(1..k) /\ Cardinality(1..k) = k
      /\ IsFiniteSet(1..l) /\ Cardinality(1..l) = l
  BY FS_Interval
<1> QED BY <1>1, <1>2, FS_Injection

---------------------------------------------------------------------------
(* The table, and the tasks of one user in it *)

TableOK(t) == t \in Seq(Rows) /\ \A i, j \in DOMAIN t : t[i].id = t[j].id => i = j

Mine(t, u) == {i \in DOMAIN t : t[i].user = u}
HowMany(t, u) == Cardinality(Mine(t, u))
Scan(t, u) == InOrder(Mine(t, u))
OwnOf(t, u) == [k \in 1..HowMany(t, u) |-> t[Scan(t, u)[k]].id]

LEMMA PositionsAreFinite ==
  ASSUME NEW t, TableOK(t), NEW P \in SUBSET DOMAIN t
  PROVE  P \in SUBSET Nat /\ IsFiniteSet(P)
<1>1. DOMAIN t = 1..Len(t) /\ Len(t) \in Nat
  BY LenProperties DEF TableOK
<1>2. IsFiniteSet(1..Len(t))
  BY <1>1, FS_Interval
<1> QED BY <1>1, <1>2, FS_Subset

LEMMA RowsOf ==
  ASSUME NEW t, TableOK(t), NEW i \in DOMAIN t
  PROVE  t[i] \in Rows /\ t[i].id \in Ids /\ t[i].user \in Users
         /\ i \in Nat /\ i # 0
<1>1. DOMAIN t = 1..Len(t) /\ Len(t) \in Nat
  BY LenProperties DEF TableOK
<1>2. t[i] \in Rows
  BY <1>1, ElementOfSeq DEF TableOK
<1> QED BY <1>1, <1>2 DEF Rows

LEMMA ScanIs ==
  ASSUME NEW t, TableOK(t), NEW u
  PROVE  /\ HowMany(t, u) \in Nat
         /\ Scan(t, u) \in [1..HowMany(t, u) -> Mine(t, u)]
         /\ Increasing(Scan(t, u), HowMany(t, u))
         /\ \A k, l \in 1..HowMany(t, u) : Scan(t, u)[k] = Scan(t, u)[l] => k = l
         /\ \A i \in Mine(t, u) : \E k \in 1..HowMany(t, u) : Scan(t, u)[k] = i
         /\ \A k \in 1..HowMany(t, u) :
              /\ Scan(t, u)[k] \in DOMAIN t /\ t[Scan(t, u)[k]].user = u
              /\ Scan(t, u)[k] \in Nat /\ Scan(t, u)[k] # 0
<1>1. Mine(t, u) \in SUBSET Nat /\ IsFiniteSet(Mine(t, u)) /\ Mine(t, u) \subseteq DOMAIN t
  BY PositionsAreFinite DEF Mine
<1>2. \A i \in Mine(t, u) : i \in DOMAIN t /\ t[i].user = u /\ i \in Nat /\ i # 0
  BY RowsOf DEF Mine
<1>3. /\ HowMany(t, u) \in Nat
      /\ Scan(t, u) \in [1..HowMany(t, u) -> Mine(t, u)]
      /\ Increasing(Scan(t, u), HowMany(t, u))
      /\ \A k, l \in 1..HowMany(t, u) : Scan(t, u)[k] = Scan(t, u)[l] => k = l
      /\ \A i \in Mine(t, u) : \E k \in 1..HowMany(t, u) : Scan(t, u)[k] = i
  BY <1>1, ScanInOrder DEF HowMany, Scan
<1> QED BY <1>2, <1>3

LEMMA OwnIs ==
  ASSUME NEW t, TableOK(t), NEW u
  PROVE  /\ OwnOf(t, u) \in Seq(Ids) /\ Len(OwnOf(t, u)) = HowMany(t, u)
         /\ DOMAIN OwnOf(t, u) = 1..HowMany(t, u)
         /\ HowMany(t, u) \in Nat
         /\ IsInjective(OwnOf(t, u))
<1> DEFINE n == HowMany(t, u)
           at == Scan(t, u)
<1>1. n \in Nat /\ \A k \in 1..n : at[k] \in DOMAIN t
  BY ScanIs
<1>2. \A k \in 1..n : t[at[k]].id \in Ids
  BY <1>1, RowsOf
<1>3. OwnOf(t, u) \in [1..n -> Ids]
  BY <1>2 DEF OwnOf
<1>4. OwnOf(t, u) \in Seq(Ids) /\ Len(OwnOf(t, u)) = n
  BY <1>1, <1>3, SeqDef, LenProperties
<1>5. \A k, l \in 1..n : OwnOf(t, u)[k] = OwnOf(t, u)[l] => k = l
  <2> SUFFICES ASSUME NEW k \in 1..n, NEW l \in 1..n, t[at[k]].id = t[at[l]].id PROVE k = l
    BY DEF OwnOf
  <2>1. at[k] = at[l]
    BY <1>1 DEF TableOK
  <2> QED BY <2>1, ScanIs
<1> QED BY <1>1, <1>3, <1>4, <1>5 DEF IsInjective

\* It is the list the statement reads.
LEMMA OwnRead ==
  ASSUME NEW t, TableOK(t), NEW u
  PROVE  LET at == InOrder({i \in DOMAIN t : t[i].user = u})
         IN  [k \in DOMAIN at |-> t[at[k]].id] = OwnOf(t, u)
<1>1. DOMAIN Scan(t, u) = 1..HowMany(t, u)
  BY ScanIs
<1> QED BY <1>1 DEF OwnOf, Scan, Mine

---------------------------------------------------------------------------
(* From one table to the next.  g tells for each row of the new table where  *)
(* it was in the old one, 0 standing for nowhere.                            *)

Traces(t, n, g) ==
  /\ g \in [DOMAIN n -> {0} \cup DOMAIN t]
  /\ \A m \in DOMAIN n : g[m] # 0 =>
       n[m].id = t[g[m]].id /\ n[m].user = t[g[m]].user /\ n[m].at = t[g[m]].at
  /\ \A m \in DOMAIN n : g[m] = 0 => \A i \in DOMAIN t : t[i].id # n[m].id
  /\ \A m, l \in DOMAIN n : g[m] = g[l] /\ g[m] # 0 => m = l
  /\ \A m, l \in DOMAIN n : g[m] = 0 /\ g[l] = 0 /\ n[m].id = n[l].id => m = l

\* What the step leaves of the tasks of user u
InPlace(n, g, u) ==
  \A m, l \in DOMAIN n :
    m < l /\ g[m] # 0 /\ g[l] # 0 /\ n[m].user = u /\ n[l].user = u => g[m] < g[l]
NoneLost(t, n, g, u) == \A i \in DOMAIN t : t[i].user = u => \E m \in DOMAIN n : g[m] = i
NoneNew(n, g, u) == \A m \in DOMAIN n : n[m].user = u => g[m] # 0

LEMMA TableStays ==
  ASSUME NEW t, TableOK(t), NEW n \in Seq(Rows), NEW g, Traces(t, n, g)
  PROVE  /\ TableOK(n)
         /\ \A i \in DOMAIN t, j \in DOMAIN n :
              t[i].id = n[j].id => t[i].user = n[j].user /\ t[i].at = n[j].at
<1>1. \A m \in DOMAIN n : g[m] = 0 \/ g[m] \in DOMAIN t
  BY DEF Traces
<1>2. ASSUME NEW m \in DOMAIN n, NEW l \in DOMAIN n, n[m].id = n[l].id
      PROVE  m = l
  <2>1. CASE g[m] = 0
    BY <1>1, <1>2, <2>1 DEF Traces
  <2>2. CASE g[m] # 0
    <3>1. g[l] # 0 /\ g[m] \in DOMAIN t /\ g[l] \in DOMAIN t
      BY <1>1, <1>2, <2>2 DEF Traces
    <3>2. g[m] = g[l]
      BY <1>2, <3>1, <2>2 DEF Traces, TableOK
    <3> QED BY <2>2, <3>2 DEF Traces
  <2> QED BY <2>1, <2>2
<1>3. ASSUME NEW i \in DOMAIN t, NEW j \in DOMAIN n, t[i].id = n[j].id
      PROVE  t[i].user = n[j].user /\ t[i].at = n[j].at
  <2>1. g[j] # 0
    BY <1>3 DEF Traces
  <2>2. g[j] \in DOMAIN t /\ t[g[j]].id = t[i].id
    BY <1>1, <1>3, <2>1 DEF Traces
  <2>3. g[j] = i
    BY <2>2 DEF TableOK
  <2> QED BY <2>1, <2>3 DEF Traces
<1> QED BY <1>2, <1>3 DEF TableOK

\* Where a task is in the list, before and after
Later(a, b) == \A k \in DOMAIN a : \E l \in DOMAIN b : b[l] = a[k] /\ k <= l

LEMMA NothingLostMovesOn ==
  ASSUME NEW t, TableOK(t), NEW n, TableOK(n), NEW g, Traces(t, n, g), NEW u,
         InPlace(n, g, u), NoneLost(t, n, g, u)
  PROVE  Later(OwnOf(t, u), OwnOf(n, u))
<1> DEFINE at == Scan(t, u)
           to == Scan(n, u)
           c == HowMany(t, u)
           d == HowMany(n, u)
<1>1. /\ c \in Nat /\ \A k \in 1..c : at[k] \in DOMAIN t /\ t[at[k]].user = u /\ at[k] \in Nat /\ at[k] # 0
      /\ \A k, l \in 1..c : k < l => at[k] < at[l]
      /\ \A k, l \in 1..c : at[k] = at[l] => k = l
  BY ScanIs DEF Increasing
<1>2. /\ d \in Nat /\ \A k \in 1..d : to[k] \in DOMAIN n /\ n[to[k]].user = u /\ to[k] \in Nat
      /\ \A k, l \in 1..d : k < l => to[k] < to[l]
      /\ \A m \in Mine(n, u) : \E k \in 1..d : to[k] = m
  BY ScanIs DEF Increasing
<1>3. \A k \in 1..c : \E l \in 1..d : g[to[l]] = at[k]
  <2> SUFFICES ASSUME NEW k \in 1..c PROVE \E l \in 1..d : g[to[l]] = at[k]
    OBVIOUS
  <2>1. PICK m \in DOMAIN n : g[m] = at[k]
    BY <1>1 DEF NoneLost
  <2>2. m \in Mine(n, u)
    BY <1>1, <2>1 DEF Traces, Mine
  <2> QED BY <1>2, <2>1, <2>2
<1> HIDE DEF at, to, c, d
<1> DEFINE h == [k \in 1..c |-> CHOOSE l \in 1..d : g[to[l]] = at[k]]
<1>4. \A k \in 1..c : h[k] \in 1..d /\ g[to[h[k]]] = at[k]
  BY <1>3
<1> HIDE DEF h
<1>5. \A p, q \in 1..c : p < q => h[p] < h[q]
  <2> SUFFICES ASSUME NEW p \in 1..c, NEW q \in 1..c, p < q, ~(h[p] < h[q]) PROVE FALSE
    OBVIOUS
  <2>1. at[p] < at[q] /\ at[p] \in Nat /\ at[q] \in Nat
    BY <1>1
  <2>2. CASE h[p] = h[q]
    BY <1>4, <2>1, <2>2
  <2>3. CASE h[q] < h[p]
    <3>1. /\ to[h[q]] < to[h[p]] /\ to[h[q]] \in DOMAIN n /\ to[h[p]] \in DOMAIN n
          /\ n[to[h[q]]].user = u /\ n[to[h[p]]].user = u
      BY <1>2, <1>4, <2>3
    <3>2. g[to[h[q]]] # 0 /\ g[to[h[p]]] # 0
      BY <1>1, <1>4
    <3>3. at[q] < at[p]
      BY <1>4, <3>1, <3>2 DEF InPlace
    <3> QED BY <2>1, <3>3
  <2>4. h[p] \in Nat /\ h[q] \in Nat
    BY <1>2, <1>4
  <2> QED BY <2>2, <2>3, <2>4
<1>6. \A k \in 1..c : k <= h[k]
  <2> SUFFICES ASSUME NEW k \in 1..c PROVE k <= h[k]
    OBVIOUS
  <2> DEFINE b == [p \in 1..k |-> h[p]]
  <2>1. k \in Nat /\ h[k] \in Nat /\ \A p \in 1..k : p \in 1..c /\ p \in Nat /\ (p = k \/ p < k)
    BY <1>1, <1>2, <1>4
  <2>2. \A p \in 1..k : h[p] \in 1..h[k]
    <3> SUFFICES ASSUME NEW p \in 1..k PROVE h[p] \in 1..h[k]
      OBVIOUS
    <3>1. h[p] \in 1..d /\ (h[p] = h[k] \/ h[p] < h[k])
      BY <1>4, <1>5, <2>1
    <3> QED BY <1>2, <2>1, <3>1
  <2>3. b \in [1..k -> 1..h[k]]
    BY <2>2
  <2>4. \A p, q \in 1..k : b[p] = b[q] => p = q
    <3> SUFFICES ASSUME NEW p \in 1..k, NEW q \in 1..k, h[p] = h[q], p # q PROVE FALSE
      OBVIOUS
    <3>1. (p < q \/ q < p) /\ h[p] \in 1..d
      BY <1>4, <2>1
    <3> QED BY <1>2, <1>5, <2>1, <3>1
  <2> HIDE DEF b
  <2> QED BY <2>1, <2>3, <2>4, RoomFor
<1>7. \A k \in 1..c : t[at[k]].id = n[to[h[k]]].id
  BY <1>1, <1>2, <1>4 DEF Traces
<1>8. DOMAIN OwnOf(t, u) = 1..c /\ DOMAIN OwnOf(n, u) = 1..d
      /\ \A k \in 1..c : OwnOf(t, u)[k] = t[at[k]].id
      /\ \A l \in 1..d : OwnOf(n, u)[l] = n[to[l]].id
  BY DEF OwnOf, at, to, c, d
<1> QED BY <1>4, <1>6, <1>7, <1>8 DEF Later

\* The same step, seen backwards
LEMMA TracesBack ==
  ASSUME NEW t, TableOK(t), NEW n, TableOK(n), NEW g, Traces(t, n, g), NEW u,
         InPlace(n, g, u), NoneNew(n, g, u)
  PROVE  \E b : Traces(n, t, b) /\ InPlace(t, b, u) /\ NoneLost(n, t, b, u)
<1> DEFINE Hit(i) == \E m \in DOMAIN n : g[m] = i
           b == [i \in DOMAIN t |-> IF Hit(i) THEN CHOOSE m \in DOMAIN n : g[m] = i ELSE 0]
<1>1. \A i \in DOMAIN t : Hit(i) => b[i] \in DOMAIN n /\ b[i] # 0 /\ g[b[i]] = i
  <2>1. \A i \in DOMAIN t : Hit(i) => b[i] \in DOMAIN n /\ g[b[i]] = i
    OBVIOUS
  <2> HIDE DEF b, Hit
  <2> QED BY <2>1, RowsOf
<1>2. \A i \in DOMAIN t : ~Hit(i) => b[i] = 0
  OBVIOUS
<1>3. \A m \in DOMAIN n : g[m] = 0 \/ g[m] \in DOMAIN t
  BY DEF Traces
<1>4. \A m \in DOMAIN n : g[m] # 0 => Hit(g[m]) /\ b[g[m]] = m
  <2> SUFFICES ASSUME NEW m \in DOMAIN n, g[m] # 0 PROVE Hit(g[m]) /\ b[g[m]] = m
    OBVIOUS
  <2>1. Hit(g[m]) /\ g[m] \in DOMAIN t
    BY <1>3
  <2>2. b[g[m]] \in DOMAIN n /\ g[b[g[m]]] = g[m]
    BY <1>1, <2>1
  <2> HIDE DEF b, Hit
  <2> QED BY <2>1, <2>2 DEF Traces
<1>5. DOMAIN b = DOMAIN t /\ b \in [DOMAIN t -> {0} \cup DOMAIN n]
  <2>1. \A i \in DOMAIN t : b[i] \in {0} \cup DOMAIN n
    BY <1>1, <1>2
  <2>2. b = [i \in DOMAIN t |-> b[i]]
    OBVIOUS
  <2> HIDE DEF b, Hit
  <2> QED BY <2>1, <2>2
<1> HIDE DEF b
<1>6. Traces(n, t, b)
  <2>1. ASSUME NEW i \in DOMAIN t, b[i] # 0
        PROVE  t[i].id = n[b[i]].id /\ t[i].user = n[b[i]].user /\ t[i].at = n[b[i]].at
    <3>1. b[i] \in DOMAIN n /\ g[b[i]] = i /\ i # 0
      BY <1>1, <1>2, <2>1, RowsOf
    <3> QED BY <3>1 DEF Traces
  <2>2. ASSUME NEW i \in DOMAIN t, b[i] = 0, NEW m \in DOMAIN n, n[m].id = t[i].id
        PROVE  FALSE
    <3>1. g[m] # 0
      BY <2>2 DEF Traces
    <3>2. g[m] \in DOMAIN t /\ t[g[m]].id = t[i].id
      BY <1>3, <2>2, <3>1 DEF Traces
    <3>3. g[m] = i
      BY <3>2 DEF TableOK
    <3> QED BY <1>1, <2>2, <3>3
  <2>3. ASSUME NEW i \in DOMAIN t, NEW j \in DOMAIN t, b[i] = b[j], b[i] # 0 PROVE i = j
    BY <1>1, <1>2, <2>3
  <2>4. ASSUME NEW i \in DOMAIN t, NEW j \in DOMAIN t, t[i].id = t[j].id PROVE i = j
    BY <2>4 DEF TableOK
  <2> QED BY <1>5, <2>1, <2>2, <2>3, <2>4 DEF Traces
<1>7. InPlace(t, b, u)
  <2> SUFFICES ASSUME NEW i \in DOMAIN t, NEW j \in DOMAIN t, i < j, b[i] # 0, b[j] # 0,
                      t[i].user = u, t[j].user = u
               PROVE  b[i] < b[j]
    BY DEF InPlace
  <2>1. b[i] \in DOMAIN n /\ b[j] \in DOMAIN n /\ g[b[i]] = i /\ g[b[j]] = j
    BY <1>1, <1>2
  <2>2. b[i] \in Nat /\ b[j] \in Nat /\ i \in Nat /\ j \in Nat /\ i # 0 /\ j # 0
    BY <2>1, RowsOf
  <2>3. n[b[i]].user = u /\ n[b[j]].user = u
    BY <2>1, <2>2 DEF Traces
  <2>4. ~(b[j] < b[i])
    BY <2>1, <2>2, <2>3 DEF InPlace
  <2>5. b[i] # b[j]
    BY <2>1, <2>2
  <2> QED BY <2>2, <2>4, <2>5
<1>8. NoneLost(n, t, b, u)
  BY <1>3, <1>4 DEF NoneLost, NoneNew
<1> QED BY <1>6, <1>7, <1>8

LEMMA NothingNewMovesUp ==
  ASSUME NEW t, TableOK(t), NEW n, TableOK(n), NEW g, Traces(t, n, g), NEW u,
         InPlace(n, g, u), NoneNew(n, g, u)
  PROVE  Later(OwnOf(n, u), OwnOf(t, u))
BY TracesBack, NothingLostMovesOn

LEMMA LaterIsLonger ==
  ASSUME NEW a \in Seq(Ids), NEW b \in Seq(Ids), Later(a, b)
  PROVE  Len(a) <= Len(b) /\ Range(a) \subseteq Range(b)
<1>1. DOMAIN a = 1..Len(a) /\ Len(a) \in Nat /\ DOMAIN b = 1..Len(b) /\ Len(b) \in Nat
  BY LenProperties
<1>2. Len(a) <= Len(b)
  <2>1. CASE Len(a) = 0
    BY <1>1, <2>1
  <2>2. CASE Len(a) # 0
    <3>1. Len(a) \in 1..Len(a)
      BY <1>1, <2>2
    <3>2. PICK l \in 1..Len(b) : Len(a) <= l
      BY <1>1, <3>1 DEF Later
    <3> QED BY <1>1, <3>2
  <2> QED BY <2>1, <2>2
<1>3. Range(a) \subseteq Range(b)
  BY DEF Later, Range
<1> QED BY <1>2, <1>3

\* Both: nothing has happened to these tasks.
LEMMA NeitherChangesNothing ==
  ASSUME NEW a \in Seq(Ids), NEW b \in Seq(Ids), IsInjective(a), IsInjective(b),
         Later(a, b), Later(b, a)
  PROVE  a = b
<1>1. DOMAIN a = 1..Len(a) /\ Len(a) \in Nat /\ DOMAIN b = 1..Len(b) /\ Len(b) \in Nat
  BY LenProperties
<1>2. ASSUME NEW k \in 1..Len(a) PROVE k \in 1..Len(b) /\ b[k] = a[k]
  <2>1. PICK l \in 1..Len(b) : b[l] = a[k] /\ k <= l
    BY <1>1 DEF Later
  <2>2. PICK j \in 1..Len(a) : a[j] = b[l] /\ l <= j
    BY <1>1 DEF Later
  <2>3. j = k
    BY <1>1, <2>1, <2>2 DEF IsInjective
  <2>4. l = k
    BY <1>1, <2>1, <2>2, <2>3
  <2> QED BY <2>1, <2>4
<1>3. Len(a) = Len(b)
  <2>1. Len(a) <= Len(b)
    BY LaterIsLonger
  <2>2. Len(b) <= Len(a)
    BY LaterIsLonger
  <2>3. Len(a) \in Nat /\ Len(b) \in Nat
    BY <1>1
  <2> DEFINE x == Len(a)
             y == Len(b)
  <2>4. x \in Nat /\ y \in Nat /\ x <= y /\ y <= x
    BY <2>1, <2>2, <2>3
  <2> HIDE DEF x, y
  <2>5. x = y
    BY <2>4
  <2> QED BY <2>5 DEF x, y
<1> QED BY <1>2, <1>3, SeqEqual

LEMMA SameTasks ==
  ASSUME NEW t, TableOK(t), NEW n, TableOK(n), NEW g, Traces(t, n, g), NEW u,
         InPlace(n, g, u), NoneLost(t, n, g, u), NoneNew(n, g, u)
  PROVE  OwnOf(n, u) = OwnOf(t, u)
BY NothingLostMovesOn, NothingNewMovesUp, NeitherChangesNothing, OwnIs

---------------------------------------------------------------------------
(* Rows put in and taken out *)

\* A part put between the first k and the others
Put(t, k, x) == SubSeq(t, 1, k) \o x \o SubSeq(t, k + 1, Len(t))

LEMMA PutIn ==
  ASSUME NEW S, NEW t \in Seq(S), NEW x \in Seq(S), NEW k \in 0..Len(t)
  PROVE  /\ Put(t, k, x) \in Seq(S) /\ DOMAIN Put(t, k, x) = 1..(Len(t) + Len(x))
         /\ \A m \in 1..k : Put(t, k, x)[m] = t[m]
         /\ \A j \in 1..Len(x) : Put(t, k, x)[k + j] = x[j]
         /\ \A p \in (k + 1)..Len(t) : Put(t, k, x)[p + Len(x)] = t[p]
<1> DEFINE n == Put(t, k, x)
           a == SubSeq(t, 0 + 1, k)
           c == SubSeq(t, k + 1, Len(t))
           l == Len(t)
           e == Len(x)
           ax == a \o x
<1>1. l \in Nat /\ e \in Nat /\ k \in Nat /\ k <= l /\ l \in 0..l /\ 0 <= k /\ k - 0 = k
  BY LenProperties
<1>2. a \in Seq(S) /\ Len(a) = k - 0 /\ \A i \in 1..(k - 0) : a[i] = t[0 + i]
  BY <1>1, Part
<1>3. c \in Seq(S) /\ Len(c) = l - k /\ \A i \in 1..(l - k) : c[i] = t[k + i]
  BY <1>1, Part
<1>4. n = ax \o c
  BY DEF Put
<1> HIDE DEF a, c, n
<1>5. /\ ax \in Seq(S) /\ Len(ax) = Len(a) + e
      /\ \A i \in 1..Len(a) : ax[i] = a[i]
      /\ \A j \in 1..e : ax[Len(a) + j] = x[j]
  <2>1. a \in Seq(S)
    BY <1>2
  <2> QED BY <2>1, Joined
<1> HIDE DEF ax
<1>6. /\ n \in Seq(S) /\ DOMAIN n = 1..(Len(ax) + Len(c))
      /\ \A i \in 1..Len(ax) : n[i] = ax[i]
      /\ \A j \in 1..Len(c) : n[Len(ax) + j] = c[j]
  <2>1. ax \in Seq(S) /\ c \in Seq(S)
    BY <1>3, <1>5
  <2> DEFINE y == ax \o c
  <2>2. /\ y \in Seq(S) /\ DOMAIN y = 1..(Len(ax) + Len(c))
        /\ \A i \in 1..Len(ax) : y[i] = ax[i]
        /\ \A j \in 1..Len(c) : y[Len(ax) + j] = c[j]
    BY <2>1, Joined
  <2>3. n = y
    BY <1>4
  <2> HIDE DEF y
  <2> QED BY <2>2, <2>3
<1> HIDE DEF l, e
<1>7. Len(a) = k /\ Len(ax) = k + e /\ Len(ax) + Len(c) = l + e
  BY <1>1, <1>2, <1>3, <1>5
<1>8. ASSUME NEW m \in 1..k PROVE n[m] = t[m]
  <2>1. m \in 1..(k + e) /\ 0 + m = m
    BY <1>1
  <2> QED BY <1>1, <1>2, <1>5, <1>6, <1>7, <2>1
<1>9. ASSUME NEW j \in 1..e PROVE n[k + j] = x[j]
  <2>1. k + j \in 1..(k + e)
    BY <1>1
  <2> QED BY <1>5, <1>6, <1>7, <2>1
<1>10. ASSUME NEW p \in (k + 1)..l PROVE n[p + e] = t[p]
  <2>1. p - k \in 1..(l - k) /\ (k + e) + (p - k) = p + e /\ k + (p - k) = p
    BY <1>1
  <2>2. n[(k + e) + (p - k)] = c[p - k]
    BY <1>3, <1>6, <1>7, <2>1
  <2>3. c[p - k] = t[k + (p - k)]
    BY <1>3, <2>1
  <2> QED BY <2>1, <2>2, <2>3
<1> QED BY <1>6, <1>7, <1>8, <1>9, <1>10 DEF l, e, n

\* Without the i-th
LEMMA TakenOut ==
  ASSUME NEW S, NEW t \in Seq(S), NEW i \in 1..Len(t)
  PROVE  /\ RemoveAt(t, i) \in Seq(S) /\ Len(RemoveAt(t, i)) = Len(t) - 1
         /\ DOMAIN RemoveAt(t, i) = 1..(Len(t) - 1)
         /\ \A m \in 1..(i - 1) : RemoveAt(t, i)[m] = t[m]
         /\ \A m \in i..(Len(t) - 1) : RemoveAt(t, i)[m] = t[m + 1]
<1> DEFINE a == SubSeq(t, 0 + 1, i - 1)
           c == SubSeq(t, i + 1, Len(t))
           l == Len(t)
           n == RemoveAt(t, i)
<1>1. l \in Nat /\ i \in Nat /\ i <= l /\ i >= 1 /\ l \in 0..l
      /\ i - 1 \in 0..l /\ 0 <= i - 1 /\ (i - 1) - 0 = i - 1
  BY LenProperties
<1>2. a \in Seq(S) /\ Len(a) = (i - 1) - 0 /\ \A m \in 1..((i - 1) - 0) : a[m] = t[0 + m]
  BY <1>1, Part
<1>3. c \in Seq(S) /\ Len(c) = l - i /\ \A m \in 1..(l - i) : c[m] = t[i + m]
  BY <1>1, Part
<1>4. n = a \o c
  BY DEF RemoveAt
<1> HIDE DEF a, c, n
<1>5. /\ n \in Seq(S) /\ Len(n) = Len(a) + Len(c) /\ DOMAIN n = 1..(Len(a) + Len(c))
      /\ \A m \in 1..Len(a) : n[m] = a[m]
      /\ \A j \in 1..Len(c) : n[Len(a) + j] = c[j]
  <2>1. a \in Seq(S) /\ c \in Seq(S)
    BY <1>2, <1>3
  <2> QED BY <1>4, <2>1, Joined
<1> HIDE DEF l
<1>6. Len(a) = i - 1 /\ Len(a) + Len(c) = l - 1
  BY <1>1, <1>2, <1>3
<1>7. ASSUME NEW m \in 1..(i - 1) PROVE n[m] = t[m]
  <2>1. 0 + m = m
    BY <1>1
  <2> QED BY <1>1, <1>2, <1>5, <1>6, <2>1
<1>8. ASSUME NEW m \in i..(l - 1) PROVE n[m] = t[m + 1]
  <2>1. m - (i - 1) \in 1..(l - i) /\ (i - 1) + (m - (i - 1)) = m /\ i + (m - (i - 1)) = m + 1
    BY <1>1
  <2> QED BY <1>3, <1>5, <1>6, <2>1
<1> QED BY <1>5, <1>6, <1>7, <1>8 DEF l, n

---------------------------------------------------------------------------
(* Where the rows are after each statement *)

\* An INSERT of rows of u: the rows that were there are, in their order.
Joins(t, n, g, u) ==
  /\ Traces(t, n, g)
  /\ \A w : InPlace(n, g, w) /\ NoneLost(t, n, g, w) /\ (w # u => NoneNew(n, g, w))

LEMMA InsertionTraces ==
  ASSUME NEW t, TableOK(t), NEW x \in Seq(Rows), NEW u, NEW k \in 0..Len(t),
         \A a \in DOMAIN x : x[a].user = u /\ \A i \in DOMAIN t : t[i].id # x[a].id,
         \A a, b \in DOMAIN x : x[a].id = x[b].id => a = b
  PROVE  /\ Put(t, k, x) \in Seq(Rows)
         /\ \A m \in DOMAIN Put(t, k, x) :
              \/ \E i \in DOMAIN t : Put(t, k, x)[m] = t[i]
              \/ \E j \in DOMAIN x : Put(t, k, x)[m] = x[j]
         /\ \E g : Joins(t, Put(t, k, x), g, u)
<1> DEFINE n == Put(t, k, x)
           l == Len(t)
           e == Len(x)
           g == [m \in 1..(l + e) |-> IF m <= k THEN m ELSE IF m <= k + e THEN 0 ELSE m - e]
<1>1. /\ t \in Seq(Rows) /\ l \in Nat /\ e \in Nat /\ k \in Nat /\ k <= l
      /\ DOMAIN t = 1..l /\ DOMAIN x = 1..e
  BY LenProperties DEF TableOK
<1>2. /\ n \in Seq(Rows) /\ DOMAIN n = 1..(l + e)
      /\ \A m \in 1..k : n[m] = t[m]
      /\ \A j \in 1..e : n[k + j] = x[j]
      /\ \A p \in (k + 1)..l : n[p + e] = t[p]
  <2>1. t \in Seq(Rows)
    BY <1>1
  <2>2. n \in Seq(Rows) /\ DOMAIN n = 1..(l + e)
    BY <2>1, PutIn
  <2>3. \A m \in 1..k : n[m] = t[m]
    BY <2>1, PutIn
  <2>4. \A j \in 1..e : n[k + j] = x[j]
    BY <2>1, PutIn
  <2>5. \A p \in (k + 1)..l : n[p + e] = t[p]
    BY <2>1, PutIn
  <2> QED BY <2>2, <2>3, <2>4, <2>5
<1>3. DOMAIN g = 1..(l + e) /\ \A m \in 1..(l + e) : g[m] = IF m <= k THEN m ELSE IF m <= k + e THEN 0 ELSE m - e
  OBVIOUS
<1> HIDE DEF n, l, e, g
<1>4. \A m \in 1..k : m \in 1..(l + e) /\ g[m] = m /\ m \in 1..l /\ m # 0
  BY <1>1, <1>3
<1>5. \A j \in 1..e : k + j \in 1..(l + e) /\ g[k + j] = 0
  <2> SUFFICES ASSUME NEW j \in 1..e PROVE k + j \in 1..(l + e) /\ g[k + j] = 0
    OBVIOUS
  <2>1. k + j \in 1..(l + e) /\ ~(k + j <= k) /\ k + j <= k + e
    BY <1>1
  <2> QED BY <1>3, <2>1
<1>6. \A p \in (k + 1)..l : p + e \in 1..(l + e) /\ g[p + e] = p /\ p \in 1..l /\ p # 0
  <2> SUFFICES ASSUME NEW p \in (k + 1)..l
               PROVE  p + e \in 1..(l + e) /\ g[p + e] = p /\ p \in 1..l /\ p # 0
    OBVIOUS
  <2>1. /\ p + e \in 1..(l + e) /\ ~(p + e <= k) /\ ~(p + e <= k + e) /\ (p + e) - e = p
        /\ p \in 1..l /\ p # 0
    BY <1>1
  <2> QED BY <1>3, <2>1
<1>7. \A m \in 1..(l + e) :
        m \in 1..k \/ (\E j \in 1..e : m = k + j) \/ (\E p \in (k + 1)..l : m = p + e)
  <2> SUFFICES ASSUME NEW m \in 1..(l + e)
               PROVE  m \in 1..k \/ (\E j \in 1..e : m = k + j) \/ (\E p \in (k + 1)..l : m = p + e)
    OBVIOUS
  <2>1. CASE m <= k
    BY <1>1, <2>1
  <2>2. CASE ~(m <= k) /\ m <= k + e
    <3>1. m - k \in 1..e /\ m = k + (m - k)
      BY <1>1, <2>2
    <3> QED BY <3>1
  <2>3. CASE ~(m <= k) /\ ~(m <= k + e)
    <3>1. m - e \in (k + 1)..l /\ m = (m - e) + e
      BY <1>1, <2>3
    <3> QED BY <3>1
  <2> QED BY <2>1, <2>2, <2>3
\* A row has its place, or is one of x.
<1>8. \A m \in 1..(l + e) :
        /\ g[m] # 0 => g[m] \in 1..l /\ n[m] = t[g[m]]
        /\ g[m] = 0 => \E j \in 1..e : m = k + j /\ n[m] = x[j]
  <2> SUFFICES ASSUME NEW m \in 1..(l + e)
               PROVE  \/ g[m] # 0 /\ g[m] \in 1..l /\ n[m] = t[g[m]]
                      \/ g[m] = 0 /\ \E j \in 1..e : m = k + j /\ n[m] = x[j]
    OBVIOUS
  <2>1. CASE m \in 1..k
    BY <1>2, <1>4, <2>1
  <2>2. ASSUME NEW j \in 1..e, m = k + j PROVE g[m] = 0 /\ n[m] = x[j]
    BY <1>2, <1>5, <2>2
  <2>3. ASSUME NEW p \in (k + 1)..l, m = p + e PROVE g[m] # 0 /\ g[m] \in 1..l /\ n[m] = t[g[m]]
    BY <1>2, <1>6, <2>3
  <2> QED BY <1>7, <2>1, <2>2, <2>3
<1>81. \A m \in 1..(l + e) : g[m] # 0 => g[m] \in Nat /\ n[m] = t[g[m]]
  <2>1. \A i \in 1..l : i \in Nat
    BY <1>1
  <2> QED BY <1>8, <2>1
\* Places are in order.
<1>9. ASSUME NEW m \in 1..(l + e), NEW j \in 1..(l + e), m < j, g[m] # 0, g[j] # 0
      PROVE  g[m] < g[j]
  <2>1. (g[m] = m /\ m <= k) \/ (m > k + e /\ g[m] = m - e)
    <3>1. ~(m <= k /\ FALSE) /\ (m <= k \/ m > k + e)
      BY <1>1, <1>3, <1>9
    <3> QED BY <1>1, <1>3, <1>9, <3>1
  <2>2. (g[j] = j /\ j <= k) \/ (j > k + e /\ g[j] = j - e)
    <3>1. j <= k \/ j > k + e
      BY <1>1, <1>3, <1>9
    <3> QED BY <1>1, <1>3, <1>9, <3>1
  <2> QED BY <1>1, <1>9, <2>1, <2>2
<1>10. Traces(t, n, g)
  <2>1. g \in [DOMAIN n -> {0} \cup DOMAIN t]
    <3>1. \A m \in 1..(l + e) : g[m] \in {0} \cup 1..l
      BY <1>8
    <3>2. g = [m \in 1..(l + e) |-> g[m]]
      BY DEF g
    <3> QED BY <1>1, <1>2, <3>1, <3>2
  <2>2. \A m \in 1..(l + e) : g[m] # 0 => n[m] = t[g[m]]
    BY <1>81
  <2>3. ASSUME NEW m \in 1..(l + e), NEW j \in 1..(l + e), g[m] = g[j], g[m] # 0, m # j PROVE FALSE
    <3>1. m < j \/ j < m
      BY <1>1, <2>3
    <3>2. g[m] \in Nat
      BY <1>81, <2>3
    <3>3. g[m] < g[m]
      BY <1>9, <2>3, <3>1
    <3> QED BY <3>2, <3>3
  <2>4. ASSUME NEW m \in 1..(l + e), NEW j \in 1..(l + e), g[m] = 0, g[j] = 0, n[m].id = n[j].id
        PROVE  m = j
    <3>1. PICK a \in 1..e : m = k + a /\ n[m] = x[a]
      BY <1>8, <2>4
    <3>2. PICK b \in 1..e : j = k + b /\ n[j] = x[b]
      BY <1>8, <2>4
    <3> QED BY <1>1, <2>4, <3>1, <3>2
  <2>5. \A m \in 1..(l + e) : g[m] = 0 => \A i \in DOMAIN t : t[i].id # n[m].id
    <3> SUFFICES ASSUME NEW m \in 1..(l + e), g[m] = 0, NEW i \in DOMAIN t PROVE t[i].id # n[m].id
      OBVIOUS
    <3>1. PICK j \in 1..e : n[m] = x[j]
      BY <1>8
    <3>2. j \in DOMAIN x
      BY <1>1
    <3> QED BY <3>1, <3>2
  <2>6. ASSUME NEW m \in 1..(l + e), NEW j \in 1..(l + e), g[m] = g[j], g[m] # 0 PROVE m = j
    BY <2>3, <2>6
  <2>7. \A m \in 1..(l + e) : g[m] # 0 =>
          n[m].id = t[g[m]].id /\ n[m].user = t[g[m]].user /\ n[m].at = t[g[m]].at
    BY <2>2
  <2>8. DOMAIN n = 1..(l + e)
    BY <1>2
  <2> QED BY <2>1, <2>4, <2>5, <2>6, <2>7, <2>8 DEF Traces
<1>11. ASSUME NEW w PROVE InPlace(n, g, w)
  BY <1>2, <1>9 DEF InPlace
<1>12. ASSUME NEW w PROVE NoneLost(t, n, g, w)
  <2> SUFFICES ASSUME NEW i \in 1..l PROVE \E m \in 1..(l + e) : g[m] = i
    BY <1>1, <1>2 DEF NoneLost
  <2>1. i \in 1..k \/ i \in (k + 1)..l
    BY <1>1
  <2> QED BY <1>4, <1>6, <2>1
<1>13. ASSUME NEW w, w # u PROVE NoneNew(n, g, w)
  <2>1. \A m \in 1..(l + e) : g[m] = 0 => n[m].user = u
    <3> SUFFICES ASSUME NEW m \in 1..(l + e), g[m] = 0 PROVE n[m].user = u
      OBVIOUS
    <3>1. PICK j \in 1..e : n[m] = x[j]
      BY <1>8
    <3>2. j \in DOMAIN x
      BY <1>1
    <3> QED BY <3>1, <3>2
  <2> QED BY <1>2, <1>13, <2>1 DEF NoneNew
<1>14. Joins(t, n, g, u)
  BY <1>10, <1>11, <1>12, <1>13 DEF Joins
<1>15. \A m \in DOMAIN n : (\E i \in DOMAIN t : n[m] = t[i]) \/ (\E j \in DOMAIN x : n[m] = x[j])
  <2>1. DOMAIN n = 1..(l + e) /\ DOMAIN t = 1..l /\ DOMAIN x = 1..e
    BY <1>1, <1>2
  <2>2. ASSUME NEW m \in 1..(l + e)
        PROVE  (\E i \in 1..l : n[m] = t[i]) \/ (\E j \in 1..e : n[m] = x[j])
    <3>1. CASE g[m] = 0
      BY <1>8, <3>1
    <3>2. CASE g[m] # 0
      BY <1>8, <3>2
    <3> QED BY <3>1, <3>2
  <2> QED BY <2>1, <2>2
<1> QED BY <1>2, <1>14, <1>15 DEF n

\* A DELETE of one row, or of all that are not left: none is new.
Left(t, n, g, u) ==
  /\ Traces(t, n, g)
  /\ \A w : InPlace(n, g, w) /\ NoneNew(n, g, w) /\ (w # u => NoneLost(t, n, g, w))

LEMMA DeletionTraces ==
  ASSUME NEW t, TableOK(t), NEW i \in DOMAIN t
  PROVE  /\ RemoveAt(t, i) \in Seq(Rows) /\ Len(RemoveAt(t, i)) = Len(t) - 1
         /\ \A m \in DOMAIN RemoveAt(t, i) : RemoveAt(t, i)[m].id # t[i].id
         /\ \E g : Left(t, RemoveAt(t, i), g, t[i].user)
<1> DEFINE l == Len(t)
           n == RemoveAt(t, i)
           g == [m \in 1..(l - 1) |-> IF m < i THEN m ELSE m + 1]
<1>1. t \in Seq(Rows) /\ l \in Nat /\ DOMAIN t = 1..l /\ i \in 1..l /\ i \in Nat
  BY LenProperties DEF TableOK
<1>2. /\ n \in Seq(Rows) /\ DOMAIN n = 1..(l - 1) /\ Len(n) = l - 1
      /\ \A m \in 1..(i - 1) : n[m] = t[m]
      /\ \A m \in i..(l - 1) : n[m] = t[m + 1]
  BY <1>1, TakenOut
<1>3. DOMAIN g = 1..(l - 1) /\ \A m \in 1..(l - 1) : g[m] = IF m < i THEN m ELSE m + 1
  OBVIOUS
<1>4. g = [m \in 1..(l - 1) |-> g[m]]
  OBVIOUS
<1> HIDE DEF l, n, g
<1>5. ASSUME NEW m \in 1..(l - 1)
      PROVE  g[m] # 0 /\ g[m] \in 1..l /\ n[m] = t[g[m]] /\ g[m] # i
  <2>1. CASE m < i
    <3>1. g[m] = m /\ m \in 1..(i - 1) /\ m \in 1..l /\ m # 0 /\ m # i
      BY <1>1, <1>3, <2>1
    <3> QED BY <1>2, <3>1
  <2>2. CASE ~(m < i)
    <3>1. g[m] = m + 1 /\ m \in i..(l - 1) /\ m + 1 \in 1..l /\ m + 1 # 0 /\ m + 1 # i
      BY <1>1, <1>3, <2>2
    <3> QED BY <1>2, <3>1
  <2> QED BY <2>1, <2>2
<1>6. ASSUME NEW m \in 1..(l - 1), NEW j \in 1..(l - 1), m < j PROVE g[m] < g[j]
  <2>1. /\ m \in Nat /\ j \in Nat
        /\ (g[m] = m /\ m < i) \/ (g[m] = m + 1 /\ ~(m < i))
        /\ (g[j] = j /\ j < i) \/ (g[j] = j + 1 /\ ~(j < i))
    BY <1>1, <1>3
  <2> QED BY <1>1, <1>6, <2>1
<1>7. Traces(t, n, g)
  <2>1. g \in [DOMAIN n -> {0} \cup DOMAIN t]
    BY <1>1, <1>2, <1>4, <1>5
  <2>2. ASSUME NEW m \in 1..(l - 1), NEW j \in 1..(l - 1), g[m] = g[j], m # j PROVE FALSE
    <3>1. m < j \/ j < m
      BY <1>1, <2>2
    <3>2. g[m] \in Nat /\ g[m] < g[m]
      BY <1>1, <1>5, <1>6, <2>2, <3>1
    <3> QED BY <3>2
  <2> QED BY <1>2, <1>5, <2>1, <2>2 DEF Traces
<1>8. ASSUME NEW w PROVE InPlace(n, g, w) /\ NoneNew(n, g, w)
  BY <1>2, <1>5, <1>6 DEF InPlace, NoneNew
<1>9. ASSUME NEW w, w # t[i].user PROVE NoneLost(t, n, g, w)
  <2> SUFFICES ASSUME NEW p \in 1..l, p # i PROVE \E m \in 1..(l - 1) : g[m] = p
    BY <1>1, <1>2, <1>9 DEF NoneLost
  <2>1. CASE p < i
    <3>1. p \in 1..(l - 1) /\ g[p] = p
      BY <1>1, <1>3, <2>1
    <3> QED BY <3>1
  <2>2. CASE ~(p < i)
    <3>1. p - 1 \in 1..(l - 1) /\ ~(p - 1 < i) /\ (p - 1) + 1 = p
      BY <1>1, <2>2
    <3>2. g[p - 1] = p
      BY <1>3, <3>1
    <3> QED BY <3>1, <3>2
  <2> QED BY <2>1, <2>2
<1>10. Left(t, n, g, t[i].user)
  BY <1>7, <1>8, <1>9 DEF Left
<1>11. \A m \in DOMAIN n : n[m].id # t[i].id
  <2>1. \A m \in DOMAIN n : g[m] \in DOMAIN t /\ g[m] # i /\ n[m] = t[g[m]]
    BY <1>1, <1>2, <1>5
  <2> QED BY <1>1, <2>1 DEF TableOK
<1> QED BY <1>2, <1>10, <1>11 DEF n, l

LEMMA SelectionTraces ==
  ASSUME NEW t, TableOK(t), NEW u, NEW P \in SUBSET DOMAIN t, \A i \in P : t[i].user = u,
         NEW n, n = [k \in DOMAIN InOrder(DOMAIN t \ P) |-> t[InOrder(DOMAIN t \ P)[k]]]
  PROVE  n \in Seq(Rows) /\ \E g : Left(t, n, g, u)
<1> DEFINE S == DOMAIN t \ P
           g == InOrder(S)
           c == Cardinality(S)
<1>1. S \in SUBSET Nat /\ IsFiniteSet(S)
  BY PositionsAreFinite
<1>2. /\ c \in Nat /\ g \in [1..c -> S]
      /\ \A k, l \in 1..c : k < l => g[k] < g[l]
      /\ \A k, l \in 1..c : g[k] = g[l] => k = l
      /\ \A x \in S : \E k \in 1..c : g[k] = x
  BY <1>1, ScanInOrder DEF Increasing
<1>3. DOMAIN n = 1..c /\ n = [k \in 1..c |-> t[g[k]]]
  BY <1>2
<1> HIDE DEF g, c
<1>4. \A k \in 1..c : g[k] \in DOMAIN t /\ g[k] \in S /\ g[k] # 0 /\ n[k] = t[g[k]] /\ n[k] \in Rows
  <2> SUFFICES ASSUME NEW k \in 1..c
               PROVE  g[k] \in DOMAIN t /\ g[k] \in S /\ g[k] # 0 /\ n[k] = t[g[k]] /\ n[k] \in Rows
    OBVIOUS
  <2>1. g[k] \in S /\ g[k] \in DOMAIN t /\ n[k] = t[g[k]]
    BY <1>2, <1>3
  <2> QED BY <2>1, RowsOf
<1>5. n \in Seq(Rows)
  <2>1. n \in [1..c -> Rows]
    BY <1>3, <1>4
  <2>2. c \in Nat
    BY <1>2
  <2>3. n \in UNION {[1..m -> Rows] : m \in Nat}
    BY <2>1, <2>2
  <2> QED BY <2>3, SeqDef
<1>6. Traces(t, n, g)
  <2>1. DOMAIN n = 1..c
    BY <1>3
  <2>2. g \in [DOMAIN n -> {0} \cup DOMAIN t]
    BY <1>2, <2>1
  <2>3. \A m \in DOMAIN n : g[m] # 0 /\ n[m] = t[g[m]]
    BY <1>4, <2>1
  <2>4. \A m, l \in DOMAIN n : g[m] = g[l] => m = l
    BY <1>2, <2>1
  <2> QED BY <2>2, <2>3, <2>4 DEF Traces
<1>7. ASSUME NEW w PROVE InPlace(n, g, w) /\ NoneNew(n, g, w)
  BY <1>2, <1>3, <1>4 DEF InPlace, NoneNew
<1>8. ASSUME NEW w, w # u PROVE NoneLost(t, n, g, w)
  <2> SUFFICES ASSUME NEW i \in DOMAIN t, t[i].user = w PROVE \E m \in 1..c : g[m] = i
    BY <1>3 DEF NoneLost
  <2>1. i \in S
    BY <1>8
  <2> QED BY <1>2, <2>1
<1>9. Left(t, n, g, u)
  BY <1>6, <1>7, <1>8 DEF Left
<1> QED BY <1>5, <1>9

\* Another order of the same rows
LEMMA ReorderingTraces ==
  ASSUME NEW t, TableOK(t), NEW n \in SetToSeqs(ToSet(t))
  PROVE  n \in Seq(Rows) /\ \E g : Traces(t, n, g)
<1> DEFINE S == ToSet(t)
           c == Cardinality(S)
<1>1. t \in Seq(Rows) /\ DOMAIN t = 1..Len(t) /\ Len(t) \in Nat
  BY LenProperties DEF TableOK
<1>2. S \subseteq Rows /\ \A x \in S : \E i \in DOMAIN t : t[i] = x
  BY <1>1, RowsOf DEF ToSet
<1>3. IsFiniteSet(S)
  <2>1. t \in Surjection(DOMAIN t, S)
    <3>1. t \in [DOMAIN t -> S]
      <4>1. t = [i \in 1..Len(t) |-> t[i]]
        BY <1>1, LenProperties
      <4>2. \A i \in DOMAIN t : t[i] \in S
        BY DEF ToSet
      <4> HIDE DEF S
      <4> QED BY <1>1, <4>1, <4>2
    <3> QED BY <3>1 DEF Surjection, Range, ToSet
  <2>2. IsFiniteSet(DOMAIN t)
    BY <1>1, FS_Interval
  <2> QED BY <2>1, <2>2, FS_Surjection
<1>4. c \in Nat
  BY <1>3, FS_CardinalityType
<1>5. n \in [1..c -> S] /\ \A k, l \in 1..c : k # l => n[k] # n[l]
  BY DEF SetToSeqs
<1> HIDE DEF S, c
<1>6. n \in Seq(Rows) /\ DOMAIN n = 1..c
  <2>1. n \in [1..c -> Rows]
    BY <1>2, <1>5
  <2> QED BY <1>4, <2>1, SeqDef
<1> DEFINE g == [m \in 1..c |-> CHOOSE i \in DOMAIN t : t[i] = n[m]]
<1>7. \A m \in 1..c : g[m] \in DOMAIN t /\ t[g[m]] = n[m]
  BY <1>2, <1>5
<1>8. g = [m \in 1..c |-> g[m]]
  OBVIOUS
<1> HIDE DEF g
<1>9. g \in [DOMAIN n -> {0} \cup DOMAIN t]
  BY <1>6, <1>7, <1>8
<1>10. \A m \in 1..c : g[m] # 0
  BY <1>7, RowsOf
<1>11. \A m, l \in 1..c : g[m] = g[l] => m = l
  BY <1>5, <1>7
<1>12. Traces(t, n, g)
  BY <1>6, <1>7, <1>9, <1>10, <1>11 DEF Traces
<1> QED BY <1>6, <1>12

---------------------------------------------------------------------------
(* The statements.  Whoever's rows are touched, the others' are not; and     *)
(* every row that stays keeps its user and date.                             *)

KeysKept(t, n) ==
  \A i \in DOMAIN t, j \in DOMAIN n :
    t[i].id = n[j].id => t[i].user = n[j].user /\ t[i].at = n[j].at

Edited(t, n, u, event) ==
  /\ TableOK(n) /\ KeysKept(t, n)
  /\ \A w : w # u => OwnOf(n, w) = OwnOf(t, w)
  /\ event \in {"added", "removed", "moved"}
  /\ event = "added" => Later(OwnOf(t, u), OwnOf(n, u))
  /\ event = "removed" => Later(OwnOf(n, u), OwnOf(t, u))

LEMMA JoinsEdits ==
  ASSUME NEW t, TableOK(t), NEW n \in Seq(Rows), NEW u, NEW g, Joins(t, n, g, u)
  PROVE  Edited(t, n, u, "added")
<1>1. TableOK(n) /\ KeysKept(t, n)
  BY TableStays DEF Joins, KeysKept
<1>2. ASSUME NEW w, w # u PROVE OwnOf(n, w) = OwnOf(t, w)
  BY <1>1, <1>2, SameTasks DEF Joins
<1>3. Later(OwnOf(t, u), OwnOf(n, u))
  BY <1>1, NothingLostMovesOn DEF Joins
<1> QED BY <1>1, <1>2, <1>3 DEF Edited

LEMMA LeftEdits ==
  ASSUME NEW t, TableOK(t), NEW n \in Seq(Rows), NEW u, NEW g, Left(t, n, g, u)
  PROVE  Edited(t, n, u, "removed")
<1>1. TableOK(n) /\ KeysKept(t, n)
  BY TableStays DEF Left, KeysKept
<1>2. ASSUME NEW w, w # u PROVE OwnOf(n, w) = OwnOf(t, w)
  BY <1>1, <1>2, SameTasks DEF Left
<1>3. Later(OwnOf(n, u), OwnOf(t, u))
  BY <1>1, NothingNewMovesUp DEF Left
<1> QED BY <1>1, <1>2, <1>3 DEF Edited

\* A new version of a row, written somewhere else
LEMMA RewriteEdits ==
  ASSUME NEW t, TableOK(t), NEW i \in DOMAIN t, NEW k \in DOMAIN t
  PROVE  Edited(t, InsertAt(RemoveAt(t, i), k, t[i]), t[i].user, "moved")
<1> DEFINE s == RemoveAt(t, i)
           n == InsertAt(s, k, t[i])
           u == t[i].user
           x == <<t[i]>>
<1>1. DOMAIN t = 1..Len(t) /\ Len(t) \in Nat /\ t[i] \in Rows
  BY LenProperties, RowsOf DEF TableOK
<1>2. s \in Seq(Rows) /\ Len(s) = Len(t) - 1 /\ (\A m \in DOMAIN s : s[m].id # t[i].id)
      /\ \E g : Left(t, s, g, u)
  BY DeletionTraces
<1>3. Edited(t, s, u, "removed")
  BY <1>2, LeftEdits
<1>4. k - 1 \in 0..Len(s) /\ (k - 1) + 1 = k
  BY <1>1, <1>2
<1>5. x \in Seq(Rows) /\ DOMAIN x = {1} /\ x[1] = t[i]
  BY <1>1
<1>6. n = Put(s, k - 1, x)
  BY <1>4 DEF InsertAt, Put
<1> HIDE DEF s, n, x
<1>7. TableOK(s)
  BY <1>3 DEF Edited
<1>8. /\ n \in Seq(Rows) /\ \E g : Joins(s, n, g, u)
      /\ \A m \in DOMAIN n : n[m] = t[i] \/ \E j \in DOMAIN s : n[m] = s[j]
  <2>1. \A a \in DOMAIN x : x[a].user = u /\ \A j \in DOMAIN s : s[j].id # x[a].id
    BY <1>2, <1>5
  <2>2. \A a, b \in DOMAIN x : x[a].id = x[b].id => a = b
    BY <1>5
  <2> DEFINE y == Put(s, k - 1, x)
  <2>3. /\ y \in Seq(Rows)
        /\ \A m \in DOMAIN y :
             (\E j \in DOMAIN s : y[m] = s[j]) \/ (\E j \in DOMAIN x : y[m] = x[j])
        /\ \E g : Joins(s, y, g, u)
    <3> HIDE DEF u
    <3>1. x \in Seq(Rows) /\ k - 1 \in 0..Len(s)
      BY <1>4, <1>5
    <3> QED BY <1>7, <2>1, <2>2, <3>1, InsertionTraces, Zenon
  <2>4. y = n
    BY <1>6
  <2> HIDE DEF y
  <2> QED BY <1>5, <2>3, <2>4
<1>9. Edited(s, n, u, "added")
  BY <1>7, <1>8, JoinsEdits
<1>10. ASSUME NEW w, w # u PROVE OwnOf(n, w) = OwnOf(t, w)
  BY <1>3, <1>9, <1>10 DEF Edited
<1>11. KeysKept(t, n)
  <2> SUFFICES ASSUME NEW a \in DOMAIN t, NEW j \in DOMAIN n, t[a].id = n[j].id
               PROVE  t[a].user = n[j].user /\ t[a].at = n[j].at
    BY DEF KeysKept
  <2>1. CASE n[j] = t[i]
    <3>1. a = i
      BY <2>1 DEF TableOK
    <3> QED BY <2>1, <3>1
  <2>2. ASSUME NEW m \in DOMAIN s, n[j] = s[m]
        PROVE  t[a].user = n[j].user /\ t[a].at = n[j].at
    BY <1>3, <2>2 DEF Edited, KeysKept
  <2> QED BY <1>8, <2>1, <2>2
<1>12. TableOK(n)
  BY <1>9 DEF Edited
<1>13. Edited(t, n, u, "moved")
  <2> HIDE DEF u
  <2> QED BY <1>10, <1>11, <1>12 DEF Edited
<1> QED BY <1>13 DEF n, s

---------------------------------------------------------------------------
(* The actions on the table *)

\* What the pipes let through has neither an owner nor a date.
LEMMA BodiesHaveNoKey ==
  /\ \A data \in Created : Or(data, "createdAt", "none") = "none"
  /\ \A data \in Updated : \A x, y : Or(data, "userId", x) = x /\ Or(data, "createdAt", y) = y
<1>1. ASSUME NEW data \in Created PROVE "createdAt" \notin DOMAIN data
  <2>1. PICK body : data = Whitelist(body, CreateFields)
    BY DEF Created
  <2>2. DOMAIN data \subseteq CreateFields
    BY <2>1 DEF Whitelist, Restrict
  <2> QED BY <2>2 DEF CreateFields
<1>2. ASSUME NEW data \in Updated PROVE "userId" \notin DOMAIN data /\ "createdAt" \notin DOMAIN data
  <2>1. PICK body : data = Whitelist(body, UpdateFields)
    BY DEF Updated
  <2>2. DOMAIN data \subseteq UpdateFields
    BY <2>1 DEF Whitelist, Restrict
  <2> QED BY <2>2 DEF UpdateFields, CreateFields
<1> QED BY <1>1, <1>2 DEF Or

LEMMA FreshIsNew ==
  ASSUME NEW id \in Fresh
  PROVE  id \in Ids /\ \A i \in DOMAIN tasks : tasks[i].id # id
BY DEF Fresh

\* One statement that touches rows of u
Statement(u, event) ==
  Edited(tasks, tasks', u, event) /\ Note(u, event) /\ walk' = walk

LEMMA InsertStatement ==
  ASSUME TableOK(tasks), NEW u \in Users, NEW k \in 0..Len(tasks),
         NEW at \in Imports \cup {"none"}, NEW ids \in Seq(Fresh), IsInjective(ids),
         Insert(u, at, ids, k)
  PROVE  Statement(u, "added")
<1> DEFINE x == [i \in DOMAIN ids |-> [id |-> ids[i], user |-> u, at |-> at]]
<1>1. DOMAIN ids = 1..Len(ids) /\ Len(ids) \in Nat /\ \A i \in DOMAIN ids : ids[i] \in Fresh
  BY LenProperties, ElementOfSeq
<1>2. \A i \in DOMAIN ids : x[i] \in Rows /\ x[i].id = ids[i] /\ x[i].user = u
  BY <1>1, FreshIsNew DEF Rows
<1>3. x \in Seq(Rows) /\ DOMAIN x = DOMAIN ids
  <2> DEFINE c == Len(ids)
  <2>1. x \in [1..c -> Rows] /\ c \in Nat
    BY <1>1, <1>2
  <2> HIDE DEF x, c
  <2>2. DOMAIN x = 1..c
    BY <2>1
  <2> QED BY <1>1, <2>1, <2>2, SeqDef DEF c
<1>4. tasks' = Put(tasks, k, x) /\ Note(u, "added") /\ walk' = walk
  BY DEF Insert, Put
<1> HIDE DEF x
<1>5. \A a \in DOMAIN x : x[a].user = u /\ \A i \in DOMAIN tasks : tasks[i].id # x[a].id
  BY <1>1, <1>2, <1>3, FreshIsNew
<1>6. \A a, b \in DOMAIN x : x[a].id = x[b].id => a = b
  BY <1>2, <1>3 DEF IsInjective
<1>7. Put(tasks, k, x) \in Seq(Rows) /\ \E g : Joins(tasks, Put(tasks, k, x), g, u)
  BY <1>3, <1>5, <1>6, InsertionTraces
<1>8. Edited(tasks, Put(tasks, k, x), u, "added")
  BY <1>7, JoinsEdits
<1> QED BY <1>4, <1>8 DEF Statement

LEMMA CreateStatement ==
  ASSUME TableOK(tasks), NEW u \in Users, NEW k \in 0..Len(tasks), Create(u, k)
  PROVE  Statement(u, "added")
<1>1. PICK id \in Fresh : Insert(u, "none", <<id>>, k)
  BY BodiesHaveNoKey DEF Create
<1>2. <<id>> \in Seq(Fresh) /\ IsInjective(<<id>>)
  BY DEF IsInjective
<1> QED BY <1>1, <1>2, InsertStatement

LEMMA ImportStatement ==
  ASSUME TableOK(tasks), NEW u \in Users, NEW d \in Imports, NEW k \in 0..Len(tasks), Import(u, d, k)
  PROVE  Statement(u, "added")
<1>1. PICK i, j \in Fresh : i # j /\ Insert(u, d, <<i, j>>, k)
  BY DEF Import
<1>2. <<i, j>> \in Seq(Fresh) /\ IsInjective(<<i, j>>)
  BY <1>1 DEF IsInjective
<1> QED BY <1>1, <1>2, InsertStatement

LEMMA UpdateStatement ==
  ASSUME TableOK(tasks), NEW u, NEW i \in DOMAIN tasks, NEW k \in DOMAIN tasks, Update(u, i, k)
  PROVE  Statement(u, "moved")
<1>1. PICK data \in Updated :
        tasks' = InsertAt(RemoveAt(tasks, i), k,
                          [tasks[i] EXCEPT !.user = Or(data, "userId", @),
                                           !.at = Or(data, "createdAt", @)])
  BY DEF Update
<1> DEFINE row == [tasks[i] EXCEPT !.user = Or(data, "userId", @), !.at = Or(data, "createdAt", @)]
<1>2. row = tasks[i]
  <2>1. tasks[i] \in Rows
    BY RowsOf
  <2>2. /\ Or(data, "userId", tasks[i].user) = tasks[i].user
        /\ Or(data, "createdAt", tasks[i].at) = tasks[i].at
    BY BodiesHaveNoKey
  <2> DEFINE p == Or(data, "userId", tasks[i].user)
             q == Or(data, "createdAt", tasks[i].at)
  <2>3. row = [[tasks[i] EXCEPT !.user = p] EXCEPT !.at = q]
    BY <2>1 DEF Rows
  <2> HIDE DEF p, q
  <2>4. [[tasks[i] EXCEPT !.user = tasks[i].user] EXCEPT !.at = tasks[i].at] = tasks[i]
    BY <2>1 DEF Rows
  <2> QED BY <2>2, <2>3, <2>4 DEF p, q
<1>3. tasks' = InsertAt(RemoveAt(tasks, i), k, tasks[i])
  <2>1. tasks' = InsertAt(RemoveAt(tasks, i), k, row)
    BY <1>1
  <2> QED BY <1>2, <2>1
<1>4. tasks[i].user = u /\ Note(u, "moved") /\ walk' = walk
  BY DEF Update
<1>5. Edited(tasks, tasks', u, "moved")
  BY <1>3, <1>4, RewriteEdits
<1> QED BY <1>4, <1>5 DEF Statement

LEMMA RemoveStatement ==
  ASSUME TableOK(tasks), NEW u, NEW i \in DOMAIN tasks, RemoveTask(u, i)
  PROVE  Statement(u, "removed")
<1>1. tasks[i].user = u /\ tasks' = RemoveAt(tasks, i) /\ Note(u, "removed") /\ walk' = walk
  BY DEF RemoveTask
<1>2. RemoveAt(tasks, i) \in Seq(Rows) /\ \E g : Left(tasks, RemoveAt(tasks, i), g, u)
  BY <1>1, DeletionTraces
<1> QED BY <1>1, <1>2, LeftEdits DEF Statement

LEMMA RollbackStatement ==
  ASSUME TableOK(tasks), NEW u, NEW d, Rollback(u, d)
  PROVE  Statement(u, "removed")
<1> DEFINE P == {i \in DOMAIN tasks : tasks[i].user = u /\ tasks[i].at = d}
           n == [k \in DOMAIN InOrder(DOMAIN tasks \ P) |-> tasks[InOrder(DOMAIN tasks \ P)[k]]]
<1>1. tasks' = n /\ Note(u, "removed") /\ walk' = walk
  BY DEF Rollback
<1>2. P \in SUBSET DOMAIN tasks /\ \A i \in P : tasks[i].user = u
  OBVIOUS
<1>3. n \in Seq(Rows) /\ \E g : Left(tasks, n, g, u)
  <2> HIDE DEF P
  <2> QED BY <1>2, SelectionTraces
<1> HIDE DEF n
<1>4. Edited(tasks, n, u, "removed")
  BY <1>3, LeftEdits
<1> QED BY <1>1, <1>4 DEF Statement

LEMMA ReplanTable ==
  ASSUME TableOK(tasks), Replan
  PROVE  TableOK(tasks') /\ KeysKept(tasks, tasks')
BY ReorderingTraces, TableStays DEF Replan, KeysKept

\* Whatever is done, either nothing is done to the table, or one statement is
\* made, or the scan takes another order.
LEMMA Steps ==
  ASSUME TableOK(tasks), [Next]_vars
  PROVE  \/ tasks' = tasks /\ (vars' = vars \/ Ask \/ Count \/ Find \/ Answer
                               \/ \E u \in Users, first \in Firsts : Begin(u, first))
         \/ \E u \in Users : \E event : Statement(u, event)
         \/ Replan
<1>1. CASE \E u \in Users, first \in Firsts : Begin(u, first)
  BY <1>1 DEF Begin
<1>2. ASSUME NEW u \in Users, NEW k \in 0..Len(tasks), Create(u, k) PROVE Statement(u, "added")
  BY <1>2, CreateStatement
<1>3. ASSUME NEW u \in Users, NEW k \in 0..Len(tasks), NEW d \in Imports, Import(u, d, k)
      PROVE  Statement(u, "added")
  BY <1>3, ImportStatement
<1>4. ASSUME NEW u \in Users, NEW i \in DOMAIN tasks, NEW k \in DOMAIN tasks, Update(u, i, k)
      PROVE  Statement(u, "moved")
  BY <1>4, UpdateStatement
<1>5. ASSUME NEW u \in Users, NEW i \in DOMAIN tasks, RemoveTask(u, i) PROVE Statement(u, "removed")
  BY <1>5, RemoveStatement
<1>6. ASSUME NEW u \in Users, NEW d \in Imports, Rollback(u, d) PROVE Statement(u, "removed")
  BY <1>6, RollbackStatement
<1>7. CASE Ask \/ Count \/ Find \/ Answer
  BY <1>7 DEF Ask, Count, Find, Answer
<1>8. CASE UNCHANGED vars
  BY <1>8 DEF vars
<1> QED BY <1>1, <1>2, <1>3, <1>4, <1>5, <1>6, <1>7, <1>8 DEF Next

---------------------------------------------------------------------------
(* The walk.  o is the list of the tasks of its user, as the next statement  *)
(* reads it; the pages before walk.page showed its first `Skip` places.      *)

Walks ==
  [pc : {"ask", "read", "done", "refused"}, size : Nat, export : BOOLEAN, user : Users,
   page : 1..(MaxPage + 1), total : SUBSET Nat, rows : Seq(Seq(Ids)), seen : Seq(Ids),
   start : Seq(Ids)]

Passed(w) == Skip(w.page, w.size)
Page(o, w) == SubSeq(o, Passed(w) + 1, Min({Passed(w) + w.size, Len(o)}))

\* The offer of a next page, whether it is taken or refused
Offered(w) == \E n \in Nat : w.total = {n} /\ n > Passed(w)

WalkOK(w) ==
  /\ w \in Walks
  /\ w.total = {} \/ \E n \in Nat : w.total = {n}
  /\ w.rows = <<>> \/ \E r \in Seq(Ids) : w.rows = <<r>>
  /\ w.pc # "refused" => w.size \in 1..MaxSize
  /\ w.pc \in {"read", "done"} => w.page <= MaxPage
  /\ w.pc = "ask" => Offered(w) /\ w.page > 1 /\ ~w.export
  /\ w.pc = "refused" /\ w.page > 1 => Offered(w) /\ w.page = MaxPage + 1 /\ w.size \in 1..MaxSize
  /\ w.export => w.page = 1

\* Nothing happened: the tasks are those of the start, and the pages so far
\* are their beginning.
Exact(o, w, h) ==
  h = {} =>
    /\ w.pc \in {"ask", "read"} =>
         o = w.start /\ Passed(w) <= Len(o) /\ w.seen = SubSeq(o, 1, Passed(w))
    /\ w.pc = "read" =>
         w.total \subseteq {Len(o)} /\ \A r : w.rows = <<r>> => r = Page(o, w)
    /\ w.pc = "done" =>
         w.seen = IF w.export THEN SubSeq(w.start, 1, Min({w.size, Len(w.start)})) ELSE w.start

\* Insertions only: a task of the start is further on in the list, and is
\* shown if it is among the places passed.
Covered(o, w, shown, places) ==
  \A i \in DOMAIN o : i <= places /\ o[i] \in Range(w.start) => o[i] \in shown

Missed(o, w, h) ==
  h \cap {"removed", "moved", "raced"} = {} /\ ~w.export =>
    /\ w.pc \in {"ask", "read"} =>
         Later(w.start, o) /\ Covered(o, w, Range(w.seen), Passed(w))
    /\ w.pc = "read" /\ w.rows = <<>> => \A n \in w.total : n = Len(o)
    /\ w.pc = "read" => \A r : w.rows = <<r>> =>
         /\ Covered(o, w, Range(w.seen) \cup Range(r), Passed(w) + w.size)
         /\ \A n \in w.total : n <= Passed(w) + w.size =>
              Range(w.start) \subseteq Range(w.seen) \cup Range(r)
    /\ w.pc = "done" => Range(w.start) \subseteq Range(w.seen)

\* Removals only: what has been shown is among the places passed.
Behind(o, shown, places) == \A i \in DOMAIN o : o[i] \in shown => i <= places

Repeated(o, w, h) ==
  h \cap {"added", "moved"} = {} =>
    /\ IsInjective(w.seen)
    /\ w.pc = "ask" \/ (w.pc = "read" /\ w.rows = <<>>) => Behind(o, Range(w.seen), Passed(w))
    /\ w.pc = "read" => \A r : w.rows = <<r>> =>
         /\ IsInjective(w.seen \o r)
         /\ Behind(o, Range(w.seen \o r), Passed(w) + w.size)

IInv ==
  /\ TableOK(tasks)
  /\ happened \subseteq Events
  /\ walk = Idle \/
     /\ WalkOK(walk) /\ walk.user \in Users
     /\ Exact(OwnOf(tasks, walk.user), walk, happened)
     /\ Missed(OwnOf(tasks, walk.user), walk, happened)
     /\ Repeated(OwnOf(tasks, walk.user), walk, happened)

---------------------------------------------------------------------------
(* Pages *)

LEMMA SkipIs ==
  ASSUME NEW page \in Nat \ {0}, NEW size \in Nat
  PROVE  /\ Skip(page, size) \in Nat
         /\ Skip(page + 1, size) = Skip(page, size) + size
         /\ Skip(1, size) = 0
<1>1. page - 1 \in Nat /\ (page + 1) - 1 = (page - 1) + 1 /\ 1 - 1 = 0
  OBVIOUS
<1> DEFINE p == page - 1
<1>2. p \in Nat /\ (page + 1) - 1 = p + 1
  BY <1>1
<1>3. Skip(page, size) = p * size /\ Skip(page + 1, size) = (p + 1) * size /\ Skip(1, size) = 0 * size
  <2>1. Skip(page + 1, size) = ((page + 1) - 1) * size /\ Skip(1, size) = (1 - 1) * size
    BY DEF Skip
  <2> QED BY <1>1, <1>2, <2>1 DEF Skip
<1> HIDE DEF p
<1>4. (p + 1) * size = p * size + size /\ p * size \in Nat /\ 0 * size = 0
  BY <1>2
<1> QED BY <1>3, <1>4

LEMMA Products ==
  ASSUME NEW a \in Nat, NEW b \in Nat, a <= b, NEW c \in Nat
  PROVE  a * c <= b * c /\ a * c \in Nat /\ b * c \in Nat
<1> DEFINE d == b - a
<1>1. d \in Nat /\ b = a + d
  OBVIOUS
<1> HIDE DEF d
<1>2. (a + d) * c = a * c + d * c /\ d * c \in Nat /\ a * c \in Nat
  BY <1>1
<1> QED BY <1>1, <1>2

\* There is a next page if there is more than the pages so far can hold.
LEMMA NextPage ==
  ASSUME NEW page \in Nat \ {0}, NEW size \in Nat \ {0}, NEW total \in Nat
  PROVE  HasNext(page, total, size) <=> total > Skip(page, size) + size
<1> DEFINE x == total + size - 1
           q == x \div size
           r == x % size
<1>1. x \in Nat
  OBVIOUS
<1>2. q \in Nat /\ r \in Nat /\ r < size /\ x = size * q + r
  <2> HIDE DEF x
  <2> QED BY <1>1
<1>3. page \in Nat /\ page + 1 \in Nat /\ size \in Nat /\ q + 1 \in Nat
  BY <1>2
<1>4. Skip(page, size) + size = page * size
  <2> DEFINE p == page - 1
  <2>1. p \in Nat /\ page = p + 1
    OBVIOUS
  <2>2. Skip(page, size) = p * size
    BY DEF Skip
  <2> HIDE DEF p
  <2>3. p * size + size = (p + 1) * size
    BY <2>1
  <2> QED BY <2>1, <2>2, <2>3
<1>5. HasNext(page, total, size) <=> page < q
  BY DEF HasNext, LastPage
<1>6. size * q = q * size /\ q * size \in Nat /\ page * size \in Nat
  BY <1>2, <1>3
<1>7. x = total + size - 1
  OBVIOUS
<1> HIDE DEF x, q, r
<1>8. CASE page < q
  <2>1. page + 1 <= q
    BY <1>2, <1>3, <1>8
  <2>2. (page + 1) * size <= q * size
    BY <1>2, <1>3, <2>1, Products
  <2>3. (page + 1) * size = page * size + size
    BY <1>3
  <2>4. page * size + size <= total + size - 1
    BY <1>2, <1>6, <1>7, <2>2, <2>3
  <2>5. total > page * size
    BY <1>6, <2>4
  <2> QED BY <1>4, <1>5, <1>8, <2>5
<1>9. CASE ~(page < q)
  <2>1. q <= page
    BY <1>2, <1>3, <1>9
  <2>2. q * size <= page * size
    BY <1>2, <1>3, <2>1, Products
  <2>3. total + size - 1 < page * size + size
    BY <1>2, <1>6, <1>7, <2>2
  <2>4. ~(total > page * size)
    BY <1>6, <2>3
  <2> QED BY <1>4, <1>5, <1>9, <2>4
<1> QED BY <1>8, <1>9

\* The queries of the walk are refused for their page alone.
LEMMA PagesServed ==
  ASSUME NEW page \in Nat, NEW size \in 1..MaxSize
  PROVE  StatusOf([Query(size) EXCEPT !.page = <<page>>]) = 200 <=> page \in 1..MaxPage
<1> DEFINE query == [Query(size) EXCEPT !.page = <<page>>]
<1>1. /\ query.page = <<page>> /\ query.size = <<size>> /\ query.from = <<>> /\ query.to = <<>>
      /\ query.sort = <<>> /\ query.filter = <<>> /\ query.search = <<>> /\ query.export = <<>>
  BY DEF Query, Absent
<1> HIDE DEF query
<1>2. Transforms(query)
  BY <1>1 DEF Transforms, Absent
<1>3. ApiPaginateLimit(query.page, MaxPage) <=> page \in 1..MaxPage
  BY <1>1 DEF ApiPaginateLimit, Absent
<1>4. ApiPaginateLimit(query.size, MaxSize)
  BY <1>1 DEF ApiPaginateLimit, Absent
<1>5. PaginationRange(query.from, query.to) /\ IsSortedOn(query.sort, TaskScalarFieldEnum)
  BY <1>1 DEF PaginationRange, IsSortedOn, Absent
<1>6. IsBooleanText(query.export)
  <2>1. <<>> # <<"">>
    OBVIOUS
  <2> QED BY <1>1, <2>1 DEF IsBooleanText
<1>7. StatusOf(query) = 200 <=> page \in 1..MaxPage
  BY <1>2, <1>3, <1>4, <1>5, <1>6 DEF StatusOf, PaginationQuery
<1> QED BY <1>7 DEF query

LEMMA FirstsAre ==
  ASSUME NEW first \in Firsts
  PROVE  /\ first.pc \in {"read", "refused"} /\ first.size \in Nat /\ first.export \in BOOLEAN
         /\ first.pc = "read" => first.size \in 1..MaxSize
<1>1. PICK query \in Queries : first = Used(query)
  BY DEF Firsts
<1>2. \E s \in Sizes \cup {1} : query.size = <<s>>
  <2>1. \A q \in Sized : \E s \in Sizes : q.size = <<s>>
    BY DEF Sized, Query
  <2>2. \A q \in Ranged : q.size = <<1>>
  <3> SUFFICES ASSUME NEW q \in Ranged PROVE q.size = <<1>>
    OBVIOUS
  <3>1. PICK f, t : q = Between(f, t)
    BY DEF Ranged
  <3> QED BY <3>1 DEF Between, Query
  <2>3. \A q \in Sorted : q.size = <<1>>
    BY DEF Sorted, Query
  <2>4. \A q \in Matched : q.size = <<1>>
  <3> SUFFICES ASSUME NEW q \in Matched PROVE q.size = <<1>>
    OBVIOUS
  <3>1. PICK f, s : q = Matching(f, s)
    BY DEF Matched
  <3> QED BY <3>1 DEF Matching, Query
  <2>5. \A q \in Exported : q.size = <<1>>
    BY DEF Exported, Query
  <2> QED BY <1>1, <2>1, <2>2, <2>3, <2>4, <2>5 DEF Queries
<1>3. query.size[1] \in Nat /\ query.size # <<>>
  BY <1>2, TaskAssumption
<1>4. StatusOf(query) = 200 => query.size[1] \in 1..MaxSize
  <2>1. StatusOf(query) = 200 => ApiPaginateLimit(query.size, MaxSize)
    BY DEF StatusOf, PaginationQuery
  <2> QED BY <1>3, <2>1 DEF ApiPaginateLimit, Absent
<1>5. /\ first.pc = IF StatusOf(query) = 200 THEN "read" ELSE "refused"
      /\ first.size = query.size[1] /\ first.export = Exports(query)
  BY <1>1 DEF Used
<1> QED BY <1>3, <1>4, <1>5 DEF Exports

---------------------------------------------------------------------------
(* What is done to the table, and the walk *)

LEMMA LaterIsTransitive ==
  ASSUME NEW a \in Seq(Ids), NEW b \in Seq(Ids), NEW c \in Seq(Ids), Later(a, b), Later(b, c)
  PROVE  Later(a, c)
<1>1. /\ DOMAIN a = 1..Len(a) /\ Len(a) \in Nat /\ DOMAIN b = 1..Len(b) /\ Len(b) \in Nat
      /\ DOMAIN c = 1..Len(c) /\ Len(c) \in Nat
  BY LenProperties
<1> SUFFICES ASSUME NEW i \in DOMAIN a PROVE \E j \in DOMAIN c : c[j] = a[i] /\ i <= j
  BY DEF Later
<1>2. PICK k \in DOMAIN b : b[k] = a[i] /\ i <= k
  BY DEF Later
<1>3. PICK j \in DOMAIN c : c[j] = b[k] /\ k <= j
  BY DEF Later
<1>4. i \in Nat /\ k \in Nat /\ j \in Nat
  BY <1>1
<1> QED BY <1>2, <1>3, <1>4

LEMMA LaterIsReflexive ==
  ASSUME NEW a \in Seq(Ids)
  PROVE  Later(a, a)
<1>1. DOMAIN a = 1..Len(a) /\ Len(a) \in Nat
  BY LenProperties
<1> QED BY <1>1 DEF Later

\* Tasks that moved on are behind nothing that was not behind it.
LEMMA CoveredStays ==
  ASSUME NEW w, NEW o \in Seq(Ids), NEW p \in Seq(Ids), IsInjective(p), Later(o, p),
         Range(w.start) \subseteq Range(o), NEW shown, NEW places \in Nat,
         Covered(o, w, shown, places)
  PROVE  Covered(p, w, shown, places)
<1>1. /\ DOMAIN o = 1..Len(o) /\ Len(o) \in Nat /\ DOMAIN p = 1..Len(p) /\ Len(p) \in Nat
  BY LenProperties
<1> SUFFICES ASSUME NEW i \in DOMAIN p, i <= places, p[i] \in Range(w.start) PROVE p[i] \in shown
  BY DEF Covered
<1>2. PICK k \in DOMAIN o : o[k] = p[i]
  BY DEF Range
<1>3. PICK j \in DOMAIN p : p[j] = o[k] /\ k <= j
  BY DEF Later
<1>4. j = i
  BY <1>2, <1>3 DEF IsInjective
<1>5. k <= places
  BY <1>1, <1>3, <1>4
<1> QED BY <1>2, <1>5 DEF Covered

LEMMA BehindStays ==
  ASSUME NEW o \in Seq(Ids), NEW p \in Seq(Ids), Later(p, o), NEW shown, NEW places \in Nat,
         Behind(o, shown, places)
  PROVE  Behind(p, shown, places)
<1>1. /\ DOMAIN o = 1..Len(o) /\ Len(o) \in Nat /\ DOMAIN p = 1..Len(p) /\ Len(p) \in Nat
  BY LenProperties
<1> SUFFICES ASSUME NEW i \in DOMAIN p, p[i] \in shown PROVE i <= places
  BY DEF Behind
<1>2. PICK k \in DOMAIN o : o[k] = p[i] /\ i <= k
  BY DEF Later
<1>3. k <= places
  BY <1>2 DEF Behind
<1> QED BY <1>1, <1>2, <1>3

\* The shape of a walk
LEMMA WalkFields ==
  ASSUME NEW w \in Walks
  PROVE  /\ w.pc \in {"ask", "read", "done", "refused"} /\ w.size \in Nat /\ w.export \in BOOLEAN
         /\ w.user \in Users /\ w.page \in 1..(MaxPage + 1) /\ w.page \in Nat \ {0}
         /\ w.total \subseteq Nat /\ w.rows \in Seq(Seq(Ids)) /\ w.seen \in Seq(Ids)
         /\ w.start \in Seq(Ids) /\ Passed(w) \in Nat /\ w # Idle
<1>1. /\ w.pc \in {"ask", "read", "done", "refused"} /\ w.size \in Nat /\ w.export \in BOOLEAN
      /\ w.user \in Users /\ w.page \in 1..(MaxPage + 1)
      /\ w.total \subseteq Nat /\ w.rows \in Seq(Seq(Ids)) /\ w.seen \in Seq(Ids)
      /\ w.start \in Seq(Ids)
  BY DEF Walks
<1>2. w.page \in Nat \ {0}
  BY <1>1, TaskAssumption
<1>3. Passed(w) \in Nat
  BY <1>1, <1>2, SkipIs DEF Passed
<1>4. w # Idle
  BY <1>1 DEF Idle
<1> QED BY <1>1, <1>2, <1>3, <1>4

\* Its tasks are touched: o becomes p, and the event is noted.
Touched(o, p, w, h, event, g) ==
  /\ event \in {"added", "removed", "moved"}
  /\ h \subseteq g /\ event \in g
  /\ event = "added" => Later(o, p)
  /\ event = "removed" => Later(p, o)
  /\ event = "added" /\ w.pc = "read" /\ w.total # {} /\ w.rows = <<>> => "raced" \in g
  /\ w.pc \in {"ask", "read"}

LEMMA TouchedWalk ==
  ASSUME NEW w \in Walks, NEW o \in Seq(Ids), NEW p \in Seq(Ids), IsInjective(p),
         NEW h, NEW event, NEW g, Touched(o, p, w, h, event, g),
         Missed(o, w, h), Repeated(o, w, h)
  PROVE  Exact(p, w, g) /\ Missed(p, w, g) /\ Repeated(p, w, g)
<1>0. /\ event \in {"added", "removed", "moved"} /\ h \subseteq g /\ event \in g
      /\ event = "added" => Later(o, p)
      /\ event = "removed" => Later(p, o)
      /\ event = "added" /\ w.pc = "read" /\ w.total # {} /\ w.rows = <<>> => "raced" \in g
      /\ w.pc \in {"ask", "read"}
  BY DEF Touched
<1>1. Exact(p, w, g)
  BY <1>0 DEF Exact
<1>2. /\ w.seen \in Seq(Ids) /\ w.start \in Seq(Ids) /\ Passed(w) \in Nat /\ w.size \in Nat
      /\ Passed(w) + w.size \in Nat
  BY WalkFields
<1>3. Missed(p, w, g)
  <2> SUFFICES ASSUME g \cap {"removed", "moved", "raced"} = {}, ~w.export PROVE Missed(p, w, g)
    BY DEF Missed
  <2>1. h \cap {"removed", "moved", "raced"} = {} /\ event = "added" /\ "raced" \notin g
    BY <1>0
  <2>2. Later(o, p) /\ ~(w.pc = "read" /\ w.total # {} /\ w.rows = <<>>)
    BY <1>0, <2>1
  <2>3. Later(w.start, o) /\ Covered(o, w, Range(w.seen), Passed(w))
    BY <1>0, <2>1 DEF Missed
  <2>4. Later(w.start, p)
    BY <1>2, <2>2, <2>3, LaterIsTransitive
  <2>5. Range(w.start) \subseteq Range(o)
    BY <1>2, <2>3, LaterIsLonger
  <2>6. Covered(p, w, Range(w.seen), Passed(w))
    BY <1>2, <2>2, <2>3, <2>5, CoveredStays
  <2>7. ASSUME w.pc = "read", NEW r, w.rows = <<r>>
        PROVE  /\ Covered(p, w, Range(w.seen) \cup Range(r), Passed(w) + w.size)
               /\ \A n \in w.total : n <= Passed(w) + w.size =>
                    Range(w.start) \subseteq Range(w.seen) \cup Range(r)
    <3>1. /\ Covered(o, w, Range(w.seen) \cup Range(r), Passed(w) + w.size)
          /\ \A n \in w.total : n <= Passed(w) + w.size =>
               Range(w.start) \subseteq Range(w.seen) \cup Range(r)
      BY <2>1, <2>7 DEF Missed
    <3> QED BY <1>2, <2>2, <2>5, <3>1, CoveredStays
  <2>8. w.pc # "done"
    BY <1>0
  <2> QED BY <2>2, <2>4, <2>6, <2>7, <2>8 DEF Missed
<1>4. Repeated(p, w, g)
  <2> SUFFICES ASSUME g \cap {"added", "moved"} = {} PROVE Repeated(p, w, g)
    BY DEF Repeated
  <2>1. h \cap {"added", "moved"} = {} /\ event = "removed"
    BY <1>0
  <2>2. Later(p, o)
    BY <1>0, <2>1
  <2>3. IsInjective(w.seen)
    BY <2>1 DEF Repeated
  <2>4. ASSUME w.pc = "ask" \/ (w.pc = "read" /\ w.rows = <<>>)
        PROVE  Behind(p, Range(w.seen), Passed(w))
    <3>1. Behind(o, Range(w.seen), Passed(w))
      BY <2>1, <2>4 DEF Repeated
    <3> QED BY <1>2, <2>2, <3>1, BehindStays
  <2>5. ASSUME w.pc = "read", NEW r, w.rows = <<r>>
        PROVE  IsInjective(w.seen \o r) /\ Behind(p, Range(w.seen \o r), Passed(w) + w.size)
    <3>1. IsInjective(w.seen \o r) /\ Behind(o, Range(w.seen \o r), Passed(w) + w.size)
      BY <2>1, <2>5 DEF Repeated
    <3> QED BY <1>2, <2>2, <3>1, BehindStays
  <2> QED BY <2>3, <2>4, <2>5 DEF Repeated
<1> QED BY <1>1, <1>3, <1>4

\* The walk is over: what happens to the table is nothing to it.
LEMMA PastWalk ==
  ASSUME NEW w, w.pc \notin {"ask", "read"}, NEW o, NEW p, NEW h,
         Exact(o, w, h), Missed(o, w, h), Repeated(o, w, h)
  PROVE  Exact(p, w, h) /\ Missed(p, w, h) /\ Repeated(p, w, h)
<1>1. Exact(p, w, h)
  BY DEF Exact
<1>2. Missed(p, w, h)
  BY DEF Missed
<1>3. Repeated(p, w, h)
  BY DEF Repeated
<1> QED BY <1>1, <1>2, <1>3

LEMMA StatementKeepsIInv ==
  ASSUME IInv, NEW u, NEW event, Statement(u, event)
  PROVE  IInv'
<1>1. /\ TableOK(tasks) /\ TableOK(tasks') /\ walk' = walk /\ Note(u, event)
      /\ event \in {"added", "removed", "moved"}
      /\ \A v : v # u => OwnOf(tasks', v) = OwnOf(tasks, v)
      /\ event = "added" => Later(OwnOf(tasks, u), OwnOf(tasks', u))
      /\ event = "removed" => Later(OwnOf(tasks', u), OwnOf(tasks, u))
  BY DEF IInv, Statement, Edited
<1>2. happened' \subseteq Events
  BY <1>1 DEF IInv, Note, Events
<1>3. CASE walk = Idle
  BY <1>1, <1>2, <1>3 DEF IInv
<1>4. CASE walk # Idle
  <2> DEFINE v == walk.user
             o == OwnOf(tasks, v)
             p == OwnOf(tasks', v)
  <2>1. /\ WalkOK(walk) /\ walk.user \in Users /\ walk \in Walks
        /\ Exact(o, walk, happened) /\ Missed(o, walk, happened) /\ Repeated(o, walk, happened)
    BY <1>4 DEF IInv, WalkOK
  <2>2. o \in Seq(Ids) /\ p \in Seq(Ids) /\ IsInjective(p)
    BY <1>1, OwnIs
  <2>3. Exact(p, walk, happened') /\ Missed(p, walk, happened') /\ Repeated(p, walk, happened')
    <3>1. CASE ~Walking
      <4>1. happened' = happened /\ walk.pc \notin {"ask", "read"}
        BY <1>1, <3>1 DEF Note, Walking
      <4> HIDE DEF o, p
      <4>2. Exact(p, walk, happened) /\ Missed(p, walk, happened) /\ Repeated(p, walk, happened)
        BY <2>1, <4>1, PastWalk
      <4> QED BY <4>1, <4>2
    <3>2. CASE Walking /\ u # v
      <4>1. happened' = happened /\ p = o
        BY <1>1, <3>2 DEF Note
      <4> QED BY <2>1, <4>1
    <3>3. CASE Walking /\ u = v
      <4>1. /\ happened \subseteq happened' /\ event \in happened' /\ walk.pc \in {"ask", "read"}
            /\ event = "added" /\ walk.pc = "read" /\ walk.total # {} /\ walk.rows = <<>> =>
                 "raced" \in happened'
        BY <1>1, <3>3 DEF Note, Walking
      <4>2. /\ event \in {"added", "removed", "moved"}
            /\ (event = "added" => Later(o, p)) /\ (event = "removed" => Later(p, o))
        BY <1>1, <3>3
      <4> HIDE DEF o, p
      <4>3. Touched(o, p, walk, happened, event, happened')
        BY <4>1, <4>2 DEF Touched
      <4> QED BY <2>1, <2>2, <4>3, TouchedWalk
    <3> QED BY <3>1, <3>2, <3>3
  <2> QED BY <1>1, <1>2, <2>1, <2>3 DEF IInv
<1> QED BY <1>3, <1>4

LEMMA ReplanKeepsIInv ==
  ASSUME IInv, Replan
  PROVE  IInv'
<1>1. TableOK(tasks) /\ TableOK(tasks') /\ walk' = walk /\ happened' \subseteq Events
  BY ReplanTable DEF IInv, Replan, Events
<1>2. CASE walk = Idle
  BY <1>1, <1>2 DEF IInv
<1>3. CASE walk # Idle
  <2> DEFINE v == walk.user
             o == OwnOf(tasks, v)
             p == OwnOf(tasks', v)
  <2>1. /\ WalkOK(walk) /\ walk.user \in Users /\ walk \in Walks
        /\ Exact(o, walk, happened) /\ Missed(o, walk, happened) /\ Repeated(o, walk, happened)
    BY <1>3 DEF IInv, WalkOK
  <2>2. o \in Seq(Ids) /\ p \in Seq(Ids) /\ IsInjective(p)
    BY <1>1, OwnIs
  <2>3. Exact(p, walk, happened') /\ Missed(p, walk, happened') /\ Repeated(p, walk, happened')
    <3>1. CASE ~Walking
      <4>1. happened' = happened /\ walk.pc \notin {"ask", "read"}
        BY <3>1 DEF Replan, Walking
      <4> HIDE DEF o, p
      <4>2. Exact(p, walk, happened) /\ Missed(p, walk, happened) /\ Repeated(p, walk, happened)
        BY <2>1, <4>1, PastWalk
      <4> QED BY <4>1, <4>2
    <3>2. CASE Walking
      <4>1. happened \subseteq happened' /\ "moved" \in happened' /\ walk.pc \in {"ask", "read"}
        BY <3>2 DEF Replan, Walking
      <4> HIDE DEF o, p
      <4>2. Touched(o, p, walk, happened, "moved", happened')
        BY <4>1 DEF Touched
      <4> QED BY <2>1, <2>2, <4>2, TouchedWalk
    <3> QED BY <3>1, <3>2
  <2> QED BY <1>1, <2>1, <2>3 DEF IInv
<1> QED BY <1>2, <1>3

---------------------------------------------------------------------------
(* One page *)

LEMMA MinOfTwo ==
  ASSUME NEW a \in Nat, NEW b \in Nat
  PROVE  Min({a, b}) = IF a <= b THEN a ELSE b
<1> DEFINE m == IF a <= b THEN a ELSE b
<1>1. m \in {a, b} /\ \A y \in {a, b} : m <= y
  OBVIOUS
<1>2. \A x \in {a, b} : (\A y \in {a, b} : x <= y) => x = m
  OBVIOUS
<1> HIDE DEF m
<1>3. Min({a, b}) = m
  BY <1>1, <1>2 DEF Min
<1> QED BY <1>3 DEF m

\* r is the places of o after the first k, z of them if there are.
IsPage(r, o, k, z) ==
  /\ r \in Seq(Ids)
  /\ \A i \in DOMAIN r : i \in Nat \ {0} /\ k + i \in DOMAIN o /\ k + i <= k + z /\ r[i] = o[k + i]
  /\ \A j \in DOMAIN o : k < j /\ j <= k + z => \E i \in DOMAIN r : r[i] = o[j]

LEMMA PageIs ==
  ASSUME NEW o \in Seq(Ids), NEW k \in Nat, NEW z \in Nat
  PROVE  IsPage(SubSeq(o, k + 1, Min({k + z, Len(o)})), o, k, z)
<1> DEFINE l == Len(o)
           m == Min({k + z, l})
           r == SubSeq(o, k + 1, m)
<1>1. l \in Nat /\ DOMAIN o = 1..l /\ \A i \in 1..l : o[i] \in Ids
  BY LenProperties, ElementOfSeq
<1>2. m = (IF k + z <= l THEN k + z ELSE l) /\ m \in 0..l
  BY <1>1, MinOfTwo
<1>20. r = SubSeq(o, k + 1, m)
  OBVIOUS
<1> HIDE DEF l, m, r
<1>3. ASSUME k <= m PROVE IsPage(r, o, k, z)
  <2>0. m \in 0..Len(o)
    BY <1>2 DEF l
  <2>1. /\ SubSeq(o, k + 1, m) \in Seq(Ids) /\ DOMAIN SubSeq(o, k + 1, m) = 1..(m - k)
        /\ \A i \in 1..(m - k) : SubSeq(o, k + 1, m)[i] = o[k + i]
    BY <1>3, <2>0, Part
  <2>2. r = SubSeq(o, k + 1, m)
    BY <1>20
  <2>3. r \in Seq(Ids) /\ DOMAIN r = 1..(m - k) /\ \A i \in 1..(m - k) : r[i] = o[k + i]
    BY <2>1, <2>2
  <2>4. ASSUME NEW i \in 1..(m - k)
        PROVE  i \in Nat \ {0} /\ k + i \in 1..l /\ k + i <= k + z
    BY <1>1, <1>2, <1>3
  <2>5. ASSUME NEW j \in 1..l, k < j, j <= k + z PROVE \E i \in 1..(m - k) : r[i] = o[j]
    <3>1. j - k \in 1..(m - k) /\ k + (j - k) = j
      BY <1>1, <1>2, <2>5
    <3>2. r[j - k] = o[k + (j - k)]
      BY <2>3, <3>1
    <3> QED BY <3>1, <3>2
  <2> QED BY <1>1, <2>3, <2>4, <2>5 DEF IsPage
<1>4. ASSUME ~(k <= m) PROVE IsPage(r, o, k, z)
  <2>1. m = l /\ l < k
    BY <1>1, <1>2, <1>4
  <2>2. r \in Seq(Ids) /\ DOMAIN r = {}
    <3>1. k + 1 \in Int /\ m \in Int /\ ~(k + 1 <= m)
      BY <1>1, <2>1
    <3>2. \A i \in (k + 1)..m : o[i] \in Ids
      BY <1>1, <2>1
    <3>3. SubSeq(o, k + 1, m) \in Seq(Ids) /\ Len(SubSeq(o, k + 1, m)) = 0
      BY <3>1, <3>2, SubSeqProperties
    <3>4. r = SubSeq(o, k + 1, m)
      BY <1>20
    <3>5. r \in Seq(Ids) /\ Len(r) = 0
      BY <3>3, <3>4
    <3>6. DOMAIN r = 1..0
      BY <3>5, LenProperties
    <3>7. 1..0 = {}
      OBVIOUS
    <3> QED BY <3>5, <3>6, <3>7, Zenon
  <2>3. \A j \in 1..l : ~(k < j)
    BY <1>1, <2>1
  <2> QED BY <1>1, <2>2, <2>3 DEF IsPage
<1>5. IsPage(r, o, k, z)
  BY <1>3, <1>4
<1> QED BY <1>5 DEF r, m, l


---------------------------------------------------------------------------
(* The steps of the walk, from w to v *)

WalkInv(o, w, h) == WalkOK(w) /\ Exact(o, w, h) /\ Missed(o, w, h) /\ Repeated(o, w, h)

SameWalk(w, v) ==
  /\ v \in Walks
  /\ v.size = w.size /\ v.export = w.export /\ v.user = w.user /\ v.start = w.start

LEMMA NoPage == \A r : <<r>> # <<>>
OBVIOUS

LEMMA BeginStep ==
  ASSUME NEW o \in Seq(Ids), NEW v \in Walks, NEW first \in Firsts,
         v.pc = first.pc, v.size = first.size, v.export = first.export, v.page = 1,
         v.total = {}, v.rows = <<>>, v.seen = <<>>, v.start = o
  PROVE  WalkInv(o, v, {})
<1>1. /\ v.pc \in {"read", "refused"}
      /\ v.pc = "read" => v.size \in 1..MaxSize
      /\ v.size \in Nat
  BY FirstsAre
<1>2. Passed(v) = 0
  <2>1. 1 \in Nat \ {0}
    OBVIOUS
  <2>2. Skip(1, v.size) = 0
    BY <1>1, <2>1, SkipIs
  <2> QED BY <2>2 DEF Passed
<1>3. WalkOK(v)
  <2>1. v.page <= MaxPage /\ ~(v.page > 1)
    BY TaskAssumption
  <2> QED BY <1>1, <2>1 DEF WalkOK
<1>4. Len(o) \in Nat /\ Later(o, o)
  BY LenProperties, LaterIsReflexive
<1>5. Exact(o, v, {})
  <2>1. SubSeq(o, 1, 0) = <<>>
    <3>1. 0 \in 0..Len(o) /\ 0 \in Nat /\ 0 <= 0 /\ 0 + 1 = 1 /\ 0 - 0 = 0
      BY <1>4
    <3> DEFINE e == SubSeq(o, 0 + 1, 0)
    <3>2. e \in Seq(Ids) /\ Len(e) = 0 - 0
      BY <3>1, Part
    <3> HIDE DEF e
    <3>3. e = <<>>
      BY <3>1, <3>2, EmptySeq
    <3> QED BY <3>1, <3>3 DEF e
  <2> QED BY <1>1, <1>2, <1>4, <2>1 DEF Exact
<1>6. Range(v.seen) = {}
  BY DEF Range
<1>7. Missed(o, v, {})
  <2>1. Covered(o, v, Range(v.seen), Passed(v))
    <3>1. DOMAIN o = 1..Len(o)
      BY LenProperties
    <3>2. \A i \in DOMAIN o : ~(i <= 0)
      BY <1>4, <3>1
    <3> QED BY <1>2, <3>2 DEF Covered
  <2> QED BY <1>1, <1>4, <2>1 DEF Missed
<1>8. Repeated(o, v, {})
  <2>1. IsInjective(v.seen)
    BY DEF IsInjective
  <2>2. Behind(o, Range(v.seen), Passed(v))
    BY <1>6 DEF Behind
  <2> QED BY <1>1, <2>1, <2>2 DEF Repeated
<1> QED BY <1>3, <1>5, <1>7, <1>8 DEF WalkInv

LEMMA AskStep ==
  ASSUME NEW o \in Seq(Ids), NEW w, NEW h, WalkInv(o, w, h), w.pc = "ask",
         NEW v, SameWalk(w, v), v.page = w.page, v.seen = w.seen,
         \/ v.pc = "read" /\ v.total = {} /\ v.rows = <<>> /\ w.page <= MaxPage
         \/ v.pc = "refused" /\ v.total = w.total /\ v.rows = w.rows /\ ~(w.page <= MaxPage)
  PROVE  WalkInv(o, v, h)
<1>1. WalkOK(w) /\ Exact(o, w, h) /\ Missed(o, w, h) /\ Repeated(o, w, h)
  BY DEF WalkInv
<1>2. /\ v \in Walks /\ v.size = w.size /\ v.export = w.export /\ v.user = w.user
      /\ v.start = w.start /\ Passed(v) = Passed(w)
  BY DEF SameWalk, Passed
<1>3. w \in Walks /\ w.size \in 1..MaxSize /\ w.page > 1 /\ ~w.export /\ Offered(w)
  BY <1>1 DEF WalkOK
<1>4. v.pc \in {"read", "refused"}
  OBVIOUS
<1>5. WalkOK(v)
  <2>1. CASE v.pc = "read"
    BY <1>2, <1>3, <2>1 DEF WalkOK
  <2>2. CASE v.pc = "refused"
    <3>1. v.total = w.total /\ v.rows = w.rows /\ ~(w.page <= MaxPage)
      BY <2>2
    <3>2. v.page = MaxPage + 1
      BY <1>3, <3>1, WalkFields, TaskAssumption
    <3>3. Offered(v)
      BY <1>2, <1>3, <3>1 DEF Offered
    <3>4. /\ v.total = {} \/ \E n \in Nat : v.total = {n}
          /\ v.rows = <<>> \/ \E r \in Seq(Ids) : v.rows = <<r>>
      BY <1>1, <3>1 DEF WalkOK
    <3> QED BY <1>2, <1>3, <2>2, <3>2, <3>3, <3>4 DEF WalkOK
  <2> QED BY <1>4, <2>1, <2>2
<1>6. Exact(o, v, h)
  <2>1. h = {} => o = w.start /\ Passed(w) <= Len(o) /\ w.seen = SubSeq(o, 1, Passed(w))
    BY <1>1 DEF Exact
  <2>2. v.pc = "read" => v.total = {} /\ \A r : v.rows # <<r>>
    BY NoPage
  <2> QED BY <1>2, <1>4, <2>1, <2>2 DEF Exact
<1>7. Missed(o, v, h)
  <2>1. Covered(o, w, Range(w.seen), Passed(w)) <=> Covered(o, v, Range(v.seen), Passed(v))
    BY <1>2 DEF Covered
  <2>2. v.pc = "read" => v.total = {} /\ \A r : v.rows # <<r>>
    BY NoPage
  <2>3. h \cap {"removed", "moved", "raced"} = {} /\ ~w.export =>
          Later(w.start, o) /\ Covered(o, w, Range(w.seen), Passed(w))
    BY <1>1 DEF Missed
  <2> QED BY <1>2, <1>4, <2>1, <2>2, <2>3 DEF Missed
<1>8. Repeated(o, v, h)
  <2>1. v.pc = "read" => \A r : v.rows # <<r>>
    BY NoPage
  <2>2. h \cap {"added", "moved"} = {} =>
          IsInjective(w.seen) /\ Behind(o, Range(w.seen), Passed(w))
    BY <1>1 DEF Repeated
  <2> QED BY <1>2, <1>4, <2>1, <2>2 DEF Repeated
<1> QED BY <1>5, <1>6, <1>7, <1>8 DEF WalkInv

\* The number of tasks, read before or after the page.
LEMMA CountStep ==
  ASSUME NEW o \in Seq(Ids), NEW w, NEW h, WalkInv(o, w, h), w.pc = "read", w.total = {},
         NEW v, SameWalk(w, v), v.pc = "read", v.page = w.page, v.seen = w.seen, v.rows = w.rows,
         v.total = {Len(o)}
  PROVE  WalkInv(o, v, h)
<1>1. WalkOK(w) /\ Exact(o, w, h) /\ Missed(o, w, h) /\ Repeated(o, w, h)
  BY DEF WalkInv
<1>2. /\ v \in Walks /\ v.size = w.size /\ v.export = w.export /\ v.user = w.user
      /\ v.start = w.start /\ Passed(v) = Passed(w)
  BY DEF SameWalk, Passed
<1>3. w \in Walks /\ w.size \in 1..MaxSize /\ w.page <= MaxPage /\ (w.export => w.page = 1)
      /\ (w.rows = <<>> \/ \E r \in Seq(Ids) : w.rows = <<r>>)
  BY <1>1 DEF WalkOK
<1>4. DOMAIN o = 1..Len(o) /\ Len(o) \in Nat
  BY LenProperties
<1>5. WalkOK(v)
  BY <1>2, <1>3, <1>4 DEF WalkOK
<1>6. Exact(o, v, h)
  <2>1. \A r : Page(o, v) = Page(o, w)
    BY <1>2 DEF Page
  <2>2. h = {} => /\ o = w.start /\ Passed(w) <= Len(o) /\ w.seen = SubSeq(o, 1, Passed(w))
                  /\ \A r : w.rows = <<r>> => r = Page(o, w)
    BY <1>1 DEF Exact
  <2> QED BY <1>2, <2>1, <2>2 DEF Exact
<1>7. Missed(o, v, h)
  <2> SUFFICES ASSUME h \cap {"removed", "moved", "raced"} = {}, ~w.export PROVE Missed(o, v, h)
    BY <1>2 DEF Missed
  <2>1. Later(v.start, o) /\ Covered(o, v, Range(v.seen), Passed(v))
    BY <1>1, <1>2 DEF Missed, Covered
  <2>2. ASSUME NEW r, v.rows = <<r>>
        PROVE  /\ Covered(o, v, Range(v.seen) \cup Range(r), Passed(v) + v.size)
               /\ Len(o) <= Passed(v) + v.size =>
                    Range(v.start) \subseteq Range(v.seen) \cup Range(r)
    <3>1. Covered(o, v, Range(v.seen) \cup Range(r), Passed(v) + v.size)
      BY <1>1, <1>2, <2>2 DEF Missed, Covered
    <3>2. ASSUME Len(o) <= Passed(v) + v.size, NEW id \in Range(v.start)
          PROVE  id \in Range(v.seen) \cup Range(r)
      <4>1. v.start \in Seq(Ids) /\ Passed(v) + v.size \in Nat
        BY <1>2, WalkFields
      <4>2. id \in Range(o)
        BY <2>1, <4>1, LaterIsLonger
      <4>3. PICK i \in DOMAIN o : o[i] = id
        BY <4>2 DEF Range
      <4>4. i <= Passed(v) + v.size
        BY <1>4, <3>2, <4>1
      <4> QED BY <3>1, <4>3, <4>4 DEF Covered
    <3> QED BY <3>1, <3>2
  <2>3. v.rows = <<>> => \A n \in v.total : n = Len(o)
    OBVIOUS
  <2>4. \A r : v.rows = <<r>> =>
          /\ Covered(o, v, Range(v.seen) \cup Range(r), Passed(v) + v.size)
          /\ \A n \in v.total : n <= Passed(v) + v.size =>
               Range(v.start) \subseteq Range(v.seen) \cup Range(r)
    BY <2>2
  <2>5. v.pc # "done"
    OBVIOUS
  <2> QED BY <2>1, <2>3, <2>4, <2>5 DEF Missed
<1>8. Repeated(o, v, h)
  <2> SUFFICES ASSUME h \cap {"added", "moved"} = {} PROVE Repeated(o, v, h)
    BY DEF Repeated
  <2>1. /\ IsInjective(w.seen)
        /\ w.rows = <<>> => Behind(o, Range(w.seen), Passed(w))
        /\ \A r : w.rows = <<r>> =>
             IsInjective(w.seen \o r) /\ Behind(o, Range(w.seen \o r), Passed(w) + w.size)
    BY <1>1 DEF Repeated
  <2> QED BY <1>2, <2>1 DEF Repeated
<1> QED BY <1>5, <1>6, <1>7, <1>8 DEF WalkInv

\* The page
LEMMA FindStep ==
  ASSUME NEW o \in Seq(Ids), IsInjective(o), NEW w, NEW h, WalkInv(o, w, h),
         w.pc = "read", w.rows = <<>>,
         NEW v, SameWalk(w, v), v.pc = "read", v.page = w.page, v.seen = w.seen, v.total = w.total,
         v.rows = <<Page(o, w)>>
  PROVE  WalkInv(o, v, h)
<1>1. WalkOK(w) /\ Exact(o, w, h) /\ Missed(o, w, h) /\ Repeated(o, w, h)
  BY DEF WalkInv
<1>2. /\ v \in Walks /\ v.size = w.size /\ v.export = w.export /\ v.user = w.user
      /\ v.start = w.start /\ Passed(v) = Passed(w)
  BY DEF SameWalk, Passed
<1>3. w \in Walks /\ w.size \in 1..MaxSize /\ w.page <= MaxPage /\ (w.export => w.page = 1)
      /\ (w.total = {} \/ \E n \in Nat : w.total = {n})
  BY <1>1 DEF WalkOK
<1>4. DOMAIN o = 1..Len(o) /\ Len(o) \in Nat
  BY LenProperties
<1> DEFINE q == Page(o, w)
           k == Passed(w)
           z == w.size
<1>5. k \in Nat /\ z \in Nat /\ w.seen \in Seq(Ids) /\ w.start \in Seq(Ids) /\ w.total \subseteq Nat
  BY <1>3, WalkFields
<1>6. /\ q \in Seq(Ids)
      /\ \A i \in DOMAIN q : i \in Nat \ {0} /\ k + i \in DOMAIN o /\ k + i <= k + z /\ q[i] = o[k + i]
      /\ \A j \in DOMAIN o : k < j /\ j <= k + z => \E i \in DOMAIN q : q[i] = o[j]
  <2>1. IsPage(q, o, k, z)
    BY <1>5, PageIs DEF Page
  <2> HIDE DEF q, k, z
  <2> QED BY <2>1 DEF IsPage
<1>7. v.rows = <<q>> /\ v.rows # <<>> /\ \A r : v.rows = <<r>> => r = q
  OBVIOUS
<1> HIDE DEF q
<1>8. WalkOK(v)
  BY <1>2, <1>3, <1>6, <1>7 DEF WalkOK
<1>9. Exact(o, v, h)
  <2>1. Page(o, v) = q
    BY <1>2 DEF Page, q
  <2> QED BY <1>1, <1>2, <1>7, <2>1 DEF Exact
<1>10. Missed(o, v, h)
  <2> SUFFICES ASSUME h \cap {"removed", "moved", "raced"} = {}, ~w.export PROVE Missed(o, v, h)
    BY <1>2 DEF Missed
  <2>1. Later(v.start, o) /\ Covered(o, w, Range(w.seen), k) /\ \A n \in w.total : n = Len(o)
    BY <1>1, <1>2 DEF Missed
  <2>2. Covered(o, v, Range(v.seen), Passed(v))
    BY <1>2, <2>1 DEF Covered
  <2>3. Covered(o, v, Range(v.seen) \cup Range(q), k + z)
    <3> SUFFICES ASSUME NEW i \in DOMAIN o, i <= k + z, o[i] \in Range(w.start)
                 PROVE  o[i] \in Range(w.seen) \cup Range(q)
      BY <1>2 DEF Covered
    <3>1. CASE i <= k
      BY <2>1, <3>1 DEF Covered
    <3>2. CASE ~(i <= k)
      <4>1. k < i
        BY <1>4, <1>5, <3>2
      <4> QED BY <1>6, <4>1 DEF Range
    <3> QED BY <3>1, <3>2
  <2>4. ASSUME NEW n \in v.total, n <= k + z, NEW id \in Range(v.start)
        PROVE  id \in Range(v.seen) \cup Range(q)
    <3>1. n = Len(o)
      BY <2>1, <2>4
    <3>2. id \in Range(o)
      BY <1>2, <1>5, <2>1, <2>4, LaterIsLonger
    <3>3. PICK i \in DOMAIN o : o[i] = id
      BY <3>2 DEF Range
    <3>4. i <= k + z
      BY <1>4, <1>5, <2>4, <3>1
    <3> QED BY <2>3, <2>4, <3>3, <3>4 DEF Covered
  <2> QED BY <1>2, <1>7, <2>1, <2>2, <2>3, <2>4 DEF Missed
<1>11. Repeated(o, v, h)
  <2> SUFFICES ASSUME h \cap {"added", "moved"} = {} PROVE Repeated(o, v, h)
    BY DEF Repeated
  <2>1. IsInjective(w.seen) /\ Behind(o, Range(w.seen), k)
    BY <1>1 DEF Repeated
  <2>2. IsInjective(q)
    <3> SUFFICES ASSUME NEW i \in DOMAIN q, NEW j \in DOMAIN q, q[i] = q[j] PROVE i = j
      BY DEF IsInjective
    <3>1. k + i = k + j
      BY <1>6 DEF IsInjective
    <3> QED BY <1>5, <1>6, <3>1
  <2>3. \A i \in DOMAIN w.seen, j \in DOMAIN q : w.seen[i] # q[j]
    <3> SUFFICES ASSUME NEW i \in DOMAIN w.seen, NEW j \in DOMAIN q, w.seen[i] = q[j] PROVE FALSE
      OBVIOUS
    <3>1. k + j \in DOMAIN o /\ o[k + j] \in Range(w.seen) /\ j \in Nat \ {0}
      BY <1>6 DEF Range
    <3>2. k + j <= k
      BY <2>1, <3>1 DEF Behind
    <3> QED BY <1>5, <3>1, <3>2
  <2>4. IsInjective(w.seen \o q)
    BY <1>5, <1>6, <2>1, <2>2, <2>3, JoinedInjective
  <2>5. Behind(o, Range(w.seen \o q), k + z)
    <3> SUFFICES ASSUME NEW i \in DOMAIN o, o[i] \in Range(w.seen) \cup Range(q) PROVE i <= k + z
      BY <1>5, <1>6, RangeConcatenation DEF Behind
    <3>1. CASE o[i] \in Range(w.seen)
      <4>1. i <= k
        BY <2>1, <3>1 DEF Behind
      <4> QED BY <1>4, <1>5, <4>1
    <3>2. CASE o[i] \in Range(q)
      <4>1. PICK j \in DOMAIN q : q[j] = o[i]
        BY <3>2 DEF Range
      <4>2. k + j \in DOMAIN o /\ o[k + j] = o[i] /\ k + j <= k + z
        BY <1>6, <4>1
      <4> QED BY <4>2 DEF IsInjective
    <3> QED BY <3>1, <3>2
  <2> QED BY <1>2, <1>7, <2>1, <2>4, <2>5 DEF Repeated
<1> QED BY <1>8, <1>9, <1>10, <1>11 DEF WalkInv

\* The page is shown, and another is offered or not.
LEMMA AnswerStep ==
  ASSUME NEW o \in Seq(Ids), IsInjective(o), NEW w, NEW h, WalkInv(o, w, h), w.pc = "read",
         NEW r \in Seq(Ids), w.rows = <<r>>, NEW n \in w.total,
         NEW v, SameWalk(w, v), v.seen = w.seen \o r, v.total = w.total, v.rows = w.rows,
         \/ HasNext(w.page, n, w.size) /\ ~w.export /\ v.pc = "ask" /\ v.page = w.page + 1
         \/ ~(HasNext(w.page, n, w.size) /\ ~w.export) /\ v.pc = "done" /\ v.page = w.page
  PROVE  WalkInv(o, v, h)
<1>1. WalkOK(w) /\ Exact(o, w, h) /\ Missed(o, w, h) /\ Repeated(o, w, h)
  BY DEF WalkInv
<1>2. /\ v \in Walks /\ v.size = w.size /\ v.export = w.export /\ v.user = w.user
      /\ v.start = w.start
  BY DEF SameWalk
<1>3. /\ w \in Walks /\ w.size \in 1..MaxSize /\ w.page <= MaxPage /\ (w.export => w.page = 1)
      /\ (w.total = {} \/ \E m \in Nat : w.total = {m})
  BY <1>1 DEF WalkOK
<1> DEFINE k == Passed(w)
           z == w.size
           l == Len(o)
<1>4. /\ k \in Nat /\ z \in Nat /\ z # 0 /\ w.seen \in Seq(Ids) /\ w.start \in Seq(Ids)
      /\ n \in Nat /\ w.page \in Nat \ {0} /\ w.total = {n} /\ l \in Nat
  <2>1. /\ k \in Nat /\ z \in Nat /\ w.seen \in Seq(Ids) /\ w.start \in Seq(Ids)
        /\ w.total \subseteq Nat /\ w.page \in Nat \ {0}
    BY <1>3, WalkFields
  <2>2. z # 0
    BY <1>3
  <2>3. l \in Nat
    BY LenProperties
  <2> QED BY <1>3, <2>1, <2>2, <2>3
<1>5. /\ HasNext(w.page, n, z) <=> n > k + z
      /\ Skip(w.page + 1, z) = k + z
      /\ k + z \in Nat
  <2> DEFINE g == w.page
             s == w.size
  <2>1. g \in Nat \ {0} /\ s \in Nat \ {0} /\ s \in Nat /\ n \in Nat /\ Skip(g, s) \in Nat
    BY <1>4 DEF Passed
  <2> HIDE DEF g, s
  <2>2. HasNext(g, n, s) <=> n > Skip(g, s) + s
    BY <2>1, NextPage
  <2>3. Skip(g + 1, s) = Skip(g, s) + s
    BY <2>1, SkipIs
  <2>4. Skip(g, s) + s \in Nat
    BY <2>1
  <2> QED BY <2>2, <2>3, <2>4 DEF Passed, g, s
<1>6. \/ v.pc = "ask" /\ v.page = w.page + 1 /\ n > k + z /\ ~w.export /\ Passed(v) = k + z
      \/ v.pc = "done" /\ v.page = w.page /\ (n <= k + z \/ w.export)
  <2>1. CASE HasNext(w.page, n, w.size) /\ ~w.export /\ v.pc = "ask" /\ v.page = w.page + 1
    BY <1>2, <1>5, <2>1 DEF Passed
  <2>2. CASE ~(HasNext(w.page, n, w.size) /\ ~w.export) /\ v.pc = "done" /\ v.page = w.page
    BY <1>4, <1>5, <2>2
  <2> QED BY <2>1, <2>2
<1> HIDE DEF k, z, l
<1>7. Range(v.seen) = Range(w.seen) \cup Range(r)
  BY <1>4, RangeConcatenation
<1>8. WalkOK(v)
  <2>1. CASE v.pc = "ask" /\ v.page = w.page + 1 /\ n > k + z /\ ~w.export /\ Passed(v) = k + z
    <3>1. Offered(v)
      BY <1>4, <2>1 DEF Offered
    <3>2. v.page > 1
      BY <1>4, <2>1
    <3> QED BY <1>2, <1>3, <1>4, <2>1, <3>1, <3>2 DEF WalkOK
  <2>2. CASE v.pc = "done" /\ v.page = w.page
    BY <1>2, <1>3, <1>4, <2>2 DEF WalkOK
  <2> QED BY <1>6, <2>1, <2>2
<1>9. Exact(o, v, h)
  <2> SUFFICES ASSUME h = {} PROVE Exact(o, v, h)
    BY DEF Exact
  <2>1. /\ o = w.start /\ k <= l /\ w.seen = SubSeq(o, 1, k) /\ n = l
        /\ r = SubSeq(o, k + 1, Min({k + z, l}))
    <3>1. o = w.start /\ Passed(w) <= Len(o) /\ w.seen = SubSeq(o, 1, Passed(w))
      BY <1>1 DEF Exact
    <3>2. w.total \subseteq {Len(o)} /\ r = Page(o, w)
      BY <1>1 DEF Exact
    <3> QED BY <1>4, <3>1, <3>2 DEF Page, k, l, z
  <2> DEFINE m == Min({k + z, l})
  <2>2. m = (IF k + z <= l THEN k + z ELSE l) /\ m \in Nat
    BY <1>4, <1>5, MinOfTwo
  <2>3. v.seen = SubSeq(o, 1, m)
    <3>1. k <= m /\ m <= l
      BY <1>4, <2>1, <2>2
    <3>2. v.seen = SubSeq(o, 1, k) \o SubSeq(o, k + 1, m)
      BY <2>1
    <3> HIDE DEF m
    <3>3. SubSeq(o, 1, k) \o SubSeq(o, k + 1, m) = SubSeq(o, 1, m)
      <4>1. k \in Nat /\ m \in Nat /\ k <= m /\ m <= Len(o)
        BY <1>4, <2>2, <3>1 DEF l
      <4> QED BY <4>1, PartsJoined
    <3> QED BY <3>2, <3>3
  <2> HIDE DEF m
  <2>4. CASE v.pc = "ask" /\ n > k + z /\ Passed(v) = k + z
    <3>1. m = k + z /\ k + z <= l
      BY <1>4, <1>5, <2>1, <2>2, <2>4
    <3>2. v.seen = SubSeq(o, 1, Passed(v)) /\ Passed(v) <= Len(o)
      BY <2>3, <2>4, <3>1 DEF l
    <3> QED BY <1>2, <2>1, <2>4, <3>2 DEF Exact
  <2>5. CASE v.pc = "done" /\ w.export
    <3>1. w.page = 1
      BY <1>3, <2>5
    <3>2. k = 0
      <4>1. Skip(1, w.size) = 0
        BY <1>4, <3>1, SkipIs DEF z
      <4> QED BY <3>1, <4>1 DEF k, Passed
    <3>3. m = Min({w.size, Len(w.start)})
      <4>1. 0 + z = z
        BY <1>4
      <4> QED BY <2>1, <3>2, <4>1 DEF m, z, l
    <3>4. v.seen = SubSeq(v.start, 1, Min({v.size, Len(v.start)})) /\ v.export
      BY <1>2, <2>1, <2>3, <2>5, <3>3
    <3> QED BY <2>5, <3>4 DEF Exact
  <2>6. CASE v.pc = "done" /\ n <= k + z /\ ~w.export
    <3>1. m = l
      BY <1>4, <1>5, <2>1, <2>2, <2>6
    <3>2. SubSeq(o, 1, Len(o)) = o
      BY SubSeqFull
    <3>3. v.seen = v.start /\ ~v.export
      BY <1>2, <2>1, <2>3, <2>6, <3>1, <3>2 DEF l
    <3> QED BY <2>6, <3>3 DEF Exact
  <2> QED BY <1>6, <2>4, <2>5, <2>6
<1>10. Missed(o, v, h)
  <2> SUFFICES ASSUME h \cap {"removed", "moved", "raced"} = {}, ~w.export PROVE Missed(o, v, h)
    BY <1>2 DEF Missed
  <2>1. Later(w.start, o)
    BY <1>1 DEF Missed
  <2>2. Covered(o, w, Range(w.seen) \cup Range(r), k + z)
    BY <1>1 DEF Missed, k, z
  <2>3. n <= k + z => Range(w.start) \subseteq Range(w.seen) \cup Range(r)
    BY <1>1 DEF Missed, k, z
  <2>4. CASE v.pc = "ask" /\ Passed(v) = k + z
    <3>1. Covered(o, v, Range(v.seen), Passed(v))
      BY <1>2, <1>7, <2>2, <2>4 DEF Covered
    <3> QED BY <1>2, <2>1, <2>4, <3>1 DEF Missed
  <2>5. CASE v.pc = "done" /\ n <= k + z
    <3>1. Range(v.start) \subseteq Range(v.seen)
      BY <1>2, <1>7, <2>3, <2>5
    <3> QED BY <2>5, <3>1 DEF Missed
  <2> QED BY <1>6, <2>4, <2>5
<1>11. Repeated(o, v, h)
  <2> SUFFICES ASSUME h \cap {"added", "moved"} = {} PROVE Repeated(o, v, h)
    BY DEF Repeated
  <2>1. IsInjective(w.seen \o r) /\ Behind(o, Range(w.seen \o r), k + z)
    BY <1>1 DEF Repeated, k, z
  <2> QED BY <1>6, <2>1 DEF Repeated
<1> QED BY <1>8, <1>9, <1>10, <1>11 DEF WalkInv

LEMMA Walked ==
  ASSUME IInv, walk.pc \in {"ask", "read"}
  PROVE  /\ walk \in Walks /\ WalkInv(OwnOf(tasks, walk.user), walk, happened)
         /\ Own(walk.user) = OwnOf(tasks, walk.user)
         /\ OwnOf(tasks, walk.user) \in Seq(Ids) /\ IsInjective(OwnOf(tasks, walk.user))
<1>1. walk # Idle /\ TableOK(tasks)
  BY DEF IInv, Idle
<1>2. WalkInv(OwnOf(tasks, walk.user), walk, happened) /\ walk \in Walks
  BY <1>1 DEF IInv, WalkInv, WalkOK
<1> QED BY <1>1, <1>2, OwnRead, OwnIs DEF Own

LEMMA WalkedOn ==
  ASSUME IInv, tasks' = tasks, happened' \subseteq Events, walk' \in Walks,
         WalkInv(OwnOf(tasks, walk'.user), walk', happened')
  PROVE  IInv'
<1>1. walk'.user \in Users /\ TableOK(tasks')
  BY WalkFields DEF IInv
<1>2. OwnOf(tasks', walk'.user) = OwnOf(tasks, walk'.user)
  BY Zenon
<1> QED BY <1>1, <1>2 DEF IInv, WalkInv

LEMMA BeginKeepsIInv ==
  ASSUME IInv, NEW u \in Users, NEW first \in Firsts, Begin(u, first)
  PROVE  IInv'
<1> DEFINE o == OwnOf(tasks, u)
<1>1. Own(u) = o /\ o \in Seq(Ids)
  BY OwnRead, OwnIs DEF IInv, Own
<1>2. /\ walk' = [pc |-> first.pc, size |-> first.size, export |-> first.export, user |-> u,
                  page |-> 1, total |-> {}, rows |-> <<>>, seen |-> <<>>, start |-> o]
      /\ happened' = {} /\ tasks' = tasks
  BY <1>1 DEF Begin
<1> HIDE DEF o
<1>3. walk' \in Walks
  <2>1. first.pc \in {"ask", "read", "done", "refused"} /\ first.size \in Nat /\ first.export \in BOOLEAN
    BY FirstsAre
  <2>2. 1 \in 1..(MaxPage + 1)
    BY TaskAssumption
  <2>3. <<>> \in Seq(Seq(Ids)) /\ <<>> \in Seq(Ids)
    OBVIOUS
  <2> QED BY <1>1, <1>2, <2>1, <2>2, <2>3 DEF Walks
<1>4. WalkInv(o, walk', {})
  BY <1>1, <1>2, <1>3, BeginStep
<1>5. walk'.user = u
  BY <1>2
<1> QED BY <1>2, <1>3, <1>4, <1>5, WalkedOn DEF o

LEMMA AskKeepsIInv ==
  ASSUME IInv, Ask
  PROVE  IInv'
<1> DEFINE o == OwnOf(tasks, walk.user)
<1>1. walk.pc = "ask" /\ tasks' = tasks /\ happened' = happened
  BY DEF Ask
<1>2. walk \in Walks /\ WalkInv(o, walk, happened) /\ o \in Seq(Ids)
  BY <1>1, Walked
<1>3. walk.size \in 1..MaxSize /\ walk.page \in Nat /\ walk.page \in Nat \ {0}
  BY <1>1, <1>2, WalkFields DEF WalkInv, WalkOK
<1>4. walk.page \in 1..MaxPage <=> walk.page <= MaxPage
  BY <1>3, TaskAssumption
<1>5. \/ /\ walk.page <= MaxPage
         /\ walk' = [walk EXCEPT !.pc = "read", !.total = {}, !.rows = <<>>]
      \/ ~(walk.page <= MaxPage) /\ walk' = [walk EXCEPT !.pc = "refused"]
  BY <1>3, <1>4, PagesServed DEF Ask
<1> HIDE DEF o
<1>6. /\ SameWalk(walk, walk') /\ walk'.page = walk.page /\ walk'.seen = walk.seen
      /\ \/ walk'.pc = "read" /\ walk'.total = {} /\ walk'.rows = <<>> /\ walk.page <= MaxPage
         \/ walk'.pc = "refused" /\ walk'.total = walk.total /\ walk'.rows = walk.rows
            /\ ~(walk.page <= MaxPage)
  <2>1. <<>> \in Seq(Seq(Ids))
    OBVIOUS
  <2> QED BY <1>2, <1>5, <2>1 DEF SameWalk, Walks
<1>7. WalkInv(o, walk', happened)
  BY <1>1, <1>2, <1>6, AskStep
<1>8. walk' \in Walks /\ walk'.user = walk.user /\ happened' \subseteq Events
  BY <1>1, <1>6 DEF SameWalk, IInv
<1> QED BY <1>1, <1>7, <1>8, WalkedOn DEF o

LEMMA CountKeepsIInv ==
  ASSUME IInv, Count
  PROVE  IInv'
<1> DEFINE o == OwnOf(tasks, walk.user)
<1>1. walk.pc = "read" /\ walk.total = {} /\ tasks' = tasks /\ happened' = happened
  BY DEF Count
<1>2. walk \in Walks /\ WalkInv(o, walk, happened) /\ o \in Seq(Ids) /\ Own(walk.user) = o
  BY <1>1, Walked
<1>3. walk' = [walk EXCEPT !.total = {Len(o)}] /\ Len(o) \in Nat
  BY <1>2, LenProperties DEF Count
<1> HIDE DEF o
<1>4. /\ SameWalk(walk, walk') /\ walk'.pc = "read" /\ walk'.page = walk.page
      /\ walk'.seen = walk.seen /\ walk'.rows = walk.rows /\ walk'.total = {Len(o)}
  BY <1>1, <1>2, <1>3 DEF SameWalk, Walks
<1>5. WalkInv(o, walk', happened)
  BY <1>1, <1>2, <1>4, CountStep
<1>6. walk' \in Walks /\ walk'.user = walk.user /\ happened' \subseteq Events
  BY <1>1, <1>4 DEF SameWalk, IInv
<1> QED BY <1>1, <1>5, <1>6, WalkedOn DEF o

LEMMA FindKeepsIInv ==
  ASSUME IInv, Find
  PROVE  IInv'
<1> DEFINE o == OwnOf(tasks, walk.user)
           q == Page(o, walk)
<1>1. walk.pc = "read" /\ walk.rows = <<>> /\ tasks' = tasks /\ happened' = happened
  BY DEF Find
<1>2. /\ walk \in Walks /\ WalkInv(o, walk, happened) /\ o \in Seq(Ids) /\ IsInjective(o)
      /\ Own(walk.user) = o
  BY <1>1, Walked
<1>3. walk' = [walk EXCEPT !.rows = <<q>>]
  <2>1. Slice(Skip(walk.page, walk.size), walk.size) = q
    BY <1>2 DEF Slice, Page, Passed
  <2> QED BY <2>1 DEF Find
<1>4. q \in Seq(Ids)
  BY <1>2, WalkFields, PageIs DEF Page, IsPage
<1> HIDE DEF o, q
<1>5. /\ SameWalk(walk, walk') /\ walk'.pc = "read" /\ walk'.page = walk.page
      /\ walk'.seen = walk.seen /\ walk'.total = walk.total /\ walk'.rows = <<q>>
  <2>1. <<q>> \in Seq(Seq(Ids))
    BY <1>4
  <2> QED BY <1>1, <1>2, <1>3, <2>1 DEF SameWalk, Walks
<1>6. WalkInv(o, walk', happened)
  BY <1>1, <1>2, <1>5, FindStep DEF q
<1>7. walk' \in Walks /\ walk'.user = walk.user /\ happened' \subseteq Events
  BY <1>1, <1>5 DEF SameWalk, IInv
<1> QED BY <1>1, <1>6, <1>7, WalkedOn DEF o

LEMMA AnswerKeepsIInv ==
  ASSUME IInv, Answer
  PROVE  IInv'
<1> DEFINE o == OwnOf(tasks, walk.user)
<1>1. walk.pc = "read" /\ walk.rows # <<>> /\ tasks' = tasks /\ happened' = happened
  BY DEF Answer
<1>2. walk \in Walks /\ WalkInv(o, walk, happened) /\ o \in Seq(Ids) /\ IsInjective(o)
  BY <1>1, Walked
<1>3. PICK r \in Seq(Ids) : walk.rows = <<r>>
  BY <1>1, <1>2 DEF WalkInv, WalkOK
<1>4. PICK n \in walk.total :
        LET more == HasNext(walk.page, n, walk.size) /\ ~walk.export
        IN walk' = [walk EXCEPT !.seen = @ \o walk.rows[1],
                                !.page = IF more THEN @ + 1 ELSE @,
                                !.pc = IF more THEN "ask" ELSE "done"]
  BY DEF Answer
<1> DEFINE more == HasNext(walk.page, n, walk.size) /\ ~walk.export
           page == IF more THEN walk.page + 1 ELSE walk.page
           pc == IF more THEN "ask" ELSE "done"
           seen == walk.seen \o r
<1>5. walk' = [walk EXCEPT !.seen = seen, !.page = page, !.pc = pc]
  <2>1. walk.rows[1] = r
    BY <1>3
  <2> QED BY <1>4, <2>1
<1>6. seen \in Seq(Ids) /\ page \in 1..(MaxPage + 1) /\ pc \in {"ask", "done"}
  <2>1. walk.page <= MaxPage /\ walk.page \in Nat \ {0} /\ walk.seen \in Seq(Ids)
    BY <1>1, <1>2, WalkFields DEF WalkInv, WalkOK
  <2>2. seen \in Seq(Ids)
    BY <2>1, Joined
  <2> QED BY <2>1, <2>2, TaskAssumption
<1>7. \/ more /\ pc = "ask" /\ page = walk.page + 1
      \/ ~more /\ pc = "done" /\ page = walk.page
  OBVIOUS
<1> HIDE DEF o, more, page, pc, seen
<1>8. /\ SameWalk(walk, walk') /\ walk'.pc = pc /\ walk'.page = page
      /\ walk'.seen = seen /\ walk'.total = walk.total /\ walk'.rows = walk.rows
  BY <1>2, <1>5, <1>6 DEF SameWalk, Walks
<1>9. WalkInv(o, walk', happened)
  <2>1. walk'.seen = walk.seen \o r
    BY <1>8 DEF seen
  <2>2. \/ HasNext(walk.page, n, walk.size) /\ ~walk.export /\ walk'.pc = "ask"
           /\ walk'.page = walk.page + 1
        \/ ~(HasNext(walk.page, n, walk.size) /\ ~walk.export) /\ walk'.pc = "done"
           /\ walk'.page = walk.page
    BY <1>7, <1>8 DEF more
  <2> QED BY <1>1, <1>2, <1>3, <1>8, <2>1, <2>2, AnswerStep
<1>10. walk' \in Walks /\ walk'.user = walk.user /\ happened' \subseteq Events
  BY <1>1, <1>8 DEF SameWalk, IInv
<1> QED BY <1>1, <1>9, <1>10, WalkedOn DEF o

---------------------------------------------------------------------------
(* The theorems *)

LEMMA InitIInv ==
  ASSUME Init
  PROVE  IInv
<1>1. <<>> \in Seq(Rows) /\ DOMAIN <<>> = {}
  OBVIOUS
<1> QED BY <1>1 DEF Init, IInv, TableOK

LEMMA NextIInv ==
  ASSUME IInv, [Next]_vars
  PROVE  IInv'
<1>1. TableOK(tasks)
  BY DEF IInv
<1>2. ASSUME NEW u \in Users, NEW first \in Firsts, Begin(u, first) PROVE IInv'
  BY <1>2, BeginKeepsIInv
<1>3. ASSUME NEW u \in Users, NEW event, Statement(u, event) PROVE IInv'
  BY <1>3, StatementKeepsIInv
<1>4. CASE vars' = vars
  BY <1>4 DEF vars, IInv
<1> QED BY <1>1, <1>2, <1>3, <1>4, Steps, ReplanKeepsIInv, AskKeepsIInv, CountKeepsIInv,
          FindKeepsIInv, AnswerKeepsIInv

LEMMA Invariant == Spec => []IInv
BY InitIInv, NextIInv, PTL DEF Spec

\* Everything keeps its type, and no two rows of the table have one id: rows
\* get fresh ones, and no edit writes one (TaskService, the table tasks).
THEOREM TypeInvariant == Spec => []TypeOK
<1>1. IInv => TypeOK
  <2> SUFFICES ASSUME IInv PROVE TypeOK
    OBVIOUS
  <2>1. /\ tasks \in Seq(Rows) /\ \A i, j \in DOMAIN tasks : tasks[i].id = tasks[j].id => i = j
        /\ happened \subseteq Events
    BY DEF IInv, TableOK
  <2>2. ASSUME walk # Idle
        PROVE  /\ walk.pc \in {"ask", "read", "done", "refused"}
               /\ walk.page \in 1..MaxPage + 1 /\ walk.rows \in Seq(Seq(Ids)) /\ Len(walk.rows) <= 1
               /\ walk.seen \in Seq(Ids)
    <3>1. WalkOK(walk) /\ walk \in Walks
      BY <2>2 DEF IInv, WalkOK
    <3>2. Len(walk.rows) <= 1
      <4>1. walk.rows = <<>> \/ \E r \in Seq(Ids) : walk.rows = <<r>>
        BY <3>1 DEF WalkOK
      <4>2. CASE walk.rows = <<>>
        BY <4>2
      <4>3. ASSUME NEW r \in Seq(Ids), walk.rows = <<r>> PROVE Len(walk.rows) <= 1
        BY <4>3
      <4> QED BY <4>1, <4>2, <4>3
    <3> QED BY <3>1, <3>2, WalkFields
  <2> QED BY <2>1, <2>2 DEF TypeOK
<1> QED BY <1>1, Invariant, PTL

\* No edit changes the owner or the date of a row, whatever the body holds:
\* the rows a rollback deletes are those of its upload (TaskService.update,
\* the whitelist of the pipes, deleteMany of the report worker).
THEOREM KeysStay == Spec => RowsKeepTheirKey
<1>1. IInv /\ [Next]_vars =>
        [\A i \in DOMAIN tasks, j \in DOMAIN tasks' :
           tasks[i].id = tasks'[j].id =>
             tasks[i].user = tasks'[j].user /\ tasks[i].at = tasks'[j].at]_vars
  <2> SUFFICES ASSUME IInv, [Next]_vars, NEW i \in DOMAIN tasks, NEW j \in DOMAIN tasks',
                      tasks[i].id = tasks'[j].id
               PROVE  tasks[i].user = tasks'[j].user /\ tasks[i].at = tasks'[j].at
    OBVIOUS
  <2>1. TableOK(tasks)
    BY DEF IInv
  <2>2. KeysKept(tasks, tasks')
    <3>1. CASE tasks' = tasks
      BY <2>1, <3>1 DEF TableOK, KeysKept
    <3>2. ASSUME NEW u \in Users, NEW event, Statement(u, event) PROVE KeysKept(tasks, tasks')
      BY <3>2 DEF Statement, Edited
    <3> QED BY <2>1, <3>1, <3>2, Steps, ReplanTable
  <2> QED BY <2>2 DEF KeysKept
<1> QED BY <1>1, Invariant, PTL DEF Spec, RowsKeepTheirKey

\* The page that was offered and is refused lies beyond MAXIMUM_PAGE, and the
\* total that offered it is of more tasks than those pages hold
\* (PaginationOptionsDto against the meta of createPaginator).
THEOREM RefusalsAreBeyond == Spec => []RefusedOnlyBeyondTheLastPage
<1>1. IInv => RefusedOnlyBeyondTheLastPage
  <2> SUFFICES ASSUME IInv, walk.pc = "refused", walk.page > 1, NEW total \in walk.total
               PROVE  total > MaxPage * walk.size
    BY DEF RefusedOnlyBeyondTheLastPage
  <2>1. WalkOK(walk) /\ walk \in Walks
    BY DEF IInv, Idle, WalkOK
  <2>2. Offered(walk) /\ walk.page = MaxPage + 1
    BY <2>1 DEF WalkOK
  <2>3. total > Passed(walk)
    BY <2>2 DEF Offered
  <2>4. Passed(walk) = MaxPage * walk.size
    <3>1. (MaxPage + 1) - 1 = MaxPage
      BY TaskAssumption
    <3> QED BY <2>2, <3>1 DEF Passed, Skip
  <2> QED BY <2>3, <2>4
<1> QED BY <1>1, Invariant, PTL

\* A walk over tasks nobody touched shows them all, each once and in one order,
\* whatever is done to the tasks of others; an export shows a page of them
\* (getAll: where userId, and the pages of createPaginator).
THEOREM UndisturbedIsExact == Spec => []UndisturbedWalkIsExact
<1>1. IInv => UndisturbedWalkIsExact
  <2> SUFFICES ASSUME IInv, walk # Idle, happened \cap Events = {}, walk.pc = "done"
               PROVE  walk.seen = IF walk.export
                                  THEN SubSeq(walk.start, 1, Min({walk.size, Len(walk.start)}))
                                  ELSE walk.start
    BY DEF UndisturbedWalkIsExact, Without
  <2>1. happened = {} /\ Exact(OwnOf(tasks, walk.user), walk, happened)
    BY DEF IInv
  <2> QED BY <2>1 DEF Exact
<1> QED BY <1>1, Invariant, PTL

\* A task that was there from the start is missed by a walk that came to its
\* end only if tasks of the user were removed or moved, or inserted between
\* the two statements of one page (Promise.all of count and findMany).
THEOREM MissedOnlyThen == Spec => []MissedOnlyByRemovalOrRace
<1>1. IInv => MissedOnlyByRemovalOrRace
  <2> SUFFICES ASSUME IInv, walk # Idle, happened \cap {"removed", "moved", "raced"} = {},
                      walk.pc = "done", ~walk.export
               PROVE  ToSet(walk.start) \subseteq ToSet(walk.seen)
    BY DEF MissedOnlyByRemovalOrRace, Without
  <2>1. Missed(OwnOf(tasks, walk.user), walk, happened)
    BY DEF IInv
  <2>2. Range(walk.start) \subseteq Range(walk.seen)
    BY <2>1 DEF Missed
  <2> QED BY <2>2 DEF Range, ToSet
<1> QED BY <1>1, Invariant, PTL

\* A task is shown twice only if tasks of the user were inserted or moved: a
\* removal never makes a later page repeat one (skip and take, no orderBy).
THEOREM RepeatedOnlyThen == Spec => []RepeatedOnlyByInsertionOrMove
<1>1. IInv => RepeatedOnlyByInsertionOrMove
  <2> SUFFICES ASSUME IInv, walk # Idle, happened \cap {"added", "moved"} = {}
               PROVE  IsInjective(walk.seen)
    BY DEF RepeatedOnlyByInsertionOrMove, Without
  <2>1. Repeated(OwnOf(tasks, walk.user), walk, happened)
    BY DEF IInv
  <2> QED BY <2>1 DEF Repeated
<1> QED BY <1>1, Invariant, PTL
=============================================================================
