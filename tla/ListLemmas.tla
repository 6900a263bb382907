---------------------------- MODULE ListLemmas ----------------------------
(***************************************************************************)
(* Lists.  The wait list of a BullMQ queue, to which jobs are added at the *)
(* end or, when they had stalled, at the head, and from whose head they    *)
(* are taken: what it holds, that it holds nothing twice, and who is ahead *)
(* of whom.  And the lists a table is read into: parts, and parts joined.  *)
(***************************************************************************)
EXTENDS Sequences, Integers, Functions, SequenceTheorems, TLAPS

---------------------------------------------------------------------------
(* What a queue holds after its operations *)

LEMMA PutAtTheEnd ==
  ASSUME NEW S, NEW s \in Seq(S), NEW x \in S
  PROVE  Append(s, x) \in Seq(S) /\ Range(Append(s, x)) = Range(s) \cup {x}
<1>1. <<x>> \in Seq(S) /\ Range(<<x>>) = {x}
  BY DEF Range
<1>2. Range(s \o <<x>>) = Range(s) \cup Range(<<x>>)
  BY <1>1, RangeConcatenation, ZenonT(30)
<1>3. Append(s, x) = s \o <<x>>
  BY AppendIsConcat
<1>4. Append(s, x) \in Seq(S)
  BY AppendProperties
<1> QED BY <1>1, <1>2, <1>3, <1>4

LEMMA PutAtTheHead ==
  ASSUME NEW S, NEW s \in Seq(S), NEW x \in S
  PROVE  <<x>> \o s \in Seq(S) /\ Range(<<x>> \o s) = Range(s) \cup {x}
<1> DEFINE one == <<x>>
<1>1. one \in Seq(S) /\ Range(one) = {x}
  BY DEF Range
<1> HIDE DEF one
<1>2. Range(one \o s) = Range(one) \cup Range(s)
  BY <1>1, RangeConcatenation
<1>3. one \o s \in Seq(S)
  BY <1>1, ConcatProperties
<1> QED BY <1>1, <1>2, <1>3 DEF one

LEMMA TakeFromTheHead ==
  ASSUME NEW S, NEW s \in Seq(S), s # <<>>
  PROVE  /\ Head(s) \in S /\ Tail(s) \in Seq(S)
         /\ Head(s) \in Range(s) /\ Range(Tail(s)) \subseteq Range(s)
<1>1. Len(s) \in Nat /\ Len(s) > 0 /\ DOMAIN s = 1..Len(s)
  BY EmptySeq, LenProperties
<1>2. Head(s) = s[1] /\ Len(Tail(s)) = Len(s) - 1 /\ Tail(s) \in Seq(S)
      /\ \A n \in 1..Len(Tail(s)) : Tail(s)[n] = s[n + 1]
  BY <1>1, HeadTailProperties
<1>3. DOMAIN Tail(s) = 1..Len(Tail(s))
  BY <1>2, LenProperties
<1> QED BY <1>1, <1>2, <1>3, ElementOfSeq DEF Range

---------------------------------------------------------------------------
(* It holds nothing twice *)

LEMMA InjectiveAtTheEnd ==
  ASSUME NEW S, NEW s \in Seq(S), IsInjective(s), NEW x \in S, x \notin Range(s)
  PROVE  IsInjective(Append(s, x))
<1>1. DOMAIN s = 1..Len(s) /\ Len(s) \in Nat
  BY LenProperties
<1>2. /\ Append(s, x) \in Seq(S) /\ Len(Append(s, x)) = Len(s) + 1
      /\ \A n \in 1..Len(s) : Append(s, x)[n] = s[n]
      /\ Append(s, x)[Len(s) + 1] = x
  BY AppendProperties
<1>3. DOMAIN Append(s, x) = 1..(Len(s) + 1)
  BY <1>2, LenProperties
<1>4. \A n \in 1..Len(s) : s[n] # x
  BY <1>1 DEF Range
<1> QED BY <1>1, <1>2, <1>3, <1>4 DEF IsInjective

LEMMA InjectiveAtTheHead ==
  ASSUME NEW S, NEW s \in Seq(S), IsInjective(s), NEW x \in S, x \notin Range(s)
  PROVE  IsInjective(<<x>> \o s)
<1> DEFINE one == <<x>>
<1>1. DOMAIN s = 1..Len(s) /\ Len(s) \in Nat
  BY LenProperties
<1>2. one \in Seq(S) /\ Len(one) = 1 /\ one[1] = x
  OBVIOUS
<1> HIDE DEF one
<1>3. /\ one \o s \in Seq(S) /\ Len(one \o s) = Len(one) + Len(s)
      /\ \A n \in 1..(Len(one) + Len(s)) :
           (one \o s)[n] = IF n <= Len(one) THEN one[n] ELSE s[n - Len(one)]
  BY <1>2, ConcatProperties
<1>4. DOMAIN (one \o s) = 1..(1 + Len(s))
  BY <1>2, <1>3, LenProperties
<1>5. \A n \in 1..Len(s) : s[n] # x
  BY <1>1 DEF Range
<1>6. (one \o s)[1] = x /\ \A n \in 2..(1 + Len(s)) : (one \o s)[n] = s[n - 1] /\ n - 1 \in 1..Len(s)
  BY <1>1, <1>2, <1>3
<1>7. IsInjective(one \o s)
  BY <1>1, <1>4, <1>5, <1>6 DEF IsInjective
<1> QED BY <1>7 DEF one

LEMMA InjectiveTail ==
  ASSUME NEW S, NEW s \in Seq(S), IsInjective(s), s # <<>>
  PROVE  IsInjective(Tail(s)) /\ Head(s) \notin Range(Tail(s))
<1>1. Len(s) \in Nat /\ Len(s) > 0 /\ DOMAIN s = 1..Len(s)
  BY EmptySeq, LenProperties
<1>2. Head(s) = s[1] /\ Len(Tail(s)) = Len(s) - 1 /\ Tail(s) \in Seq(S)
      /\ \A n \in 1..Len(Tail(s)) : Tail(s)[n] = s[n + 1]
  BY <1>1, HeadTailProperties
<1>3. DOMAIN Tail(s) = 1..Len(Tail(s))
  BY <1>2, LenProperties
<1> QED BY <1>1, <1>2, <1>3 DEF IsInjective, Range

---------------------------------------------------------------------------
(* Who is ahead of whom *)

Ahead(s, k, l) == \E p, q \in 1..Len(s) : p < q /\ s[p] = k /\ s[q] = l

LEMMA AheadAtTheEnd ==
  ASSUME NEW S, NEW s \in Seq(S), NEW x \in S
  PROVE  /\ \A k, l : Ahead(s, k, l) => Ahead(Append(s, x), k, l)
         /\ \A k \in Range(s) : Ahead(Append(s, x), k, x)
<1>1. /\ Len(Append(s, x)) = Len(s) + 1 /\ Len(s) \in Nat
      /\ \A n \in 1..Len(s) : Append(s, x)[n] = s[n]
      /\ Append(s, x)[Len(s) + 1] = x
  BY AppendProperties, LenProperties
<1>2. DOMAIN s = 1..Len(s)
  BY LenProperties
<1>3. \A k, l : Ahead(s, k, l) => Ahead(Append(s, x), k, l)
  BY <1>1 DEF Ahead
<1>4. ASSUME NEW k \in Range(s) PROVE Ahead(Append(s, x), k, x)
  <2>1. PICK n \in 1..Len(s) : s[n] = k
    BY <1>2 DEF Range
  <2>2. n \in 1..(Len(s) + 1) /\ Len(s) + 1 \in 1..(Len(s) + 1) /\ n < Len(s) + 1
    BY <1>1, <2>1
  <2> QED BY <1>1, <2>1, <2>2 DEF Ahead
<1> QED BY <1>3, <1>4

LEMMA AheadAtTheHead ==
  ASSUME NEW S, NEW s \in Seq(S), NEW x \in S, NEW k, NEW l, Ahead(s, k, l)
  PROVE  Ahead(<<x>> \o s, k, l)
<1> DEFINE one == <<x>>
<1>1. Len(s) \in Nat
  BY LenProperties
<1>2. one \in Seq(S) /\ Len(one) = 1
  OBVIOUS
<1> HIDE DEF one
<1>3. /\ Len(one \o s) = Len(one) + Len(s)
      /\ \A n \in 1..(Len(one) + Len(s)) :
           (one \o s)[n] = IF n <= Len(one) THEN one[n] ELSE s[n - Len(one)]
  BY <1>2, ConcatProperties
<1>4. Len(one \o s) = Len(s) + 1 /\ \A n \in 1..Len(s) : n + 1 \in 1..(Len(s) + 1) /\ (one \o s)[n + 1] = s[n]
  BY <1>1, <1>2, <1>3
<1>5. PICK p, q \in 1..Len(s) : p < q /\ s[p] = k /\ s[q] = l
  BY DEF Ahead
<1>6. p + 1 < q + 1
  BY <1>5
<1>7. Ahead(one \o s, k, l)
  BY <1>4, <1>5, <1>6 DEF Ahead
<1> QED BY <1>7 DEF one

LEMMA AheadInTheTail ==
  ASSUME NEW S, NEW s \in Seq(S), IsInjective(s), NEW k, NEW l, Ahead(s, k, l)
  PROVE  s # <<>> /\ l # Head(s) /\ (k # Head(s) => Ahead(Tail(s), k, l))
<1>1. PICK p, q \in 1..Len(s) : p < q /\ s[p] = k /\ s[q] = l
  BY DEF Ahead
<1>2. Len(s) \in Nat /\ DOMAIN s = 1..Len(s) /\ p \in Nat /\ q \in Nat /\ Len(s) > 0 /\ s # <<>>
  BY <1>1, EmptySeq, LenProperties
<1>3. Head(s) = s[1] /\ Len(Tail(s)) = Len(s) - 1
      /\ \A n \in 1..Len(Tail(s)) : Tail(s)[n] = s[n + 1]
  BY <1>2, HeadTailProperties
<1>4. l # Head(s)
  <2>1. q # 1 /\ 1 \in DOMAIN s /\ q \in DOMAIN s
    BY <1>1, <1>2
  <2> QED BY <1>1, <1>3, <2>1 DEF IsInjective
<1>5. ASSUME k # Head(s) PROVE Ahead(Tail(s), k, l)
  <2>1. p # 1
    BY <1>1, <1>3, <1>5
  <2>2. p - 1 \in 1..Len(Tail(s)) /\ q - 1 \in 1..Len(Tail(s)) /\ p - 1 < q - 1
        /\ (p - 1) + 1 = p /\ (q - 1) + 1 = q
    BY <1>1, <1>2, <1>3, <2>1
  <2>3. Tail(s)[p - 1] = k /\ Tail(s)[q - 1] = l
    BY <1>1, <1>3, <2>2
  <2> QED BY <2>2, <2>3 DEF Ahead
<1> QED BY <1>2, <1>4, <1>5

LEMMA RestOfTheList ==
  ASSUME NEW S, NEW s \in Seq(S), s # <<>>, NEW x \in Range(s), x # Head(s)
  PROVE  x \in Range(Tail(s))
<1>1. Len(s) \in Nat /\ Len(s) > 0 /\ DOMAIN s = 1..Len(s)
  BY EmptySeq, LenProperties
<1>2. Head(s) = s[1] /\ Len(Tail(s)) = Len(s) - 1 /\ Tail(s) \in Seq(S)
      /\ \A n \in 1..Len(Tail(s)) : Tail(s)[n] = s[n + 1]
  BY <1>1, HeadTailProperties
<1>3. PICK n \in 1..Len(s) : s[n] = x
  BY <1>1 DEF Range
<1>4. n - 1 \in 1..Len(Tail(s)) /\ (n - 1) + 1 = n
  BY <1>1, <1>2, <1>3
<1>5. DOMAIN Tail(s) = 1..Len(Tail(s)) /\ Tail(s)[n - 1] = x
  BY <1>2, <1>3, <1>4, LenProperties
<1> QED BY <1>4, <1>5 DEF Range

---------------------------------------------------------------------------
(* Parts of lists *)

\* What is where in two lists put together
LEMMA Joined ==
  ASSUME NEW S, NEW a \in Seq(S), NEW c \in Seq(S)
  PROVE  /\ a \o c \in Seq(S) /\ Len(a \o c) = Len(a) + Len(c)
         /\ DOMAIN (a \o c) = 1..(Len(a) + Len(c))
         /\ \A i \in 1..Len(a) : (a \o c)[i] = a[i]
         /\ \A j \in 1..Len(c) : (a \o c)[Len(a) + j] = c[j]
<1> DEFINE k == Len(a)
           l == Len(c)
<1>1. k \in Nat /\ l \in Nat
  BY LenProperties
<1>2. /\ a \o c \in Seq(S) /\ Len(a \o c) = k + l
      /\ \A i \in 1..(k + l) : (a \o c)[i] = IF i <= k THEN a[i] ELSE c[i - k]
  BY ConcatProperties
<1>3. DOMAIN (a \o c) = 1..(k + l)
  BY <1>2, LenProperties
<1> HIDE DEF k, l
<1>4. ASSUME NEW i \in 1..k PROVE (a \o c)[i] = a[i]
  <2>1. i \in 1..(k + l) /\ i <= k
    BY <1>1
  <2> QED BY <1>2, <2>1
<1>5. ASSUME NEW j \in 1..l PROVE (a \o c)[k + j] = c[j]
  <2>1. k + j \in 1..(k + l) /\ ~(k + j <= k) /\ (k + j) - k = j
    BY <1>1
  <2> QED BY <1>2, <2>1
<1> QED BY <1>2, <1>3, <1>4, <1>5 DEF k, l

\* From the i-th place on, up to the j-th
LEMMA Part ==
  ASSUME NEW S, NEW t \in Seq(S), NEW i \in Nat, NEW j \in 0..Len(t), i <= j
  PROVE  /\ SubSeq(t, i + 1, j) \in Seq(S) /\ Len(SubSeq(t, i + 1, j)) = j - i
         /\ DOMAIN SubSeq(t, i + 1, j) = 1..(j - i)
         /\ \A m \in 1..(j - i) : SubSeq(t, i + 1, j)[m] = t[i + m]
<1> DEFINE c == SubSeq(t, i + 1, j)
           l == Len(t)
<1>1. l \in Nat /\ j \in Nat /\ j <= l /\ \A m \in 1..l : t[m] \in S
  BY LenProperties, ElementOfSeq
<1>2. \A m \in (i + 1)..j : t[m] \in S
  BY <1>1
<1>3. i + 1 \in Int /\ j \in Int
  BY <1>1
<1>4. /\ c \in Seq(S) /\ Len(c) = IF i + 1 <= j THEN j - (i + 1) + 1 ELSE 0
      /\ \A m \in 1..(j - (i + 1) + 1) : c[m] = t[(i + 1) + m - 1]
  BY <1>2, <1>3, SubSeqProperties
<1> HIDE DEF c, l
<1>5. j - (i + 1) + 1 = j - i /\ (~(i + 1 <= j) => j - i = 0)
  BY <1>1
<1>6. Len(c) = j - i
  BY <1>4, <1>5
<1>7. DOMAIN c = 1..(j - i)
  BY <1>4, <1>6, LenProperties
<1>8. ASSUME NEW m \in 1..(j - i) PROVE c[m] = t[i + m]
  <2>1. (i + 1) + m - 1 = i + m
    BY <1>1
  <2> QED BY <1>4, <1>5, <2>1
<1> QED BY <1>4, <1>6, <1>7, <1>8 DEF c

\* One part after the other
LEMMA PartsJoined ==
  ASSUME NEW S, NEW o \in Seq(S), NEW k \in Nat, NEW m \in Nat, k <= m, m <= Len(o)
  PROVE  SubSeq(o, 1, k) \o SubSeq(o, k + 1, m) = SubSeq(o, 1, m)
<1> DEFINE a == SubSeq(o, 0 + 1, k)
           b == SubSeq(o, k + 1, m)
           c == SubSeq(o, 0 + 1, m)
<1>1. Len(o) \in Nat /\ 0 \in Nat /\ 0 <= k /\ 0 <= m /\ k \in 0..Len(o) /\ m \in 0..Len(o)
      /\ 0 + 1 = 1 /\ k - 0 = k /\ m - 0 = m
  BY LenProperties
<1>2. a \in Seq(S) /\ Len(a) = k - 0 /\ \A i \in 1..(k - 0) : a[i] = o[0 + i]
  BY <1>1, Part
<1>3. b \in Seq(S) /\ Len(b) = m - k /\ \A i \in 1..(m - k) : b[i] = o[k + i]
  BY <1>1, Part
<1>4. c \in Seq(S) /\ Len(c) = m - 0 /\ \A i \in 1..(m - 0) : c[i] = o[0 + i]
  BY <1>1, Part
<1>5. SubSeq(o, 1, k) = a /\ SubSeq(o, 1, m) = c
  BY <1>1
<1> HIDE DEF a, b, c
<1> DEFINE d == a \o b
<1>6. /\ d \in Seq(S) /\ Len(d) = Len(a) + Len(b)
      /\ \A i \in 1..Len(a) : d[i] = a[i]
      /\ \A j \in 1..Len(b) : d[Len(a) + j] = b[j]
  <2>1. a \in Seq(S) /\ b \in Seq(S)
    BY <1>2, <1>3
  <2> QED BY <2>1, Joined
<1> HIDE DEF d
<1>7. Len(d) = m /\ Len(c) = m
  BY <1>1, <1>2, <1>3, <1>4, <1>6
<1>8. ASSUME NEW i \in 1..m PROVE d[i] = c[i]
  <2>1. c[i] = o[i]
    <3>1. 0 + i = i
      BY <1>8
    <3> QED BY <1>1, <1>4, <3>1
  <2>2. CASE i <= k
    <3>1. i \in 1..k /\ 0 + i = i
      BY <1>1, <2>2
    <3>2. a[i] = o[i]
      BY <1>1, <1>2, <3>1
    <3> QED BY <1>1, <1>2, <1>6, <2>1, <3>1, <3>2
  <2>3. CASE ~(i <= k)
    <3>1. i - k \in 1..(m - k) /\ k + (i - k) = i
      BY <1>1, <2>3
    <3>2. b[i - k] = o[i]
      BY <1>3, <3>1
    <3>3. d[k + (i - k)] = b[i - k]
      BY <1>1, <1>2, <1>3, <1>6, <3>1
    <3> QED BY <2>1, <3>1, <3>2, <3>3
  <2> QED BY <2>2, <2>3
<1>9. d = c
  BY <1>4, <1>6, <1>7, <1>8, SeqEqual
<1> QED BY <1>5, <1>9 DEF b, d

\* Lists without repetition that share nothing
LEMMA JoinedInjective ==
  ASSUME NEW S, NEW a \in Seq(S), NEW b \in Seq(S), IsInjective(a), IsInjective(b),
         \A i \in DOMAIN a, j \in DOMAIN b : a[i] # b[j]
  PROVE  IsInjective(a \o b)
<1>1. /\ DOMAIN a = 1..Len(a) /\ Len(a) \in Nat /\ DOMAIN b = 1..Len(b) /\ Len(b) \in Nat
  BY LenProperties
<1> DEFINE k == Len(a)
           l == Len(b)
           c == a \o b
<1>2. /\ DOMAIN c = 1..(k + l)
      /\ \A i \in 1..k : c[i] = a[i]
      /\ \A j \in 1..l : c[k + j] = b[j]
  BY Joined
<1> HIDE DEF k, l, c
<1>3. k \in Nat /\ l \in Nat /\ DOMAIN a = 1..k /\ DOMAIN b = 1..l
  BY <1>1 DEF k, l
<1>4. ASSUME NEW m \in 1..(k + l)
      PROVE  (m \in 1..k /\ c[m] = a[m]) \/ (m - k \in 1..l /\ m > k /\ c[m] = b[m - k])
  <2>1. CASE m <= k
    <3>1. m \in 1..k
      BY <1>3, <2>1
    <3> QED BY <1>2, <3>1
  <2>2. CASE ~(m <= k)
    <3>1. m - k \in 1..l /\ k + (m - k) = m /\ m > k
      BY <1>3, <2>2
    <3>2. c[m] = b[m - k]
      BY <1>2, <3>1
    <3> QED BY <3>1, <3>2
  <2> QED BY <2>1, <2>2
<1>5. ASSUME NEW m \in 1..(k + l), NEW n \in 1..(k + l), c[m] = c[n] PROVE m = n
  <2>1. CASE m \in 1..k /\ c[m] = a[m]
    <3>1. n \in 1..k /\ c[n] = a[n]
      BY <1>3, <1>4, <1>5, <2>1
    <3> QED BY <1>3, <1>5, <2>1, <3>1 DEF IsInjective
  <2>2. CASE m - k \in 1..l /\ m > k /\ c[m] = b[m - k]
    <3>1. n - k \in 1..l /\ n > k /\ c[n] = b[n - k]
      BY <1>3, <1>4, <1>5, <2>2
    <3>2. m - k = n - k
      BY <1>3, <1>5, <2>2, <3>1 DEF IsInjective
    <3> QED BY <1>3, <3>2
  <2> QED BY <1>4, <2>1, <2>2
<1>6. IsInjective(c)
  BY <1>2, <1>5 DEF IsInjective
<1> QED BY <1>6 DEF c
=============================================================================
