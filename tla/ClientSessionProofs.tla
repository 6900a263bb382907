------------------------ MODULE ClientSessionProofs ------------------------
(***************************************************************************)
(* Theorems about ClientSession, for any way to send tokens, any number of *)
(* requests at once and any ages of the tokens.                            *)
(***************************************************************************)
EXTENDS ClientSession, TLAPS

---------------------------------------------------------------------------
(* The inductive invariant *)

\* Tokens expire one age after now at the latest.
PairsOK ==
  /\ pairs \in Seq([access : Nat, refresh : Nat]) /\ Len(pairs) <= MaxPairs
  /\ \A n \in DOMAIN pairs :
       pairs[n].access <= now + AccessAge /\ pairs[n].refresh <= now + RefreshAge

\* A client has cookies, or a pair of its own, or both, as it sends them.
ClientOK ==
  /\ now \in 0..MaxTime /\ closed \in 0..MaxTime
  /\ carrier \in Carriers
  /\ stored \in Option(DOMAIN pairs) /\ app \in Option(DOMAIN pairs)
  /\ DOMAIN jar = {"access", "refresh"}
  /\ \A which \in DOMAIN jar :
       jar[which] \in Option([pair : DOMAIN pairs, until : 0..MaxTime + RefreshAge + AccessAge])
  /\ trouble \in BOOLEAN
  /\ carrier = "header" => \A which \in DOMAIN jar : jar[which] = {}
  /\ carrier = "cookie" => app = {}

\* The pair a request has signed, of the life it was to have.
Signs(x) ==
  /\ x.kind \in {"sign-in", "refresh"} /\ x.life \in 0..RefreshAge
  /\ x.pc # "sign" =>
       \E n \in DOMAIN pairs : x.pair = {n} /\ pairs[n].refresh <= now + x.life

\* What a request keeps between two awaits.
Slot(x) ==
  \/ x = Idle
  \/ /\ x.kind \in Kinds /\ x.alone \in BOOLEAN
     /\ x.pc \in {"guard", "verify", "sign", "store", "revoke", "answered"}
     /\ x.pc = "guard" => /\ x.kind # "sign-in"
                          /\ x.cookie \in Option(DOMAIN pairs) /\ x.header \in Option(DOMAIN pairs)
     /\ x.pc = "verify" => x.kind = "refresh" /\ x.token # {} /\ x.life \in 0..RefreshAge
     /\ x.pc = "sign" => Signs(x)
     /\ x.pc = "store" => Signs(x) /\ x.pair # stored
     /\ x.pc = "revoke" => x.kind = "sign-out"
     /\ x.pc = "answered" =>
          /\ x.answer \in Answers
          /\ x.answer = "pair" => Signs(x)
          /\ x.answer = "signed out" => x.kind = "sign-out"

\* A request is alone as long as no other one may change the session.
RequestsOK ==
  /\ DOMAIN req = Requests
  /\ \A r \in Requests : Slot(req[r])
  /\ \A r, q \in Requests :
       req[r].pc = "store" /\ req[q].pc = "store" /\ req[r].pair = req[q].pair => r = q
  /\ \A r, q \in Changing : req[r].alone => q = r

Agree ==
  /\ carrier # "cookie" => app = stored
  /\ \A which \in DOMAIN jar : {c.pair : c \in jar[which]} \subseteq stored

\* The client agrees with the server but for an answer that is on its way, and
\* if that is of a request that was alone, it says what the server stored.
AgreeOK ==
  /\ ~trouble /\ (\A r \in Requests : ~Final(r)) => Agree
  /\ \A r \in Requests : Final(r) /\ req[r].alone =>
       stored = IF req[r].answer = "pair" THEN req[r].pair ELSE {}

\* Pairs the client holds, sends, or is being sent.
Has(x, n) ==
  \/ x.pc = "guard" /\ (n \in x.cookie \/ n \in x.header)
  \/ x.pc = "answered" /\ x.answer = "pair" /\ n \in x.pair
Held(n) ==
  \/ n \in app
  \/ \E which \in DOMAIN jar : \E c \in jar[which] : c.pair = n
  \/ \E r \in Requests : Has(req[r], n)

\* While the session is closed no pair the client has was signed since.
ClosedOK ==
  stored = {} => \A n \in DOMAIN pairs : Held(n) => pairs[n].access <= closed + AccessAge

IInv ==
  PairsOK /\ ClientOK /\ RequestsOK /\ AgreeOK /\ ClosedOK /\ CookiesOutliveTheirTokens
---------------------------------------------------------------------------

LEMMA AgesAreNat ==
  RefreshAge \in Nat /\ AccessAge \in Nat /\ MaxTime \in Nat /\ MaxPairs \in Nat
BY ClientAssumption

LEMMA EmptyOption == \A S : {} \in Option(S)
BY DEF Option

LEMMA IdleIs == Idle.pc = "idle"
BY DEF Idle

LEMMA InOption == \A S, T : T \in Option(S) => \A n \in T : n \in S /\ T = {n}
BY DEF Option

LEMMA PairTypes ==
  ASSUME PairsOK
  PROVE  \A n \in DOMAIN pairs :
           /\ pairs[n].access \in Nat /\ pairs[n].access <= now + AccessAge
           /\ pairs[n].refresh \in Nat /\ pairs[n].refresh <= now + RefreshAge
<1> DEFINE Tokens == [access : Nat, refresh : Nat]
<1>1. pairs \in Seq(Tokens)
  BY DEF PairsOK
<1>2. \A n \in DOMAIN pairs : pairs[n] \in Tokens
  <2> HIDE DEF Tokens
  <2> QED BY <1>1
<1>3. \A n \in DOMAIN pairs : pairs[n].access \in Nat /\ pairs[n].refresh \in Nat
  BY <1>2
<1> QED BY <1>3 DEF PairsOK

LEMMA NowIsNat == ClientOK => now \in Nat
BY AgesAreNat DEF ClientOK

\* A slot that is not idle.
Busy(x) ==
  /\ x.kind \in Kinds /\ x.alone \in BOOLEAN
  /\ x.pc \in {"guard", "verify", "sign", "store", "revoke", "answered"}
LEMMA BusySlot ==
  ASSUME NEW x, Slot(x), x.pc # "idle"
  PROVE  /\ Busy(x)
         /\ x.pc = "guard" => /\ x.kind # "sign-in"
                              /\ x.cookie \in Option(DOMAIN pairs) /\ x.header \in Option(DOMAIN pairs)
         /\ x.pc = "verify" => x.kind = "refresh" /\ x.token # {} /\ x.life \in 0..RefreshAge
         /\ x.pc = "sign" => Signs(x)
         /\ x.pc = "store" => Signs(x) /\ x.pair # stored
         /\ x.pc = "revoke" => x.kind = "sign-out"
         /\ x.pc = "answered" =>
              /\ x.answer \in Answers
              /\ x.answer = "pair" => Signs(x)
              /\ x.answer = "signed out" => x.kind = "sign-out"
<1>1. x # Idle
  BY DEF Idle
<1> QED BY <1>1 DEF Slot, Busy

LEMMA InitOK == Init => IInv
<1> SUFFICES ASSUME Init PROVE IInv
  OBVIOUS
<1>1. pairs = <<>> /\ DOMAIN pairs = {} /\ Len(pairs) = 0
  BY DEF Init
<1>2. PairsOK
  BY <1>1, AgesAreNat DEF PairsOK
<1>3. DOMAIN jar = {"access", "refresh"} /\ \A which \in DOMAIN jar : jar[which] = {}
  BY DEF Init, NoCookies
<1>4. ClientOK
  <2>1. now \in 0..MaxTime /\ closed \in 0..MaxTime
    BY AgesAreNat DEF Init
  <2>2. carrier \in Carriers /\ stored = {} /\ app = {} /\ trouble \in BOOLEAN
    BY DEF Init
  <2> QED BY <1>3, <2>1, <2>2, EmptyOption DEF ClientOK
<1>5. \A r \in Requests : req[r] = Idle /\ req[r].pc = "idle"
  BY DEF Init, Idle
<1>6. RequestsOK
  BY <1>5 DEF Init, RequestsOK, Slot, Changing
<1>7. Agree /\ \A r \in Requests : ~Final(r)
  BY <1>3, <1>5 DEF Agree, Init, Final
<1> QED BY <1>1, <1>2, <1>3, <1>4, <1>6, <1>7 DEF IInv, AgreeOK, ClosedOK, CookiesOutliveTheirTokens

\* What a request keeps stays true of it as pairs are signed and time goes by,
\* unless its own pair is stored by another.
LEMMA SlotKept ==
  ASSUME NEW x, Slot(x), now \in Nat, now' = now \/ now' = now + 1,
         DOMAIN pairs \subseteq DOMAIN pairs',
         \A n \in DOMAIN pairs : pairs'[n] = pairs[n] /\ pairs[n].refresh \in Nat,
         x.pc = "store" => x.pair # stored'
  PROVE  Slot(x)'
<1>1. Signs(x) => Signs(x)'
  <2> SUFFICES ASSUME Signs(x) PROVE Signs(x)'
    OBVIOUS
  <2>1. x.life \in Nat
    BY AgesAreNat DEF Signs
  <2>2. ASSUME NEW n \in DOMAIN pairs, x.pair = {n}, pairs[n].refresh <= now + x.life
        PROVE  n \in DOMAIN pairs' /\ pairs'[n].refresh <= now' + x.life
    BY <2>1, <2>2
  <2> QED BY <2>2 DEF Signs
<1>2. \A S : S \in Option(DOMAIN pairs) => S \in Option(DOMAIN pairs')
  BY DEF Option
<1>3. CASE x = Idle
  BY <1>3 DEF Slot
<1>4. CASE x # Idle
  BY <1>1, <1>2, <1>4 DEF Slot
<1> QED BY <1>3, <1>4

\* All slots, after a step of slot r to x.
LEMMA SlotsKept ==
  ASSUME RequestsOK, NEW r \in Requests, NEW x, req' = [req EXCEPT ![r] = x],
         \A y : y = x \/ (\E q \in Requests \ {r} : y = req[q]) => Slot(y)',
         x.pc = "store" =>
           \A q \in Requests \ {r} : req[q].pc = "store" => req[q].pair # x.pair,
         x.pc = "idle" \/ (req[r].pc # "idle" /\ x.kind = req[r].kind /\ x.alone = req[r].alone)
  PROVE  RequestsOK' /\ (\A q \in Requests : req'[q] = IF q = r THEN x ELSE req[q])
<1>1. DOMAIN req' = Requests /\ \A q \in Requests : req'[q] = IF q = r THEN x ELSE req[q]
  BY DEF RequestsOK
<1>2. ASSUME NEW q \in Requests PROVE Slot(req[q])'
  BY <1>1
<1>3. \A p, q \in Requests :
        req'[p].pc = "store" /\ req'[q].pc = "store" /\ req'[p].pair = req'[q].pair => p = q
  BY <1>1 DEF RequestsOK
<1>4. Changing' \subseteq Changing /\ \A q \in Changing' : req'[q].alone = req[q].alone
  BY <1>1 DEF Changing
<1>5. \A p, q \in Changing' : req'[p].alone => q = p
  BY <1>4 DEF RequestsOK
<1> QED BY <1>1, <1>2, <1>3, <1>5 DEF RequestsOK

---------------------------------------------------------------------------
(* Steps of one request that change nothing else *)

LEMMA RequestOnly ==
  ASSUME IInv, NEW r \in Requests, NEW x, req' = [req EXCEPT ![r] = x], Slot(x),
         req[r].pc \in {"guard", "verify"}, x.pc # "idle", x.pc # "store", x.pc # "guard",
         x.kind = req[r].kind, x.alone = req[r].alone,
         x.pc = "answered" => x.answer \notin {"pair", "signed out"},
         UNCHANGED <<now, client, server>>
  PROVE  IInv'
<1> USE DEF client, server
<1>1. PairsOK' /\ ClientOK' /\ CookiesOutliveTheirTokens'
  BY DEF IInv, PairsOK, ClientOK, CookiesOutliveTheirTokens
<1>2. now \in Nat /\ \A n \in DOMAIN pairs : pairs[n].refresh \in Nat
  BY PairTypes, NowIsNat DEF IInv
<1>3. \A y : y = x \/ (\E q \in Requests \ {r} : y = req[q]) => Slot(y)'
  <2>1. ASSUME NEW y, y = x \/ (\E q \in Requests \ {r} : y = req[q]) PROVE Slot(y)'
    <3>1. Slot(y) /\ (y.pc = "store" => y.pair # stored)
      BY <2>1, BusySlot DEF IInv, RequestsOK
    <3>2. now' = now /\ pairs' = pairs /\ stored' = stored
      OBVIOUS
    <3>3. \A n \in DOMAIN pairs : pairs'[n] = pairs[n] /\ pairs[n].refresh \in Nat
      BY <1>2, <3>2
    <3>4. DOMAIN pairs \subseteq DOMAIN pairs'
      BY <3>2
    <3>5. now' = now \/ now' = now + 1
      BY <3>2
    <3>6. y.pc = "store" => y.pair # stored'
      BY <3>1, <3>2
    <3> QED BY <1>2, <3>1, <3>2, <3>3, <3>4, <3>5, <3>6, SlotKept
  <2> QED BY <2>1
<1>4. RequestsOK' /\ (\A q \in Requests : req'[q] = IF q = r THEN x ELSE req[q])
  BY <1>3, SlotsKept DEF IInv
<1>5. \A q \in Requests : Final(q)' <=> Final(q)
  BY <1>4 DEF Final
<1>6. \A q \in Requests : Final(q) => req'[q] = req[q]
  BY <1>4 DEF Final
<1>7. AgreeOK'
  BY <1>5, <1>6 DEF IInv, AgreeOK, Agree
<1>8. \A n : Held(n)' => Held(n)
  <2>1. \A n : ~Has(x, n)
    BY DEF Has
  <2> QED BY <1>4, <2>1, ZenonT(30) DEF Held, Has
<1>9. ClosedOK'
  BY <1>8 DEF IInv, ClosedOK
<1> QED BY <1>1, <1>4, <1>7, <1>9 DEF IInv

LEMMA GuardStep ==
  ASSUME IInv, NEW r \in Requests, Guard(r)
  PROVE  IInv'
<1> USE DEF Guard
<1>1. /\ Slot(req[r]) /\ req[r].pc = "guard" /\ req[r] # Idle
      /\ req[r].kind \in Kinds /\ req[r].kind # "sign-in" /\ req[r].alone \in BOOLEAN
      /\ req[r].cookie \in Option(DOMAIN pairs) /\ req[r].header \in Option(DOMAIN pairs)
  BY BusySlot DEF IInv, RequestsOK, Busy, Idle
<1>2. ASSUME NEW a \in Codes \cup {"OK"}, Answer(r, a) PROVE IInv'
  <2>1. PICK x : x = [pc |-> "answered", kind |-> req[r].kind, alone |-> req[r].alone, answer |-> a]
    OBVIOUS
  <2>2. a \notin {"pair", "signed out"}
    BY DEF Codes
  <2>3. Slot(x)
    BY <1>1, <2>1, <2>2 DEF Slot, Answers
  <2> QED BY <1>1, <1>2, <2>1, <2>2, <2>3, RequestOnly DEF Answer, Go
<1>3. CASE Refused(r)
  <2>1. \E a \in Codes : Answer(r, a)
    BY <1>3 DEF Refused, Codes
  <2> QED BY <1>2, <2>1
<1>4. CASE Passed(r)
  <2>1. PICK n \in Presented(r) : Alive(n, TokenOf(req[r].kind))
        /\ CASE req[r].kind = "read" -> Answer(r, "OK")
         [] req[r].kind = "sign-out" ->
              Go(r, [pc |-> "revoke", kind |-> "sign-out", alone |-> req[r].alone])
         [] req[r].kind = "refresh" ->
              IF req[r].header = {} THEN Answer(r, "TypeError")
              ELSE Go(r, [pc |-> "verify", kind |-> "refresh", alone |-> req[r].alone,
                          token |-> req[r].header, life |-> pairs[n].refresh - now])
    BY <1>4 DEF Passed
  <2>2. n \in DOMAIN pairs
    BY <1>1 DEF Presented, Option
  <2>3. CASE req[r].kind = "read"
    BY <1>2, <2>1, <2>3
  <2>4. CASE req[r].kind = "sign-out"
    <3>1. PICK x : x = [pc |-> "revoke", kind |-> "sign-out", alone |-> req[r].alone]
      OBVIOUS
    <3>2. Slot(x)
      BY <1>1, <3>1 DEF Slot, Kinds
    <3> QED BY <1>1, <2>1, <2>4, <3>1, <3>2, RequestOnly DEF Go
  <2>5. CASE req[r].kind = "refresh" /\ req[r].header = {}
    <3>1. "TypeError" \in Codes
      BY DEF Codes
    <3> QED BY <1>2, <2>1, <2>5, <3>1
  <2>6. CASE req[r].kind = "refresh" /\ req[r].header # {}
    <3>1. PICK x : x = [pc |-> "verify", kind |-> "refresh", alone |-> req[r].alone,
                        token |-> req[r].header, life |-> pairs[n].refresh - now]
      OBVIOUS
    <3>2. pairs[n].refresh - now \in 0..RefreshAge
      <4>1. now < pairs[n].refresh
        BY <2>1, <2>6 DEF Alive, TokenOf
      <4>2. pairs[n].refresh \in Nat /\ pairs[n].refresh <= now + RefreshAge /\ now \in Nat
        BY <2>2, PairTypes, NowIsNat DEF IInv
      <4> QED BY <4>1, <4>2, AgesAreNat
    <3>3. Slot(x)
      BY <1>1, <2>6, <3>1, <3>2 DEF Slot, Kinds
    <3> QED BY <1>1, <2>1, <2>6, <3>1, <3>3, RequestOnly DEF Go
  <2> QED BY <1>1, <2>3, <2>4, <2>5, <2>6 DEF Kinds
<1> QED BY <1>3, <1>4

LEMMA VerifyStep ==
  ASSUME IInv, NEW r \in Requests, Verify(r)
  PROVE  IInv'
<1>1. /\ req[r].pc = "verify" /\ req[r].kind = "refresh" /\ req[r].alone \in BOOLEAN
      /\ req[r].life \in 0..RefreshAge
  BY BusySlot DEF Verify, IInv, RequestsOK, Busy
<1>2. PICK x : x = IF stored = req[r].token
                   THEN [pc |-> "sign", kind |-> "refresh", alone |-> req[r].alone, life |-> req[r].life]
                   ELSE [pc |-> "answered", kind |-> req[r].kind, alone |-> req[r].alone,
                         answer |-> "REFRESH_TOKEN_REVOKED"]
  OBVIOUS
<1>3. req' = [req EXCEPT ![r] = x] /\ UNCHANGED <<now, client, server>>
  BY <1>2 DEF Verify, Go, Answer
<1>4. /\ x.pc \in {"sign", "answered"} /\ x.kind = "refresh" /\ x.alone = req[r].alone
      /\ x.pc = "sign" => x.life = req[r].life
      /\ x.pc = "answered" => x.answer = "REFRESH_TOKEN_REVOKED"
  BY <1>1, <1>2
<1>5. Slot(x)
  BY <1>1, <1>4 DEF Slot, Signs, Kinds, Answers, Codes
<1> QED BY <1>1, <1>3, <1>4, <1>5, RequestOnly


---------------------------------------------------------------------------
(* Signing and storing *)

LEMMA HeldKnown == ASSUME IInv, NEW n, Held(n) PROVE n \in DOMAIN pairs
<1>1. CASE n \in app
  BY <1>1 DEF IInv, ClientOK, Option
<1>2. ASSUME NEW which \in DOMAIN jar, NEW c \in jar[which], c.pair = n PROVE n \in DOMAIN pairs
  <2>1. jar[which] \in Option([pair : DOMAIN pairs, until : 0..MaxTime + RefreshAge + AccessAge])
    BY DEF IInv, ClientOK
  <2>2. c \in [pair : DOMAIN pairs, until : 0..MaxTime + RefreshAge + AccessAge]
    BY <2>1 DEF Option
  <2> QED BY <1>2, <2>2
<1>3. ASSUME NEW r \in Requests, Has(req[r], n) PROVE n \in DOMAIN pairs
  <2>1. Slot(req[r]) /\ req[r].pc # "idle"
    BY <1>3 DEF IInv, RequestsOK, Has
  <2>2. CASE req[r].pc = "guard"
    <3>1. /\ n \in req[r].cookie \/ n \in req[r].header
          /\ req[r].cookie \in Option(DOMAIN pairs) /\ req[r].header \in Option(DOMAIN pairs)
      BY <1>3, <2>1, <2>2, BusySlot DEF Has
    <3> QED BY <3>1, InOption
  <2>3. CASE req[r].pc = "answered"
    <3>1. Signs(req[r]) /\ n \in req[r].pair
      BY <1>3, <2>1, <2>3, BusySlot DEF Has
    <3> QED BY <2>3, <3>1 DEF Signs
  <2> QED BY <1>3, <2>2, <2>3 DEF Has
<1> QED BY <1>1, <1>2, <1>3 DEF Held

\* What holds while the pairs there are stay as they are.
LEMMA PairsKept ==
  ASSUME IInv, UNCHANGED <<now, carrier, jar, app, closed, stored, trouble>>,
         DOMAIN pairs \subseteq DOMAIN pairs', \A n \in DOMAIN pairs : pairs'[n] = pairs[n]
  PROVE  ClientOK' /\ CookiesOutliveTheirTokens'
<1>1. \A S, T : DOMAIN pairs \subseteq S =>
        /\ T \in Option(DOMAIN pairs) => T \in Option(S)
        /\ T \in Option([pair : DOMAIN pairs, until : 0..MaxTime + RefreshAge + AccessAge]) =>
             T \in Option([pair : S, until : 0..MaxTime + RefreshAge + AccessAge])
  BY DEF Option
<1>2. ClientOK'
  <2>1. /\ now' \in 0..MaxTime /\ closed' \in 0..MaxTime /\ carrier' \in Carriers
        /\ DOMAIN jar' = {"access", "refresh"} /\ trouble' \in BOOLEAN
        /\ carrier' = "header" => \A which \in DOMAIN jar' : jar'[which] = {}
        /\ carrier' = "cookie" => app' = {}
    BY DEF IInv, ClientOK
  <2>2. stored' \in Option(DOMAIN pairs') /\ app' \in Option(DOMAIN pairs')
    BY <1>1 DEF IInv, ClientOK
  <2>3. \A which \in DOMAIN jar' :
          jar'[which] \in Option([pair : DOMAIN pairs', until : 0..MaxTime + RefreshAge + AccessAge])
    BY <1>1 DEF IInv, ClientOK
  <2> QED BY <2>1, <2>2, <2>3 DEF ClientOK
<1>3. CookiesOutliveTheirTokens'
  <2> SUFFICES ASSUME NEW which \in DOMAIN jar, NEW c \in jar[which]
               PROVE  c.until >= pairs'[c.pair][which]
    BY DEF CookiesOutliveTheirTokens
  <2>1. Held(c.pair)
    BY DEF Held
  <2>2. pairs'[c.pair] = pairs[c.pair]
    BY <2>1, HeldKnown
  <2> QED BY <2>2 DEF IInv, CookiesOutliveTheirTokens
<1> QED BY <1>2, <1>3

LEMMA SignStep ==
  ASSUME IInv, NEW r \in Requests, Sign(r)
  PROVE  IInv'
<1> PICK n : n = Len(pairs) + 1
  OBVIOUS
<1> PICK p : p = Signed(req[r].life)
  OBVIOUS
<1>1. /\ req[r].pc = "sign" /\ Len(pairs) < MaxPairs /\ pairs' = Append(pairs, p)
      /\ UNCHANGED <<now, carrier, jar, app, trouble, stored, closed>>
  BY DEF Sign, client
<1>2. /\ req[r].kind \in {"sign-in", "refresh"} /\ req[r].life \in 0..RefreshAge
      /\ req[r].alone \in BOOLEAN
  BY <1>1, BusySlot DEF IInv, RequestsOK, Signs, Busy
<1>3. now \in Nat /\ p \in [access : Nat, refresh : Nat]
      /\ p.access = now + AccessAge /\ p.refresh = now + req[r].life /\ p.refresh <= now + RefreshAge
  BY <1>2, NowIsNat, AgesAreNat DEF Signed, IInv
<1>4. /\ Len(pairs) \in Nat /\ Len(pairs') = n /\ n \notin DOMAIN pairs
      /\ DOMAIN pairs' = DOMAIN pairs \cup {n} /\ pairs'[n] = p
      /\ \A k \in DOMAIN pairs : pairs'[k] = pairs[k]
      /\ pairs' \in Seq([access : Nat, refresh : Nat])
  <2> DEFINE Tokens == [access : Nat, refresh : Nat]
  <2>1. pairs \in Seq(Tokens) /\ p \in Tokens
    BY <1>3 DEF IInv, PairsOK
  <2> HIDE DEF Tokens
  <2>2. /\ Len(pairs) \in Nat /\ Len(pairs') = n /\ n \notin DOMAIN pairs
        /\ DOMAIN pairs' = DOMAIN pairs \cup {n} /\ pairs'[n] = p
        /\ \A k \in DOMAIN pairs : pairs'[k] = pairs[k]
        /\ pairs' \in Seq(Tokens)
    BY <1>1, <2>1
  <2> QED BY <2>2 DEF Tokens
<1>5. PairsOK'
  <2>1. Len(pairs') <= MaxPairs
    BY <1>1, <1>4, AgesAreNat
  <2>2. \A k \in DOMAIN pairs' : pairs'[k].access <= now + AccessAge /\ pairs'[k].refresh <= now + RefreshAge
    <3> SUFFICES ASSUME NEW k \in DOMAIN pairs'
                 PROVE  pairs'[k].access <= now + AccessAge /\ pairs'[k].refresh <= now + RefreshAge
      OBVIOUS
    <3>1. CASE k = n
      BY <1>3, <1>4, <3>1, AgesAreNat
    <3>2. CASE k # n
      BY <1>4, <3>2, PairTypes DEF IInv
    <3> QED BY <3>1, <3>2
  <2> QED BY <1>1, <1>4, <2>1, <2>2 DEF PairsOK
<1>6. ClientOK' /\ CookiesOutliveTheirTokens'
  BY <1>1, <1>4, PairsKept
<1>7. PICK x : /\ req' = [req EXCEPT ![r] = x] /\ x.pc = "store" /\ x.kind = req[r].kind
               /\ x.alone = req[r].alone /\ x.life = req[r].life /\ x.pair = {n}
  <2> PICK x : x = [pc |-> "store", kind |-> req[r].kind, alone |-> req[r].alone,
                    life |-> req[r].life, pair |-> {n}]
    OBVIOUS
  <2>1. req' = [req EXCEPT ![r] = x]
    BY DEF Sign, Go
  <2>2. /\ x.pc = "store" /\ x.kind = req[r].kind
        /\ x.alone = req[r].alone /\ x.life = req[r].life /\ x.pair = {n}
    OBVIOUS
  <2> QED BY <2>1, <2>2
<1>8. n \notin stored /\ \A q \in Requests : req[q].pc = "store" => n \notin req[q].pair
  <2>1. n \notin stored
    BY <1>4 DEF IInv, ClientOK, Option
  <2>2. \A q \in Requests : req[q].pc = "store" => Signs(req[q])
    BY BusySlot DEF IInv, RequestsOK
  <2>3. \A q \in Requests : req[q].pc = "store" => n \notin req[q].pair
    BY <1>4, <2>2 DEF Signs
  <2> QED BY <2>1, <2>3
<1>9. \A y : y = x \/ (\E q \in Requests \ {r} : y = req[q]) => Slot(y)'
  <2>1. ASSUME NEW y, NEW q \in Requests \ {r}, y = req[q] PROVE Slot(y)'
    <3>1. Slot(y)
      BY <2>1 DEF IInv, RequestsOK
    <3>2. y.pc = "store" => y.pair # stored
      BY <3>1, BusySlot
    <3>3. \A k \in DOMAIN pairs : pairs[k].refresh \in Nat
      BY PairTypes DEF IInv
    <3> QED BY <1>1, <1>3, <1>4, <3>1, <3>2, <3>3, SlotKept
  <2>2. ASSUME NEW y, y = x PROVE Slot(y)'
    <3>1. Signs(y)'
      <4>1. n \in DOMAIN pairs' /\ pairs'[n].refresh <= now' + y.life /\ y.pair = {n}
        BY <1>1, <1>2, <1>3, <1>4, <1>7, <2>2
      <4>2. y.kind \in {"sign-in", "refresh"} /\ y.life \in 0..RefreshAge
        BY <1>2, <1>7, <2>2
      <4> QED BY <4>1, <4>2 DEF Signs
    <3>2. y.pair # stored'
      BY <1>1, <1>7, <1>8, <2>2
    <3> QED BY <1>2, <1>7, <2>2, <3>1, <3>2 DEF Slot, Kinds
  <2> QED BY <2>1, <2>2
<1>10. RequestsOK' /\ (\A q \in Requests : req'[q] = IF q = r THEN x ELSE req[q])
  <2>1. \A q \in Requests \ {r} : req[q].pc = "store" => req[q].pair # x.pair
    BY <1>7, <1>8
  <2> QED BY <1>1, <1>7, <1>9, <2>1, SlotsKept DEF IInv
<1>11. AgreeOK'
  <2>1. \A q \in Requests : /\ Final(q)' <=> Final(q)
                            /\ Final(q) => req'[q] = req[q]
    BY <1>1, <1>7, <1>10 DEF Final
  <2> QED BY <1>1, <2>1 DEF IInv, AgreeOK, Agree
<1>12. ClosedOK'
  <2>1. \A k : Held(k)' => Held(k)
    <3>1. \A k : ~Has(x, k)
      BY <1>7 DEF Has
    <3> QED BY <1>1, <1>10, <3>1 DEF Held, Has
  <2> QED BY <1>1, <1>4, <2>1, HeldKnown DEF IInv, ClosedOK
<1> QED BY <1>5, <1>6, <1>10, <1>11, <1>12 DEF IInv


\* The session is written: a pair that was signed for it, or nothing.
LEMMA WriteStep ==
  ASSUME IInv, NEW r \in Requests, NEW x, req' = [req EXCEPT ![r] = x], Slot(x)',
         req[r].pc \in {"store", "revoke"},
         x.pc = "answered", x.kind = req[r].kind, x.alone = req[r].alone,
         \/ x.answer = "pair" /\ req[r].pc = "store" /\ x.pair = req[r].pair
            /\ stored' = req[r].pair /\ closed' = 0
         \/ x.answer = "signed out" /\ stored' = {} /\ closed' = now,
         UNCHANGED <<now, client, pairs>>
  PROVE  IInv'
<1> USE DEF client
<1>1. Slot(req[r]) /\ req[r].pc # "idle" /\ (req[r].pc = "store" => Signs(req[r]))
  BY BusySlot DEF IInv, RequestsOK
<1>2. stored' \in Option(DOMAIN pairs) /\ closed' \in 0..MaxTime
      /\ (stored' = {} => closed' = now)
  <2>1. CASE x.answer = "signed out"
    BY <2>1, EmptyOption DEF IInv, ClientOK
  <2>2. CASE x.answer = "pair"
    <3>1. \E n \in DOMAIN pairs : stored' = {n}
      BY <1>1, <2>2 DEF Signs
    <3>2. closed' \in 0..MaxTime
      BY <2>2, AgesAreNat
    <3> QED BY <3>1, <3>2 DEF Option
  <2> QED BY <2>1, <2>2
<1>3. PairsOK' /\ CookiesOutliveTheirTokens' /\ UNCHANGED <<now, carrier, pairs, jar, app, trouble>>
  BY DEF IInv, PairsOK, CookiesOutliveTheirTokens
<1>4. ClientOK'
  BY <1>2, <1>3 DEF IInv, ClientOK
<1>5. \A y : y = x \/ (\E q \in Requests \ {r} : y = req[q]) => Slot(y)'
  <2>1. ASSUME NEW y, NEW q \in Requests \ {r}, y = req[q] PROVE Slot(y)'
    <3>1. Slot(y)
      BY <2>1 DEF IInv, RequestsOK
    <3>2. y.pc = "store" => y.pair # stored'
      <4>1. y.pc = "store" => \E n : y.pair = {n}
        BY <3>1, BusySlot, ZenonT(30) DEF Signs
      <4>2. y.pc = "store" /\ req[r].pc = "store" => y.pair # req[r].pair
        BY <2>1 DEF IInv, RequestsOK
      <4> QED BY <4>1, <4>2
    <3>3. now \in Nat /\ \A k \in DOMAIN pairs : pairs'[k] = pairs[k] /\ pairs[k].refresh \in Nat
      BY <1>3, PairTypes, NowIsNat DEF IInv
    <3>4. DOMAIN pairs \subseteq DOMAIN pairs' /\ (now' = now \/ now' = now + 1)
      BY <1>3
    <3> QED BY <3>1, <3>2, <3>3, <3>4, SlotKept
  <2> QED BY <2>1
<1>6. RequestsOK' /\ (\A q \in Requests : req'[q] = IF q = r THEN x ELSE req[q])
  BY <1>1, <1>5, SlotsKept DEF IInv
<1>7. AgreeOK'
  <2>1. Final(r)'
    BY <1>6 DEF Final
  <2>2. ASSUME NEW q \in Requests, Final(q)', req'[q].alone
        PROVE  stored' = IF req'[q].answer = "pair" THEN req'[q].pair ELSE {}
    <3>1. r \in Changing' /\ q \in Changing'
      <4>1. x.kind # "read"
        BY <1>1, BusySlot DEF Signs
      <4>2. req'[q].kind # "read"
        <5>1. Slot(req[q])'
          BY <1>6 DEF RequestsOK
        <5>2. req'[q].pc = "answered" /\ req'[q].answer \in {"pair", "signed out"}
          BY <2>2 DEF Final
        <5> QED BY <5>1, <5>2, IdleIs DEF Slot, Signs
      <4> QED BY <1>6, <2>2, <4>1, <4>2 DEF Changing, Final
    <3>2. q = r
      BY <1>6, <2>2, <3>1 DEF RequestsOK
    <3> QED BY <1>6, <3>2
  <2> QED BY <2>1, <2>2 DEF AgreeOK
<1>8. ClosedOK'
  BY <1>2, <1>3, PairTypes DEF IInv, ClosedOK
<1> QED BY <1>3, <1>4, <1>6, <1>7, <1>8 DEF IInv

LEMMA StoreStep ==
  ASSUME IInv, NEW r \in Requests, Store(r)
  PROVE  IInv'
<1>1. /\ req[r].pc = "store" /\ Signs(req[r]) /\ req[r].alone \in BOOLEAN
      /\ stored' = req[r].pair /\ closed' = 0 /\ UNCHANGED <<now, client, pairs>>
  BY BusySlot DEF IInv, RequestsOK, Store, Busy
<1>2. PICK x : x = [pc |-> "answered", kind |-> req[r].kind, alone |-> req[r].alone,
                    life |-> req[r].life, pair |-> req[r].pair, answer |-> "pair"]
  OBVIOUS
<1>3. req' = [req EXCEPT ![r] = x]
  BY <1>2 DEF Store, SetCookies, Go
<1>4. /\ x.pc = "answered" /\ x.kind = req[r].kind /\ x.alone = req[r].alone
      /\ x.life = req[r].life /\ x.pair = req[r].pair /\ x.answer = "pair"
  BY <1>2
<1>5. Slot(x)'
  <2>1. Signs(x)'
    BY <1>1, <1>4 DEF Signs
  <2> QED BY <1>1, <1>4, <2>1 DEF Slot, Signs, Kinds, Answers
<1> QED BY <1>1, <1>3, <1>4, <1>5, WriteStep

LEMMA RevokeStep ==
  ASSUME IInv, NEW r \in Requests, Revoke(r)
  PROVE  IInv'
<1>1. /\ req[r].pc = "revoke" /\ req[r].kind = "sign-out" /\ req[r].alone \in BOOLEAN
      /\ stored' = {} /\ closed' = now /\ UNCHANGED <<now, client, pairs>>
  BY BusySlot DEF IInv, RequestsOK, Revoke, Busy
<1>2. PICK x : x = [pc |-> "answered", kind |-> req[r].kind, alone |-> req[r].alone,
                    answer |-> "signed out"]
  OBVIOUS
<1>3. req' = [req EXCEPT ![r] = x]
  BY <1>2 DEF Revoke, Answer, Go
<1>4. /\ x.pc = "answered" /\ x.kind = "sign-out" /\ x.kind = req[r].kind
      /\ x.alone = req[r].alone /\ x.answer = "signed out"
  BY <1>1, <1>2
<1>5. Slot(x)'
  BY <1>1, <1>4 DEF Slot, Kinds, Answers
<1> QED BY <1>1, <1>3, <1>4, <1>5, WriteStep


---------------------------------------------------------------------------
(* Answers *)

\* Slots and pairs, after an answer or a loss.
LEMMA FreeSlot ==
  ASSUME IInv, NEW r \in Requests, req' = [req EXCEPT ![r] = Idle],
         UNCHANGED <<now, pairs, stored, closed>>
  PROVE  /\ PairsOK' /\ RequestsOK'
         /\ \A q \in Requests : req'[q] = IF q = r THEN Idle ELSE req[q]
         /\ \A q \in Requests : Final(q)' <=> q # r /\ Final(q)
         /\ \A q \in Requests : \A n : Has(req'[q], n) => q # r /\ Has(req[q], n)
<1>1. PairsOK'
  BY DEF IInv, PairsOK
<1>2. \A y : y = Idle \/ (\E q \in Requests \ {r} : y = req[q]) => Slot(y)'
  <2>1. ASSUME NEW y, NEW q \in Requests \ {r}, y = req[q] PROVE Slot(y)'
    <3>1. Slot(y) /\ (y.pc = "store" => y.pair # stored)
      BY <2>1, BusySlot DEF IInv, RequestsOK
    <3>2. now \in Nat /\ \A k \in DOMAIN pairs : pairs'[k] = pairs[k] /\ pairs[k].refresh \in Nat
      BY PairTypes, NowIsNat DEF IInv
    <3>3. DOMAIN pairs \subseteq DOMAIN pairs' /\ (now' = now \/ now' = now + 1)
          /\ (y.pc = "store" => y.pair # stored')
      BY <3>1
    <3> QED BY <3>1, <3>2, <3>3, SlotKept
  <2>2. ASSUME NEW y, y = Idle PROVE Slot(y)'
    BY <2>2 DEF Slot
  <2> QED BY <2>1, <2>2
<1>3. RequestsOK' /\ (\A q \in Requests : req'[q] = IF q = r THEN Idle ELSE req[q])
  BY <1>2, IdleIs, SlotsKept DEF IInv
<1> QED BY <1>1, <1>3, IdleIs DEF Final, Has

\* A request that has not written the session, or whose answer is lost.
LEMMA LoseStep ==
  ASSUME IInv, NEW r \in Requests, Lose(r)
  PROVE  IInv'
<1>1. /\ req' = [req EXCEPT ![r] = Idle] /\ trouble' = (trouble \/ Final(r))
      /\ UNCHANGED <<now, carrier, jar, app, pairs, stored, closed>>
  BY DEF Lose, server
<1>2. /\ PairsOK' /\ RequestsOK'
      /\ \A q \in Requests : req'[q] = IF q = r THEN Idle ELSE req[q]
      /\ \A q \in Requests : Final(q)' <=> q # r /\ Final(q)
      /\ \A q \in Requests : \A n : Has(req'[q], n) => q # r /\ Has(req[q], n)
  BY <1>1, FreeSlot
<1>3. ClientOK' /\ CookiesOutliveTheirTokens'
  BY <1>1 DEF IInv, ClientOK, CookiesOutliveTheirTokens, Final
<1>4. AgreeOK'
  <2>1. ~trouble' => ~trouble /\ ~Final(r)
    BY <1>1
  <2>2. ~trouble' /\ (\A q \in Requests : ~Final(q)') => Agree
    BY <1>2, <2>1 DEF IInv, AgreeOK
  <2>3. Agree => Agree'
    BY <1>1 DEF Agree
  <2>4. \A q \in Requests : Final(q)' => Final(q) /\ req'[q] = req[q]
    BY <1>2
  <2> QED BY <1>1, <2>2, <2>3, <2>4 DEF IInv, AgreeOK
<1>5. ClosedOK'
  BY <1>1, <1>2 DEF IInv, ClosedOK, Held
<1> QED BY <1>2, <1>3, <1>4, <1>5 DEF IInv

\* An error or a read leaves the client as it is.
LEMMA DeliverOther ==
  ASSUME IInv, NEW r \in Requests, Deliver(r), ~Final(r)
  PROVE  IInv'
<1>1. /\ req' = [req EXCEPT ![r] = Idle] /\ trouble' = trouble
      /\ UNCHANGED <<now, carrier, jar, app, pairs, stored, closed>>
  BY DEF Deliver, server, Final
<1>2. /\ PairsOK' /\ RequestsOK'
      /\ \A q \in Requests : req'[q] = IF q = r THEN Idle ELSE req[q]
      /\ \A q \in Requests : Final(q)' <=> q # r /\ Final(q)
      /\ \A q \in Requests : \A n : Has(req'[q], n) => q # r /\ Has(req[q], n)
  BY <1>1, FreeSlot
<1>3. ClientOK' /\ CookiesOutliveTheirTokens'
  BY <1>1 DEF IInv, ClientOK, CookiesOutliveTheirTokens
<1>4. AgreeOK'
  <2>1. \A q \in Requests : /\ Final(q)' <=> Final(q)
                            /\ Final(q) => req'[q] = req[q]
    BY <1>2
  <2> QED BY <1>1, <2>1 DEF IInv, AgreeOK, Agree
<1>5. ClosedOK'
  BY <1>1, <1>2 DEF IInv, ClosedOK, Held
<1> QED BY <1>2, <1>3, <1>4, <1>5 DEF IInv

\* What the client takes over from an answer that changed the session.
LEMMA Takes ==
  ASSUME IInv, NEW r \in Requests, Deliver(r), Final(r)
  PROVE  \E pair \in Option(DOMAIN pairs), life \in 0..RefreshAge :
           /\ pair = IF req[r].answer = "pair" THEN req[r].pair ELSE {}
           /\ \A n \in pair : pairs[n].refresh <= now + life /\ Has(req[r], n)
           /\ app' = pair \/ (carrier = "cookie" /\ app' = {})
           /\ \/ carrier = "header" /\ jar' = jar
              \/ jar' = SetCookie(pair, life, AccessAge)
<1>1. req[r].pc = "answered" /\ req[r].answer \in {"pair", "signed out"}
  BY DEF Final
<1>2. carrier = "cookie" => app = {}
  BY DEF IInv, ClientOK
<1>3. CASE req[r].answer = "pair"
  <2>1. Signs(req[r])
    BY <1>1, <1>3, BusySlot DEF IInv, RequestsOK
  <2>2. PICK n \in DOMAIN pairs : req[r].pair = {n} /\ pairs[n].refresh <= now + req[r].life
    BY <1>1, <2>1 DEF Signs
  <2>3. req[r].pair \in Option(DOMAIN pairs) /\ req[r].life \in 0..RefreshAge
    BY <2>1, <2>2 DEF Signs, Option
  <2>4. /\ app' = req[r].pair \/ (carrier = "cookie" /\ app' = {})
        /\ \/ carrier = "header" /\ jar' = jar
           \/ jar' = SetCookie(req[r].pair, req[r].life, AccessAge)
    BY <1>2, <1>3 DEF Deliver
  <2>5. \A k \in req[r].pair : pairs[k].refresh <= now + req[r].life /\ Has(req[r], k)
    BY <1>1, <1>3, <2>2 DEF Has
  <2> QED BY <1>3, <2>3, <2>4, <2>5
<1>4. CASE req[r].answer = "signed out"
  <2>1. app' = {} /\ jar' = SetCookie({}, 0, 0)
    BY <1>4 DEF Deliver
  <2>2. SetCookie({}, 0, 0) = SetCookie({}, 0, AccessAge)
    BY DEF SetCookie
  <2>3. {} \in Option(DOMAIN pairs) /\ 0 \in 0..RefreshAge
    BY EmptyOption, AgesAreNat
  <2> QED BY <1>4, <2>1, <2>2, <2>3
<1> QED BY <1>1, <1>3, <1>4


LEMMA DeliverFinal ==
  ASSUME IInv, NEW r \in Requests, Deliver(r), Final(r)
  PROVE  IInv'
<1> DEFINE Cookie == [pair : DOMAIN pairs, until : 0..MaxTime + RefreshAge + AccessAge]
<1>1. /\ req' = [req EXCEPT ![r] = Idle] /\ trouble' = ~req[r].alone
      /\ UNCHANGED <<now, carrier, pairs, stored, closed>>
  BY DEF Deliver, server
<1>2. /\ PairsOK' /\ RequestsOK'
      /\ \A q \in Requests : req'[q] = IF q = r THEN Idle ELSE req[q]
      /\ \A q \in Requests : Final(q)' <=> q # r /\ Final(q)
      /\ \A q \in Requests : \A n : Has(req'[q], n) => q # r /\ Has(req[q], n)
  BY <1>1, FreeSlot
<1>3. PICK pair \in Option(DOMAIN pairs), life \in 0..RefreshAge :
           /\ pair = IF req[r].answer = "pair" THEN req[r].pair ELSE {}
           /\ \A n \in pair : pairs[n].refresh <= now + life /\ Has(req[r], n)
           /\ app' = pair \/ (carrier = "cookie" /\ app' = {})
           /\ \/ carrier = "header" /\ jar' = jar
              \/ jar' = SetCookie(pair, life, AccessAge)
  BY Takes
<1>4. now \in 0..MaxTime /\ now \in Nat /\ life \in Nat /\ now + life \in 0..MaxTime + RefreshAge + AccessAge
      /\ now + AccessAge \in 0..MaxTime + RefreshAge + AccessAge
  <2>1. now \in 0..MaxTime
    BY DEF IInv, ClientOK
  <2> QED BY <2>1, AgesAreNat
<1>5. /\ DOMAIN jar' = {"access", "refresh"}
      /\ \A which \in DOMAIN jar' :
           /\ jar'[which] \in Option(Cookie)
           /\ \A c \in jar'[which] : c.pair \in pair /\ c.until >= pairs[c.pair][which]
  <2>1. CASE carrier = "header" /\ jar' = jar
    BY <2>1, EmptyOption DEF IInv, ClientOK
  <2>2. CASE jar' = SetCookie(pair, life, AccessAge)
    <3>1. /\ DOMAIN jar' = {"access", "refresh"}
          /\ jar'["access"] = {[pair |-> n, until |-> now + AccessAge] : n \in pair}
          /\ jar'["refresh"] = {[pair |-> n, until |-> now + life] : n \in pair}
      BY <2>2 DEF SetCookie
    <3>2. \A t \in 0..MaxTime + RefreshAge + AccessAge :
            {[pair |-> n, until |-> t] : n \in pair} \in Option(Cookie)
      <4> SUFFICES ASSUME NEW t \in 0..MaxTime + RefreshAge + AccessAge
                   PROVE  {[pair |-> n, until |-> t] : n \in pair} \in Option(Cookie)
        OBVIOUS
      <4>1. CASE pair = {}
        BY <4>1, EmptyOption
      <4>2. ASSUME NEW n \in DOMAIN pairs, pair = {n}
            PROVE  {[pair |-> k, until |-> t] : k \in pair} \in Option(Cookie)
        <5>1. [pair |-> n, until |-> t] \in Cookie
          OBVIOUS
        <5>2. {[pair |-> k, until |-> t] : k \in pair} = {[pair |-> n, until |-> t]}
          BY <4>2
        <5> QED BY <5>1, <5>2 DEF Option
      <4> QED BY <4>1, <4>2 DEF Option
    <3>3. \A n \in pair : n \in DOMAIN pairs /\ pairs[n].access <= now + AccessAge
                          /\ pairs[n].access \in Nat /\ pairs[n].refresh \in Nat
      BY InOption, PairTypes DEF IInv
    <3>4. \A c \in jar'["access"] : c.pair \in pair /\ c.until >= pairs[c.pair].access
      BY <1>4, <3>1, <3>3, AgesAreNat
    <3>5. \A c \in jar'["refresh"] : c.pair \in pair /\ c.until >= pairs[c.pair].refresh
      BY <1>3, <1>4, <3>1, <3>3
    <3>6. jar'["access"] \in Option(Cookie) /\ jar'["refresh"] \in Option(Cookie)
      BY <1>4, <3>1, <3>2
    <3> HIDE DEF Cookie
    <3> QED BY <3>1, <3>4, <3>5, <3>6
  <2> QED BY <1>3, <2>1, <2>2
<1>6. CookiesOutliveTheirTokens'
  BY <1>1, <1>5 DEF CookiesOutliveTheirTokens
<1>7. ClientOK'
  <2>1. app' \in Option(DOMAIN pairs) /\ (carrier = "cookie" => app' = {} \/ app' = pair)
    BY <1>3, EmptyOption
  <2>2. carrier = "cookie" => app' = {}
    BY DEF Deliver, IInv, ClientOK, Final, SetCookie
  <2>3. carrier = "header" => \A which \in DOMAIN jar' : jar'[which] = {}
    <3>1. CASE jar' = jar
      BY <3>1 DEF IInv, ClientOK
    <3>2. CASE jar' = SetCookie({}, 0, 0)
      BY <3>2 DEF SetCookie
    <3>3. carrier = "header" => jar' = jar \/ jar' = SetCookie({}, 0, 0)
      BY DEF Deliver, Final
    <3> QED BY <3>1, <3>2, <3>3
  <2>4. trouble' \in BOOLEAN
    BY <1>1
  <2>5. \A which \in DOMAIN jar' : jar'[which] \in Option(Cookie)
    BY <1>5
  <2>6. /\ closed \in 0..MaxTime /\ carrier \in Carriers /\ stored \in Option(DOMAIN pairs)
    BY DEF IInv, ClientOK
  <2> QED BY <1>1, <1>4, <1>5, <2>1, <2>2, <2>3, <2>4, <2>5, <2>6 DEF ClientOK
<1>8. AgreeOK'
  <2>1. req[r].alone => stored = pair
    BY <1>3 DEF IInv, AgreeOK
  <2>2. ~trouble' => Agree'
    <3>1. carrier # "cookie" => app' = pair
      BY <1>3
    <3>2. \A which \in DOMAIN jar' : {c.pair : c \in jar'[which]} \subseteq pair
      BY <1>5
    <3> QED BY <1>1, <2>1, <3>1, <3>2 DEF Agree
  <2>3. \A q \in Requests : Final(q)' => Final(q) /\ req'[q] = req[q]
    BY <1>2
  <2> QED BY <1>1, <2>2, <2>3 DEF IInv, AgreeOK
<1>9. ClosedOK'
  <2>1. ASSUME NEW n, Held(n)' PROVE Held(n)
    <3>1. CASE n \in app'
      BY <1>3, <3>1 DEF Held
    <3>2. CASE \E which \in DOMAIN jar' : \E c \in jar'[which] : c.pair = n
      BY <1>3, <1>5, <3>2 DEF Held
    <3>3. CASE \E q \in Requests : Has(req'[q], n)
      BY <1>2, <3>3 DEF Held
    <3>4. (\E q \in Requests : Has(req[q], n))' => \E q \in Requests : Has(req'[q], n)
      BY DEF Has
    <3> QED BY <2>1, <3>1, <3>2, <3>3, <3>4 DEF Held
  <2> QED BY <1>1, <2>1 DEF IInv, ClosedOK
<1> QED BY <1>2, <1>6, <1>7, <1>8, <1>9 DEF IInv

---------------------------------------------------------------------------
(* The fields of a slot *)

\* What a slot keeps at each step: another request may take `alone` from it.
Fields(x) ==
  /\ x.pc # "idle" => {"pc", "kind", "alone"} \subseteq DOMAIN x
  /\ x.pc = "guard" => {"cookie", "header"} \subseteq DOMAIN x /\ x.kind \in Kinds \ {"sign-in"}
  /\ x.pc = "verify" => {"token", "life"} \subseteq DOMAIN x
  /\ x.pc \in {"sign", "store"} => "life" \in DOMAIN x
  /\ x.pc = "store" => "pair" \in DOMAIN x
  /\ x.pc = "answered" => "answer" \in DOMAIN x
  /\ x.pc = "answered" /\ x.answer = "pair" => {"life", "pair"} \subseteq DOMAIN x

FieldsOK == DOMAIN req = Requests /\ \A r \in Requests : Fields(req[r])

LEMMA GoFields ==
  ASSUME FieldsOK, NEW r \in Requests, NEW x, Go(r, x), Fields(x)
  PROVE  FieldsOK'
<1>1. DOMAIN req' = Requests /\ \A q \in Requests : req'[q] = IF q = r THEN x ELSE req[q]
  BY DEF FieldsOK, Go
<1>2. ASSUME NEW q \in Requests PROVE Fields(req'[q])
  BY <1>1 DEF FieldsOK
<1> QED BY <1>1, <1>2 DEF FieldsOK, Fields

LEMMA AnswerFields ==
  ASSUME FieldsOK, NEW r \in Requests, NEW a \in Answers \ {"pair"}, Answer(r, a)
  PROVE  FieldsOK'
<1>1. PICK x : x = [pc |-> "answered", kind |-> req[r].kind, alone |-> req[r].alone, answer |-> a]
  OBVIOUS
<1>2. Fields(x)
  BY <1>1 DEF Fields
<1> QED BY <1>1, <1>2, GoFields DEF Answer

\* A slot that loses `alone` keeps the rest.
Shared(x) == [x EXCEPT !.alone = FALSE]
LEMMA SharedSlot ==
  ASSUME NEW x, Fields(x), x.pc # "idle"
  PROVE  /\ DOMAIN Shared(x) = DOMAIN x /\ Shared(x).alone = FALSE
         /\ \A f \in DOMAIN x \ {"alone"} : Shared(x)[f] = x[f]
         /\ Shared(x).pc = x.pc /\ Shared(x).kind = x.kind
<1>1. {"pc", "kind", "alone"} \subseteq DOMAIN x
  BY DEF Fields
<1>2. /\ DOMAIN Shared(x) = DOMAIN x /\ Shared(x).alone = FALSE
      /\ \A f \in DOMAIN x \ {"alone"} : Shared(x)[f] = x[f]
  BY <1>1 DEF Shared
<1> QED BY <1>1, <1>2

LEMMA SharedFields ==
  ASSUME NEW x, Fields(x), x.pc # "idle"
  PROVE  /\ Fields(Shared(x))
         /\ x.pc = "guard" => Shared(x).cookie = x.cookie /\ Shared(x).header = x.header
         /\ x.pc = "verify" => Shared(x).token = x.token /\ Shared(x).life = x.life
         /\ x.pc \in {"sign", "store"} => Shared(x).life = x.life
         /\ x.pc = "store" => Shared(x).pair = x.pair
         /\ x.pc = "answered" => Shared(x).answer = x.answer
         /\ x.pc = "answered" /\ x.answer = "pair" =>
              Shared(x).life = x.life /\ Shared(x).pair = x.pair
<1>1. PICK y : y = Shared(x)
  OBVIOUS
<1>2. /\ DOMAIN y = DOMAIN x /\ y.pc = x.pc
      /\ \A f \in DOMAIN x \ {"alone"} : y[f] = x[f]
  BY <1>1, SharedSlot
<1>3. /\ x.pc = "guard" => y.cookie = x.cookie /\ y.header = x.header
      /\ x.pc = "verify" => y.token = x.token /\ y.life = x.life
      /\ x.pc \in {"sign", "store"} => y.life = x.life
      /\ x.pc = "store" => y.pair = x.pair
      /\ x.pc = "answered" => y.answer = x.answer
      /\ x.pc = "answered" /\ x.answer = "pair" => y.life = x.life /\ y.pair = x.pair
  BY <1>2 DEF Fields
<1>4. Fields(y)
  BY <1>2, <1>3 DEF Fields
<1> QED BY <1>1, <1>3, <1>4

\* What Send makes of the slots.
Sent(r, kind) ==
  IF kind = "sign-in"
  THEN [pc |-> "sign", kind |-> kind, life |-> RefreshAge, alone |-> Changing = {}]
  ELSE [pc |-> "guard", kind |-> kind, alone |-> Changing = {},
        cookie |-> {c.pair : c \in jar[TokenOf(kind)]}, header |-> app]
LEMMA SendSlots ==
  ASSUME NEW r \in Requests, NEW kind \in Kinds, Send(r, kind)
  PROVE  /\ DOMAIN req' = Requests /\ req'[r] = Sent(r, kind)
         /\ \A q \in Requests \ {r} :
              req'[q] = IF q \in Changing /\ kind # "read" THEN Shared(req[q]) ELSE req[q]
BY DEF Send, Sent, Shared

LEMMA FieldsInductive == FieldsOK /\ [Next]_vars => FieldsOK'
<1> SUFFICES ASSUME FieldsOK, [Next]_vars PROVE FieldsOK'
  OBVIOUS
<1>1. ASSUME NEW r \in Requests, NEW kind \in Kinds, Send(r, kind) PROVE FieldsOK'
  <2>1. PICK x : x = Sent(r, kind)
    OBVIOUS
  <2>2. Fields(x)
    BY <2>1 DEF Fields, Sent
  <2>3. ASSUME NEW q \in Requests \ {r} PROVE Fields(req'[q])
    BY <1>1, SendSlots, SharedFields DEF FieldsOK, Changing
  <2>4. \A q \in Requests : Fields(req'[q])
    BY <1>1, <2>1, <2>2, <2>3, SendSlots
  <2> QED BY <1>1, <2>4, SendSlots DEF FieldsOK, Fields
<1>2. ASSUME NEW r \in Requests, Guard(r) PROVE FieldsOK'
  <2>1. CASE \E a \in Answers \ {"pair"} : Answer(r, a)
    BY <2>1, AnswerFields
  <2>2. ASSUME Go(r, [pc |-> "revoke", kind |-> "sign-out", alone |-> req[r].alone]) PROVE FieldsOK'
    <3>1. PICK x : x = [pc |-> "revoke", kind |-> "sign-out", alone |-> req[r].alone]
      OBVIOUS
    <3>2. Fields(x)
      BY <3>1 DEF Fields
    <3> QED BY <2>2, <3>1, <3>2, GoFields
  <2>3. ASSUME NEW n, Go(r, [pc |-> "verify", kind |-> "refresh", alone |-> req[r].alone,
                         token |-> req[r].header, life |-> pairs[n].refresh - now])
        PROVE  FieldsOK'
    <3>1. PICK x : x = [pc |-> "verify", kind |-> "refresh", alone |-> req[r].alone,
                        token |-> req[r].header, life |-> pairs[n].refresh - now]
      OBVIOUS
    <3>2. Fields(x)
      BY <3>1 DEF Fields
    <3> QED BY <2>3, <3>1, <3>2, GoFields
  <2>4. CASE Refused(r)
    <3>1. \E a \in Answers \ {"pair"} : Answer(r, a)
      BY <2>4 DEF Refused, Answers, Codes
    <3> QED BY <2>1, <3>1
  <2>5. CASE Passed(r)
    <3>1. req[r].kind \in {"read", "sign-out", "refresh"}
      BY <1>2 DEF Guard, FieldsOK, Fields, Kinds
    <3>2. "OK" \in Answers \ {"pair"} /\ "TypeError" \in Answers \ {"pair"}
      BY DEF Answers, Codes
    <3>3. CASE req[r].kind = "read"
      BY <2>1, <2>5, <3>2, <3>3 DEF Passed
    <3>4. CASE req[r].kind = "sign-out"
      BY <2>2, <2>5, <3>4 DEF Passed
    <3>5. CASE req[r].kind = "refresh"
      BY <2>1, <2>3, <2>5, <3>2, <3>5 DEF Passed
    <3> QED BY <3>1, <3>3, <3>4, <3>5
  <2> QED BY <1>2, <2>4, <2>5 DEF Guard
<1>3. ASSUME NEW r \in Requests, Verify(r) PROVE FieldsOK'
  <2>1. PICK x : x = [pc |-> "sign", kind |-> "refresh", alone |-> req[r].alone, life |-> req[r].life]
    OBVIOUS
  <2>2. Fields(x)
    BY <2>1 DEF Fields
  <2>3. "REFRESH_TOKEN_REVOKED" \in Answers \ {"pair"}
    BY DEF Answers, Codes
  <2> QED BY <1>3, <2>1, <2>2, <2>3, GoFields, AnswerFields DEF Verify
<1>4. ASSUME NEW r \in Requests, Sign(r) PROVE FieldsOK'
  <2>1. PICK x : x = [pc |-> "store", kind |-> req[r].kind, alone |-> req[r].alone,
                      life |-> req[r].life, pair |-> {Len(pairs) + 1}]
    OBVIOUS
  <2>2. Fields(x)
    BY <2>1 DEF Fields
  <2> QED BY <1>4, <2>1, <2>2, GoFields DEF Sign
<1>5. ASSUME NEW r \in Requests, Store(r) PROVE FieldsOK'
  <2>1. PICK x : x = [pc |-> "answered", kind |-> req[r].kind, alone |-> req[r].alone,
                      life |-> req[r].life, pair |-> req[r].pair, answer |-> "pair"]
    OBVIOUS
  <2>2. Fields(x)
    BY <2>1 DEF Fields
  <2> QED BY <1>5, <2>1, <2>2, GoFields DEF Store, SetCookies
<1>6. ASSUME NEW r \in Requests, Revoke(r) PROVE FieldsOK'
  <2>1. "signed out" \in Answers \ {"pair"}
    BY DEF Answers
  <2> QED BY <1>6, <2>1, AnswerFields DEF Revoke
<1>7. ASSUME NEW r \in Requests, Deliver(r) \/ Lose(r) PROVE FieldsOK'
  <2>1. Fields(Idle)
    BY DEF Fields, Idle
  <2> QED BY <1>7, <2>1, GoFields DEF Deliver, Lose, Go
<1>8. CASE Tick \/ UNCHANGED vars
  BY <1>8 DEF Tick, vars, FieldsOK, Fields
<1> QED BY <1>1, <1>2, <1>3, <1>4, <1>5, <1>6, <1>7, <1>8 DEF Next

---------------------------------------------------------------------------
(* Sending, and the clock *)

LEMMA SharedKeeps ==
  ASSUME IInv, FieldsOK, NEW q \in Changing
  PROVE  /\ Slot(Shared(req[q])) /\ Shared(req[q]).alone = FALSE
         /\ Shared(req[q]).pc = req[q].pc /\ Shared(req[q]).kind = req[q].kind
         /\ req[q].pc = "store" => Shared(req[q]).pair = req[q].pair
         /\ req[q].pc = "answered" => Shared(req[q]).answer = req[q].answer
         /\ \A n : Has(Shared(req[q]), n) => Has(req[q], n)
<1>1. Slot(req[q]) /\ Fields(req[q]) /\ req[q].pc # "idle"
  BY DEF Changing, FieldsOK, IInv, RequestsOK
<1>2. PICK x, y : x = req[q] /\ y = Shared(x)
  OBVIOUS
<1>3. /\ y.pc = x.pc /\ y.kind = x.kind /\ y.alone = FALSE
      /\ x.pc = "guard" => y.cookie = x.cookie /\ y.header = x.header
      /\ x.pc = "verify" => y.token = x.token /\ y.life = x.life
      /\ x.pc \in {"sign", "store"} => y.life = x.life
      /\ x.pc = "store" => y.pair = x.pair
      /\ x.pc = "answered" => y.answer = x.answer
      /\ x.pc = "answered" /\ x.answer = "pair" => y.life = x.life /\ y.pair = x.pair
  BY <1>1, <1>2, SharedSlot, SharedFields
<1>4. Slot(x) /\ x.pc # "idle"
  BY <1>1, <1>2
<1>5. Slot(y)
  BY <1>3, <1>4, BusySlot DEF Slot, Busy, Signs
<1>6. \A n : Has(y, n) => Has(x, n)
  BY <1>3 DEF Has
<1> QED BY <1>2, <1>3, <1>5, <1>6

\* What a new request takes along is what the client has.
LEMMA SentSlot ==
  ASSUME IInv, NEW r \in Requests, NEW kind \in Kinds
  PROVE  /\ Slot(Sent(r, kind)) /\ Sent(r, kind).pc \in {"sign", "guard"}
         /\ Sent(r, kind).kind = kind /\ Sent(r, kind).alone = (Changing = {})
         /\ \A n : Has(Sent(r, kind), n) => Held(n)
<1>1. PICK cookies : cookies = {c.pair : c \in jar[TokenOf(kind)]}
  OBVIOUS
<1>2. PICK x : x = Sent(r, kind)
  OBVIOUS
<1>3. TokenOf(kind) \in DOMAIN jar
  BY DEF IInv, ClientOK, TokenOf
<1>4. cookies \in Option(DOMAIN pairs)
  <2>1. jar[TokenOf(kind)] \in Option([pair : DOMAIN pairs, until : 0..MaxTime + RefreshAge + AccessAge])
    BY <1>3 DEF IInv, ClientOK
  <2>2. CASE jar[TokenOf(kind)] = {}
    BY <1>1, <2>2, EmptyOption
  <2>3. ASSUME NEW c \in [pair : DOMAIN pairs, until : 0..MaxTime + RefreshAge + AccessAge],
               jar[TokenOf(kind)] = {c}
        PROVE  cookies \in Option(DOMAIN pairs)
    <3>1. cookies = {c.pair} /\ c.pair \in DOMAIN pairs
      BY <1>1, <2>3
    <3> QED BY <3>1 DEF Option
  <2> QED BY <2>1, <2>2, <2>3 DEF Option
<1>5. \A n \in cookies : \E c \in jar[TokenOf(kind)] : c.pair = n
  BY <1>1
<1>6. CASE kind = "sign-in"
  <2>1. /\ x.pc = "sign" /\ x.kind = kind /\ x.life = RefreshAge
        /\ x.alone = (Changing = {})
    BY <1>2, <1>6 DEF Sent
  <2>2. Slot(x)
    BY <1>6, <2>1, AgesAreNat DEF Slot, Signs, Kinds
  <2> QED BY <1>2, <2>1, <2>2 DEF Has
<1>7. CASE kind # "sign-in"
  <2>1. /\ x.pc = "guard" /\ x.kind = kind /\ x.alone = (Changing = {})
        /\ x.cookie = cookies /\ x.header = app
    BY <1>1, <1>2, <1>7 DEF Sent
  <2>2. Slot(x)
    BY <1>4, <1>7, <2>1 DEF Slot, IInv, ClientOK
  <2>3. \A n : Has(x, n) => Held(n)
    BY <1>3, <1>5, <2>1 DEF Has, Held
  <2> QED BY <1>2, <2>1, <2>2, <2>3
<1> QED BY <1>6, <1>7

LEMMA SendStep ==
  ASSUME IInv, FieldsOK, NEW r \in Requests, NEW kind \in Kinds, Send(r, kind)
  PROVE  IInv'
<1>1. req[r].pc = "idle" /\ UNCHANGED <<now, client, server>>
  BY IdleIs DEF Send
<1>2. PairsOK' /\ ClientOK' /\ CookiesOutliveTheirTokens'
      /\ UNCHANGED <<now, carrier, jar, app, trouble, pairs, stored, closed>>
  BY <1>1 DEF IInv, PairsOK, ClientOK, CookiesOutliveTheirTokens, client, server
<1>3. PICK x : /\ x = req'[r] /\ Slot(x) /\ x.pc \in {"sign", "guard"} /\ x.kind = kind
               /\ x.alone = (Changing = {})
               /\ \A n : Has(x, n) => Held(n)
  BY SendSlots, SentSlot
<1>4. ASSUME NEW q \in Requests \ {r}
      PROVE  /\ Slot(req'[q]) /\ req'[q].pc = req[q].pc
             /\ req[q].pc # "idle" => req'[q].kind = req[q].kind
             /\ req[q].pc = "store" => req'[q].pair = req[q].pair
             /\ req[q].pc = "answered" => req'[q].answer = req[q].answer
             /\ \A n : Has(req'[q], n) => Has(req[q], n)
             /\ q \in Changing /\ kind # "read" => req'[q].alone = FALSE
             /\ q \notin Changing \/ kind = "read" => req'[q] = req[q]
  <2>1. CASE q \in Changing /\ kind # "read"
    <3>1. req'[q] = Shared(req[q])
      BY <2>1, SendSlots
    <3> QED BY <2>1, <3>1, SharedKeeps
  <2>2. CASE ~(q \in Changing /\ kind # "read")
    <3>1. req'[q] = req[q]
      BY <2>2, SendSlots
    <3>2. Slot(req[q])
      BY DEF IInv, RequestsOK
    <3> QED BY <2>2, <3>1, <3>2
  <2> QED BY <2>1, <2>2
<1>5. \A q \in Requests : Slot(req[q])'
  <2>1. ASSUME NEW y, Slot(y) PROVE Slot(y)'
    BY <1>2, <2>1 DEF Slot, Signs
  <2>2. ASSUME NEW q \in Requests PROVE Slot(req[q])'
    <3>1. PICK y : y = req'[q]
      OBVIOUS
    <3>2. Slot(y)
      BY <1>3, <1>4, <3>1
    <3>3. Slot(y)'
      BY <2>1, <3>2
    <3> QED BY <3>1, <3>3
  <2> QED BY <2>2
<1>6. \A p, q \in Requests :
        req'[p].pc = "store" /\ req'[q].pc = "store" /\ req'[p].pair = req'[q].pair => p = q
  BY <1>3, <1>4, ZenonT(30) DEF IInv, RequestsOK
<1>7. \A p, q \in Changing' : req'[p].alone => q = p
  <2>1. CASE kind = "read"
    <3>1. r \notin Changing'
      BY <1>3, <2>1 DEF Changing
    <3>2. \A q \in Requests \ {r} : req'[q] = req[q]
      BY <1>4, <2>1
    <3>3. Changing' \subseteq Changing \ {r}
      BY <3>1, <3>2 DEF Changing
    <3> QED BY <3>2, <3>3 DEF IInv, RequestsOK, Changing
  <2>2. CASE kind # "read"
    <3>1. \A q \in Changing' \ {r} : q \in Changing /\ req'[q].alone = FALSE
      BY <1>4, <2>2 DEF Changing
    <3>2. r \in Requests /\ (req'[r].alone => Changing = {})
      BY <1>3
    <3> QED BY <3>1, <3>2
  <2> QED BY <2>1, <2>2
<1>8. RequestsOK'
  BY <1>5, <1>6, <1>7, SendSlots DEF RequestsOK
<1>9. \A q \in Requests : Final(q)' <=> Final(q)
  BY <1>1, <1>3, <1>4 DEF Final
<1>10. AgreeOK'
  <2>1. ~trouble' /\ (\A q \in Requests : ~Final(q)') => Agree'
    BY <1>2, <1>9 DEF IInv, AgreeOK, Agree
  <2>2. ASSUME NEW q \in Requests, Final(q)', req'[q].alone
        PROVE  stored = IF req'[q].answer = "pair" THEN req'[q].pair ELSE {}
    <3>1. Final(q) /\ q # r
      BY <1>1, <1>9, <2>2 DEF Final
    <3>2. req'[q] = req[q]
      BY <1>4, <2>2, <3>1
    <3> QED BY <2>2, <3>1, <3>2 DEF IInv, AgreeOK
  <2> QED BY <1>2, <2>1, <2>2 DEF AgreeOK
<1>11. ClosedOK'
  <2>1. ASSUME NEW n, Held(n)' PROVE Held(n)
    <3>1. CASE \E q \in Requests : Has(req'[q], n)
      BY <1>3, <1>4, <3>1 DEF Held
    <3>2. (\E q \in Requests : Has(req[q], n))' => \E q \in Requests : Has(req'[q], n)
      BY DEF Has
    <3> QED BY <1>2, <2>1, <3>1, <3>2 DEF Held
  <2> QED BY <1>2, <2>1 DEF IInv, ClosedOK
<1> QED BY <1>2, <1>8, <1>10, <1>11 DEF IInv

LEMMA TickStep ==
  ASSUME IInv, Tick
  PROVE  IInv'
<1>1. /\ now < MaxTime /\ now' = now + 1 /\ DOMAIN jar' = DOMAIN jar
      /\ \A which \in DOMAIN jar : jar'[which] \subseteq jar[which]
      /\ UNCHANGED <<carrier, app, req, pairs, stored, closed, trouble>>
  BY DEF Tick, server
<1>2. now \in Nat /\ now' \in 0..MaxTime
  BY <1>1, NowIsNat, AgesAreNat DEF IInv
<1>3. PairsOK'
  <2>1. \A n \in DOMAIN pairs : pairs[n].access <= now' + AccessAge /\ pairs[n].refresh <= now' + RefreshAge
    BY <1>1, <1>2, PairTypes, AgesAreNat DEF IInv
  <2> QED BY <1>1, <2>1 DEF IInv, PairsOK
<1>4. ClientOK'
  <2>1. \A S, T, U : T \in Option(S) /\ U \subseteq T => U \in Option(S)
    BY DEF Option
  <2>2. \A which \in DOMAIN jar :
          jar'[which] \in Option([pair : DOMAIN pairs, until : 0..MaxTime + RefreshAge + AccessAge])
    BY <1>1, <2>1 DEF IInv, ClientOK
  <2>3. carrier = "header" => \A which \in DOMAIN jar : jar'[which] = {}
    BY <1>1 DEF IInv, ClientOK
  <2> QED BY <1>1, <1>2, <2>2, <2>3 DEF IInv, ClientOK
<1>5. RequestsOK'
  <2>1. ASSUME NEW y, Slot(y) PROVE Slot(y)'
    <3>1. \A k \in DOMAIN pairs : pairs'[k] = pairs[k] /\ pairs[k].refresh \in Nat
      BY <1>1, PairTypes DEF IInv
    <3>2. y.pc = "store" => y.pair # stored'
      BY <1>1, <2>1, BusySlot
    <3> QED BY <1>1, <1>2, <2>1, <3>1, <3>2, SlotKept
  <2>2. \A q \in Requests : Slot(req[q])'
    BY <1>1, <2>1 DEF IInv, RequestsOK
  <2> QED BY <1>1, <2>2 DEF IInv, RequestsOK, Changing
<1>6. AgreeOK'
  BY <1>1 DEF IInv, AgreeOK, Agree, Final
<1>7. ClosedOK'
  BY <1>1 DEF IInv, ClosedOK, Held, Has
<1>8. CookiesOutliveTheirTokens'
  BY <1>1 DEF IInv, CookiesOutliveTheirTokens
<1> QED BY <1>3, <1>4, <1>5, <1>6, <1>7, <1>8 DEF IInv

---------------------------------------------------------------------------
(* Theorems *)

LEMMA Inductive == IInv /\ FieldsOK /\ [Next]_vars => IInv'
<1> SUFFICES ASSUME IInv, FieldsOK, [Next]_vars PROVE IInv'
  OBVIOUS
<1>1. ASSUME NEW r \in Requests, Deliver(r) PROVE IInv'
  BY <1>1, DeliverOther, DeliverFinal
<1>2. CASE UNCHANGED vars
  <2>1. UNCHANGED <<now, carrier, pairs, stored, jar, app, req, closed, trouble>>
    BY <1>2 DEF vars
  <2>2. PairsOK' /\ ClientOK' /\ CookiesOutliveTheirTokens'
    BY <2>1 DEF IInv, PairsOK, ClientOK, CookiesOutliveTheirTokens
  <2>3. RequestsOK'
    BY <2>1, ZenonT(30) DEF IInv, RequestsOK, Slot, Signs, Changing
  <2>4. AgreeOK' /\ ClosedOK'
    BY <2>1 DEF IInv, AgreeOK, Agree, Final, ClosedOK, Held, Has
  <2> QED BY <2>2, <2>3, <2>4 DEF IInv
<1> QED BY <1>1, <1>2, SendStep, GuardStep, VerifyStep, SignStep, StoreStep, RevokeStep,
           LoseStep, TickStep DEF Next

LEMMA Invariant == Spec => [](IInv /\ FieldsOK)
<1>1. Init => IInv /\ FieldsOK
  <2>1. Init => FieldsOK
    BY DEF Init, FieldsOK, Fields, Idle
  <2> QED BY <2>1, InitOK
<1>2. IInv /\ FieldsOK /\ [Next]_vars => IInv' /\ FieldsOK'
  BY Inductive, FieldsInductive
<1> QED BY <1>1, <1>2, PTL DEF Spec

\* The state of the client, of its session and of every request under way has
\* its type, for any number of requests and any ages of the tokens.
THEOREM TypeInvariant == Spec => []TypeOK
<1>1. IInv => TypeOK
  <2> SUFFICES ASSUME IInv PROVE TypeOK
    OBVIOUS
  <2>1. \A which \in {"access", "refresh"} :
          jar[which] \in Option([pair : DOMAIN pairs, until : 0..MaxTime + RefreshAge + AccessAge])
    BY DEF IInv, ClientOK
  <2>2. \A r \in Requests :
          \/ req[r] = Idle
          \/ /\ req[r].kind \in Kinds
             /\ req[r].pc \in {"guard", "verify", "sign", "store", "revoke", "answered"}
             /\ req[r].pc = "answered" => req[r].answer \in Answers
    BY DEF IInv, RequestsOK, Slot
  <2>3. /\ now \in 0..MaxTime /\ closed \in 0..MaxTime
        /\ carrier \in Carriers /\ trouble \in BOOLEAN
        /\ stored \in Option(DOMAIN pairs) /\ app \in Option(DOMAIN pairs)
    BY DEF IInv, ClientOK
  <2>4. pairs \in Seq([access : Nat, refresh : Nat]) /\ Len(pairs) <= MaxPairs
    BY DEF IInv, PairsOK
  <2> QED BY <2>1, <2>2, <2>3, <2>4 DEF TypeOK
<1> QED BY <1>1, Invariant, PTL

\* A client that changes its session by one request at a time and has had every
\* answer holds the pair the server stored (ClientAndServerAgree): no order of
\* reads, expiries and refused requests locks it out or leaves it tokens of a
\* session that is closed.
THEOREM OneAtATimeAgrees == Spec => []ClientAndServerAgree
<1>1. IInv => ClientAndServerAgree
  <2> SUFFICES ASSUME IInv, ~trouble, Changing = {} PROVE Agree
    BY DEF ClientAndServerAgree, Agree
  <2>1. ASSUME NEW r \in Requests, Final(r) PROVE FALSE
    <3>1. Slot(req[r]) /\ req[r].pc = "answered" /\ req[r].answer \in {"pair", "signed out"}
      BY <2>1 DEF Final, IInv, RequestsOK
    <3>2. req[r].kind # "read"
      BY <3>1, BusySlot DEF Signs
    <3> QED BY <3>1, <3>2 DEF Changing
  <2> QED BY <2>1 DEF IInv, AgreeOK
<1> QED BY <1>1, Invariant, PTL

\* No cookie is dropped while its token is still good (CookiesOutliveTheirTokens),
\* however late the answer that set it arrives and whichever life it carries.
THEOREM CookiesKept == Spec => []CookiesOutliveTheirTokens
<1>1. IInv => CookiesOutliveTheirTokens
  BY DEF IInv
<1> QED BY <1>1, Invariant, PTL

\* No read is served later than one age of an access token after its session was
\* closed (AccessEndsWithItsAge).
THEOREM ClosedSessionsEnd == Spec => AccessEndsWithItsAge
<1>1. IInv /\ FieldsOK /\ [Next]_vars =>
        \A r \in Requests :
          req[r].pc = "guard" /\ req'[r].pc = "answered" /\ req'[r].answer = "OK" =>
            stored # {} \/ now < closed + AccessAge
  <2> SUFFICES ASSUME IInv, FieldsOK, [Next]_vars, NEW r \in Requests, req[r].pc = "guard",
                      req'[r].pc = "answered", req'[r].answer = "OK", stored = {}
               PROVE  now < closed + AccessAge
    OBVIOUS
  <2>1. \A q \in Requests : \A x : req' = [req EXCEPT ![q] = x] => q = r \/ req'[r] = req[r]
    BY DEF FieldsOK
  <2>2. \A q \in Requests : \A x : Go(q, x) => q = r \/ req'[r] = req[r]
    BY <2>1 DEF Go
  <2>3. \A q \in Requests : \A a : Answer(q, a) => q = r \/ req'[r] = req[r]
    BY <2>2 DEF Answer
  <2>4. Guard(r)
    <3>1. ASSUME NEW q \in Requests, NEW kind \in Kinds, Send(q, kind) PROVE FALSE
      <4>1. q # r
        BY <3>1, IdleIs DEF Send
      <4>2. req'[r] = req[r] \/ (r \in Changing /\ req'[r] = Shared(req[r]))
        BY <3>1, <4>1, SendSlots
      <4> QED BY <4>2, SharedKeeps
    <3>2. ASSUME NEW q \in Requests, q # r, Guard(q) PROVE FALSE
      <4>1. Refused(q) => req'[r] = req[r]
        BY <2>3, <3>2 DEF Refused
      <4>2. Passed(q) => req'[r] = req[r]
        <5>1. req[q].kind \in {"read", "sign-out", "refresh"}
          BY <3>2 DEF Guard, FieldsOK, Fields, Kinds
        <5> QED BY <2>2, <2>3, <3>2, <5>1 DEF Passed
      <4> QED BY <3>2, <4>1, <4>2 DEF Guard
    <3>3. ASSUME NEW q \in Requests, Verify(q) \/ Store(q) \/ Revoke(q) PROVE FALSE
      BY <2>2, <2>3, <3>3 DEF Verify, Store, Revoke, SetCookies
    <3>4. ASSUME NEW q \in Requests, Sign(q) PROVE FALSE
      BY <2>2, <3>4 DEF Sign
    <3>5. ASSUME NEW q \in Requests, Deliver(q) \/ Lose(q) PROVE FALSE
      <4>1. req' = [req EXCEPT ![q] = Idle]
        BY <3>5 DEF Deliver, Lose
      <4>2. req'[r] = IF q = r THEN Idle ELSE req[r]
        BY <4>1 DEF FieldsOK
      <4> QED BY <4>2, IdleIs
    <3>6. ~Tick /\ ~UNCHANGED vars
      BY DEF Tick, vars
    <3> QED BY <3>1, <3>2, <3>3, <3>4, <3>5, <3>6 DEF Next
  <2>5. PICK n \in Presented(r) : Alive(n, "access")
    <3>1. "OK" \notin Codes
      BY DEF Codes
    <3>2. \A x : Go(r, x) => req'[r] = x
      BY DEF Go, FieldsOK
    <3>3. \A a : Answer(r, a) => a = "OK"
      BY <3>2 DEF Answer
    <3>4. ~Refused(r)
      BY <3>3 DEF Refused
    <3>5. Passed(r) /\ req[r].kind \in {"read", "sign-out", "refresh"}
      BY <2>4, <3>4 DEF Guard, FieldsOK, Fields, Kinds
    <3>6. req[r].kind = "read"
      <4>1. CASE req[r].kind = "sign-out"
        <5>1. Go(r, [pc |-> "revoke", kind |-> "sign-out", alone |-> req[r].alone])
          BY <3>5, <4>1 DEF Passed
        <5>2. req'[r].pc = "revoke"
          BY <3>2, <5>1
        <5> QED BY <5>2
      <4>2. CASE req[r].kind = "refresh"
        <5>1. PICK n : Go(r, [pc |-> "verify", kind |-> "refresh", alone |-> req[r].alone,
                          token |-> req[r].header, life |-> pairs[n].refresh - now])
                       \/ Answer(r, "TypeError")
          BY <3>5, <4>2 DEF Passed
        <5>2. req'[r].pc = "verify"
          BY <3>2, <3>3, <5>1
        <5> QED BY <5>2
      <4> QED BY <3>5, <4>1, <4>2
    <3> QED BY <3>5, <3>6 DEF Passed, TokenOf
  <2>6. Held(n)
    BY DEF Held, Has, Presented
  <2>7. n \in DOMAIN pairs
    BY <2>6, HeldKnown
  <2>8. pairs[n].access <= closed + AccessAge
    BY <2>6, <2>7 DEF IInv, ClosedOK
  <2>9. now < pairs[n].access
    BY <2>5 DEF Alive
  <2>10. now \in Nat /\ closed \in Nat /\ pairs[n].access \in Nat
    BY <2>7, PairTypes, NowIsNat, AgesAreNat DEF IInv, ClientOK
  <2> QED BY <2>8, <2>9, <2>10, AgesAreNat
<1> QED BY <1>1, Invariant, PTL DEF Spec, AccessEndsWithItsAge

---------------------------------------------------------------------------
(* The session is SessionTable's *)

Entered == {r \in Requests : Serving(r, "sign-in")}
Refreshed == {r \in Requests : Serving(r, "refresh")}
Row == [s \in {"device"} |-> stored]
Accepted == Refreshed \X {"device"}

Serves(x, kind) == x.pc \in {"sign", "store"} /\ x.kind = kind

LEMMA SlotServes ==
  ASSUME RequestsOK, NEW r \in Requests, NEW x, req' = [req EXCEPT ![r] = x]
  PROVE  /\ Entered' = (Entered \ {r}) \cup (IF Serves(x, "sign-in") THEN {r} ELSE {})
         /\ Refreshed' = (Refreshed \ {r}) \cup (IF Serves(x, "refresh") THEN {r} ELSE {})
<1>1. \A q \in Requests : req'[q] = IF q = r THEN x ELSE req[q]
  BY DEF RequestsOK
<1>2. \A q \in Requests : Serving(q, "sign-in")' <=> Serves(req'[q], "sign-in")
  BY DEF Serving, Serves
<1>3. \A q \in Requests : Serving(q, "refresh")' <=> Serves(req'[q], "refresh")
  BY DEF Serving, Serves
<1>4. \A q \in Requests : \A kind : Serving(q, kind) <=> Serves(req[q], kind)
  BY DEF Serving, Serves
<1> QED BY <1>1, <1>2, <1>3, <1>4 DEF Entered, Refreshed

\* As the table sees the slots.
LEMMA BusyIs ==
  ASSUME NEW r \in Requests PROVE Table!Busy(r) <=> r \in Entered \/ r \in Refreshed
<1>1. (\E f \in Accepted : f[1] = r) <=> r \in Refreshed
  <2>1. r \in Refreshed => <<r, "device">> \in Accepted /\ <<r, "device">>[1] = r
    BY DEF Accepted
  <2>2. \A f \in Accepted : f[1] \in Refreshed
    BY DEF Accepted
  <2> QED BY <2>1, <2>2
<1> QED BY <1>1 DEF Table!Busy, Entered, Refreshed, Accepted

LEMMA LeavesTable ==
  ASSUME NEW r \in Requests, Entered' = Entered \ {r}, Refreshed' = Refreshed \ {r}
  PROVE  Table!Leave(r)
<1>1. Accepted' = {f \in Accepted : f[1] # r}
  BY DEF Accepted
<1> QED BY <1>1 DEF Table!Leave, Entered, Accepted, Refreshed

LEMMA TableSteps ==
  ASSUME IInv, FieldsOK, [Next]_vars
  PROVE  [Table!Next]_(Table!vars)
<1> DEFINE Goal == [Table!Next]_(Table!vars)
<1> USE DEF client, server
<1>0. RequestsOK /\ \A r \in Requests : Slot(req[r])
  BY DEF IInv, RequestsOK
<1>1. ASSUME UNCHANGED <<stored, Entered, Refreshed>> PROVE Goal
  BY <1>1 DEF Table!vars, Entered, Refreshed
<1>2. ASSUME NEW r \in Requests, NEW x, req' = [req EXCEPT ![r] = x], UNCHANGED stored,
             r \notin Entered \cup Refreshed, ~Serves(x, "sign-in"), ~Serves(x, "refresh")
      PROVE  Goal
  <2>1. Entered' = (Entered \ {r}) \cup {} /\ Refreshed' = (Refreshed \ {r}) \cup {}
    BY <1>0, <1>2, SlotServes
  <2>2. Entered' = Entered /\ Refreshed' = Refreshed
    BY <1>2, <2>1
  <2> QED BY <1>1, <1>2, <2>2
<1>3. \A r \in Requests : req[r].pc \notin {"sign", "store"} => r \notin Entered \cup Refreshed
  BY DEF Entered, Refreshed, Serving
<1>4. ASSUME NEW r \in Requests, NEW kind \in Kinds, Send(r, kind) PROVE Goal
  <2>1. req[r].pc = "idle" /\ UNCHANGED stored /\ r \notin Entered \cup Refreshed
    BY <1>3, <1>4, IdleIs DEF Send
  <2>2. ASSUME NEW q \in Requests \ {r}
        PROVE  /\ Serves(req'[q], "sign-in") <=> Serves(req[q], "sign-in")
               /\ Serves(req'[q], "refresh") <=> Serves(req[q], "refresh")
    <3>1. req'[q] = req[q] \/ (q \in Changing /\ req'[q] = Shared(req[q]))
      BY <1>4, SendSlots
    <3> QED BY <3>1, SharedKeeps DEF Serves
  <2>3. /\ Serves(req'[r], "sign-in") <=> kind = "sign-in"
        /\ ~Serves(req'[r], "refresh")
    <3>1. PICK x : x = Sent(r, kind)
      OBVIOUS
    <3>2. (kind = "sign-in" /\ x.pc = "sign" /\ x.kind = "sign-in") \/ (kind # "sign-in" /\ x.pc = "guard")
      BY <3>1 DEF Sent
    <3> QED BY <1>4, <3>1, <3>2, SendSlots DEF Serves
  <2>4. Entered' = Entered \cup (IF kind = "sign-in" THEN {r} ELSE {}) /\ Refreshed' = Refreshed
    <3>1. /\ Entered = {q \in Requests : Serves(req[q], "sign-in")}
          /\ Refreshed = {q \in Requests : Serves(req[q], "refresh")}
          /\ Entered' = {q \in Requests : Serves(req'[q], "sign-in")}
          /\ Refreshed' = {q \in Requests : Serves(req'[q], "refresh")}
      BY DEF Entered, Refreshed, Serving, Serves
    <3> QED BY <2>1, <2>2, <2>3, <3>1
  <2>5. CASE kind = "sign-in"
    <3>1. Table!BeginSignIn(r)
      BY <2>1, <2>4, <2>5, BusyIs DEF Table!BeginSignIn, Entered, Refreshed
    <3> QED BY <3>1 DEF Table!Next
  <2>6. CASE kind # "sign-in"
    BY <1>1, <2>1, <2>4, <2>6
  <2> QED BY <2>5, <2>6
<1>5. ASSUME NEW r \in Requests, Guard(r) PROVE Goal
  <2>1. UNCHANGED stored /\ r \notin Entered \cup Refreshed
    BY <1>3, <1>5 DEF Guard
  <2>2. ASSUME NEW a, Answer(r, a) PROVE Goal
    <3>1. PICK x : x = [pc |-> "answered", kind |-> req[r].kind, alone |-> req[r].alone, answer |-> a]
      OBVIOUS
    <3>2. ~Serves(x, "sign-in") /\ ~Serves(x, "refresh")
      BY <3>1 DEF Serves
    <3> QED BY <1>2, <2>1, <2>2, <3>1, <3>2 DEF Answer, Go
  <2>3. CASE Refused(r)
    BY <2>2, <2>3 DEF Refused
  <2>4. CASE Passed(r)
    <3>1. req[r].kind \in {"read", "sign-out", "refresh"}
      BY <1>5 DEF Guard, FieldsOK, Fields, Kinds
    <3>2. CASE \E a : Answer(r, a)
      BY <2>2, <3>2
    <3>3. ASSUME Go(r, [pc |-> "revoke", kind |-> "sign-out", alone |-> req[r].alone]) PROVE Goal
      <4>1. PICK x : x = [pc |-> "revoke", kind |-> "sign-out", alone |-> req[r].alone]
        OBVIOUS
      <4>2. ~Serves(x, "sign-in") /\ ~Serves(x, "refresh")
        BY <4>1 DEF Serves
      <4> QED BY <1>2, <2>1, <3>3, <4>1, <4>2 DEF Go
    <3>4. ASSUME NEW n, Go(r, [pc |-> "verify", kind |-> "refresh", alone |-> req[r].alone,
                               token |-> req[r].header, life |-> pairs[n].refresh - now])
          PROVE  Goal
      <4>1. PICK x : x = [pc |-> "verify", kind |-> "refresh", alone |-> req[r].alone,
                          token |-> req[r].header, life |-> pairs[n].refresh - now]
        OBVIOUS
      <4>2. ~Serves(x, "sign-in") /\ ~Serves(x, "refresh")
        BY <4>1 DEF Serves
      <4> QED BY <1>2, <2>1, <3>4, <4>1, <4>2 DEF Go
    <3>5. CASE req[r].kind = "read"
      BY <2>4, <3>2, <3>5 DEF Passed
    <3>6. CASE req[r].kind = "sign-out"
      BY <2>4, <3>3, <3>6 DEF Passed
    <3>7. CASE req[r].kind = "refresh"
      BY <2>4, <3>2, <3>4, <3>7 DEF Passed
    <3> QED BY <3>1, <3>5, <3>6, <3>7
  <2> QED BY <1>5, <2>3, <2>4 DEF Guard
<1>6. ASSUME NEW r \in Requests, Verify(r) PROVE Goal
  <2>1. /\ UNCHANGED stored /\ r \notin Entered \cup Refreshed /\ req[r].pc = "verify"
        /\ req[r].token # {}
    BY <1>0, <1>3, <1>6, BusySlot DEF Verify
  <2>2. PICK x : x = IF stored = req[r].token
                     THEN [pc |-> "sign", kind |-> "refresh", alone |-> req[r].alone, life |-> req[r].life]
                     ELSE [pc |-> "answered", kind |-> req[r].kind, alone |-> req[r].alone,
                           answer |-> "REFRESH_TOKEN_REVOKED"]
    OBVIOUS
  <2>3. req' = [req EXCEPT ![r] = x]
    BY <1>6, <2>2 DEF Verify, Go, Answer
  <2>4. CASE stored = req[r].token
    <3>1. Serves(x, "refresh") /\ ~Serves(x, "sign-in")
      BY <2>2, <2>4 DEF Serves
    <3>2. Entered' = Entered /\ Refreshed' = Refreshed \cup {r}
      <4>1. Entered' = (Entered \ {r}) \cup {} /\ Refreshed' = (Refreshed \ {r}) \cup {r}
        BY <1>0, <2>3, <3>1, SlotServes
      <4> QED BY <2>1, <4>1
    <3>3. Accepted' = Accepted \cup {<<r, "device">>}
      BY <3>2 DEF Accepted
    <3>4. Table!Accept(r)
      BY <2>1, <2>4, <3>2, <3>3, BusyIs DEF Table!Accept, Entered, Refreshed, Accepted
    <3> QED BY <3>4 DEF Table!Next
  <2>5. CASE stored # req[r].token
    <3>1. ~Serves(x, "refresh") /\ ~Serves(x, "sign-in")
      BY <2>2, <2>5 DEF Serves
    <3> QED BY <1>2, <2>1, <2>3, <3>1
  <2> QED BY <2>4, <2>5
<1>7. ASSUME NEW r \in Requests, Sign(r) PROVE Goal
  <2>1. PICK x : x = [pc |-> "store", kind |-> req[r].kind, alone |-> req[r].alone,
                      life |-> req[r].life, pair |-> {Len(pairs) + 1}]
    OBVIOUS
  <2>2. req' = [req EXCEPT ![r] = x] /\ UNCHANGED stored /\ req[r].pc = "sign"
    BY <1>7, <2>1 DEF Sign, Go
  <2>3. x.pc = "store" /\ x.kind = req[r].kind
    BY <2>1
  <2>4. /\ r \in Entered <=> Serves(x, "sign-in")
        /\ r \in Refreshed <=> Serves(x, "refresh")
    BY <2>2, <2>3 DEF Entered, Refreshed, Serving, Serves
  <2>5. /\ Entered' = (Entered \ {r}) \cup (IF Serves(x, "sign-in") THEN {r} ELSE {})
        /\ Refreshed' = (Refreshed \ {r}) \cup (IF Serves(x, "refresh") THEN {r} ELSE {})
    BY <1>0, <2>2, SlotServes
  <2>6. Entered' = Entered /\ Refreshed' = Refreshed
    BY <2>4, <2>5
  <2> QED BY <1>1, <2>2, <2>6
<1>8. ASSUME NEW r \in Requests, Store(r) PROVE Goal
  <2>1. PICK x : x = [pc |-> "answered", kind |-> req[r].kind, alone |-> req[r].alone,
                      life |-> req[r].life, pair |-> req[r].pair, answer |-> "pair"]
    OBVIOUS
  <2>2. req' = [req EXCEPT ![r] = x] /\ req[r].pc = "store" /\ stored' = req[r].pair
    BY <1>8, <2>1 DEF Store, SetCookies, Go
  <2>3. ~Serves(x, "sign-in") /\ ~Serves(x, "refresh")
    BY <2>1 DEF Serves
  <2>4. Table!Leave(r)
    BY <1>0, <2>2, <2>3, SlotServes, LeavesTable
  <2>5. Signs(req[r]) /\ stored' # stored
    BY <1>0, <2>2, BusySlot
  <2>6. stored' # {}
    BY <2>2, <2>5 DEF Signs
  <2>7. r \in Entered \/ <<r, "device">> \in Accepted
    BY <2>2, <2>5 DEF Signs, Entered, Accepted, Refreshed, Serving
  <2>8. Table!Write(r)
    <3>1. Row' = [t \in DOMAIN Row \cup {"device"} |-> IF t = "device" THEN Row'["device"] ELSE Row[t]]
      BY DEF Row
    <3>2. Row'["device"] = stored' /\ Row["device"] = stored /\ "device" \in DOMAIN Row'
      BY DEF Row
    <3> QED BY <2>4, <2>5, <2>6, <2>7, <3>1, <3>2 DEF Table!Write, Entered, Accepted, Refreshed, Row
  <2> QED BY <2>8 DEF Table!Next
<1>9. ASSUME NEW r \in Requests, Revoke(r) PROVE Goal
  <2>1. PICK x : x = [pc |-> "answered", kind |-> req[r].kind, alone |-> req[r].alone,
                      answer |-> "signed out"]
    OBVIOUS
  <2>2. req' = [req EXCEPT ![r] = x] /\ req[r].pc = "revoke" /\ stored' = {}
    BY <1>9, <2>1 DEF Revoke, Answer, Go
  <2>3. ~Serves(x, "sign-in") /\ ~Serves(x, "refresh")
    BY <2>1 DEF Serves
  <2>4. CASE stored = {}
    BY <1>2, <1>3, <2>2, <2>3, <2>4
  <2>5. CASE stored # {}
    <3>1. Entered' = Entered /\ Refreshed' = Refreshed
      <4>1. Entered' = (Entered \ {r}) \cup {} /\ Refreshed' = (Refreshed \ {r}) \cup {}
        BY <1>0, <2>2, <2>3, SlotServes
      <4> QED BY <1>3, <2>2, <4>1
    <3>2. Row' = [Row EXCEPT !["device"] = {}] /\ Row["device"] = stored /\ "device" \in DOMAIN Row
      BY <2>2 DEF Row
    <3>3. Table!SignOut
      BY <2>5, <3>1, <3>2 DEF Table!SignOut, Entered, Refreshed, Row
    <3> QED BY <3>3 DEF Table!Next
  <2> QED BY <2>4, <2>5
<1>10. ASSUME NEW r \in Requests, Deliver(r) \/ Lose(r) PROVE Goal
  <2>1. req' = [req EXCEPT ![r] = Idle] /\ UNCHANGED stored
    BY <1>10 DEF Deliver, Lose
  <2>2. ~Serves(Idle, "sign-in") /\ ~Serves(Idle, "refresh")
    BY IdleIs DEF Serves
  <2>3. Entered' = Entered \ {r} /\ Refreshed' = Refreshed \ {r}
    BY <1>0, <2>1, <2>2, SlotServes
  <2>4. CASE r \in Entered \/ r \in Refreshed
    <3>1. Table!GiveUp(r)
      BY <2>1, <2>3, <2>4, BusyIs, LeavesTable DEF Table!GiveUp
    <3> QED BY <3>1 DEF Table!Next
  <2>5. CASE r \notin Entered /\ r \notin Refreshed
    BY <1>1, <2>1, <2>3, <2>5
  <2> QED BY <2>4, <2>5
<1>11. CASE Tick \/ UNCHANGED vars
  BY <1>1, <1>11 DEF Tick, vars, Entered, Refreshed, Serving
<1> QED
  BY <1>4, <1>5, <1>6, <1>7, <1>8, <1>9, <1>10, <1>11 DEF Next

\* The session changes as SessionTable allows (TableIsImplemented): whatever the
\* client sends, loses and repeats, each change is by a sign-in, a sign-out or a
\* refresh that was accepted while the session was open, once by each.
THEOREM TableIsKept == Spec => TableIsImplemented
<1>1. Init => Table!Init
  BY DEF Init, Table!Init, Serving, Idle
<1>2. IInv /\ FieldsOK /\ [Next]_vars => [Table!Next]_(Table!vars)
  BY TableSteps
<1> QED BY <1>1, <1>2, Invariant, PTL DEF Spec, TableIsImplemented, Table!Spec
=============================================================================
