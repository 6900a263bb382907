--------------------------- MODULE SessionTable ---------------------------
(***************************************************************************)
(* What AuthService promises about the table `auth`: each session is null  *)
(* or holds one token, and it is written by sign-ins, by sign-outs, and by *)
(* refreshes that were accepted while the session was open, once by each.  *)
(* AuthSession (many users and devices) and ClientSession (one device and  *)
(* its client) both implement it: they share their server.                 *)
(***************************************************************************)
CONSTANT Slots   \* requests being served

VARIABLES
  stored,     \* sessions there have been, to {} (closed) or {token}
  entering,   \* slots that serve a sign-in
  refreshing  \* <<slot, session>> of every refresh that was accepted

vars == <<stored, entering, refreshing>>

Init == (\A s \in DOMAIN stored : stored[s] = {}) /\ entering = {} /\ refreshing = {}

Busy(r) == r \in entering \/ \E f \in refreshing : f[1] = r

BeginSignIn(r) ==
  /\ UNCHANGED <<stored, refreshing>>
  /\ ~Busy(r)
  /\ entering' = entering \cup {r}

\* The token presented is the one the session stores: it is open.
Accept(r) ==
  /\ UNCHANGED <<stored, entering>>
  /\ ~Busy(r)
  /\ \E s \in DOMAIN stored :
       stored[s] # {} /\ refreshing' = refreshing \cup {<<r, s>>}

Leave(r) ==
  /\ entering' = entering \ {r}
  /\ refreshing' = {f \in refreshing : f[1] # r}

\* Refused, aborted or failed.
GiveUp(r) == UNCHANGED stored /\ Busy(r) /\ Leave(r)

\* The request that was let in, and then done, writes a new token to the
\* session it was let in for.
Write(r) ==
  \E s \in DOMAIN stored' :
    /\ r \in entering \/ <<r, s>> \in refreshing
    /\ stored'[s] # {} /\ (s \in DOMAIN stored => stored'[s] # stored[s])
    /\ stored' = [t \in DOMAIN stored \cup {s} |->
                    IF t = s THEN stored'[s] ELSE stored[t]]
    /\ Leave(r)

SignOut ==
  /\ UNCHANGED <<entering, refreshing>>
  /\ \E s \in DOMAIN stored :
       stored[s] # {} /\ stored' = [stored EXCEPT ![s] = {}]

Next ==
  \/ \E r \in Slots : BeginSignIn(r) \/ Accept(r) \/ GiveUp(r) \/ Write(r)
  \/ SignOut

Spec == Init /\ [][Next]_vars
============================================================================
