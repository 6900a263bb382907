--------------------------- MODULE UploadRequest ---------------------------
(***************************************************************************)
(* What FileService.create promises the queue and the client, whatever the *)
(* stream and Redis do: one batch is on its way at a time, they arrive in  *)
(* the order of the file, and the one flagged `last` only after the client *)
(* was answered and after all the others.  CsvStream (one upload, row by   *)
(* row) and ImportPipeline (several, batch by batch) both implement it: it *)
(* is where the two models meet.                                           *)
(***************************************************************************)
EXTENDS Naturals

CONSTANT Uploads   \* calls of FileService.create

VARIABLES
  step,      \* of the request
  handed,    \* batches given to queue.add
  accepted,  \* of these, the ones Redis has
  whole      \* the batch flagged `last` is among them

vars == <<step, handed, accepted, whole>>

Steps == {"reading", "answered", "refused", "lost"}

Init ==
  /\ step = [u \in Uploads |-> "reading"]
  /\ handed = [u \in Uploads |-> 0]
  /\ accepted = [u \in Uploads |-> 0]
  /\ whole = [u \in Uploads |-> FALSE]

Hand(u) == handed' = [handed EXCEPT ![u] = @ + 1]
Arrive(u) == accepted' = [accepted EXCEPT ![u] = @ + 1]

\* `await queue.add` of a full batch; a model may leave the wait out.
Batch(u) ==
  /\ step[u] = "reading" /\ handed[u] = accepted[u]
  /\ Hand(u)
  /\ Arrive(u) \/ accepted' = accepted
  /\ UNCHANGED <<step, whole>>

\* parseCSV resolved: the rest is handed over and the client answered, though
\* a full batch may still be on its way.
Answer(u) ==
  /\ step[u] = "reading"
  /\ step' = [step EXCEPT ![u] = "answered"]
  /\ Hand(u)
  /\ UNCHANGED <<accepted, whole>>

\* parseCSV rejected: what was handed over stays in the queue, nothing follows.
Refuse(u) ==
  /\ step[u] = "reading"
  /\ step' = [step EXCEPT ![u] = "refused"]
  /\ UNCHANGED <<handed, accepted, whole>>

\* Redis has the oldest batch on its way, which is the last job when the
\* client was answered and no other is on its way.
Accept(u) ==
  /\ accepted[u] < handed[u] /\ step[u] # "lost"
  /\ Arrive(u)
  /\ whole' = [whole EXCEPT ![u] = step[u] = "answered" /\ accepted[u] + 1 = handed[u]]
  /\ UNCHANGED <<step, handed>>

\* The process died, and with it what was on its way; a request that had
\* nothing left to do lost nothing.
Lose(U) ==
  /\ \A u \in U : step[u] = "reading" \/ accepted[u] < handed[u]
  /\ step' = [u \in Uploads |-> IF u \in U THEN "lost" ELSE step[u]]
  /\ handed' = [u \in Uploads |-> IF u \in U THEN accepted[u] ELSE handed[u]]
  /\ UNCHANGED <<accepted, whole>>

Next ==
  \/ \E u \in Uploads : Batch(u) \/ Answer(u) \/ Refuse(u) \/ Accept(u)
  \/ \E U \in SUBSET Uploads : Lose(U)

Spec == Init /\ [][Next]_vars
============================================================================
