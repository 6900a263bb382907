----------------------- MODULE ImportPipelineProofs -----------------------
(***************************************************************************)
(* Proofs about ImportPipeline, for every set of imports, every number of  *)
(* batches, attempts, slots, stalls and crashes.                           *)
(***************************************************************************)
EXTENDS ImportPipeline, ListLemmas, FiniteSetTheorems, SequenceTheorems, TLAPS

---------------------------------------------------------------------------
(* The jobs *)

LEMMA LastIsAJob ==
  ASSUME NEW i \in Imports PROVE Last(i) \in Jobs /\ Last(i)[1] = i
BY BatchAssumption DEF Last, Jobs

LEMMA BatchCountType ==
  ASSUME NEW i \in Imports PROVE BatchCount[i] \in Nat /\ BatchCount[i] >= 1
BY BatchAssumption

LEMMA JobParts ==
  ASSUME NEW j \in Jobs
  PROVE  /\ j[1] \in Imports /\ j[2] \in 1..BatchCount[j[1]]
         /\ j = <<j[1], j[2]>>
         /\ IsLast(j) => j = Last(j[1])
BY DEF Jobs, IsLast, Last

LEMMA JobOf ==
  ASSUME NEW i \in Imports, NEW b \in 1..BatchCount[i] PROVE <<i, b>> \in Jobs
BY DEF Jobs

---------------------------------------------------------------------------
(* Type correctness *)

LEMMA TypeInit == Init => TypeOK
<1> SUFFICES ASSUME Init PROVE TypeOK
  OBVIOUS
<1>1. wait \in Seq(Jobs) /\ reportQueue \in Seq(Reports)
  BY EmptySeq DEF Init
<1> QED
  BY <1>1, BatchAssumption, LimitAssumption DEF Init, TypeOK, UploadStates, JobStates

LEMMA EmitType ==
  ASSUME TypeOK, NEW j \in Jobs, NEW name \in ReportNames
  PROVE  Emit(j, name) \subseteq Events
BY JobParts DEF TypeOK, Emit, Events

\* An attempt adds a copy, unless the rows bring ids of their own.
LEMMA CopiesType ==
  ASSUME NEW j
  PROVE  \A n \in Copies(j) : n = 1 \/ (n = 0 /\ j[1] \in Keyed)
BY DEF Copies

LEMMA TypeStep == TypeOK /\ [Next]_vars => TypeOK'
<1> SUFFICES ASSUME TypeOK, [Next]_vars PROVE TypeOK'
  OBVIOUS
<1> USE DEF TypeOK, requestVars, jobVars, eventVars, reportVars
<1>1. ASSUME NEW i \in Imports, StreamBatch(i) PROVE TypeOK'
  <2>1. sent[i] + 1 \in 1..BatchCount[i] /\ BatchCount[i] \in Nat
    BY <1>1, BatchCountType DEF StreamBatch
  <2>2. <<i, sent[i] + 1>> \in Jobs
    BY <2>1, JobOf
  <2>3. wait' \in Seq(Jobs)
    BY <1>1, <2>2, PutAtTheEnd DEF StreamBatch, Enqueue
  <2>4. sent' \in [Imports -> Nat] /\ \A k \in Imports : sent'[k] <= BatchCount[k]
    BY <1>1, <2>1 DEF StreamBatch
  <2>5. state' \in [Jobs -> JobStates]
    BY <1>1 DEF StreamBatch, Enqueue, JobStates
  <2> QED BY <1>1, <2>3, <2>4, <2>5 DEF StreamBatch, Enqueue
<1>2. ASSUME NEW i \in Imports, Respond(i) PROVE TypeOK'
  BY <1>2, BatchAssumption DEF Respond, UploadStates
<1>3. ASSUME NEW i \in Imports, LastAdded(i) PROVE TypeOK'
  <2>1. wait' \in Seq(Jobs)
    BY <1>3, LastIsAJob, PutAtTheEnd DEF LastAdded, Enqueue
  <2> QED BY <1>3, <2>1, LastIsAJob DEF LastAdded, Enqueue, JobStates, UploadStates
<1>4. CASE Start
  <2>1. Head(wait) \in Jobs /\ Tail(wait) \in Seq(Jobs)
    BY <1>4, TakeFromTheHead DEF Start
  <2>2. wait' \in Seq(Jobs)
    BY <1>4, <2>1 DEF Start
  <2>3. state' = [state EXCEPT ![Head(wait)] = "active"]
        /\ attemptsMade' = [attemptsMade EXCEPT ![Head(wait)] = @ + 1]
    BY <1>4 DEF Start
  <2>4. state' \in [Jobs -> JobStates] /\ attemptsMade' \in [Jobs -> Nat]
    BY <2>1, <2>3, SMTT(20) DEF JobStates
  <2>5. UNCHANGED <<requestVars, stalls, unanswered, rows, eventVars, reportVars, crashes>>
    BY <1>4 DEF Start
  <2> QED BY <2>2, <2>4, <2>5
<1>5. ASSUME NEW j \in Jobs, Insert(j) PROVE TypeOK'
  <2>1. PICK n \in Copies(j) : rows' = [rows EXCEPT ![j] = @ + n]
    BY <1>5 DEF Insert
  <2>2. rows' \in [Jobs -> Nat]
    <3>1. n = 1 \/ n = 0
      BY CopiesType
    <3>2. n \in Nat
      BY <3>1
    <3> QED BY <2>1, <3>2
  <2>3. state' \in [Jobs -> JobStates]
    BY <1>5 DEF Insert, JobStates
  <2> QED BY <1>5, <2>2, <2>3 DEF Insert
<1>6. ASSUME NEW j \in Jobs, Complete(j) PROVE TypeOK'
  BY <1>6, EmitType DEF Complete, JobStates, ReportNames
<1>7. ASSUME NEW j \in Jobs, InsertFails(j) PROVE TypeOK'
  <2>1. unanswered' \in [Jobs -> Nat]
    BY <1>7 DEF InsertFails
  <2>2. state' \in [Jobs -> JobStates] /\ events' \subseteq Events
    BY <1>7, EmitType DEF InsertFails, JobStates, ReportNames
  <2>3. UNCHANGED <<requestVars, wait, attemptsMade, stalls, rows, counted, reportVars, crashes>>
    BY <1>7 DEF InsertFails
  <2> QED BY <2>1, <2>2, <2>3
<1>8. ASSUME NEW j \in Jobs, Promote(j) PROVE TypeOK'
  <2>1. wait' \in Seq(Jobs)
    BY <1>8, PutAtTheEnd DEF Promote, Enqueue
  <2> QED BY <1>8, <2>1 DEF Promote, Enqueue, JobStates
<1>9. ASSUME NEW j \in Jobs, Reclaim(j) PROVE TypeOK'
  <2>1. <<j>> \o wait \in Seq(Jobs)
    BY PutAtTheHead
  <2>2. Emit(j, "report-failed") \subseteq Events
    BY EmitType DEF ReportNames
  <2>3. wait' \in Seq(Jobs) /\ events' \subseteq Events /\ state' \in [Jobs -> JobStates]
    BY <1>9, <2>1, <2>2 DEF Reclaim, JobStates
  <2>4. stalls' \in [Jobs -> Nat]
    BY <1>9 DEF Reclaim
  <2>5. UNCHANGED <<requestVars, attemptsMade, unanswered, rows, counted, reportVars, crashes>>
    BY <1>9 DEF Reclaim
  <2> QED BY <2>3, <2>4, <2>5
<1>10. ASSUME NEW e \in events, Count(e) PROVE TypeOK'
  <2>1. CountRows(e.imp) \in Totals
    BY DEF CountRows, Totals, Jobs
  <2>2. NewReport(e) \in Reports
    BY <2>1 DEF NewReport, Reports
  <2>3. counted' \subseteq Reports /\ events' \subseteq Events
    BY <1>10, <2>2 DEF Count
  <2> QED BY <1>10, <2>3 DEF Count
<1>11. ASSUME NEW r \in counted, AddReport(r) PROVE TypeOK'
  BY <1>11, PutAtTheEnd DEF AddReport
<1>12. CASE StartReport
  <2>1. Head(reportQueue) \in Reports /\ Tail(reportQueue) \in Seq(Reports)
    BY <1>12, TakeFromTheHead DEF StartReport
  <2> QED BY <1>12, <2>1 DEF StartReport
<1>13. ASSUME NEW r \in reporting, Rollback(r) PROVE TypeOK'
  BY <1>13 DEF Rollback, Reports
<1>14. ASSUME NEW r \in reporting, FinishReport(r) PROVE TypeOK'
  BY <1>14 DEF FinishReport, Reports
<1>15. ASSUME NEW r \in reporting, RollbackFails(r) PROVE TypeOK'
  BY <1>15 DEF RollbackFails, Reports
<1>16. ASSUME NEW r \in stalledReports, ReclaimReport(r) PROVE TypeOK'
  <2>1. Requeued(r) \in Reports /\ r.event \in Events
    BY <1>16 DEF Reports, Requeued
  <2>2. <<Requeued(r)>> \o reportQueue \in Seq(Reports)
    BY <2>1, PutAtTheHead
  <2> QED BY <1>16, <2>1, <2>2 DEF ReclaimReport
<1>17. CASE Crash
  <2>1. \A r \in counted : r.event \in Events
    BY DEF Reports
  <2>2. lostReports' \subseteq Events /\ stalledReports' \subseteq Reports
    BY <1>17, <2>1 DEF Crash
  <2> QED BY <1>17, <2>2, LimitAssumption DEF Crash, UploadStates, JobStates
<1>18. CASE UNCHANGED vars
  BY <1>18 DEF vars
<1>19. ASSUME NEW i \in Imports, Reject(i) PROVE TypeOK'
  BY <1>19 DEF Reject, UploadStates
<1> QED
  BY <1>1, <1>2, <1>3, <1>4, <1>5, <1>6, <1>7, <1>8, <1>9, <1>10, <1>11, <1>12,
     <1>13, <1>14, <1>15, <1>16, <1>17, <1>18, <1>19 DEF Next

(* Every variable of the import keeps its type, whatever crashes and fails: *)
(* no request hands over more batches than its file has.                    *)
THEOREM TypeInvariant == Spec => []TypeOK
BY TypeInit, TypeStep, PTL DEF Spec

---------------------------------------------------------------------------
(* The steps of a job, seen from outside the queue *)

Untouched(j) == UNCHANGED <<state[j], attemptsMade[j], stalls[j], unanswered[j]>>

Moves(j) ==
  \/ /\ Untouched(j)
     /\ \/ rows'[j] = rows[j]
        \/ /\ rows'[j] = 0
           /\ \E r \in reporting : r.event.name = "report-failed" /\ SameKey(r.event.imp, j[1])
  \/ /\ UNCHANGED <<attemptsMade[j], stalls[j], unanswered[j], rows[j]>>
     /\ \/ state[j] \in {"absent", "delayed"} /\ state'[j] = "waiting"
        \/ state[j] = "committed" /\ state'[j] = "completed"
        \/ state[j] = "active" /\ state'[j] = "delayed" /\ attemptsMade[j] < Attempts
        \/ state[j] = "active" /\ state'[j] = "failed"
        \/ state[j] \in {"active", "committed"} /\ state'[j] = "stalled"
  \/ /\ state[j] = "waiting" /\ state'[j] = "active"
     /\ attemptsMade'[j] = attemptsMade[j] + 1
     /\ UNCHANGED <<stalls[j], unanswered[j], rows[j]>>
  \/ /\ state[j] = "active" /\ state'[j] = "committed"
     /\ rows'[j] = rows[j] + 1 \/ (rows'[j] = rows[j] /\ j[1] \in Keyed)
     /\ UNCHANGED <<attemptsMade[j], stalls[j], unanswered[j]>>
  \/ /\ state[j] = "committed"
     /\ state'[j] = IF attemptsMade[j] < Attempts THEN "delayed" ELSE "failed"
     /\ unanswered'[j] = unanswered[j] + 1
     /\ UNCHANGED <<attemptsMade[j], stalls[j], rows[j]>>
  \/ /\ state[j] = "stalled" /\ state'[j] \in {"waiting", "failed"}
     /\ stalls'[j] = stalls[j] + 1
     /\ UNCHANGED <<attemptsMade[j], unanswered[j], rows[j]>>

LEMMA JobMoves ==
  ASSUME TypeOK, QueueOK, [Next]_vars, NEW j \in Jobs
  PROVE  Moves(j)
<1> USE DEF TypeOK, requestVars, jobVars, eventVars, reportVars
<1>1. ASSUME NEW i \in Imports, StreamBatch(i) PROVE Moves(j)
  <2>1. sent[i] + 1 \in 1..BatchCount[i] /\ sent[i] + 1 > sent[i]
    BY <1>1, BatchCountType DEF StreamBatch
  <2>2. <<i, sent[i] + 1>> \in Jobs
    BY <2>1, JobOf
  <2>3. state[<<i, sent[i] + 1>>] = "absent"
    BY <2>1, <2>2 DEF QueueOK
  <2> QED BY <1>1, <2>2, <2>3 DEF StreamBatch, Enqueue, Moves, Untouched
<1>2. ASSUME NEW i \in Imports, LastAdded(i) PROVE Moves(j)
  <2>1. Last(i) \in Jobs /\ state[Last(i)] = "absent"
    BY <1>2, LastIsAJob DEF LastAdded, QueueOK, IsLast, Last
  <2> QED BY <1>2, <2>1 DEF LastAdded, Enqueue, Moves, Untouched
<1>3. CASE Start
  <2>1. Head(wait) \in Jobs /\ state[Head(wait)] = "waiting"
    BY <1>3, TakeFromTheHead DEF Start, QueueOK
  <2> QED BY <1>3, <2>1 DEF Start, Moves, Untouched
<1>4. ASSUME NEW k \in Jobs, Insert(k) PROVE Moves(j)
  BY <1>4, CopiesType DEF Insert, Moves, Untouched
<1>5. ASSUME NEW k \in Jobs, Complete(k) PROVE Moves(j)
  BY <1>5 DEF Complete, Moves, Untouched
<1>6. ASSUME NEW k \in Jobs, InsertFails(k) PROVE Moves(j)
  BY <1>6 DEF InsertFails, Moves, Untouched
<1>7. ASSUME NEW k \in Jobs, Promote(k) PROVE Moves(j)
  BY <1>7 DEF Promote, Enqueue, Moves, Untouched
<1>8. ASSUME NEW k \in Jobs, Reclaim(k) PROVE Moves(j)
  BY <1>8 DEF Reclaim, Moves, Untouched
<1>9. ASSUME NEW r \in reporting, Rollback(r) PROVE Moves(j)
  BY <1>9 DEF Rollback, Moves, Untouched
<1>10. CASE Crash
  BY <1>10 DEF Crash, Busy, Moves, Untouched
<1>11. CASE UNCHANGED <<jobVars, rows>>
  BY <1>11 DEF Moves, Untouched
<1> QED
  BY <1>1, <1>2, <1>3, <1>4, <1>5, <1>6, <1>7, <1>8, <1>9, <1>10, <1>11
  DEF Next, vars, Respond, Reject, Count, AddReport, StartReport, FinishReport,
      RollbackFails, ReclaimReport

---------------------------------------------------------------------------
(* The wait list stays consistent with the jobs *)

LEMMA QueueStep == TypeOK /\ QueueOK /\ [Next]_vars => QueueOK'
<1> SUFFICES ASSUME TypeOK, QueueOK, [Next]_vars PROVE QueueOK'
  OBVIOUS
<1> USE DEF TypeOK, requestVars, jobVars, eventVars, reportVars
<1> DEFINE WaitOK == IsInjective(wait) /\ \A j \in Range(wait) : state[j] = "waiting"
           SentOK(i) ==
             /\ upload[i] = "streaming" => sent[i] < BatchCount[i]
             /\ upload[i] \in {"responded", "enqueued"} => sent[i] = BatchCount[i]
           JobOK(j) ==
             /\ j[2] > sent[j[1]] \/ (IsLast(j) /\ upload[j[1]] # "enqueued")
                  => state[j] = "absent"
             /\ state[j] = "absent" => attemptsMade[j] = 0
             /\ state[j] \notin {"absent", "waiting"} => attemptsMade[j] > 0
<1>0. WaitOK /\ (\A i \in Imports : SentOK(i)) /\ \A j \in Jobs : JobOK(j)
  BY DEF QueueOK
<1>1. ASSUME NEW k \in Jobs, k \notin Range(wait), Enqueue(k) PROVE WaitOK'
  BY <1>0, <1>1, PutAtTheEnd, InjectiveAtTheEnd DEF Enqueue
<1>2. ASSUME NEW k \in Jobs, state[k] # "waiting", UNCHANGED wait,
             \A j \in Jobs : j # k => state'[j] = state[j]
      PROVE  WaitOK'
  <2>1. Range(wait) \subseteq Jobs /\ k \notin Range(wait)
    BY <1>0, <1>2, RangeOfSeq
  <2> QED BY <1>0, <1>2, <2>1
<1>3. ASSUME NEW i \in Imports, StreamBatch(i) PROVE QueueOK'
  <2> DEFINE k == <<i, sent[i] + 1>>
  <2>1. sent[i] + 1 \in 1..BatchCount[i] /\ BatchCount[i] \in Nat /\ sent[i] \in Nat
        /\ sent[i] + 1 < BatchCount[i]
    BY <1>3, BatchCountType DEF StreamBatch
  <2>2. k \in Jobs /\ k[1] = i /\ k[2] = sent[i] + 1
    BY <2>1, JobOf
  <2>3. state[k] = "absent"
    BY <1>0, <2>1, <2>2
  <2>4. WaitOK'
    BY <1>0, <1>1, <1>3, <2>2, <2>3 DEF StreamBatch
  <2>5. \A j \in Jobs : JobOK(j)'
    <3> TAKE j \in Jobs
    <3>1. j[1] \in Imports /\ j[2] \in Nat /\ j = <<j[1], j[2]>>
      BY JobParts, BatchCountType
    <3>2. CASE j = k
      BY <1>0, <1>3, <2>1, <2>2, <2>3, <3>2 DEF StreamBatch, Enqueue, IsLast
    <3>3. CASE j # k
      <4>1. state'[j] = state[j] /\ UNCHANGED <<attemptsMade, upload>>
        BY <1>3, <2>2, <3>3 DEF StreamBatch, Enqueue
      <4>2. sent'[j[1]] = IF j[1] = i THEN sent[i] + 1 ELSE sent[j[1]]
        BY <1>3, <3>1 DEF StreamBatch
      <4>3. j[2] > sent'[j[1]] => j[2] > sent[j[1]]
        BY <2>1, <3>1, <4>2
      <4> QED BY <1>0, <4>1, <4>3
    <3> QED BY <3>2, <3>3
  <2>6. \A h \in Imports : SentOK(h)'
    BY <1>0, <1>3, <2>1 DEF StreamBatch
  <2> QED BY <2>4, <2>5, <2>6 DEF QueueOK
<1>4. ASSUME NEW i \in Imports, Respond(i) PROVE QueueOK'
  <2>1. BatchCount[i] \in Nat /\ sent[i] + 1 = BatchCount[i] /\ upload[i] # "enqueued"
    BY <1>4, BatchCountType DEF Respond
  <2>2. \A j \in Jobs : JobOK(j)'
    <3> TAKE j \in Jobs
    <3> HIDE DEF TypeOK
    <3>1. j[1] \in Imports /\ j[2] \in Nat /\ BatchCount[j[1]] \in Nat /\ j[2] <= BatchCount[j[1]]
      BY JobParts, BatchCountType
    <3>2. UNCHANGED <<state, attemptsMade>>
      BY <1>4 DEF Respond
    <3>3. CASE j[1] = i
      <4>1. sent'[i] = BatchCount[i] /\ sent[i] \in Nat /\ upload'[i] = "responded"
        BY <1>4, <2>1 DEF Respond, TypeOK
      <4>2. j[2] > sent[i] \/ IsLast(j) => state[j] = "absent"
        BY <1>0, <2>1, <3>1, <3>3 DEF IsLast
      <4>3. state[j] = "absent" => attemptsMade[j] = 0
        BY <1>0
      <4>4. state[j] \notin {"absent", "waiting"} => attemptsMade[j] > 0
        BY <1>0
      <4> QED BY <2>1, <3>1, <3>2, <3>3, <4>1, <4>2, <4>3, <4>4 DEF IsLast
    <3>4. CASE j[1] # i
      <4>1. sent'[j[1]] = sent[j[1]] /\ upload'[j[1]] = upload[j[1]]
        BY <1>4, <3>1, <3>4 DEF Respond, TypeOK
      <4>2. JobOK(j)
        BY <1>0
      <4> QED BY <3>2, <4>1, <4>2 DEF IsLast
    <3> QED BY <3>3, <3>4
  <2>3. WaitOK' /\ \A h \in Imports : SentOK(h)'
    BY <1>0, <1>4 DEF Respond
  <2> QED BY <2>2, <2>3 DEF QueueOK
<1>5. ASSUME NEW i \in Imports, LastAdded(i) PROVE QueueOK'
  <2>1. Last(i) \in Jobs /\ Last(i)[1] = i /\ Last(i)[2] = BatchCount[i] /\ state[Last(i)] = "absent"
    BY <1>0, <1>5, LastIsAJob DEF LastAdded, IsLast, Last
  <2>2. WaitOK'
    BY <1>0, <1>1, <1>5, <2>1 DEF LastAdded
  <2>3. \A j \in Jobs : JobOK(j)'
    <3> TAKE j \in Jobs
    <3>1. j[1] \in Imports /\ j = <<j[1], j[2]>> /\ (IsLast(j) => j = Last(j[1]))
      BY JobParts
    <3>2. CASE j = Last(i)
      BY <1>0, <1>5, <2>1, <3>2, BatchCountType DEF LastAdded, Enqueue
    <3>3. CASE j # Last(i)
      <4>1. state'[j] = state[j] /\ UNCHANGED <<attemptsMade, sent>>
        BY <1>5, <2>1, <3>3 DEF LastAdded, Enqueue
      <4>2. IsLast(j) => upload'[j[1]] = upload[j[1]]
        BY <1>5, <3>1, <3>3 DEF LastAdded
      <4>3. JobOK(j)
        BY <1>0
      <4> HIDE DEF TypeOK
      <4> QED BY <4>1, <4>2, <4>3 DEF IsLast
    <3> QED BY <3>2, <3>3
  <2>4. \A h \in Imports : SentOK(h)'
    BY <1>0, <1>5 DEF LastAdded
  <2> QED BY <2>2, <2>3, <2>4 DEF QueueOK
<1>6. CASE Start
  <2> DEFINE k == Head(wait)
  <2>1. k \in Jobs /\ state[k] = "waiting" /\ Range(Tail(wait)) \subseteq Range(wait)
    BY <1>0, <1>6, TakeFromTheHead DEF Start
  <2>2. IsInjective(Tail(wait)) /\ k \notin Range(Tail(wait))
    BY <1>0, <1>6, InjectiveTail DEF Start
  <2>3. WaitOK'
    <3>1. \A j \in Range(Tail(wait)) : j \in Jobs /\ j # k
      BY <2>1, <2>2, RangeOfSeq
    <3> QED BY <1>0, <1>6, <2>1, <2>2, <3>1 DEF Start
  <2>4. \A j \in Jobs : JobOK(j)'
    <3> TAKE j \in Jobs
    <3>1. CASE j = k
      <4>1. state'[j] = "active" /\ attemptsMade'[j] > 0
        BY <1>6, <2>1, <3>1 DEF Start
      <4>2. ~(j[2] > sent[j[1]]) /\ ~(IsLast(j) /\ upload[j[1]] # "enqueued")
        BY <1>0, <2>1, <3>1
      <4>3. UNCHANGED <<sent, upload>>
        BY <1>6 DEF Start
      <4> QED BY <4>1, <4>2, <4>3 DEF IsLast
    <3>2. CASE j # k
      <4>1. state'[j] = state[j] /\ attemptsMade'[j] = attemptsMade[j] /\ UNCHANGED <<sent, upload>>
        BY <1>6, <2>1, <3>2 DEF Start
      <4>2. JobOK(j)
        BY <1>0
      <4> QED BY <4>1, <4>2 DEF IsLast
    <3> QED BY <3>1, <3>2
  <2>5. \A h \in Imports : SentOK(h)'
    BY <1>0, <1>6 DEF Start
  <2> QED BY <2>3, <2>4, <2>5 DEF QueueOK
<1>7. ASSUME NEW k \in Jobs, Insert(k) \/ Complete(k) \/ InsertFails(k) PROVE QueueOK'
  <2>1. /\ state[k] \in {"active", "committed"}
        /\ state' = [state EXCEPT ![k] = state'[k]]
        /\ state'[k] \notin {"absent", "waiting"}
        /\ UNCHANGED <<wait, upload, sent, attemptsMade>>
    BY <1>7 DEF Insert, Complete, InsertFails
  <2>2. WaitOK'
    BY <1>2, <2>1
  <2> QED BY <1>0, <2>1, <2>2 DEF QueueOK
<1>8. ASSUME NEW k \in Jobs, Promote(k) PROVE QueueOK'
  <2>1. WaitOK'
    BY <1>0, <1>1, <1>8 DEF Promote
  <2> QED BY <1>0, <1>8, <2>1 DEF Promote, Enqueue, QueueOK
<1>9. ASSUME NEW k \in Jobs, Reclaim(k) PROVE QueueOK'
  <2>1. /\ state[k] = "stalled" /\ state' = [state EXCEPT ![k] = state'[k]]
        /\ state'[k] \in {"waiting", "failed"}
        /\ UNCHANGED <<upload, sent, attemptsMade>>
    BY <1>9 DEF Reclaim
  <2>2. CASE wait' = <<k>> \o wait /\ state'[k] = "waiting"
    <3>0. k \notin Range(wait)
      BY <1>0, <2>1
    <3>1. IsInjective(<<k>> \o wait)
      BY <1>0, <3>0, InjectiveAtTheHead
    <3>2. Range(<<k>> \o wait) = Range(wait) \cup {k}
      BY PutAtTheHead
    <3>3. \A j \in Range(wait) : j \in Jobs /\ j # k
      BY <3>0, RangeOfSeq
    <3>4. state'[k] = "waiting" /\ \A j \in Range(wait) : state'[j] = state[j]
      BY <2>1, <2>2, <3>3
    <3>5. \A j \in Range(wait') : state'[j] = "waiting"
      BY <1>0, <2>2, <3>2, <3>4
    <3>6. IsInjective(wait')
      BY <2>2, <3>1
    <3>7. WaitOK'
      BY <3>5, <3>6
    <3> QED BY <1>0, <2>1, <3>7 DEF QueueOK
  <2>3. CASE wait' = wait /\ state'[k] = "failed"
    <3>1. WaitOK'
      BY <1>2, <2>1, <2>3
    <3> QED BY <1>0, <2>1, <3>1 DEF QueueOK
  <2> QED BY <1>9, <2>2, <2>3 DEF Reclaim
<1>10. CASE Crash
  <2>1. \A j \in Range(wait) : j \in Jobs /\ j \notin Busy
    BY <1>0, RangeOfSeq DEF Busy
  <2>2. WaitOK'
    BY <1>0, <1>10, <2>1 DEF Crash
  <2>3. \A j \in Jobs : j[1] \in Imports
    BY JobParts
  <2> QED BY <1>0, <1>10, <2>2, <2>3 DEF Crash, Busy, QueueOK
<1>11. CASE UNCHANGED <<requestVars, jobVars>>
  BY <1>0, <1>11 DEF QueueOK
<1>12. ASSUME NEW i \in Imports, Reject(i) PROVE QueueOK'
  <2>1. WaitOK' /\ \A h \in Imports : SentOK(h)'
    BY <1>0, <1>12 DEF Reject
  <2>2. \A j \in Jobs : JobOK(j)'
    BY <1>0, <1>12, JobParts DEF Reject, IsLast
  <2> QED BY <2>1, <2>2 DEF QueueOK
<1> QED
  BY <1>3, <1>4, <1>5, <1>6, <1>7, <1>8, <1>9, <1>10, <1>11, <1>12
  DEF Next, vars, Count, AddReport, StartReport, Rollback, FinishReport,
      RollbackFails, ReclaimReport

---------------------------------------------------------------------------
(* Where a report comes from: it was there, or this step ended an attempt *)

Fresh(e) ==
  LET j == Last(e.imp) IN
  /\ e.attempt = attemptsMade[j] /\ attemptsMade'[j] = attemptsMade[j]
  /\ attemptsMade[j] > 0
  /\ \/ e.name = "report-success" /\ state'[j] = "completed"
     \/ e.name = "report-failed" /\ state'[j] \in {"delayed", "failed"}

LEMMA FreshEmit ==
  ASSUME TypeOK, QueueOK, NEW j \in Jobs, NEW name, NEW e \in Emit(j, name),
         state[j] \notin {"absent", "waiting"}, attemptsMade' = attemptsMade,
         \/ name = "report-success" /\ state'[j] = "completed"
         \/ name = "report-failed" /\ state'[j] \in {"delayed", "failed"}
  PROVE  Fresh(e)
<1>1. IsLast(j) /\ e = [imp |-> j[1], attempt |-> attemptsMade[j], name |-> name]
  BY DEF Emit
<1>2. j = Last(e.imp)
  BY <1>1, JobParts
<1> QED BY <1>1, <1>2 DEF Fresh, QueueOK, TypeOK

LEMMA EmittedStep ==
  ASSUME TypeOK, QueueOK, [Next]_vars, NEW e \in Emitted'
  PROVE  e \in Emitted \/ Fresh(e)
<1> USE DEF requestVars, jobVars, eventVars, reportVars
<1>0. reportQueue \in Seq(Reports) /\ reporting \subseteq Reports /\ stalledReports \subseteq Reports
  BY DEF TypeOK
<1>1. ASSUME NEW j \in Jobs, Complete(j) \/ InsertFails(j) PROVE e \in Emitted \/ Fresh(e)
  <2>1. CASE Complete(j)
    <3>1. state[j] \notin {"absent", "waiting"} /\ attemptsMade' = attemptsMade
          /\ state'[j] = "completed" /\ events' = events \cup Emit(j, "report-success")
      BY <2>1 DEF Complete, TypeOK
    <3>2. e \in Emitted \/ e \in Emit(j, "report-success")
      BY <2>1 DEF Complete, Emitted, Live
    <3> QED BY <3>1, <3>2, FreshEmit
  <2>2. CASE InsertFails(j)
    <3>1. state[j] \notin {"absent", "waiting"} /\ attemptsMade' = attemptsMade
          /\ state'[j] \in {"delayed", "failed"} /\ events' = events \cup Emit(j, "report-failed")
      BY <2>2 DEF InsertFails, TypeOK
    <3>2. e \in Emitted \/ e \in Emit(j, "report-failed")
      BY <2>2 DEF InsertFails, Emitted, Live
    <3> QED BY <3>1, <3>2, FreshEmit
  <2> QED BY <1>1, <2>1, <2>2
<1>2. ASSUME NEW j \in Jobs, Reclaim(j) PROVE e \in Emitted \/ Fresh(e)
  <2>1. CASE events' = events
    BY <1>2, <2>1 DEF Reclaim, Emitted, Live
  <2>2. CASE state'[j] = "failed" /\ events' = events \cup Emit(j, "report-failed")
    <3>1. state[j] \notin {"absent", "waiting"} /\ attemptsMade' = attemptsMade
      BY <1>2 DEF Reclaim
    <3>2. e \in Emitted \/ e \in Emit(j, "report-failed")
      BY <1>2, <2>2 DEF Reclaim, Emitted, Live
    <3> QED BY <2>2, <3>1, <3>2, FreshEmit
  <2> QED BY <1>2, <2>1, <2>2 DEF Reclaim, TypeOK
<1>3. ASSUME NEW f \in events, Count(f) PROVE e \in Emitted
  BY <1>3 DEF Count, NewReport, Emitted, Live
<1>4. ASSUME NEW r \in counted, AddReport(r) PROVE e \in Emitted
  <2>1. r \in Reports
    BY DEF TypeOK
  <2>2. Range(reportQueue') = Range(reportQueue) \cup {r}
    BY <1>0, <1>4, <2>1, PutAtTheEnd DEF AddReport
  <2> QED BY <1>4, <2>2 DEF AddReport, Emitted, Live
<1>5. CASE StartReport
  <2>1. Head(reportQueue) \in Range(reportQueue) /\ Range(reportQueue') \subseteq Range(reportQueue)
    BY <1>0, <1>5, TakeFromTheHead DEF StartReport
  <2> QED BY <1>5, <2>1 DEF StartReport, Emitted, Live
<1>6. ASSUME NEW r \in reporting, Rollback(r) PROVE e \in Emitted
  <2>1. [r EXCEPT !.deleted = TRUE].event = r.event
    BY <1>0 DEF Reports
  <2> QED BY <1>6, <2>1 DEF Rollback, Emitted, Live
<1>7. ASSUME NEW r \in reporting, FinishReport(r) \/ RollbackFails(r) PROVE e \in Emitted
  BY <1>7 DEF FinishReport, RollbackFails, Emitted, Live
<1>8. ASSUME NEW r \in stalledReports, ReclaimReport(r) PROVE e \in Emitted
  <2>1. Requeued(r) \in Reports /\ Requeued(r).event = r.event
    BY <1>0 DEF Reports, Requeued
  <2>2. Range(<<Requeued(r)>> \o reportQueue) = Range(reportQueue) \cup {Requeued(r)}
    BY <1>0, <2>1, PutAtTheHead
  <2>3. Range(reportQueue') \subseteq Range(reportQueue) \cup {Requeued(r)}
    BY <1>8, <2>2 DEF ReclaimReport
  <2> QED BY <1>8, <2>1, <2>3 DEF ReclaimReport, Emitted, Live
<1>9. CASE Crash
  BY <1>9 DEF Crash, Emitted, Live
<1>10. CASE UNCHANGED <<eventVars, reportVars>>
  BY <1>10 DEF Emitted, Live
<1> QED
  BY <1>1, <1>2, <1>3, <1>4, <1>5, <1>6, <1>7, <1>8, <1>9, <1>10
  DEF Next, vars, StreamBatch, Respond, LastAdded, Reject, Start, Insert, Promote

LEMMA EmittedType == TypeOK => Emitted \subseteq Events
<1> SUFFICES ASSUME TypeOK PROVE Emitted \subseteq Events
  OBVIOUS
<1>1. Range(reportQueue) \subseteq Reports
  BY RangeOfSeq DEF TypeOK
<1>2. Live \subseteq Reports
  BY <1>1 DEF TypeOK, Live
<1>3. \A r \in Live : r.event \in Events
  BY <1>2 DEF Reports
<1> QED BY <1>3 DEF TypeOK, Emitted

---------------------------------------------------------------------------
(* The invariants *)

LEMMA ReportsStep ==
  TypeOK /\ QueueOK /\ ReportsAreAboutTheLastJob /\ [Next]_vars => ReportsAreAboutTheLastJob'
<1> SUFFICES ASSUME TypeOK, QueueOK, ReportsAreAboutTheLastJob, [Next]_vars,
                    NEW e \in Emitted'
             PROVE  LET j == Last(e.imp) IN
                    IF e.name = "report-success"
                    THEN state'[j] = "completed" /\ e.attempt = attemptsMade'[j]
                    ELSE /\ e.attempt \in 1..attemptsMade'[j]
                         /\ e.attempt = attemptsMade'[j]
                              => state'[j] \in {"delayed", "waiting", "failed"}
  BY DEF ReportsAreAboutTheLastJob
<1> DEFINE j == Last(e.imp)
<1>1. e \in Events
  <2>1. TypeOK'
    BY TypeStep
  <2>2. (TypeOK => Emitted \subseteq Events)'
    BY EmittedType, PTL
  <2> QED BY <2>1, <2>2
<1>2. j \in Jobs /\ e.attempt \in Nat /\ e.name \in ReportNames
  BY <1>1, LastIsAJob DEF Events
<1>3. CASE e \in Emitted
  <2>1. IF e.name = "report-success"
        THEN state[j] = "completed" /\ e.attempt = attemptsMade[j]
        ELSE /\ e.attempt \in 1..attemptsMade[j]
             /\ e.attempt = attemptsMade[j] => state[j] \in {"delayed", "waiting", "failed"}
    BY <1>3 DEF ReportsAreAboutTheLastJob
  <2>2. Moves(j)
    BY <1>2, JobMoves
  <2>3. attemptsMade[j] \in Nat
    BY <1>2 DEF TypeOK
  <2>4. IF e.name = "report-success"
        THEN state'[j] = "completed" /\ e.attempt = attemptsMade'[j]
        ELSE /\ e.attempt \in 1..attemptsMade'[j]
             /\ e.attempt = attemptsMade'[j] => state'[j] \in {"delayed", "waiting", "failed"}
    <3> HIDE DEF j
    <3> QED BY <1>2, <2>1, <2>2, <2>3 DEF Moves, Untouched
  <2> QED BY <2>4
<1>4. CASE Fresh(e)
  <2>1. attemptsMade[j] \in Nat
    BY <1>2 DEF TypeOK
  <2> QED BY <1>2, <1>4, <2>1 DEF Fresh, ReportNames
<1> QED BY <1>3, <1>4, EmittedStep

LEMMA CopiesStep ==
  TypeOK /\ QueueOK /\ CopiesNeedALostAnswer /\ [Next]_vars => CopiesNeedALostAnswer'
<1> SUFFICES ASSUME TypeOK, QueueOK, CopiesNeedALostAnswer, [Next]_vars, NEW j \in Jobs
             PROVE  rows'[j] <= stalls'[j] + unanswered'[j] +
                      (IF state'[j] \in {"committed", "stalled", "completed"} THEN 1 ELSE 0)
  BY DEF CopiesNeedALostAnswer
<1>1. Moves(j)
  BY JobMoves
<1>2. rows[j] \in Nat /\ stalls[j] \in Nat /\ unanswered[j] \in Nat
  BY DEF TypeOK
<1>3. rows[j] <= stalls[j] + unanswered[j] +
        (IF state[j] \in {"committed", "stalled", "completed"} THEN 1 ELSE 0)
  BY DEF CopiesNeedALostAnswer
<1> QED BY <1>1, <1>2, <1>3 DEF Moves, Untouched

LEMMA ExecutionsStep ==
  /\ TypeOK /\ QueueOK /\ AttemptsLeft /\ ExecutionsAreBounded /\ [Next]_vars
  => AttemptsLeft' /\ ExecutionsAreBounded'
<1> SUFFICES ASSUME TypeOK, QueueOK, AttemptsLeft, ExecutionsAreBounded, [Next]_vars,
                    NEW j \in Jobs
             PROVE  /\ attemptsMade'[j] <= Attempts + stalls'[j]
                    /\ state'[j] \in {"absent", "waiting", "delayed"}
                         => attemptsMade'[j] < Attempts + stalls'[j]
  BY DEF AttemptsLeft, ExecutionsAreBounded
<1>1. Moves(j)
  BY JobMoves
<1>2. attemptsMade[j] \in Nat /\ stalls[j] \in Nat /\ Attempts \in Nat
  BY LimitAssumption DEF TypeOK
<1>3. /\ attemptsMade[j] <= Attempts + stalls[j]
      /\ state[j] \in {"absent", "waiting", "delayed"} => attemptsMade[j] < Attempts + stalls[j]
  BY DEF AttemptsLeft, ExecutionsAreBounded
<1> QED BY <1>1, <1>2, <1>3 DEF Moves, Untouched

LEMMA FailedOnceStays ==
  ASSUME TypeOK, QueueOK, [Next]_vars, NEW k \in Imports, FailedOnce(k)
  PROVE  FailedOnce(k)'
<1>1. Last(k) \in Jobs
  BY LastIsAJob
<1>2. Moves(Last(k)) /\ attemptsMade[Last(k)] \in Nat
  BY <1>1, JobMoves DEF TypeOK
<1> QED BY <1>2 DEF FailedOnce, Moves, Untouched

LEMMA RowsStep ==
  /\ TypeOK /\ QueueOK /\ ReportsAreAboutTheLastJob /\ CommittedRowsKept /\ [Next]_vars
  => CommittedRowsKept'
<1> SUFFICES ASSUME TypeOK, QueueOK, ReportsAreAboutTheLastJob, CommittedRowsKept, [Next]_vars,
                    NEW j \in Jobs, state'[j] \in {"committed", "completed"}, rows'[j] = 0,
                    j[1] \notin Keyed
             PROVE  \E k \in Imports : SameKey(k, j[1]) /\ FailedOnce(k)'
  BY DEF CommittedRowsKept, SameKey
<1>1. Moves(j) /\ rows[j] \in Nat
  BY JobMoves DEF TypeOK
<1>2. CASE state[j] \in {"committed", "completed"} /\ rows[j] = 0
  BY <1>2, FailedOnceStays DEF CommittedRowsKept
<1>3. CASE \E r \in reporting : r.event.name = "report-failed" /\ SameKey(r.event.imp, j[1])
  <2>1. PICK r \in reporting : r.event.name = "report-failed" /\ SameKey(r.event.imp, j[1])
    BY <1>3
  <2>2. r.event \in Emitted /\ r.event \in Events
    BY EmittedType DEF Emitted, Live
  <2> DEFINE k == r.event.imp
  <2>3. k \in Imports /\ Last(k) \in Jobs
    BY <2>2, LastIsAJob DEF Events
  <2>4. /\ r.event.attempt \in 1..attemptsMade[Last(k)]
        /\ r.event.attempt = attemptsMade[Last(k)]
             => state[Last(k)] \in {"delayed", "waiting", "failed"}
    BY <2>1, <2>2 DEF ReportsAreAboutTheLastJob
  <2>5. attemptsMade[Last(k)] \in Nat
    BY <2>3 DEF TypeOK
  <2>6. FailedOnce(k)
    BY <2>4, <2>5 DEF FailedOnce
  <2> QED BY <2>1, <2>3, <2>6, FailedOnceStays
<1> QED BY <1>1, <1>2, <1>3 DEF Moves, Untouched

LEMMA LiveStep ==
  ASSUME TypeOK, [Next]_vars, NEW r \in Live'
  PROVE  \/ \E q \in Live : r.event = q.event /\ r.total = q.total
         \/ \E e \in events : r = NewReport(e)
<1> USE DEF requestVars, jobVars, eventVars, reportVars
<1>0. /\ reportQueue \in Seq(Reports) /\ counted \subseteq Reports
      /\ reporting \subseteq Reports /\ stalledReports \subseteq Reports
  BY DEF TypeOK
<1>1. ASSUME NEW e \in events, Count(e) PROVE r \in Live \/ r = NewReport(e)
  BY <1>1 DEF Count, Live
<1>2. ASSUME NEW q \in counted, AddReport(q) PROVE r \in Live
  <2>1. Range(reportQueue') = Range(reportQueue) \cup {q}
    BY <1>0, <1>2, PutAtTheEnd DEF AddReport
  <2> QED BY <1>2, <2>1 DEF AddReport, Live
<1>3. CASE StartReport
  <2>1. Head(reportQueue) \in Range(reportQueue) /\ Range(reportQueue') \subseteq Range(reportQueue)
    BY <1>0, <1>3, TakeFromTheHead DEF StartReport
  <2> QED BY <1>3, <2>1 DEF StartReport, Live
<1>4. ASSUME NEW q \in reporting, Rollback(q)
      PROVE  \E p \in Live : r.event = p.event /\ r.total = p.total
  <2>1. [q EXCEPT !.deleted = TRUE].event = q.event /\ [q EXCEPT !.deleted = TRUE].total = q.total
    BY <1>0 DEF Reports
  <2> QED BY <1>4, <2>1 DEF Rollback, Live
<1>5. ASSUME NEW q \in reporting, FinishReport(q) \/ RollbackFails(q) PROVE r \in Live
  BY <1>5 DEF FinishReport, RollbackFails, Live
<1>6. ASSUME NEW q \in stalledReports, ReclaimReport(q)
      PROVE  \E p \in Live : r.event = p.event /\ r.total = p.total
  <2>1. Requeued(q) \in Reports /\ Requeued(q).event = q.event /\ Requeued(q).total = q.total
    BY <1>0 DEF Reports, Requeued
  <2>2. Range(<<Requeued(q)>> \o reportQueue) = Range(reportQueue) \cup {Requeued(q)}
    BY <1>0, <2>1, PutAtTheHead
  <2>3. Range(reportQueue') \subseteq Range(reportQueue) \cup {Requeued(q)}
    BY <1>6, <2>2 DEF ReclaimReport
  <2> QED BY <1>6, <2>1, <2>3 DEF ReclaimReport, Live
<1>7. CASE Crash
  BY <1>7 DEF Crash, Live
<1>8. CASE UNCHANGED <<counted, reportVars>>
  BY <1>8 DEF Live
<1> QED
  BY <1>1, <1>2, <1>3, <1>4, <1>5, <1>6, <1>7, <1>8
  DEF Next, vars, StreamBatch, Respond, LastAdded, Reject, Start, Insert, Complete,
      InsertFails, Promote, Reclaim

LEMMA TotalsStep ==
  /\ TypeOK /\ QueueOK /\ ReportsAreAboutTheLastJob /\ CommittedRowsKept
  /\ SuccessCountsTheLastBatch /\ [Next]_vars
  => SuccessCountsTheLastBatch'
<1> SUFFICES ASSUME TypeOK, QueueOK, ReportsAreAboutTheLastJob, CommittedRowsKept,
                    SuccessCountsTheLastBatch, [Next]_vars,
                    NEW r \in Live', r.event.name = "report-success",
                    ~(r.total[Last(r.event.imp)] > 0), r.event.imp \notin Keyed
             PROVE  \E k \in Imports : SameKey(k, r.event.imp) /\ FailedOnce(k)'
  BY DEF SuccessCountsTheLastBatch, SameKey
<1>1. CASE \E q \in Live : r.event = q.event /\ r.total = q.total
  <2>1. \E k \in Imports : SameKey(k, r.event.imp) /\ FailedOnce(k)
    BY <1>1 DEF SuccessCountsTheLastBatch
  <2> QED BY <2>1, FailedOnceStays
<1>2. CASE \E e \in events : r = NewReport(e)
  <2>1. PICK e \in events : r = NewReport(e)
    BY <1>2
  <2> DEFINE j == Last(e.imp)
  <2>2. e \in Events /\ e \in Emitted /\ r.event = e /\ r.total = CountRows(e.imp)
    BY <2>1 DEF TypeOK, Emitted, NewReport
  <2>3. j \in Jobs /\ j[1] = e.imp
    BY <2>2, LastIsAJob DEF Events
  <2>4. state[j] = "completed"
    BY <2>2 DEF ReportsAreAboutTheLastJob
  <2>5. r.total[j] = rows[j] /\ rows[j] \in Nat
    BY <2>2, <2>3 DEF CountRows, SameKey, TypeOK
  <2>6. \E k \in Imports : SameKey(k, e.imp) /\ FailedOnce(k)
    BY <2>2, <2>3, <2>4, <2>5 DEF CommittedRowsKept
  <2> QED BY <2>2, <2>6, FailedOnceStays
<1> QED BY <1>1, <1>2, LiveStep

LEMMA IInvInit == Init => IInv
<1> SUFFICES ASSUME Init PROVE IInv
  OBVIOUS
<1>1. Range(wait) = {} /\ Range(reportQueue) = {} /\ IsInjective(wait)
  BY DEF Init, Range, IsInjective
<1>2. QueueOK
  BY <1>1, BatchCountType DEF Init, QueueOK
<1>3. Emitted = {} /\ Live = {}
  BY <1>1 DEF Init, Emitted, Live
<1>4. \A j \in Jobs : state[j] = "absent" /\ attemptsMade[j] = 0 /\ stalls[j] = 0
                  /\ unanswered[j] = 0 /\ rows[j] = 0
  BY DEF Init
<1>5. CopiesNeedALostAnswer /\ ExecutionsAreBounded /\ AttemptsLeft /\ CommittedRowsKept
  BY <1>4, LimitAssumption
  DEF CopiesNeedALostAnswer, ExecutionsAreBounded, AttemptsLeft, CommittedRowsKept
<1> QED
  BY <1>2, <1>3, <1>5, TypeInit
  DEF IInv, ReportsAreAboutTheLastJob, SuccessCountsTheLastBatch

LEMMA IInvStep == IInv /\ [Next]_vars => IInv'
BY TypeStep, QueueStep, ReportsStep, CopiesStep, ExecutionsStep, RowsStep, TotalsStep
DEF IInv

LEMMA Inductive == Spec => []IInv
BY IInvInit, IInvStep, PTL DEF Spec

(* Whatever the order of workers, handlers, retries and crashes, a report is *)
(* about an attempt of the last job: success about the one that completed    *)
(* it, failure about an earlier one or about one after which it stopped.     *)
THEOREM ReportsTellTheTruth == Spec => []ReportsAreAboutTheLastJob
<1>1. IInv => ReportsAreAboutTheLastJob
  BY DEF IInv
<1> QED BY <1>1, Inductive, PTL

(* Every copy of a batch beyond the first is owed to a stall or to an answer *)
(* of createMany that was lost.                                              *)
THEOREM CopiesAreOwedToLostAnswers == Spec => []CopiesNeedALostAnswer
<1>1. IInv => CopiesNeedALostAnswer
  BY DEF IInv
<1> QED BY <1>1, Inductive, PTL

(* No job runs more often than its attempts and its stalls allow.            *)
THEOREM RunsAreBounded == Spec => []ExecutionsAreBounded
<1>1. IInv => ExecutionsAreBounded
  BY DEF IInv
<1> QED BY <1>1, Inductive, PTL

(* The rollback never reaches the rows of an import whose last batch         *)
(* completed at once, unless a failed import has the same user and date.     *)
THEOREM RollbackSparesOthers == Spec => []CommittedRowsSurvive
<1>1. IInv => CommittedRowsSurvive
  BY DEF IInv, CommittedRowsKept, CommittedRowsSurvive
<1> QED BY <1>1, Inductive, PTL

(* The total of a success report counts the last batch, on the same terms.   *)
THEOREM TotalsCountTheLastBatch == Spec => []SuccessCountsTheLastBatch
<1>1. IInv => SuccessCountsTheLastBatch
  BY DEF IInv
<1> QED BY <1>1, Inductive, PTL

---------------------------------------------------------------------------
(* Batches start in the order of the file *)

\* A batch whose successor is a job is a job as well, and as long as it was
\* never taken it waits ahead of its successor.
OrderOK ==
  /\ \A j \in Jobs : j[2] <= sent[j[1]] /\ ~IsLast(j) => state[j] # "absent"
  /\ \A j \in Jobs : state[j] = "waiting" => j \in Range(wait)
  /\ \A i \in Imports : \A b \in 1..(BatchCount[i] - 1) :
       state[<<i, b + 1>>] # "absent" /\ attemptsMade[<<i, b>>] = 0 =>
         attemptsMade[<<i, b + 1>>] = 0 /\ Ahead(wait, <<i, b>>, <<i, b + 1>>)

LEMMA BothAreJobs ==
  ASSUME NEW i \in Imports, NEW b \in 1..(BatchCount[i] - 1)
  PROVE  /\ b \in Nat /\ BatchCount[i] \in Nat /\ b < BatchCount[i]
         /\ <<i, b>> \in Jobs /\ <<i, b + 1>> \in Jobs /\ ~IsLast(<<i, b>>)
<1>1. BatchCount[i] \in Nat /\ b \in 1..BatchCount[i] /\ b + 1 \in 1..BatchCount[i]
  BY BatchCountType
<1> QED BY <1>1, JobOf DEF IsLast

\* Steps that take no job, and make none of a batch.
LEMMA OrderKept ==
  ASSUME TypeOK, OrderOK, UNCHANGED <<sent, attemptsMade>>,
         \A j \in Jobs : (state'[j] = "absent") <=> (state[j] = "absent"),
         \A j \in Jobs : state'[j] = "waiting" => j \in Range(wait'),
         \A k, l \in Jobs : Ahead(wait, k, l) => Ahead(wait', k, l)
  PROVE  OrderOK'
<1>1. \A j \in Jobs : j[2] <= sent'[j[1]] /\ ~IsLast(j) => state'[j] # "absent"
  BY DEF OrderOK
<1>2. ASSUME NEW i \in Imports, NEW b \in 1..(BatchCount[i] - 1),
             state'[<<i, b + 1>>] # "absent", attemptsMade'[<<i, b>>] = 0
      PROVE  attemptsMade'[<<i, b + 1>>] = 0 /\ Ahead(wait', <<i, b>>, <<i, b + 1>>)
  BY <1>2, BothAreJobs DEF OrderOK
<1> QED BY <1>1, <1>2 DEF OrderOK, IsLast, Ahead

\* A batch becomes a job behind its predecessor.
LEMMA OrderAdded ==
  ASSUME TypeOK, QueueOK, OrderOK, NEW l \in Jobs, state[l] = "absent", Enqueue(l),
         \A j \in Jobs : j[2] <= sent'[j[1]] /\ ~IsLast(j) => j = l \/ j[2] <= sent[j[1]],
         l[2] - 1 <= sent[l[1]]
  PROVE  OrderOK'
<1> USE DEF Enqueue
<1>1. wait \in Seq(Jobs) /\ wait' = Append(wait, l) /\ Range(wait') = Range(wait) \cup {l}
  BY PutAtTheEnd DEF TypeOK
<1>2. /\ \A j \in Jobs : state'[j] = IF j = l THEN "waiting" ELSE state[j]
      /\ attemptsMade' = attemptsMade
  BY DEF TypeOK
<1>3. \A j \in Jobs : j[2] <= sent'[j[1]] /\ ~IsLast(j) => state'[j] # "absent"
  BY <1>2 DEF OrderOK
<1>4. \A j \in Jobs : state'[j] = "waiting" => j \in Range(wait')
  BY <1>1, <1>2 DEF OrderOK
<1>5. ASSUME NEW i \in Imports, NEW b \in 1..(BatchCount[i] - 1),
             state'[<<i, b + 1>>] # "absent", attemptsMade[<<i, b>>] = 0
      PROVE  attemptsMade[<<i, b + 1>>] = 0 /\ Ahead(wait', <<i, b>>, <<i, b + 1>>)
  <2>1. <<i, b>> \in Jobs /\ <<i, b + 1>> \in Jobs /\ ~IsLast(<<i, b>>) /\ b \in Nat
    BY BothAreJobs
  <2>2. CASE <<i, b + 1>> = l
    <3>1. l[1] = i /\ l[2] - 1 = b
      BY <2>1, <2>2
    <3>2. state[<<i, b>>] # "absent"
      BY <2>1, <3>1 DEF OrderOK
    <3>3. state[<<i, b>>] = "waiting"
      BY <1>5, <2>1, <3>2 DEF QueueOK
    <3>4. <<i, b>> \in Range(wait)
      BY <2>1, <3>3 DEF OrderOK
    <3>5. Ahead(wait', <<i, b>>, l)
      BY <1>1, <3>4, AheadAtTheEnd
    <3>6. attemptsMade[l] = 0
      BY DEF QueueOK
    <3> QED BY <2>2, <3>5, <3>6
  <2>3. CASE <<i, b + 1>> # l
    <3>1. state[<<i, b + 1>>] # "absent"
      BY <1>2, <1>5, <2>1, <2>3
    <3>2. attemptsMade[<<i, b + 1>>] = 0 /\ Ahead(wait, <<i, b>>, <<i, b + 1>>)
      BY <1>5, <3>1 DEF OrderOK
    <3> QED BY <1>1, <3>2, AheadAtTheEnd
  <2> QED BY <2>2, <2>3
<1>6. \A i \in Imports : \A b \in 1..(BatchCount[i] - 1) :
        state'[<<i, b + 1>>] # "absent" /\ attemptsMade'[<<i, b>>] = 0 =>
          attemptsMade'[<<i, b + 1>>] = 0 /\ Ahead(wait', <<i, b>>, <<i, b + 1>>)
  BY <1>2, <1>5
<1> HIDE DEF Enqueue
<1> QED BY <1>3, <1>4, <1>6 DEF OrderOK, IsLast, Ahead

LEMMA OrderTaken ==
  ASSUME TypeOK, QueueOK, OrderOK, Start
  PROVE  OrderOK'
<1> PICK h : h = Head(wait)
  OBVIOUS
<1>1. /\ wait \in Seq(Jobs) /\ wait # <<>> /\ IsInjective(wait) /\ h \in Jobs
      /\ wait' = Tail(wait)
  BY TakeFromTheHead DEF TypeOK, QueueOK, Start
<1>2. /\ \A j \in Jobs : state'[j] = IF j = h THEN "active" ELSE state[j]
      /\ \A j \in Jobs : attemptsMade'[j] = IF j = h THEN attemptsMade[h] + 1 ELSE attemptsMade[j]
      /\ sent' = sent
  BY <1>1 DEF TypeOK, Start, requestVars
<1>3. \A j \in Jobs : j[2] <= sent'[j[1]] /\ ~IsLast(j) => state'[j] # "absent"
  BY <1>2 DEF OrderOK
<1>4. \A j \in Jobs : state'[j] = "waiting" => j \in Range(wait')
  BY <1>1, <1>2, RestOfTheList DEF OrderOK
<1>5. ASSUME NEW i \in Imports, NEW b \in 1..(BatchCount[i] - 1),
             state'[<<i, b + 1>>] # "absent", attemptsMade'[<<i, b>>] = 0
      PROVE  attemptsMade'[<<i, b + 1>>] = 0 /\ Ahead(wait', <<i, b>>, <<i, b + 1>>)
  <2>1. <<i, b>> \in Jobs /\ <<i, b + 1>> \in Jobs
    BY BothAreJobs
  <2>2. attemptsMade[h] \in Nat
    BY <1>1 DEF TypeOK
  <2>3. <<i, b>> # h /\ attemptsMade[<<i, b>>] = 0
    BY <1>2, <1>5, <2>1, <2>2
  <2>4. state[<<i, b + 1>>] # "absent"
    <3>1. h \in Range(wait)
      BY <1>1, TakeFromTheHead
    <3>2. state[h] = "waiting"
      BY <3>1 DEF QueueOK
    <3> QED BY <1>2, <1>5, <2>1, <3>2
  <2>5. attemptsMade[<<i, b + 1>>] = 0 /\ Ahead(wait, <<i, b>>, <<i, b + 1>>)
    BY <2>3, <2>4 DEF OrderOK
  <2>6. <<i, b + 1>> # h /\ Ahead(wait', <<i, b>>, <<i, b + 1>>)
    BY <1>1, <2>3, <2>5, AheadInTheTail
  <2> QED BY <1>2, <2>1, <2>5, <2>6
<1> QED BY <1>3, <1>4, <1>5 DEF OrderOK, IsLast, Ahead

LEMMA OrderStep == TypeOK /\ QueueOK /\ OrderOK /\ [Next]_vars => OrderOK'
<1> SUFFICES ASSUME TypeOK, QueueOK, OrderOK, [Next]_vars PROVE OrderOK'
  OBVIOUS
<1> USE DEF requestVars, jobVars
<1>1. ASSUME NEW i \in Imports, StreamBatch(i) PROVE OrderOK'
  <2>1. /\ sent[i] \in Nat /\ BatchCount[i] \in Nat /\ sent[i] + 1 < BatchCount[i]
        /\ \A k \in Imports : sent'[k] = IF k = i THEN sent[i] + 1 ELSE sent[k]
    BY <1>1, BatchCountType DEF StreamBatch, TypeOK
  <2> PICK l : l = <<i, sent[i] + 1>>
    OBVIOUS
  <2>2. l \in Jobs /\ state[l] = "absent" /\ l[2] - 1 <= sent[l[1]]
    <3>1. sent[i] + 1 \in 1..BatchCount[i] /\ sent[i] + 1 > sent[i]
      BY <2>1
    <3>2. l \in Jobs /\ l[1] = i /\ l[2] = sent[i] + 1
      BY <3>1, JobOf
    <3> QED BY <2>1, <3>1, <3>2 DEF QueueOK
  <2>3. ASSUME NEW j \in Jobs, j[2] <= sent'[j[1]], ~(j[2] <= sent[j[1]]) PROVE j = l
    <3>1. j[1] \in Imports /\ j[2] \in Nat /\ j = <<j[1], j[2]>>
      BY JobParts, BatchCountType
    <3>2. j[1] = i /\ j[2] = sent[i] + 1
      BY <2>1, <2>3, <3>1
    <3> QED BY <3>1, <3>2
  <2> QED BY <1>1, <2>2, <2>3, OrderAdded DEF StreamBatch
<1>2. ASSUME NEW i \in Imports, LastAdded(i) PROVE OrderOK'
  <2>1. Last(i) \in Jobs /\ Last(i)[1] = i /\ Last(i)[2] = BatchCount[i] /\ BatchCount[i] \in Nat
    BY LastIsAJob, BatchCountType DEF Last
  <2>2. state[Last(i)] = "absent" /\ sent[i] = BatchCount[i] /\ sent' = sent
    BY <1>2, <2>1 DEF LastAdded, QueueOK, IsLast
  <2>3. Last(i)[2] - 1 <= sent[Last(i)[1]]
    BY <2>1, <2>2
  <2> QED BY <1>2, <2>1, <2>2, <2>3, OrderAdded DEF LastAdded
<1>3. ASSUME NEW i \in Imports, Respond(i) PROVE OrderOK'
  <2>1. /\ sent[i] \in Nat /\ BatchCount[i] \in Nat /\ sent[i] + 1 = BatchCount[i]
        /\ \A k \in Imports : sent'[k] = IF k = i THEN sent[i] + 1 ELSE sent[k]
        /\ UNCHANGED <<wait, state, attemptsMade>>
    BY <1>3, BatchCountType DEF Respond, TypeOK
  <2>2. ASSUME NEW j \in Jobs, j[2] <= sent'[j[1]], ~IsLast(j) PROVE j[2] <= sent[j[1]]
    <3>1. j[1] \in Imports /\ j[2] \in Nat /\ j[2] # BatchCount[j[1]]
      BY <2>2, JobParts, BatchCountType DEF IsLast
    <3> QED BY <2>1, <2>2, <3>1
  <2>3. \A j \in Jobs : j[2] <= sent'[j[1]] /\ ~IsLast(j) => state'[j] # "absent"
    BY <2>1, <2>2 DEF OrderOK
  <2> QED BY <2>1, <2>3 DEF OrderOK, IsLast, Ahead
<1>4. CASE Start
  BY <1>4, OrderTaken
<1>5. ASSUME NEW j \in Jobs, Promote(j) PROVE OrderOK'
  <2>1. wait \in Seq(Jobs) /\ wait' = Append(wait, j) /\ Range(wait') = Range(wait) \cup {j}
    BY <1>5, PutAtTheEnd DEF Promote, Enqueue, TypeOK
  <2>2. \A k, l \in Jobs : Ahead(wait, k, l) => Ahead(wait', k, l)
    BY <2>1, AheadAtTheEnd
  <2>3. \A k \in Jobs : state'[k] = IF k = j THEN "waiting" ELSE state[k]
    BY <1>5 DEF Promote, Enqueue, TypeOK
  <2>4. \A k \in Jobs : state'[k] = "waiting" => k \in Range(wait')
    BY <2>1, <2>3 DEF OrderOK
  <2>5. \A k \in Jobs : (state'[k] = "absent") <=> (state[k] = "absent")
    BY <1>5, <2>3 DEF Promote
  <2> QED BY <1>5, <2>2, <2>4, <2>5, OrderKept DEF Promote, Enqueue
<1>6. ASSUME NEW j \in Jobs, Reclaim(j) PROVE OrderOK'
  <2>1. CASE wait' = <<j>> \o wait /\ state' = [state EXCEPT ![j] = "waiting"]
    <3>1. wait \in Seq(Jobs) /\ Range(wait') = Range(wait) \cup {j}
      BY <2>1, PutAtTheHead DEF TypeOK
    <3>2. \A k, l \in Jobs : Ahead(wait, k, l) => Ahead(wait', k, l)
      BY <2>1, <3>1, AheadAtTheHead
    <3>3. \A k \in Jobs : state'[k] = "waiting" => k \in Range(wait')
      BY <2>1, <3>1 DEF OrderOK, TypeOK
    <3>4. \A k \in Jobs : (state'[k] = "absent") <=> (state[k] = "absent")
      BY <1>6, <2>1 DEF Reclaim, TypeOK
    <3> QED BY <1>6, <3>2, <3>3, <3>4, OrderKept DEF Reclaim
  <2>2. CASE wait' = wait /\ state' = [state EXCEPT ![j] = "failed"]
    <3>1. \A k \in Jobs : state'[k] = "waiting" => k \in Range(wait')
      BY <2>2 DEF OrderOK, TypeOK
    <3>2. \A k \in Jobs : (state'[k] = "absent") <=> (state[k] = "absent")
      BY <1>6, <2>2 DEF Reclaim, TypeOK
    <3> QED BY <1>6, <2>2, <3>1, <3>2, OrderKept DEF Reclaim
  <2> QED BY <1>6, <2>1, <2>2 DEF Reclaim
<1>7. CASE UNCHANGED <<sent, attemptsMade, wait>> /\ \A j \in Jobs :
             /\ (state'[j] = "absent") <=> (state[j] = "absent")
             /\ state'[j] = "waiting" => state[j] = "waiting"
  <2>1. \A j \in Jobs : state'[j] = "waiting" => j \in Range(wait')
    BY <1>7 DEF OrderOK
  <2> QED BY <1>7, <2>1, OrderKept
<1>8. ASSUME NEW j \in Jobs, Insert(j) \/ Complete(j) \/ InsertFails(j) PROVE OrderOK'
  BY <1>7, <1>8 DEF Insert, Complete, InsertFails, TypeOK
<1>9. CASE Crash
  BY <1>7, <1>9 DEF Crash, Busy, TypeOK
<1>10. CASE UNCHANGED <<sent, jobVars>>
  BY <1>7, <1>10
<1> QED
  BY <1>1, <1>2, <1>3, <1>4, <1>5, <1>6, <1>8, <1>9, <1>10
  DEF Next, vars, Reject, Count, AddReport, StartReport, Rollback, FinishReport,
      RollbackFails, ReclaimReport

(* First attempts start in the order of the file, whatever is retried, stalls *)
(* or crashes (BatchesStartInOrder): only later attempts change places.       *)
THEOREM StartsInOrder == Spec => []BatchesStartInOrder
<1>1. Init => OrderOK
  <2>1. \A j \in Jobs : ~(j[2] <= 0)
    BY JobParts, BatchCountType
  <2>2. \A j \in Jobs : j[1] \in Imports
    BY JobParts
  <2> QED BY <2>1, <2>2, BothAreJobs DEF Init, OrderOK
<1>2. IInv /\ OrderOK /\ [Next]_vars => OrderOK'
  BY OrderStep DEF IInv
<1>3. IInv /\ OrderOK => BatchesStartInOrder
  <2> SUFFICES ASSUME IInv, OrderOK, NEW i \in Imports, NEW b \in 1..(BatchCount[i] - 1),
                      attemptsMade[<<i, b + 1>>] > 0
               PROVE  attemptsMade[<<i, b>>] > 0
    BY DEF BatchesStartInOrder
  <2>1. <<i, b>> \in Jobs /\ <<i, b + 1>> \in Jobs
    BY BothAreJobs
  <2>2. attemptsMade[<<i, b>>] \in Nat /\ attemptsMade[<<i, b + 1>>] \in Nat
    BY <2>1 DEF IInv, TypeOK
  <2>3. state[<<i, b + 1>>] # "absent"
    BY <2>1, <2>2 DEF IInv, QueueOK
  <2>4. attemptsMade[<<i, b>>] # 0
    BY <2>2, <2>3 DEF OrderOK
  <2> QED BY <2>2, <2>4
<1> QED BY <1>1, <1>2, <1>3, Inductive, PTL DEF Spec

---------------------------------------------------------------------------
(* Every failed import has its rollback ahead of it, or lost *)

IsRollbackOf(e, i) == e.imp = i /\ e.name = "report-failed"

\* The rollback of i is still to come, or was lost.
RollbackKnown(i) ==
  \/ \E e \in events \cup lostReports : IsRollbackOf(e, i)
  \/ \E r \in stalledReports : IsRollbackOf(r.event, i)
  \/ \E r \in counted \cup Range(reportQueue) \cup reporting : ~r.deleted /\ IsRollbackOf(r.event, i)

\* Reports have deleted nothing before they are processed, one at a time.
FreshReports ==
  /\ \A r \in counted \cup Range(reportQueue) : ~r.deleted
  /\ \A r, s \in reporting : r = s

LeftoversOK ==
  \A i \in Imports :
    state[Last(i)] = "failed" /\ rows[Last(i)] > 0 => RollbackKnown(i)

LEMMA FreshStep == TypeOK /\ FreshReports /\ [Next]_vars => FreshReports'
<1> SUFFICES ASSUME TypeOK, FreshReports, [Next]_vars PROVE FreshReports'
  OBVIOUS
<1> USE DEF FreshReports, TypeOK, requestVars, jobVars, eventVars, reportVars
<1>1. ASSUME NEW e \in events, Count(e) PROVE FreshReports'
  BY <1>1 DEF Count, NewReport
<1>2. ASSUME NEW r \in counted, AddReport(r) PROVE FreshReports'
  <2>1. Range(reportQueue') = Range(reportQueue) \cup {r}
    BY <1>2, PutAtTheEnd DEF AddReport
  <2> QED BY <1>2, <2>1 DEF AddReport
<1>3. CASE StartReport
  <2>1. Range(reportQueue') \subseteq Range(reportQueue)
    BY <1>3, TakeFromTheHead DEF StartReport
  <2> QED BY <1>3, <2>1 DEF StartReport
<1>4. ASSUME NEW r \in reporting, Rollback(r) \/ FinishReport(r) \/ RollbackFails(r) PROVE FreshReports'
  BY <1>4 DEF Rollback, FinishReport, RollbackFails
<1>5. ASSUME NEW r \in stalledReports, ReclaimReport(r) PROVE FreshReports'
  <2>1. Requeued(r) \in Reports /\ ~Requeued(r).deleted
    BY <1>5 DEF Reports, Requeued
  <2>2. Range(reportQueue') \subseteq Range(reportQueue) \cup {Requeued(r)}
    BY <1>5, <2>1, PutAtTheHead DEF ReclaimReport
  <2> QED BY <1>5, <2>1, <2>2 DEF ReclaimReport
<1>6. CASE Crash
  BY <1>6 DEF Crash
<1>7. CASE UNCHANGED <<counted, reportVars>>
  BY <1>7
<1> QED
  BY <1>1, <1>2, <1>3, <1>4, <1>5, <1>6, <1>7
  DEF Next, vars, StreamBatch, Respond, LastAdded, Reject, Start, Insert, Complete, InsertFails,
      Promote, Reclaim

\* A job that stops for good tells the handlers, if it is a last one.
LEMMA FailuresAreTold ==
  ASSUME TypeOK, QueueOK, [Next]_vars, NEW j \in Jobs, state[j] # "failed", state'[j] = "failed"
  PROVE  Emit(j, "report-failed") \subseteq events'
<1> USE DEF TypeOK, requestVars, jobVars
<1>1. ASSUME NEW k \in Jobs, InsertFails(k) \/ Reclaim(k) PROVE Emit(j, "report-failed") \subseteq events'
  BY <1>1 DEF InsertFails, Reclaim
<1>2. ASSUME NEW k \in Jobs, Insert(k) \/ Complete(k) \/ Promote(k) PROVE FALSE
  BY <1>2 DEF Insert, Complete, Promote, Enqueue
<1>3. ASSUME NEW i \in Imports, StreamBatch(i) \/ LastAdded(i) PROVE FALSE
  BY <1>3 DEF StreamBatch, LastAdded, Enqueue
<1>4. ~Start
  <2>1. Start => Head(wait) \in Jobs
    BY TakeFromTheHead DEF Start
  <2> QED BY <2>1 DEF Start
<1>5. ~Crash
  BY DEF Crash
<1>6. state' # state
  OBVIOUS
<1> QED
  BY <1>1, <1>2, <1>3, <1>4, <1>5, <1>6
  DEF Next, vars, Respond, Reject, Count, AddReport, StartReport, Rollback, FinishReport,
      RollbackFails, ReclaimReport

\* A rollback that is known stays so until it has deleted the rows.
LEMMA RollbackStaysKnown ==
  ASSUME TypeOK, FreshReports, [Next]_vars, NEW i \in Imports, RollbackKnown(i),
         rows'[Last(i)] > 0
  PROVE  RollbackKnown(i)'
<1> USE DEF TypeOK, requestVars, jobVars, eventVars, reportVars
<1>1. CASE events \subseteq events' /\ UNCHANGED <<counted, reportVars>>
  BY <1>1 DEF RollbackKnown, IsRollbackOf
<1>2. ASSUME NEW e \in events, Count(e) PROVE RollbackKnown(i)'
  <2>1. NewReport(e).event = e /\ ~NewReport(e).deleted
    BY DEF NewReport
  <2>2. /\ counted' = counted \cup {NewReport(e)} /\ events' = events \ {e}
        /\ UNCHANGED reportVars
    BY <1>2 DEF Count
  <2>3. PICK n : n = NewReport(e)
    OBVIOUS
  <2> QED BY <2>1, <2>2, <2>3 DEF RollbackKnown, IsRollbackOf
<1>3. ASSUME NEW r \in counted, AddReport(r) PROVE RollbackKnown(i)'
  <2>1. Range(reportQueue') = Range(reportQueue) \cup {r}
    BY <1>3, PutAtTheEnd DEF AddReport
  <2>2. counted' = counted \ {r} /\ UNCHANGED <<events, reporting, stalledReports, lostReports>>
    BY <1>3 DEF AddReport
  <2>3. counted \cup Range(reportQueue) \cup reporting \subseteq counted' \cup Range(reportQueue') \cup reporting'
    BY <2>1, <2>2
  <2>4. events \cup lostReports = events' \cup lostReports'
    BY <2>2
  <2> QED BY <2>2, <2>3, <2>4 DEF RollbackKnown, IsRollbackOf
<1>4. CASE StartReport
  <2>1. /\ reporting = {} /\ reportQueue # <<>> /\ reporting' = {Head(reportQueue)}
        /\ reportQueue' = Tail(reportQueue) /\ UNCHANGED <<events, counted, stalledReports, lostReports>>
    BY <1>4 DEF StartReport
  <2>2. \A r \in Range(reportQueue) : r = Head(reportQueue) \/ r \in Range(Tail(reportQueue))
    BY <2>1, RestOfTheList
  <2>3. counted \cup Range(reportQueue) \cup reporting \subseteq counted' \cup Range(reportQueue') \cup reporting'
    BY <2>1, <2>2
  <2>4. events \cup lostReports = events' \cup lostReports'
    BY <2>1
  <2> QED BY <2>1, <2>3, <2>4 DEF RollbackKnown, IsRollbackOf
<1>5. ASSUME NEW r \in reporting, Rollback(r) PROVE RollbackKnown(i)'
  <2>1. \A s \in reporting : s = r
    BY DEF FreshReports
  <2>2. UNCHANGED <<events, counted, reportQueue, stalledReports, lostReports>>
    BY <1>5 DEF Rollback
  <2>3. ~IsRollbackOf(r.event, i)
    <3>1. r.event.imp = i => rows'[Last(i)] = 0
      BY <1>5, LastIsAJob DEF Rollback, SameKey
    <3> QED BY <3>1 DEF IsRollbackOf
  <2> QED BY <2>1, <2>2, <2>3 DEF RollbackKnown, IsRollbackOf
<1>6. ASSUME NEW r \in reporting, FinishReport(r) PROVE RollbackKnown(i)'
  <2>1. \A s \in reporting : s = r
    BY DEF FreshReports
  <2>2. UNCHANGED <<events, counted, reportQueue, stalledReports, lostReports>>
    BY <1>6 DEF FinishReport
  <2>3. ~r.deleted => ~IsRollbackOf(r.event, i)
    BY <1>6 DEF FinishReport, IsRollbackOf
  <2> QED BY <2>1, <2>2, <2>3 DEF RollbackKnown, IsRollbackOf
<1>7. ASSUME NEW r \in reporting, RollbackFails(r) PROVE RollbackKnown(i)'
  <2>1. \A s \in reporting : s = r
    BY DEF FreshReports
  <2>2. /\ lostReports' = lostReports \cup {r.event}
        /\ UNCHANGED <<events, counted, reportQueue, stalledReports>>
    BY <1>7 DEF RollbackFails
  <2> QED BY <2>1, <2>2 DEF RollbackKnown, IsRollbackOf
<1>8. ASSUME NEW r \in stalledReports, ReclaimReport(r) PROVE RollbackKnown(i)'
  <2>1. Requeued(r) \in Reports /\ Requeued(r).event = r.event /\ ~Requeued(r).deleted
    BY DEF Reports, Requeued
  <2>2. Range(<<Requeued(r)>> \o reportQueue) = Range(reportQueue) \cup {Requeued(r)}
    BY <2>1, PutAtTheHead
  <2>3. /\ stalledReports' = stalledReports \ {r} /\ UNCHANGED <<events, counted, reporting>>
        /\ \/ Range(reportQueue') = Range(reportQueue) \cup {Requeued(r)} /\ lostReports' = lostReports
           \/ UNCHANGED reportQueue /\ lostReports' = lostReports \cup {r.event}
    BY <1>8, <2>2 DEF ReclaimReport
  <2>4. CASE IsRollbackOf(r.event, i)
    <3>1. IsRollbackOf(r.event, i)' /\ IsRollbackOf(Requeued(r).event, i)'
      BY <2>1, <2>4 DEF IsRollbackOf
    <3>2. PICK q : q = Requeued(r)
      OBVIOUS
    <3>3. CASE q \in Range(reportQueue')
      BY <2>1, <3>1, <3>2, <3>3 DEF RollbackKnown
    <3>4. CASE r.event \in lostReports'
      BY <3>1, <3>4 DEF RollbackKnown
    <3> QED BY <2>3, <3>2, <3>3, <3>4
  <2>5. CASE ~IsRollbackOf(r.event, i)
    <3>1. /\ counted \cup Range(reportQueue) \cup reporting
               \subseteq counted' \cup Range(reportQueue') \cup reporting'
          /\ events \cup lostReports \subseteq events' \cup lostReports'
          /\ \A s \in stalledReports : s = r \/ s \in stalledReports'
      BY <2>3
    <3>2. \A e : IsRollbackOf(e, i)' <=> IsRollbackOf(e, i)
      BY DEF IsRollbackOf
    <3> QED BY <2>5, <3>1, <3>2 DEF RollbackKnown
  <2> QED BY <2>4, <2>5
<1>9. CASE Crash
  <2>1. /\ lostReports' = lostReports \cup events \cup {r.event : r \in counted}
        /\ stalledReports' = stalledReports \cup reporting
        /\ UNCHANGED reportQueue
    BY <1>9 DEF Crash
  <2>2. ASSUME NEW e \in events \cup lostReports, IsRollbackOf(e, i) PROVE RollbackKnown(i)'
    BY <2>1, <2>2 DEF RollbackKnown
  <2>3. ASSUME NEW r \in counted, IsRollbackOf(r.event, i) PROVE RollbackKnown(i)'
    BY <2>1, <2>3 DEF RollbackKnown
  <2>4. ASSUME NEW r \in stalledReports \cup reporting, IsRollbackOf(r.event, i) PROVE RollbackKnown(i)'
    BY <2>1, <2>4 DEF RollbackKnown
  <2>5. ASSUME NEW r \in Range(reportQueue), ~r.deleted, IsRollbackOf(r.event, i)
        PROVE  RollbackKnown(i)'
    BY <2>1, <2>5 DEF RollbackKnown
  <2> QED BY <2>2, <2>3, <2>4, <2>5 DEF RollbackKnown
<1> QED
  BY <1>1, <1>2, <1>3, <1>4, <1>5, <1>6, <1>7, <1>8, <1>9
  DEF Next, vars, StreamBatch, Respond, LastAdded, Reject, Start, Insert, Complete, InsertFails,
      Promote, Reclaim

LEMMA LeftoversStep ==
  TypeOK /\ QueueOK /\ FreshReports /\ LeftoversOK /\ [Next]_vars => LeftoversOK'
<1> SUFFICES ASSUME TypeOK, QueueOK, FreshReports, LeftoversOK, [Next]_vars,
                    NEW i \in Imports, state'[Last(i)] = "failed", rows'[Last(i)] > 0
             PROVE  RollbackKnown(i)'
  BY DEF LeftoversOK, Last
<1> PICK j : j = Last(i)
  OBVIOUS
<1>1. j \in Jobs /\ IsLast(j) /\ j[1] = i
  BY LastIsAJob DEF IsLast, Last
<1>2. CASE state[j] = "failed"
  <2>1. rows'[j] = rows[j]
    <3>1. Moves(j)
      BY <1>1, JobMoves
    <3>2. rows'[j] # 0
      OBVIOUS
    <3> QED BY <1>2, <3>1, <3>2 DEF Moves
  <2>2. RollbackKnown(i)
    BY <1>2, <2>1 DEF LeftoversOK
  <2> QED BY <2>2, RollbackStaysKnown
<1>3. CASE state[j] # "failed"
  <2>1. Emit(j, "report-failed") \subseteq events'
    BY <1>1, <1>3, FailuresAreTold
  <2>2. PICK e : e \in events' /\ e.imp = i /\ e.name = "report-failed"
    BY <1>1, <2>1 DEF Emit
  <2> QED BY <2>2 DEF RollbackKnown, IsRollbackOf
<1> QED BY <1>2, <1>3

(* Once all is quiet, rows of a last batch that failed for good are left only  *)
(* where a report-failed of it was lost, to a rejected deleteMany or a crash   *)
(* (LeftoversNeedALostRollback): every failure is told to a handler, and       *)
(* what a handler has started ends in a deletion or is given up.               *)
THEOREM LeftoversAreLostRollbacks == Spec => []LeftoversNeedALostRollback
<1>1. Init => FreshReports /\ LeftoversOK
  <2> SUFFICES ASSUME Init PROVE FreshReports /\ LeftoversOK
    OBVIOUS
  <2>1. Range(reportQueue) = {} /\ \A i \in Imports : rows[Last(i)] = 0
    BY LastIsAJob DEF Init, Range
  <2> QED BY <2>1 DEF Init, FreshReports, LeftoversOK
<1>2. IInv /\ FreshReports /\ LeftoversOK /\ [Next]_vars => FreshReports' /\ LeftoversOK'
  BY FreshStep, LeftoversStep DEF IInv
<1>3. IInv /\ LeftoversOK => LeftoversNeedALostRollback
  <2> SUFFICES ASSUME IInv, LeftoversOK, Quiet, NEW i \in Imports,
                      state[Last(i)] = "failed", rows[Last(i)] > 0
               PROVE  \E e \in lostReports : e.imp = i /\ e.name = "report-failed"
    BY DEF LeftoversNeedALostRollback
  <2>1. RollbackKnown(i)
    BY DEF LeftoversOK
  <2>2. Range(reportQueue) = {}
    BY DEF Quiet, Range
  <2> QED BY <2>1, <2>2 DEF RollbackKnown, IsRollbackOf, Quiet
<1> QED BY <1>1, <1>2, <1>3, Inductive, PTL DEF Spec

---------------------------------------------------------------------------
(* The contract: UploadRequest is implemented.  First, how many batches of *)
(* an import are jobs.                                                     *)

LEMMA AcceptedIsFinite ==
  ASSUME NEW i \in Imports
  PROVE  IsFiniteSet(Accepted(i)) /\ Cardinality(Accepted(i)) \in Nat
<1>1. IsFiniteSet(1..BatchCount[i])
  BY BatchCountType, FS_Interval
<1>2. IsFiniteSet({i} \X (1..BatchCount[i]))
  BY <1>1, FS_Singleton, FS_Product
<1>3. Accepted(i) \subseteq {i} \X (1..BatchCount[i])
  <2> SUFFICES ASSUME NEW j \in Jobs, j[1] = i PROVE j \in {i} \X (1..BatchCount[i])
    BY DEF Accepted
  <2> QED BY JobParts
<1> QED BY <1>2, <1>3, FS_Subset, FS_CardinalityType

LEMMA AcceptsOne ==
  ASSUME TypeOK, NEW k \in Jobs, state[k] = "absent",
         state' = [state EXCEPT ![k] = "waiting"], NEW i \in Imports
  PROVE  Cardinality(Accepted(i)') = Cardinality(Accepted(i)) + (IF i = k[1] THEN 1 ELSE 0)
<1>1. Accepted(i)' = IF i = k[1] THEN Accepted(i) \cup {k} ELSE Accepted(i)
  BY DEF Accepted, TypeOK
<1>2. k \notin Accepted(i)
  BY DEF Accepted
<1>3. IsFiniteSet(Accepted(i)) /\ Cardinality(Accepted(i)) \in Nat
  BY AcceptedIsFinite
<1>4. Cardinality(Accepted(i) \cup {k}) = Cardinality(Accepted(i)) + 1
  BY <1>2, <1>3, FS_AddElement
<1> QED BY <1>1, <1>3, <1>4

\* A step of a worker, a handler or the queue makes no batch a job.
Untouching ==
  /\ \A j \in Jobs : (state[j] = "absent") <=> (state'[j] = "absent")
  /\ UNCHANGED requestVars

LEMMA WorkersAcceptNothing ==
  ASSUME TypeOK, QueueOK, Untouching
  PROVE  \A i \in Imports : Accepted(i)' = Accepted(i)
BY DEF Untouching, Accepted

LEMMA StepKinds ==
  ASSUME TypeOK, QueueOK, [Next]_vars
  PROVE  \/ \E i \in Imports : StreamBatch(i) \/ Respond(i) \/ LastAdded(i) \/ Reject(i)
         \/ Crash
         \/ Untouching
<1> USE DEF TypeOK, jobVars, Untouching
<1>1. CASE Start
  <2>1. Head(wait) \in Jobs /\ state[Head(wait)] = "waiting"
    BY <1>1, TakeFromTheHead DEF Start, QueueOK
  <2> QED BY <1>1, <2>1 DEF Start
<1>2. ASSUME NEW j \in Jobs, Insert(j) \/ Complete(j) \/ InsertFails(j)
      PROVE  Untouching
  BY <1>2 DEF Insert, Complete, InsertFails
<1>3. ASSUME NEW j \in Jobs, Promote(j) PROVE Untouching
  BY <1>3 DEF Promote, Enqueue
<1>4. ASSUME NEW j \in Jobs, Reclaim(j) PROVE Untouching
  BY <1>4 DEF Reclaim
<1>5. CASE UNCHANGED <<requestVars, state>>
  BY <1>5
<1> QED
  BY <1>1, <1>2, <1>3, <1>4, <1>5
  DEF Next, vars, Count, AddReport, StartReport, Rollback, FinishReport,
      RollbackFails, ReclaimReport

---------------------------------------------------------------------------
(* A request knows how many of its batches are jobs *)

Requested ==
  \A i \in Imports :
    /\ upload[i] \in {"streaming", "rejected", "enqueued"} => sent[i] = Cardinality(Accepted(i))
    /\ upload[i] = "responded" => sent[i] = Cardinality(Accepted(i)) + 1

\* What each step of a request does to the number of its jobs.
LEMMA BatchAccepted ==
  ASSUME TypeOK, QueueOK, NEW i \in Imports, StreamBatch(i)
  PROVE  /\ \A h \in Imports :
              Cardinality(Accepted(h)') = Cardinality(Accepted(h)) + (IF h = i THEN 1 ELSE 0)
         /\ \A h \in Imports : state'[Last(h)] = state[Last(h)]
<1> DEFINE k == <<i, sent[i] + 1>>
<1>1. sent[i] + 1 \in 1..BatchCount[i] /\ sent[i] + 1 < BatchCount[i] /\ sent[i] \in Nat
  BY BatchCountType DEF StreamBatch, TypeOK
<1>2. k \in Jobs /\ k[1] = i /\ k[2] = sent[i] + 1
  BY <1>1, JobOf
<1>3. state[k] = "absent"
  BY <1>1, <1>2 DEF QueueOK
<1>4. state' = [state EXCEPT ![k] = "waiting"]
  BY DEF StreamBatch, Enqueue
<1>5. \A h \in Imports : Last(h) # k
  BY <1>1, BatchCountType DEF Last
<1> HIDE DEF k
<1>6. \A h \in Imports : state'[Last(h)] = state[Last(h)]
  BY <1>4, <1>5, LastIsAJob DEF TypeOK
<1>7. \A h \in Imports :
        Cardinality(Accepted(h)') = Cardinality(Accepted(h)) + (IF h = k[1] THEN 1 ELSE 0)
  BY <1>2, <1>3, <1>4, AcceptsOne
<1> QED BY <1>2, <1>6, <1>7

LEMMA LastAccepted ==
  ASSUME TypeOK, QueueOK, NEW i \in Imports, LastAdded(i)
  PROVE  /\ \A h \in Imports :
              Cardinality(Accepted(h)') = Cardinality(Accepted(h)) + (IF h = i THEN 1 ELSE 0)
         /\ state[Last(i)] = "absent" /\ state'[Last(i)] = "waiting"
         /\ \A h \in Imports : h # i => state'[Last(h)] = state[Last(h)]
<1>1. Last(i) \in Jobs /\ Last(i)[1] = i /\ IsLast(Last(i))
  BY LastIsAJob DEF IsLast, Last
<1>2. state[Last(i)] = "absent" /\ state' = [state EXCEPT ![Last(i)] = "waiting"]
  BY <1>1 DEF LastAdded, Enqueue, QueueOK
<1>3. \A h \in Imports : h # i => Last(h) # Last(i)
  BY LastIsAJob
<1>4. \A h \in Imports :
        Cardinality(Accepted(h)') = Cardinality(Accepted(h)) + (IF h = i THEN 1 ELSE 0)
  BY <1>1, <1>2, AcceptsOne
<1> QED BY <1>1, <1>2, <1>3, <1>4, LastIsAJob DEF TypeOK

LEMMA RequestedStep ==
  TypeOK /\ QueueOK /\ Requested /\ [Next]_vars => Requested'
<1> SUFFICES ASSUME TypeOK, QueueOK, Requested, [Next]_vars, NEW h \in Imports
             PROVE  /\ upload'[h] \in {"streaming", "rejected", "enqueued"}
                         => sent'[h] = Cardinality(Accepted(h)')
                    /\ upload'[h] = "responded" => sent'[h] = Cardinality(Accepted(h)') + 1
  BY DEF Requested
<1> DEFINE n == Cardinality(Accepted(h))
           m == Cardinality(Accepted(h)')
           Goal == /\ upload'[h] \in {"streaming", "rejected", "enqueued"} => sent'[h] = m
                   /\ upload'[h] = "responded" => sent'[h] = m + 1
<1>0. /\ upload[h] \in {"streaming", "rejected", "enqueued"} => sent[h] = n
      /\ upload[h] = "responded" => sent[h] = n + 1
      /\ n \in Nat /\ sent[h] \in Nat
  BY AcceptedIsFinite DEF Requested, TypeOK
<1>1. ASSUME NEW i \in Imports, StreamBatch(i) PROVE Goal
  <2>1. m = n + (IF h = i THEN 1 ELSE 0)
    BY <1>1, BatchAccepted
  <2>2. upload' = upload /\ sent' = [sent EXCEPT ![i] = @ + 1] /\ upload[i] = "streaming"
    BY <1>1 DEF StreamBatch
  <2> HIDE DEF n, m
  <2> QED BY <1>0, <2>1, <2>2 DEF TypeOK
<1>2. ASSUME NEW i \in Imports, LastAdded(i) PROVE Goal
  <2>1. m = n + (IF h = i THEN 1 ELSE 0)
    BY <1>2, LastAccepted
  <2>2. upload' = [upload EXCEPT ![i] = "enqueued"] /\ sent' = sent /\ upload[i] = "responded"
    BY <1>2 DEF LastAdded
  <2> HIDE DEF n, m
  <2> QED BY <1>0, <2>1, <2>2 DEF TypeOK
<1>3. ASSUME NEW i \in Imports, Respond(i) \/ Reject(i) PROVE Goal
  <2>1. m = n
    BY <1>3 DEF Respond, Reject, jobVars, Accepted
  <2>2. /\ upload[i] = "streaming"
        /\ \/ /\ upload' = [upload EXCEPT ![i] = "responded"]
              /\ sent' = [sent EXCEPT ![i] = @ + 1]
           \/ upload' = [upload EXCEPT ![i] = "rejected"] /\ sent' = sent
    BY <1>3 DEF Respond, Reject
  <2> HIDE DEF n, m
  <2> QED BY <1>0, <2>1, <2>2 DEF TypeOK
<1>4. ASSUME Crash PROVE Goal
  <2>1. m = n
    BY <1>4 DEF Crash, Accepted, Busy, TypeOK
  <2>2. /\ upload'[h] = IF upload[h] \in {"streaming", "responded"} THEN "aborted" ELSE upload[h]
        /\ sent' = sent
    BY <1>4 DEF Crash
  <2> HIDE DEF n, m
  <2> QED BY <1>0, <2>1, <2>2
<1>5. ASSUME Untouching PROVE Goal
  <2>1. m = n
    BY <1>5, WorkersAcceptNothing
  <2> QED BY <1>0, <1>5, <2>1 DEF Untouching, requestVars
<1> QED BY <1>1, <1>2, <1>3, <1>4, <1>5, StepKinds

---------------------------------------------------------------------------
(* Every step of the import is a step of the contract, or none of it *)

LEMMA ChangesAt ==
  ASSUME NEW S, NEW f, NEW g, NEW i \in S, NEW v,
         f = [x \in S |-> f[x]], g = [x \in S |-> g[x]],
         \A x \in S : g[x] = IF x = i THEN v ELSE f[x]
  PROVE  g = [f EXCEPT ![i] = v]
OBVIOUS

LEMMA MappedFunctions ==
  /\ StepOf = [i \in Imports |-> StepOf[i]] /\ HandedOf = [i \in Imports |-> HandedOf[i]]
  /\ AcceptedOf = [i \in Imports |-> AcceptedOf[i]] /\ WholeOf = [i \in Imports |-> WholeOf[i]]
<1>1. StepOf = [i \in Imports |-> StepOf[i]]
  BY Zenon DEF StepOf
<1>2. AcceptedOf = [i \in Imports |-> AcceptedOf[i]]
  BY Zenon DEF AcceptedOf
<1>3. HandedOf = [i \in Imports |-> HandedOf[i]]
  BY Zenon DEF HandedOf
<1>4. WholeOf = [i \in Imports |-> WholeOf[i]]
  BY Zenon DEF WholeOf
<1> QED BY <1>1, <1>2, <1>3, <1>4

LEMMA MappedStep ==
  ASSUME TypeOK, QueueOK, Requested, [Next]_vars
  PROVE  [Request!Next]_(Request!vars)
<1> USE DEF TypeOK, requestVars
<1>0. \A h \in Imports :
        /\ AcceptedOf[h] \in Nat /\ AcceptedOf[h] = Cardinality(Accepted(h))
        /\ upload[h] \in {"streaming", "rejected", "enqueued"} => sent[h] = AcceptedOf[h]
        /\ upload[h] = "responded" => sent[h] = AcceptedOf[h] + 1
  BY AcceptedIsFinite DEF Requested, AcceptedOf
<1>f. /\ StepOf' = [i \in Imports |-> StepOf'[i]] /\ HandedOf' = [i \in Imports |-> HandedOf'[i]]
      /\ AcceptedOf' = [i \in Imports |-> AcceptedOf'[i]] /\ WholeOf' = [i \in Imports |-> WholeOf'[i]]
  <2>1. StepOf' = [i \in Imports |-> StepOf'[i]]
    BY Zenon DEF StepOf
  <2>2. AcceptedOf' = [i \in Imports |-> AcceptedOf'[i]]
    BY Zenon DEF AcceptedOf
  <2>3. HandedOf' = [i \in Imports |-> HandedOf'[i]]
    BY Zenon DEF HandedOf
  <2>4. WholeOf' = [i \in Imports |-> WholeOf'[i]]
    BY Zenon DEF WholeOf
  <2> QED BY <2>1, <2>2, <2>3, <2>4
<1>s. /\ \A i \in Imports : StepOf[i] = Steps[upload[i]]
      /\ \A i \in Imports : StepOf'[i] = Steps[upload'[i]]
  BY DEF StepOf, Steps
<1>h. /\ \A i \in Imports : HandedOf[i] = IF upload[i] = "aborted" THEN AcceptedOf[i] ELSE sent[i]
      /\ \A i \in Imports : HandedOf'[i] = IF upload'[i] = "aborted" THEN AcceptedOf'[i] ELSE sent'[i]
  BY DEF HandedOf
<1>1. ASSUME NEW i \in Imports, StreamBatch(i) PROVE Request!Batch(i)
  <2>1. \A h \in Imports : AcceptedOf'[h] = AcceptedOf[h] + (IF h = i THEN 1 ELSE 0)
    BY <1>0, <1>1, BatchAccepted DEF AcceptedOf
  <2>2. AcceptedOf' = [AcceptedOf EXCEPT ![i] = @ + 1]
    BY <1>0, <1>f, <2>1, MappedFunctions
  <2>3. WholeOf' = WholeOf
    BY <1>1, BatchAccepted DEF WholeOf
  <2>4. StepOf' = StepOf /\ StepOf[i] = "reading" /\ HandedOf[i] = AcceptedOf[i]
    BY <1>0, <1>1 DEF StreamBatch, StepOf, Steps, HandedOf
  <2>5. upload' = upload /\ upload[i] = "streaming" /\ sent' = [sent EXCEPT ![i] = @ + 1]
    BY <1>1 DEF StreamBatch
  <2>6. \A h \in Imports : HandedOf'[h] = IF h = i THEN HandedOf[i] + 1 ELSE HandedOf[h]
    <3>1. \A h \in Imports : h # i => AcceptedOf'[h] = AcceptedOf[h]
      BY <1>0, <2>1
    <3>2. \A h \in Imports : sent'[h] = IF h = i THEN sent[i] + 1 ELSE sent[h]
      BY <2>5
    <3> QED BY <1>h, <2>5, <3>1, <3>2
  <2>7. HandedOf' = [HandedOf EXCEPT ![i] = @ + 1]
    BY <1>f, <2>6, ChangesAt, MappedFunctions
  <2> QED BY <2>2, <2>3, <2>4, <2>7 DEF Request!Batch, Request!Hand, Request!Arrive
<1>2. ASSUME NEW i \in Imports, Respond(i) PROVE Request!Answer(i)
  <2>1. state' = state /\ AcceptedOf' = AcceptedOf /\ WholeOf' = WholeOf
    BY <1>2 DEF Respond, jobVars, AcceptedOf, Accepted, WholeOf
  <2>2. StepOf[i] = "reading" /\ \A h \in Imports : StepOf'[h] = IF h = i THEN "answered" ELSE StepOf[h]
    BY <1>2, <1>s DEF Respond, Steps
  <2>4. StepOf' = [StepOf EXCEPT ![i] = "answered"]
    BY <1>f, <2>2, ChangesAt, MappedFunctions
  <2>5. /\ upload[i] = "streaming" /\ upload' = [upload EXCEPT ![i] = "responded"]
        /\ sent' = [sent EXCEPT ![i] = @ + 1]
    BY <1>2 DEF Respond
  <2>6. \A h \in Imports : HandedOf'[h] = IF h = i THEN HandedOf[i] + 1 ELSE HandedOf[h]
    BY <1>h, <2>1, <2>5
  <2>3. HandedOf' = [HandedOf EXCEPT ![i] = @ + 1]
    BY <1>f, <2>6, ChangesAt, MappedFunctions
  <2> QED BY <2>1, <2>2, <2>3, <2>4 DEF Request!Answer, Request!Hand
<1>3. ASSUME NEW i \in Imports, LastAdded(i) PROVE Request!Accept(i)
  <2>1. \A h \in Imports : AcceptedOf'[h] = AcceptedOf[h] + (IF h = i THEN 1 ELSE 0)
    BY <1>0, <1>3, LastAccepted DEF AcceptedOf
  <2>2. AcceptedOf' = [AcceptedOf EXCEPT ![i] = @ + 1]
    BY <1>0, <1>f, <2>1, MappedFunctions
  <2>3. upload[i] = "responded" /\ upload' = [upload EXCEPT ![i] = "enqueued"] /\ sent' = sent
    BY <1>3 DEF LastAdded
  <2>4. StepOf' = StepOf /\ StepOf[i] = "answered"
    BY <2>3 DEF StepOf, Steps, UploadStates
  <2>5. HandedOf[i] = AcceptedOf[i] + 1 /\ HandedOf' = HandedOf
    <3>1. HandedOf[i] = AcceptedOf[i] + 1
      BY <1>0, <2>3 DEF HandedOf
    <3>2. \A h \in Imports :
            (IF upload'[h] = "aborted" THEN AcceptedOf'[h] ELSE sent'[h])
              = (IF upload[h] = "aborted" THEN AcceptedOf[h] ELSE sent[h])
      BY <1>0, <2>1, <2>3
    <3> QED BY <3>1, <3>2 DEF HandedOf
  <2>6. \A h \in Imports : WholeOf'[h] =
          IF h = i THEN StepOf[i] = "answered" /\ AcceptedOf[i] + 1 = HandedOf[i] ELSE WholeOf[h]
    BY <1>3, <2>4, <2>5, LastAccepted DEF WholeOf
  <2>7. WholeOf' =
          [WholeOf EXCEPT ![i] = StepOf[i] = "answered" /\ AcceptedOf[i] + 1 = HandedOf[i]]
    BY <1>f, <2>6, ChangesAt, MappedFunctions
  <2>8. AcceptedOf[i] < HandedOf[i] /\ StepOf[i] # "lost"
    BY <1>0, <2>4, <2>5
  <2> QED BY <2>2, <2>4, <2>5, <2>7, <2>8, Zenon DEF Request!Accept, Request!Arrive
<1>4. ASSUME NEW i \in Imports, Reject(i) PROVE Request!Refuse(i)
  <2>1. AcceptedOf' = AcceptedOf /\ WholeOf' = WholeOf
    BY <1>4 DEF Reject, jobVars, AcceptedOf, Accepted, WholeOf
  <2>2. StepOf[i] = "reading" /\ \A h \in Imports : StepOf'[h] = IF h = i THEN "refused" ELSE StepOf[h]
    BY <1>4, <1>s DEF Reject, Steps
  <2>4. StepOf' = [StepOf EXCEPT ![i] = "refused"]
    BY <1>f, <2>2, ChangesAt, MappedFunctions
  <2>3. HandedOf' = HandedOf
    BY <1>4, <2>1 DEF Reject, HandedOf
  <2> QED BY <2>1, <2>2, <2>3, <2>4 DEF Request!Refuse
<1>5. ASSUME Crash PROVE Request!Lose({i \in Imports : upload[i] \in {"streaming", "responded"}})
  <2>1. AcceptedOf' = AcceptedOf
    BY <1>5 DEF Crash, Busy, AcceptedOf, Accepted
  <2>2. WholeOf' = WholeOf
    BY <1>5, LastIsAJob DEF Crash, Busy, WholeOf
  <2>3. \A i \in Imports :
          upload'[i] = IF upload[i] \in {"streaming", "responded"} THEN "aborted" ELSE upload[i]
    BY <1>5 DEF Crash
  <2>4. StepOf' = [i \in Imports |->
          IF upload[i] \in {"streaming", "responded"} THEN "lost" ELSE StepOf[i]]
    BY <2>3 DEF StepOf, Steps, UploadStates
  <2>5. HandedOf' = [i \in Imports |->
          IF upload[i] \in {"streaming", "responded"} THEN AcceptedOf[i] ELSE HandedOf[i]]
    BY <1>5, <2>1, <2>3 DEF HandedOf, Crash
  <2>6. \A i \in Imports : upload[i] \in {"streaming", "responded"} =>
          StepOf[i] = "reading" \/ AcceptedOf[i] < HandedOf[i]
    BY <1>0 DEF StepOf, Steps, HandedOf
  <2> QED BY <2>1, <2>2, <2>4, <2>5, <2>6 DEF Request!Lose
<1>6. ASSUME Untouching PROVE UNCHANGED Request!vars
  <2>1. AcceptedOf' = AcceptedOf
    BY <1>6, WorkersAcceptNothing DEF AcceptedOf
  <2>2. WholeOf' = WholeOf
    BY <1>6, LastIsAJob DEF Untouching, WholeOf
  <2>3. StepOf' = StepOf /\ HandedOf' = HandedOf
    BY <1>6, <2>1 DEF Untouching, StepOf, HandedOf
  <2> QED BY <2>1, <2>2, <2>3 DEF Request!vars
<1>7. Crash => \E U \in SUBSET Imports : Request!Lose(U)
  BY <1>5
<1> QED BY <1>1, <1>2, <1>3, <1>4, <1>6, <1>7, StepKinds DEF Request!Next

LEMMA MappedInit == Init => Requested /\ Request!Init
<1> SUFFICES ASSUME Init PROVE Requested /\ Request!Init
  OBVIOUS
<1>1. \A i \in Imports : Accepted(i) = {}
  BY DEF Init, Accepted
<1>2. \A i \in Imports : Cardinality(Accepted(i)) = 0
  BY <1>1, FS_EmptySet
<1>3. AcceptedOf = [i \in Imports |-> 0]
  BY <1>2 DEF AcceptedOf
<1>4. HandedOf = [i \in Imports |-> 0] /\ StepOf = [i \in Imports |-> "reading"]
  BY <1>3 DEF Init, HandedOf, StepOf, Steps
<1>5. WholeOf = [i \in Imports |-> FALSE]
  BY LastIsAJob DEF Init, WholeOf
<1> QED BY <1>2, <1>3, <1>4, <1>5 DEF Init, Requested, Request!Init

(* The import keeps the contract of FileService.create: batches reach the   *)
(* queue one at a time and in order, none after a refusal, and the last one *)
(* after the answer and all others, whatever workers, crashes and other     *)
(* uploads do.                                                              *)
THEOREM ImportKeepsTheContract == Spec => KeepsTheContract
<1>1. Init => Requested /\ Request!Init
  BY MappedInit
<1>2. IInv /\ Requested /\ [Next]_vars => Requested' /\ [Request!Next]_(Request!vars)
  BY RequestedStep, MappedStep DEF IInv
<1> QED BY <1>1, <1>2, Inductive, PTL DEF Spec, KeepsTheContract, Request!Spec
===========================================================================
