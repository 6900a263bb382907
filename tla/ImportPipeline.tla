-------------------------- MODULE ImportPipeline --------------------------
(***************************************************************************)
(* The CSV task import.  FileService.create hands the rows of an upload to *)
(* the BullMQ queue FILE_CSV_TASK_INSERT in batches; FileTaskInsert-       *)
(* Processor writes each batch with one createMany; when the job flagged   *)
(* `last` completes or fails an attempt, the worker's event handler counts *)
(* the rows of (user, date) and queues a report on FILE_CSV_TASK_REPORT;   *)
(* FileTaskReportProcessor processes the report and, for 'report-failed',  *)
(* deletes every row of (user, date).                                      *)
(*                                                                         *)
(* API, insert worker and report worker are providers of one NestJS module *)
(* and live in one process: a crash takes all three.  Redis (the queues)   *)
(* and PostgreSQL (the rows) survive it.                                   *)
(***************************************************************************)
EXTENDS Naturals, Sequences, FiniteSets, Functions

CONSTANTS
  Imports,      \* uploads, one call of FileService.create each
  BatchCount,   \* [Imports -> Nat \ {0}], insert jobs an upload is cut into
  Keyed,        \* uploads whose file has a column `id`
  User,         \* info.sub of the upload
  Date,         \* `date = new Date()` of the upload
  Attempts,     \* attempts of an insert job
  Slots,        \* concurrency of the insert worker
  MaxStalls,    \* BullMQ's maxStalledCount
  MaxLost,      \* bound: answers of createMany lost after its commit
  MaxCrashes    \* bound: crashes of the process in a behaviour

ASSUME BatchAssumption == BatchCount \in [Imports -> Nat \ {0}]
ASSUME KeyedAssumption == Keyed \subseteq Imports
ASSUME LimitAssumption ==
  /\ Attempts \in Nat \ {0}
  /\ Slots \in Nat \ {0}
  /\ MaxStalls \in Nat
  /\ MaxLost \in Nat
  /\ MaxCrashes \in Nat

VARIABLES
  upload,          \* where each request stands
  sent,            \* batches each request has handed to queue.add
  wait,            \* the insert queue's wait list, consumed from its head
  state,           \* where each insert job stands
  attemptsMade,    \* times the job was taken from the queue
  stalls,          \* times the job was found stalled
  unanswered,      \* history: times createMany committed and yet rejected
  rows,            \* copies of the batch, or of part of it, in the table tasks
  events,          \* worker events whose handler has not counted yet
  counted,         \* handlers that have counted and not yet queued the report
  reportQueue,     \* the report queue's wait list
  reporting,       \* the report being processed, if any
  stalledReports,  \* reports a crash left without their worker
  notices,         \* reports processed to the end
  lostReports,     \* reports that failed for good, or died with the process
  crashes

requestVars == <<upload, sent>>
jobVars     == <<wait, state, attemptsMade, stalls, unanswered>>
eventVars   == <<events, counted>>
reportVars  == <<reportQueue, reporting, stalledReports, notices, lostReports>>
vars == <<requestVars, jobVars, rows, eventVars, reportVars, crashes>>

Jobs == UNION {{i} \X (1..BatchCount[i]) : i \in Imports}
Last(i) == <<i, BatchCount[i]>>
\* Variant: the handlers' `if (job.data.last)` is missing.
IsLast_Dropped(j) == TRUE
IsLast(j) == j[2] = BatchCount[j[1]]

\* `where: { userId, createdAt }`: how a report finds the rows of its import.
SameKey(i, k) == User[i] = User[k] /\ Date[i] = Date[k]

ReportNames == {"report-success", "report-failed"}
Events  == [imp : Imports, attempt : Nat, name : ReportNames]
Totals  == [Jobs -> Nat]
Reports == [event : Events, total : Totals, stalls : Nat, deleted : BOOLEAN]

UploadStates == {"streaming", "responded", "enqueued", "rejected", "aborted"}
JobStates == {"absent", "waiting", "active", "committed", "stalled",
              "delayed", "completed", "failed"}
Busy == {j \in Jobs : state[j] \in {"active", "committed"}}

TypeOK ==
  /\ upload \in [Imports -> UploadStates]
  /\ sent \in [Imports -> Nat] /\ \A i \in Imports : sent[i] <= BatchCount[i]
  /\ wait \in Seq(Jobs)
  /\ state \in [Jobs -> JobStates]
  /\ attemptsMade \in [Jobs -> Nat]
  /\ stalls \in [Jobs -> Nat] /\ unanswered \in [Jobs -> Nat]
  /\ rows \in [Jobs -> Nat]
  /\ events \subseteq Events
  /\ counted \subseteq Reports
  /\ reportQueue \in Seq(Reports)
  /\ reporting \subseteq Reports
  /\ stalledReports \subseteq Reports
  /\ notices \subseteq Events
  /\ lostReports \subseteq Events
  /\ crashes \in 0..MaxCrashes

Init ==
  /\ upload = [i \in Imports |-> "streaming"]
  /\ sent = [i \in Imports |-> 0]
  /\ wait = <<>>
  /\ state = [j \in Jobs |-> "absent"]
  /\ attemptsMade = [j \in Jobs |-> 0]
  /\ stalls = [j \in Jobs |-> 0] /\ unanswered = [j \in Jobs |-> 0]
  /\ rows = [j \in Jobs |-> 0]
  /\ events = {} /\ counted = {}
  /\ reportQueue = <<>> /\ reporting = {} /\ stalledReports = {}
  /\ notices = {} /\ lostReports = {}
  /\ crashes = 0

---------------------------------------------------------------------------
(* FileService.create *)

\* Variant: the queue is used as a stack.
Enqueue_Lifo(j) ==
  /\ wait' = <<j>> \o wait
  /\ state' = [state EXCEPT ![j] = "waiting"]
  /\ UNCHANGED <<attemptsMade, stalls, unanswered>>

Enqueue(j) ==
  /\ wait' = Append(wait, j)
  /\ state' = [state EXCEPT ![j] = "waiting"]
  /\ UNCHANGED <<attemptsMade, stalls, unanswered>>

\* Variant: nothing ends the loop over the batches.
StreamBatch_NoEnd(i) ==
  /\ upload[i] = "streaming"
  /\ sent' = [sent EXCEPT ![i] = @ + 1]
  /\ Enqueue(<<i, sent[i] + 1>>)
  /\ UNCHANGED <<upload, rows, eventVars, reportVars, crashes>>

\* The stream handler's `await queue.add` of a full batch, the stream paused.
StreamBatch(i) ==
  /\ upload[i] = "streaming" /\ sent[i] + 1 < BatchCount[i]
  /\ sent' = [sent EXCEPT ![i] = @ + 1]
  /\ Enqueue(<<i, sent[i] + 1>>)
  /\ UNCHANGED <<upload, rows, eventVars, reportVars, crashes>>

\* The stream ended: `queue.add(... last: true)` is called and not awaited,
\* the client gets its id.
Respond(i) ==
  /\ upload[i] = "streaming" /\ sent[i] + 1 = BatchCount[i]
  /\ upload' = [upload EXCEPT ![i] = "responded"]
  /\ sent' = [sent EXCEPT ![i] = @ + 1]
  /\ UNCHANGED <<jobVars, rows, eventVars, reportVars, crashes>>

\* The last job reaches Redis, some time after the response.
LastAdded(i) ==
  /\ upload[i] = "responded"
  /\ upload' = [upload EXCEPT ![i] = "enqueued"]
  /\ Enqueue(Last(i))
  /\ UNCHANGED <<sent, rows, eventVars, reportVars, crashes>>

\* Variant: the last job is sent whether parseCSV resolves or rejects.
Reject_SendsLast(i) ==
  /\ upload[i] = "streaming"
  /\ upload' = [upload EXCEPT ![i] = "rejected"]
  /\ Enqueue(Last(i))
  /\ UNCHANGED <<sent, rows, eventVars, reportVars, crashes>>

\* The file turns out broken: parseCSV and the request reject, the batches
\* that were sent stay.
Reject(i) ==
  /\ upload[i] = "streaming"
  /\ upload' = [upload EXCEPT ![i] = "rejected"]
  /\ UNCHANGED <<sent, jobVars, rows, eventVars, reportVars, crashes>>

---------------------------------------------------------------------------
(* FileTaskInsertProcessor and the queue it consumes *)

\* A free slot takes the job at the head of the list; the taking is counted.
Start ==
  /\ wait # <<>> /\ Cardinality(Busy) < Slots
  /\ wait' = Tail(wait)
  /\ state' = [state EXCEPT ![Head(wait)] = "active"]
  /\ attemptsMade' = [attemptsMade EXCEPT ![Head(wait)] = @ + 1]
  /\ UNCHANGED <<requestVars, stalls, unanswered, rows, eventVars, reportVars, crashes>>

\* createMany draws fresh ids: a second run adds a second copy.  But a column
\* `id` of the file reaches it through `...item`, and skipDuplicates skips what
\* the table already has: an earlier run's rows, or anybody's with those ids.
Copies(j) ==
  IF j[1] \notin Keyed THEN {1} ELSE IF rows[j] > 0 THEN {0} ELSE {0, 1}

\* process: one createMany, one statement.
Insert(j) ==
  /\ state[j] = "active"
  /\ state' = [state EXCEPT ![j] = "committed"]
  /\ \E n \in Copies(j) : rows' = [rows EXCEPT ![j] = @ + n]
  /\ UNCHANGED <<requestVars, wait, attemptsMade, stalls, unanswered, eventVars, reportVars, crashes>>

\* Variant: there is no handler for 'failed'.
Emit_SuccessOnly(j, name) ==
  IF IsLast(j) /\ name = "report-success"
  THEN {[imp |-> j[1], attempt |-> attemptsMade[j], name |-> name]} ELSE {}

\* What the handlers of 'completed' and 'failed' start with: only `last` counts.
Emit(j, name) ==
  IF IsLast(j)
  THEN {[imp |-> j[1], attempt |-> attemptsMade[j], name |-> name]} ELSE {}

\* Variant: process does not await createMany.
Complete_NoAwait(j) ==
  /\ state[j] \in {"active", "committed"}
  /\ state' = [state EXCEPT ![j] = "completed"]
  /\ events' = events \cup Emit(j, "report-success")
  /\ UNCHANGED <<requestVars, wait, attemptsMade, stalls, unanswered, rows, counted, reportVars, crashes>>

Complete(j) ==
  /\ state[j] = "committed"
  /\ state' = [state EXCEPT ![j] = "completed"]
  /\ events' = events \cup Emit(j, "report-success")
  /\ UNCHANGED <<requestVars, wait, attemptsMade, stalls, unanswered, rows, counted, reportVars, crashes>>

\* Variant: process writes row by row, a failed attempt leaves some.
InsertFails_PartWritten(j) ==
  /\ state[j] = "active"
  /\ rows' = [rows EXCEPT ![j] = @ + 1]
  /\ state' = [state EXCEPT ![j] =
                 IF attemptsMade[j] < Attempts THEN "delayed" ELSE "failed"]
  /\ events' = events \cup Emit(j, "report-failed")
  /\ UNCHANGED <<requestVars, wait, attemptsMade, stalls, unanswered, counted, reportVars, crashes>>

\* Variant: one retry too many.
InsertFails_OneMore(j) ==
  /\ state[j] = "active"
  /\ state' = [state EXCEPT ![j] =
                 IF attemptsMade[j] <= Attempts THEN "delayed" ELSE "failed"]
  /\ events' = events \cup Emit(j, "report-failed")
  /\ UNCHANGED <<requestVars, wait, attemptsMade, stalls, unanswered, rows, counted, reportVars, crashes>>

AnswersLost == FoldFunction(+, 0, unanswered)

\* createMany rejects, having done nothing or, the connection lost after the
\* commit, everything: a retry after the backoff while attempts remain, and
\* the 'failed' event in either case.
InsertFails(j) ==
  /\ \/ state[j] = "active"
     \/ state[j] = "committed" /\ AnswersLost < MaxLost
  /\ unanswered' = [unanswered EXCEPT ![j] = @ + (IF state[j] = "committed" THEN 1 ELSE 0)]
  /\ state' = [state EXCEPT ![j] =
                 IF attemptsMade[j] < Attempts THEN "delayed" ELSE "failed"]
  /\ events' = events \cup Emit(j, "report-failed")
  /\ UNCHANGED <<requestVars, wait, attemptsMade, stalls, rows, counted, reportVars, crashes>>

\* Variant: the retried job never reaches the list the workers read.
Promote_Nowhere(j) ==
  /\ state[j] = "delayed"
  /\ state' = [state EXCEPT ![j] = "waiting"]
  /\ UNCHANGED <<requestVars, wait, attemptsMade, stalls, unanswered, rows, eventVars, reportVars, crashes>>

\* The backoff of 1 s is over: the job goes to the end of the list.
Promote(j) ==
  /\ state[j] = "delayed"
  /\ Enqueue(j)
  /\ UNCHANGED <<requestVars, rows, eventVars, reportVars, crashes>>

\* The stalled check finds a job whose worker died: back to the head of the
\* list, or failed when it has stalled too often.
Reclaim(j) ==
  /\ state[j] = "stalled"
  /\ stalls' = [stalls EXCEPT ![j] = @ + 1]
  /\ \/ /\ stalls[j] < MaxStalls
        /\ wait' = <<j>> \o wait
        /\ state' = [state EXCEPT ![j] = "waiting"]
        /\ events' = events
     \/ /\ stalls[j] >= MaxStalls
        /\ wait' = wait
        /\ state' = [state EXCEPT ![j] = "failed"]
        /\ events' = events \cup Emit(j, "report-failed")
  /\ UNCHANGED <<requestVars, attemptsMade, unanswered, rows, counted, reportVars, crashes>>

---------------------------------------------------------------------------
(* onWOrkerCompleted and onWorkerFailed: count, then queue the report *)

\* The rows `task.count` sees: those of every import with the same key.
CountRows(i) == [j \in Jobs |-> IF SameKey(i, j[1]) THEN rows[j] ELSE 0]

NewReport(e) ==
  [event |-> e, total |-> CountRows(e.imp), stalls |-> 0, deleted |-> FALSE]

Count(e) ==
  /\ e \in events
  /\ events' = events \ {e}
  /\ counted' = counted \cup {NewReport(e)}
  /\ UNCHANGED <<requestVars, jobVars, rows, reportVars, crashes>>

AddReport(r) ==
  /\ r \in counted
  /\ counted' = counted \ {r}
  /\ reportQueue' = Append(reportQueue, r)
  /\ UNCHANGED <<requestVars, jobVars, rows, events, reporting, stalledReports,
                 notices, lostReports, crashes>>

---------------------------------------------------------------------------
(* FileTaskReportProcessor: concurrency 1, one attempt *)

StartReport ==
  /\ reportQueue # <<>> /\ reporting = {}
  /\ reporting' = {Head(reportQueue)}
  /\ reportQueue' = Tail(reportQueue)
  /\ UNCHANGED <<requestVars, jobVars, rows, eventVars, stalledReports, notices,
                 lostReports, crashes>>

\* Variant: deleteMany without createdAt.
Rollback_ByUser(r) ==
  /\ r \in reporting /\ r.event.name = "report-failed" /\ ~r.deleted
  /\ rows' = [j \in Jobs |-> IF User[r.event.imp] = User[j[1]] THEN 0 ELSE rows[j]]
  /\ reporting' = {[r EXCEPT !.deleted = TRUE]}
  /\ UNCHANGED <<requestVars, jobVars, eventVars, reportQueue, stalledReports,
                 notices, lostReports, crashes>>

\* case 'report-failed': deleteMany commits.
Rollback(r) ==
  /\ r \in reporting /\ r.event.name = "report-failed" /\ ~r.deleted
  /\ rows' = [j \in Jobs |-> IF SameKey(r.event.imp, j[1]) THEN 0 ELSE rows[j]]
  /\ reporting' = {[r EXCEPT !.deleted = TRUE]}
  /\ UNCHANGED <<requestVars, jobVars, eventVars, reportQueue, stalledReports,
                 notices, lostReports, crashes>>

\* Variant: 'report-failed' returns without its deleteMany.
FinishReport_NoDelete(r) ==
  /\ r \in reporting
  /\ reporting' = {}
  /\ notices' = notices \cup {r.event}
  /\ UNCHANGED <<requestVars, jobVars, rows, eventVars, reportQueue, stalledReports,
                 lostReports, crashes>>

\* process returns: at once for 'report-success'.
FinishReport(r) ==
  /\ r \in reporting /\ (r.event.name = "report-failed" => r.deleted)
  /\ reporting' = {}
  /\ notices' = notices \cup {r.event}
  /\ UNCHANGED <<requestVars, jobVars, rows, eventVars, reportQueue, stalledReports,
                 lostReports, crashes>>

\* deleteMany rejects, having deleted or not; attempts is 1, so the report is
\* not retried.
RollbackFails(r) ==
  /\ r \in reporting /\ r.event.name = "report-failed"
  /\ reporting' = {}
  /\ lostReports' = lostReports \cup {r.event}
  /\ UNCHANGED <<requestVars, jobVars, rows, eventVars, reportQueue, stalledReports,
                 notices, crashes>>

\* A report whose worker died is processed again, from the start.
Requeued(r) ==
  [event |-> r.event, total |-> r.total, stalls |-> r.stalls + 1, deleted |-> FALSE]

ReclaimReport(r) ==
  /\ r \in stalledReports
  /\ stalledReports' = stalledReports \ {r}
  /\ \/ /\ r.stalls < MaxStalls
        /\ reportQueue' = <<Requeued(r)>> \o reportQueue
        /\ lostReports' = lostReports
     \/ /\ r.stalls >= MaxStalls
        /\ reportQueue' = reportQueue
        /\ lostReports' = lostReports \cup {r.event}
  /\ UNCHANGED <<requestVars, jobVars, rows, eventVars, reporting, notices, crashes>>

---------------------------------------------------------------------------
(* The process dies.  Node 18+ also ends the process on an unhandled       *)
(* rejection, which is what a rejected queue.add in the 'data' handler, in *)
(* the un-awaited last add, or a rejected count or add in a worker event   *)
(* handler is: none of them is caught.  Reports not yet queued are lost.   *)

Crash ==
  /\ crashes < MaxCrashes
  /\ crashes' = crashes + 1
  /\ upload' = [i \in Imports |->
       IF upload[i] \in {"streaming", "responded"} THEN "aborted" ELSE upload[i]]
  /\ state' = [j \in Jobs |-> IF j \in Busy THEN "stalled" ELSE state[j]]
  /\ events' = {} /\ counted' = {}
  /\ lostReports' = lostReports \cup events \cup {r.event : r \in counted}
  /\ stalledReports' = stalledReports \cup reporting
  /\ reporting' = {}
  /\ UNCHANGED <<sent, wait, attemptsMade, stalls, unanswered, rows, reportQueue, notices>>

Next ==
  \/ \E i \in Imports : StreamBatch(i) \/ Respond(i) \/ LastAdded(i) \/ Reject(i)
  \/ Start
  \/ \E j \in Jobs : Insert(j) \/ Complete(j) \/ InsertFails(j) \/ Promote(j) \/ Reclaim(j)
  \/ \E e \in events : Count(e)
  \/ \E r \in counted : AddReport(r)
  \/ StartReport
  \/ \E r \in reporting : Rollback(r) \/ FinishReport(r) \/ RollbackFails(r)
  \/ \E r \in stalledReports : ReclaimReport(r)
  \/ Crash

Spec == Init /\ [][Next]_vars

\* The event loop runs what is runnable and the workers poll their queues: a
\* step that stays possible is taken.  Nothing makes a createMany succeed.
FairSpec ==
  /\ Spec
  /\ \A i \in Imports : WF_vars(StreamBatch(i) \/ Respond(i) \/ Reject(i)) /\ WF_vars(LastAdded(i))
  /\ WF_vars(Start)
  /\ \A j \in Jobs :
       /\ WF_vars(Insert(j) \/ InsertFails(j))
       /\ WF_vars(Complete(j))
       /\ WF_vars(Promote(j))
       /\ WF_vars(Reclaim(j))
  /\ WF_vars(\E e \in events : Count(e))
  /\ WF_vars(\E r \in counted : AddReport(r))
  /\ WF_vars(StartReport)
  /\ WF_vars(\E r \in reporting : Rollback(r) \/ FinishReport(r) \/ RollbackFails(r))
  /\ WF_vars(\E r \in stalledReports : ReclaimReport(r))

---------------------------------------------------------------------------
(* Properties.  `Live` reports are those a worker will still look at;      *)
(* `Emitted` is everything the handlers have started, wherever it is now.  *)

Live == counted \cup Range(reportQueue) \cup reporting \cup stalledReports
Emitted == events \cup {r.event : r \in Live} \cup notices \cup lostReports

\* The last batch of i has been taken and given back at least once.
FailedOnce(i) ==
  \/ attemptsMade[Last(i)] > 1
  \/ attemptsMade[Last(i)] = 1 /\ state[Last(i)] \in {"delayed", "waiting", "failed"}

\* A 'report-success' is about the attempt that completed the last job, a
\* 'report-failed' about an earlier attempt of it or one it did not survive:
\* no other batch, no unfinished attempt is ever reported.
ReportsAreAboutTheLastJob ==
  \A e \in Emitted :
    LET j == Last(e.imp) IN
    IF e.name = "report-success"
    THEN state[j] = "completed" /\ e.attempt = attemptsMade[j]
    ELSE /\ e.attempt \in 1..attemptsMade[j]
         /\ e.attempt = attemptsMade[j] => state[j] \in {"delayed", "waiting", "failed"}

\* Every copy of a batch beyond the first is owed to an answer that was lost:
\* the process stalled, or the connection broke, after the commit.  A retry
\* after a createMany that did nothing adds none.
CopiesNeedALostAnswer ==
  \A j \in Jobs : rows[j] <= stalls[j] + unanswered[j] +
    (IF state[j] \in {"committed", "stalled", "completed"} THEN 1 ELSE 0)

\* The queue never runs a job more often than its attempts and its stalls allow.
ExecutionsAreBounded ==
  \A j \in Jobs : attemptsMade[j] <= Attempts + stalls[j]

\* What a completed job wrote stays in the table unless the last batch of an
\* import with the same (user, date) failed an attempt: a rollback reaches
\* only rows of a failed import's key, and never those of an import whose
\* last batch completed at its first attempt.  Rows that bring their own ids
\* are excepted: they may never have been written.
CommittedRowsSurvive ==
  \A j \in Jobs :
    state[j] = "completed" /\ rows[j] = 0 /\ j[1] \notin Keyed =>
      \E k \in Imports : SameKey(k, j[1]) /\ FailedOnce(k)

\* First attempts start in file order, across retries, stalls and restarts:
\* when the last batch runs, every earlier one has been started.
BatchesStartInOrder ==
  \A i \in Imports : \A b \in 1..(BatchCount[i] - 1) :
    attemptsMade[<<i, b + 1>>] > 0 => attemptsMade[<<i, b>>] > 0

\* The number a success report carries counts the last batch, unless that
\* batch needed a second attempt, a failed import shares the key, or the rows
\* brought ids that were taken.
SuccessCountsTheLastBatch ==
  \A r \in Live : r.event.name = "report-success" =>
    \/ r.total[Last(r.event.imp)] > 0
    \/ r.event.imp \in Keyed
    \/ \E k \in Imports : SameKey(k, r.event.imp) /\ FailedOnce(k)

Quiet == /\ wait = <<>> /\ reportQueue = <<>>
         /\ events = {} /\ counted = {} /\ reporting = {} /\ stalledReports = {}
         /\ \A j \in Jobs : state[j] \in {"absent", "completed", "failed"}

\* Rows of a last batch that failed for good stay in the table only when a
\* rollback was lost, to a rejected deleteMany or a crash, which nothing tries
\* again: no retry, lost answer, stall or other import makes a rollback that
\* runs miss them.
LeftoversNeedALostRollback ==
  Quiet => \A i \in Imports :
    state[Last(i)] = "failed" /\ rows[Last(i)] > 0 =>
      \E e \in lostReports : e.imp = i /\ e.name = "report-failed"

Noticed(i) == \E e \in notices : e.imp = i
Settled(j) == state[j] \in {"completed", "failed"}

\* Every batch the queue accepted completes or exhausts its attempts, though
\* the process may crash and the job stall on the way.
EveryBatchSettles == \A j \in Jobs : (state[j] # "absent") ~> Settled(j)

\* An import whose last job reached the queue ends in a notice, or else a report
\* of it was lost: nothing makes the handlers' work durable and a report has one
\* attempt, so that a rejected deleteMany ends a 'report-failed' before its
\* notification, and a crash ends one that is not queued yet.  Without a crash
\* a success is always told.
UntoldOnlyIfLost ==
  \A i \in Imports :
    (upload[i] = "enqueued") ~>
      \/ Noticed(i)
      \/ \E e \in lostReports : e.imp = i /\ (e.name = "report-failed" \/ crashes > 0)

---------------------------------------------------------------------------
(* The requests as their queue and their clients see them. *)

Accepted(i) == {j \in Jobs : j[1] = i /\ state[j] # "absent"}
Steps == [streaming |-> "reading", responded |-> "answered", enqueued |-> "answered",
          rejected |-> "refused", aborted |-> "lost"]
StepOf == [i \in Imports |-> Steps[upload[i]]]
AcceptedOf == [i \in Imports |-> Cardinality(Accepted(i))]
HandedOf == [i \in Imports |-> IF upload[i] = "aborted" THEN AcceptedOf[i] ELSE sent[i]]
WholeOf == [i \in Imports |-> state[Last(i)] # "absent"]
Request == INSTANCE UploadRequest WITH
  Uploads <- Imports, step <- StepOf, handed <- HandedOf, accepted <- AcceptedOf, whole <- WholeOf

\* Whatever the workers, retries, stalls and crashes do to the jobs, the
\* requests keep the contract CsvStream shows for the stream.
KeepsTheContract == Request!Spec

---------------------------------------------------------------------------
(* What the proofs add to make the invariants inductive. *)

\* The wait list holds each waiting job at most once, a job exists only once
\* its batch was handed over, and only a job once taken has gone further.
QueueOK ==
  /\ IsInjective(wait) /\ \A j \in Range(wait) : state[j] = "waiting"
  /\ \A i \in Imports :
       /\ upload[i] = "streaming" => sent[i] < BatchCount[i]
       /\ upload[i] \in {"responded", "enqueued"} => sent[i] = BatchCount[i]
  /\ \A j \in Jobs :
       /\ j[2] > sent[j[1]] \/ (IsLast(j) /\ upload[j[1]] # "enqueued")
            => state[j] = "absent"
       /\ state[j] = "absent" => attemptsMade[j] = 0
       /\ state[j] \notin {"absent", "waiting"} => attemptsMade[j] > 0

\* A job that can still be taken has attempts left, those a stall gave back
\* included.
AttemptsLeft ==
  \A j \in Jobs : state[j] \in {"absent", "waiting", "delayed"} =>
    attemptsMade[j] < Attempts + stalls[j]

\* CommittedRowsSurvive from the commit on, not only from the completion.
CommittedRowsKept ==
  \A j \in Jobs :
    state[j] \in {"committed", "completed"} /\ rows[j] = 0 /\ j[1] \notin Keyed =>
      \E k \in Imports : SameKey(k, j[1]) /\ FailedOnce(k)

IInv ==
  /\ TypeOK
  /\ QueueOK
  /\ ReportsAreAboutTheLastJob
  /\ CopiesNeedALostAnswer
  /\ ExecutionsAreBounded
  /\ AttemptsLeft
  /\ CommittedRowsKept
  /\ SuccessCountsTheLastBatch

---------------------------------------------------------------------------
(* What README.md promises and the code does not do. *)

\* README.md:74 "rollback if any error": once everything has settled, an
\* import one of whose batches failed has no row left.
RollbackIfAnyError ==
  Quiet => \A i \in Imports :
    (\E j \in Jobs : j[1] = i /\ state[j] = "failed") =>
      \A j \in Jobs : j[1] = i => rows[j] = 0

\* README.md:75 "notification if success or failed": an import is reported as
\* one or the other, never as both.
OneOutcome ==
  \A e, f \in notices : e.imp = f.imp => e.name = f.name
=============================================================================
