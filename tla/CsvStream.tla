---------------------------- MODULE CsvStream ----------------------------
(***************************************************************************)
(* How FileService.create turns an uploaded CSV file into insert jobs.     *)
(* Rows flow from the csv-parse stream into `records`; a row that finds    *)
(* more than Limit of them pauses the stream, sends them as a job, and is  *)
(* kept until Redis has answered; when the stream has ended, what remains  *)
(* is sent as the job flagged `last` and the client is answered.           *)
(*                                                                         *)
(* The stream is Node's: the whole upload is one buffer, parsed at once    *)
(* into the parser's read queue.  Its source ends after the first rows are *)
(* delivered, but the parser is flushed (a last row without newline, a     *)
(* quote left open, the end) only when its queue is below its high-water   *)
(* mark or a read is about to bring it there, which a long file reaches    *)
(* after several batches.  A paused stream delivers no further row; but    *)
(* 'end' is scheduled by the read that empties the queue of an ended       *)
(* stream, before the 'data' event of that row, and a pause does not call  *)
(* it off.  Ticks (delivery, flush, 'end') come before an answer from      *)
(* Redis.                                                                  *)
(***************************************************************************)
EXTENDS RequestGate

CONSTANTS
  Limit,      \* the 10_000 of create
  HighWater,  \* Node's readableHighWaterMark, 16 rows
  MaxRows     \* bound: rows of a file

ASSUME CsvAssumption == Limit \in Nat \ {0} /\ HighWater \in Nat \ {0} /\ MaxRows \in Nat

VARIABLES
  file,      \* its rows, and how it ends (Ends)
  parsed,    \* rows the parser has pushed
  next,      \* the row to be delivered next
  closing,   \* the source has ended
  ended,     \* the parser has pushed its end
  flowing,   \* not paused
  endDue,    \* 'end' is scheduled
  records,   \* the array `records`
  held,      \* the row whose handler awaits queue.add, 0 while the stream flows
  inflight,  \* adds Redis has not answered
  jobs,      \* jobs Redis has accepted
  outcome    \* of the request

parserVars == <<file, closing, ended>>
vars == <<parserVars, parsed, next, flowing, endDue, records, held, inflight, jobs, outcome>>

Outcomes == {"arriving", "reading", "responded", "rejected", "crashed"}
Job == [rows : Seq(Nat), last : BOOLEAN]

\* Well formed with or without a last newline, ended by a row in which a quote
\* is left open, or containing a row with a column too many or too few.
Ends == {"closed", "open", "quote", "columns"}

TypeOK ==
  /\ file \in [rows : 0..MaxRows, end : Ends]
  /\ parsed \in 0..MaxRows /\ next \in 1..(MaxRows + 1)
  /\ closing \in BOOLEAN /\ ended \in BOOLEAN /\ flowing \in BOOLEAN /\ endDue \in BOOLEAN
  /\ records \in Seq(Nat) /\ held \in 0..MaxRows /\ (held = 0 <=> flowing)
  /\ inflight \in Seq(Job) /\ jobs \in Seq(Job)
  /\ outcome \in Outcomes

Init ==
  /\ file \in [rows : 0..MaxRows, end : Ends]
  /\ parsed = IF file.end = "open" /\ file.rows > 0 THEN file.rows - 1 ELSE file.rows
  /\ next = 1
  /\ closing = FALSE /\ ended = FALSE /\ flowing = TRUE /\ endDue = FALSE
  /\ records = <<>> /\ held = 0
  /\ inflight = <<>> /\ jobs = <<>>
  /\ outcome = "arriving"

\* The bodies clients send: a form, with a file, another one, none or two.
Forms ==
  {[multipart |-> FALSE, file |-> Absent]} \cup
  [multipart : {TRUE}, file : {Absent, <<"text">>, <<"image">>, <<"text/csv">>, <<"text/csv", "text/csv">>}]

\* FileCreateDto; of two files data.file is an array, which has no toBuffer.
FileCreateDto(form) == IsSwaggerFile(TRUE, form.file, {"text/csv"})
Buffered(form) == Len(form.file) = 1

\* The upload is refused, or read.
Receive ==
  /\ outcome = "arriving"
  /\ \E form \in Forms :
       outcome' = IF UploadInterceptor(form) /\ FileCreateDto(form) /\ Buffered(form)
                  THEN "reading" ELSE "rejected"
  /\ UNCHANGED <<parserVars, parsed, next, flowing, endDue, records, held, inflight, jobs>>

Queued == parsed + 1 - next

\* The parser is flushed: at once if its queue is short, else by the read that
\* finds it so.
Due ==
  /\ outcome = "reading" /\ closing /\ ~ended
  /\ Queued < HighWater \/ (flowing /\ Queued = HighWater)

\* A wrong number of columns fails the write of the buffer, and no row follows.
Deliverable == outcome = "reading" /\ flowing /\ next <= parsed /\ ~Due /\ file.end # "columns"

\* The last row without newline, flushed into an empty queue that flows, is
\* delivered without passing through it.
Straight == Due /\ flowing /\ next > parsed /\ file.end = "open" /\ parsed < file.rows

\* The flow loop reads one row; reading the last one of an ended stream
\* schedules 'end'.
Read ==
  /\ Deliverable \/ Straight
  /\ next' = next + 1
  /\ parsed' = IF Straight THEN parsed + 1 ELSE parsed
  /\ endDue' = (endDue \/ (next = parsed /\ ended))

\* execute, the batch not full.
Push ==
  /\ Read
  /\ Len(records) <= Limit
  /\ records' = Append(records, next)
  /\ UNCHANGED <<parserVars, flowing, held, inflight, jobs, outcome>>

\* Variant: the stream is not paused while the batch is sent.
Flush_NoPause ==
  /\ Read
  /\ Len(records) > Limit
  /\ held' = next
  /\ inflight' = Append(inflight, [rows |-> records, last |-> FALSE])
  /\ UNCHANGED <<parserVars, flowing, records, jobs, outcome>>

\* execute, the batch full: pause, queue.add, and the row waits.
Flush ==
  /\ Read
  /\ Len(records) > Limit
  /\ flowing' = FALSE
  /\ held' = next
  /\ inflight' = Append(inflight, [rows |-> records, last |-> FALSE])
  /\ UNCHANGED <<parserVars, records, jobs, outcome>>

\* The end of the upload reaches the parser, after the first rows.
SourceEnd ==
  /\ outcome = "reading" /\ ~Deliverable /\ file.end # "columns"
  /\ ~closing
  /\ closing' = TRUE
  /\ UNCHANGED <<file, parsed, ended, next, flowing, endDue, records, held, inflight, jobs, outcome>>

\* The parser queues a last row without newline and pushes its end; a flowing
\* stream with nothing left ends.
ParserEnd ==
  /\ Due /\ ~Straight /\ file.end \in {"closed", "open"}
  /\ parsed' = file.rows
  /\ ended' = TRUE
  /\ endDue' = (flowing /\ next > file.rows)
  /\ UNCHANGED <<file, closing, next, flowing, records, held, inflight, jobs, outcome>>

\* The parser finds the file broken: at once, or when it is flushed.
Broken == outcome = "reading" /\ (file.end = "columns" \/ (Due /\ file.end = "quote"))

\* Variant: an error ends the request and still sends what was read.
ParseError_SendsRest ==
  /\ Broken
  /\ outcome' = "rejected"
  /\ inflight' = Append(inflight, [rows |-> records, last |-> TRUE])
  /\ UNCHANGED <<parserVars, parsed, next, flowing, endDue, records, held, jobs>>

\* 'error': parseCSV rejects, and what is queued is not delivered.  Batches
\* already sent stay where they are.
ParseError ==
  /\ Broken
  /\ outcome' = "rejected"
  /\ UNCHANGED <<parserVars, parsed, next, flowing, endDue, records, held, inflight, jobs>>

\* 'end': parseCSV resolves with the array `records`, create sends it as the
\* last job, without awaiting, and returns an id.
EmitEnd ==
  /\ outcome = "reading" /\ endDue
  /\ endDue' = FALSE
  /\ inflight' = Append(inflight, [rows |-> records, last |-> TRUE])
  /\ outcome' = "responded"
  /\ UNCHANGED <<parserVars, parsed, next, flowing, records, held, jobs>>

\* The ticks of the stream are over, answers from Redis are looked at.
Idle ==
  /\ outcome # "crashed"
  /\ outcome = "reading" => closing /\ ~Deliverable /\ ~Due /\ ~endDue

Accepted ==
  /\ Idle /\ inflight # <<>>
  /\ jobs' = Append(jobs, Head(inflight))
  /\ inflight' = Tail(inflight)

\* Variant: `readable.resume()` is missing.
FlushDone_NoResume ==
  /\ Accepted /\ ~Head(inflight).last
  /\ records' = <<held>> /\ held' = 0
  /\ UNCHANGED <<parserVars, parsed, next, flowing, endDue, outcome>>

\* Variant: `records.length = 0` is missing.
FlushDone_NoReset ==
  /\ Accepted /\ ~Head(inflight).last
  /\ records' = Append(records, held) /\ held' = 0
  /\ flowing' = TRUE
  /\ endDue' = (outcome = "reading" /\ ended /\ next > parsed)
  /\ UNCHANGED <<parserVars, parsed, next, outcome>>

\* execute continues: empty the array, resume, push the row that waited.
FlushDone ==
  /\ Accepted /\ ~Head(inflight).last
  /\ records' = <<held>> /\ held' = 0
  /\ flowing' = TRUE
  /\ endDue' = (outcome = "reading" /\ ended /\ next > parsed)
  /\ UNCHANGED <<parserVars, parsed, next, outcome>>

LastDone ==
  /\ Accepted /\ Head(inflight).last
  /\ UNCHANGED <<parserVars, parsed, next, flowing, endDue, records, held, outcome>>

\* queue.add rejects.  Neither the 'data' handler nor the un-awaited last add
\* is caught: Node ends the process on the unhandled rejection.
AddRejected ==
  /\ Idle /\ inflight # <<>>
  /\ inflight' = <<>>
  /\ outcome' = "crashed"
  /\ UNCHANGED <<parserVars, parsed, next, flowing, endDue, records, held, jobs>>

Next == Receive \/ Push \/ Flush \/ SourceEnd \/ ParserEnd \/ ParseError \/ EmitEnd
          \/ FlushDone \/ LastDone \/ AddRejected

Spec == Init /\ [][Next]_vars

\* The event loop runs its ticks, and Redis answers every command.
FairSpec == Spec /\ WF_vars(Next)

---------------------------------------------------------------------------
(* Properties *)

BatchSize == Limit + 1

\* The k-th full batch, and what is left after n batches.
FullBatch(k) == [rows |-> [m \in 1..BatchSize |-> (k - 1) * BatchSize + m], last |-> FALSE]
Rest(n) == [rows |-> [m \in 1..(file.rows - n * BatchSize) |-> n * BatchSize + m], last |-> TRUE]

\* The last row itself fills a batch, and not the first one: the only files
\* for which 'end' overtakes a flush.
LastRowFlushes == \E n \in 2..MaxRows : file.rows = n * BatchSize + 1

Sent == jobs \o inflight

\* The jobs cut the file into consecutive full batches, each row in one job
\* and in its place; a request that was answered has sent the rest as the
\* last job.  Files whose last row flushes are excepted.
JobsCutTheFile ==
  \/ LastRowFlushes
  \/ \A k \in 1..Len(Sent) :
       IF Sent[k].last
       THEN k = Len(Sent) /\ Sent[k] = Rest(k - 1) /\ outcome \in {"responded", "crashed"}
       ELSE Sent[k] = FullBatch(k)

\* However large the file, the array and a job never hold more than Limit + 1
\* rows, and while it is read one batch and one row behind it wait at most.
\* The buffered upload and the parser's queue are as large as the file.
RecordsAreBounded ==
  /\ Len(records) <= BatchSize
  /\ \A k \in 1..Len(Sent) : Len(Sent[k].rows) <= BatchSize
  /\ outcome = "reading" => Len(inflight) <= 1 /\ next - 1 <= Len(jobs) * BatchSize + Len(records) + 1

\* Every upload is answered, rejected, or lost with the process: the stream
\* is never left paused.
UploadEnds == <>(outcome \notin {"arriving", "reading"})

\* The request as its queue and its client see it.
Steps == [arriving |-> "reading", reading |-> "reading", responded |-> "answered", rejected |-> "refused",
          crashed |-> "lost"]
Request == INSTANCE UploadRequest WITH
  Uploads <- {1},
  step <- [u \in {1} |-> Steps[outcome]],
  handed <- [u \in {1} |-> Len(Sent)],
  accepted <- [u \in {1} |-> Len(jobs)],
  whole <- [u \in {1} |-> \E k \in 1..Len(jobs) : jobs[k].last]

\* The stream hands its batches over one at a time and in order, a file found
\* broken, after however many of them, leaves those that were sent and adds
\* none, and the last job follows the answer and all the others.
KeepsTheContract == Request!Spec

---------------------------------------------------------------------------
(* What the code and its documents say and does not hold. *)

\* README.md:73 "process bulk-write insert": each row of an uploaded file is
\* sent for insertion, and once.
EveryRowIsSentOnce ==
  outcome = "responded" /\ inflight = <<>> =>
    \A n \in 1..file.rows :
      \E k \in 1..Len(jobs) : \E m \in 1..Len(jobs[k].rows) :
        /\ jobs[k].rows[m] = n
        /\ \A kk \in 1..Len(jobs) : \A mm \in 1..Len(jobs[kk].rows) :
             jobs[kk].rows[mm] = n => kk = k /\ mm = m
===========================================================================
